------------------------------ MODULE RpcChannel ------------------------------
(* One RPC connection between the guest agent and a host VFS server           *)
(* (packages/tokimo-packages-vm-rpc).  Callers share a Client whose           *)
(* FIFO mutex is held from the first byte of a request to the last byte of    *)
(* the reply; the server loop reads a frame, drives the VFS and writes a      *)
(* frame.  No frame carries an identifier: a reply belongs to a call only by  *)
(* its position in the stream.                                                *)
(*                                                                            *)
(* A frame is two chunks, its length and its body, written and read           *)
(* separately; a pipe holds at most Cap chunks.  The field `by` of a chunk,   *)
(* and the variable `answer`, are history: no guard reads them.               *)
EXTENDS Naturals, Sequences

CONSTANTS
    Caller,         \* tasks calling through the shared Client
    FsRequest,      \* records whose field op is the Request variant
    Vfs, InitVfs,   \* states of the served TokimoVfs, and the first one
    Value,          \* what TokimoVfs methods return, Ok and Err
    Answer(_, _), Effect(_, _),
    Version,        \* protocol versions a host may speak
    MyVersion,      \* the version this client was built with
    Unencodable,    \* requests postcard rejects (a path that is not UTF-8)
    Oversize,       \* replies whose body exceeds the reader's 64 MiB limit
    Cap,            \* chunks a pipe buffers
    Reconnects,     \* whether a stream whose server has ended is connected again:
                    \* "never", "settled" (once the call it broke has failed), "any"
    None, Err

Hello   == [op |-> "Hello"]
Request == FsRequest \union {Hello}

ASSUME CapAssumption ==
    Cap \in Nat \ {0} /\ Reconnects \in {"never", "settled", "any"}

ASSUME VfsAssumption ==
    /\ InitVfs \in Vfs
    /\ \A r \in FsRequest, s \in Vfs :
          Answer(r, s) \in Value /\ Effect(r, s) \in Vfs

ASSUME ConstantAssumption ==
    /\ MyVersion \in Version
    /\ \A r \in FsRequest : r.op # "Hello"
    /\ None \notin Value \union Request \union {Err}
    /\ None \notin Caller
    /\ Err \notin Value \union Version

Reply   == [op : {r.op : r \in FsRequest}, val : Value]
           \union [op : {"Hello"}, val : Version]

VARIABLES
    session,    \* connect_port: "new", "hello", "ready" or "failed"
    pc,         \* where each caller is in Client::call
    queue,      \* callers waiting for the mutex, first come first served
    req,        \* each caller's current or last request
    result,     \* what each caller's last call returned
    c2s, s2c,   \* the two directions of the stream
    link,       \* "up" or "down"
    srv,        \* where serve_stream is
    cur,        \* the request being served
    reply,      \* the reply being written
    vfs,        \* the served file system
    srvVersion, \* the host's PROTOCOL_VERSION
    answer      \* history: the value computed for each caller's current call

clientVars == <<session, pc, queue, req, result>>
wireVars   == <<c2s, s2c, link>>
srvVars    == <<srv, cur, reply, vfs, srvVersion>>
vars       == <<clientVars, wireVars, srvVars, answer>>

Init ==
    /\ session = "new"
    /\ pc = [c \in Caller |-> "idle"]
    /\ queue = <<>>
    /\ req = [c \in Caller |-> None]
    /\ result = [c \in Caller |-> None]
    /\ c2s = <<>> /\ s2c = <<>> /\ link = "up"
    /\ srv = "rlen" /\ cur = None /\ reply = None
    /\ vfs = InitVfs
    /\ srvVersion \in Version
    /\ answer = [c \in Caller |-> None]

Chunk(part, c, m) == [part |-> part, by |-> c, msg |-> m]
HasLen(pipe)  == pipe # <<>> /\ Head(pipe).part = "len"
HasBody(pipe) == pipe # <<>> /\ Head(pipe).part = "body"

\* What reaches the other end of a pipe that is cut.
Cut(pipe) == {SubSeq(pipe, 1, k) : k \in 0..Len(pipe)}

\* The request is on the wire; astray when a misread length has still to be filled.
Waiting == {"rlen", "rbody", "astray"}
\* Mutant: the mutex covers the write only.
HoldingWriteOnly == {"wlen", "wbody"}

Holding == {"wlen", "wbody"} \union Waiting  \* inside the critical section

\* Client::call and the method around it -------------------------------------

\* Mutant: the mutex is never waited for.
LockFree(c) == pc' = [pc EXCEPT ![c] = "wlen"] /\ UNCHANGED queue

\* Taking the mutex: immediately when it is free, else behind the others.
Lock(c) ==
    IF \E d \in Caller : pc[d] \in Holding
    THEN pc' = [pc EXCEPT ![c] = "queued"] /\ queue' = Append(queue, c)
    ELSE pc' = [pc EXCEPT ![c] = "wlen"] /\ UNCHANGED queue

\* Mutant: the mutex is not handed on.
UnlockStranding(c) == pc' = [pc EXCEPT ![c] = "idle"] /\ UNCHANGED queue

Unlock(c) ==
    IF queue = <<>>
    THEN pc' = [pc EXCEPT ![c] = "idle"] /\ UNCHANGED queue
    ELSE /\ pc' = [pc EXCEPT ![c] = "idle", ![Head(queue)] = "wlen"]
         /\ queue' = Tail(queue)

\* connect_port greets the host before it hands the Client out.
Connect(c) ==
    /\ session = "new"
    /\ pc[c] = "idle"
    /\ session' = "hello"
    /\ Lock(c)
    /\ req' = [req EXCEPT ![c] = Hello]
    /\ UNCHANGED <<result, wireVars, srvVars, answer>>

Call(c, r) ==
    /\ session = "ready"
    /\ pc[c] = "idle"
    /\ Lock(c)
    /\ req' = [req EXCEPT ![c] = r]
    /\ result' = [result EXCEPT ![c] = None]
    /\ UNCHANGED <<session, wireVars, srvVars, answer>>

\* Mutant: any version is accepted.
FinishAnyVersion(c, o) ==
    /\ Unlock(c)
    /\ answer' = [answer EXCEPT ![c] = None]
    /\ IF req[c] = Hello
       THEN session' = "ready" /\ UNCHANGED <<result, link>>
       ELSE result' = [result EXCEPT ![c] = o] /\ UNCHANGED <<session, link>>
    /\ UNCHANGED <<req, srvVars>>

\* Mutant: the greeting's answer is returned as a file system answer.
FinishUngreeted(c, o) ==
    /\ Unlock(c)
    /\ answer' = [answer EXCEPT ![c] = None]
    /\ result' = [result EXCEPT ![c] = o]
    /\ UNCHANGED <<session, link, req, srvVars>>

\* The call ends with outcome o and drops the guard.  A greeting decides the
\* session instead; when it fails the Client is dropped, which closes the stream.
Finish(c, o) ==
    /\ Unlock(c)
    /\ answer' = [answer EXCEPT ![c] = None]
    /\ IF req[c] = Hello
       THEN IF o = MyVersion
            THEN session' = "ready" /\ UNCHANGED <<result, link>>
            ELSE session' = "failed" /\ link' = "down" /\ UNCHANGED result
       ELSE result' = [result EXCEPT ![c] = o] /\ UNCHANGED <<session, link>>
    /\ UNCHANGED <<req, srvVars>>

\* A reply of another variant is "bad resp".
Outcome(r, m) == IF m.op = r.op THEN m.val ELSE Err

\* Mutant: the length is written before the body is encoded.
EncodeErrorLate(c) ==
    /\ pc[c] = "wlen"
    /\ req[c] \in Unencodable
    /\ link = "up" /\ Len(c2s) < Cap
    /\ c2s' = Append(c2s, Chunk("len", c, req[c]))
    /\ Finish(c, Err)
    /\ UNCHANGED s2c

\* write_frame serialises before it writes, so nothing is on the wire.
EncodeError(c) ==
    /\ pc[c] = "wlen"
    /\ req[c] \in Unencodable
    /\ Finish(c, Err)
    /\ UNCHANGED <<c2s, s2c>>

SendLen(c) ==
    /\ pc[c] = "wlen"
    /\ req[c] \notin Unencodable
    /\ link = "up" /\ Len(c2s) < Cap
    /\ c2s' = Append(c2s, Chunk("len", c, req[c]))
    /\ pc' = [pc EXCEPT ![c] = "wbody"]
    /\ UNCHANGED <<session, queue, req, result, s2c, link, srvVars, answer>>

SendBody(c) ==
    /\ pc[c] = "wbody"
    /\ link = "up" /\ Len(c2s) < Cap
    /\ c2s' = Append(c2s, Chunk("body", c, req[c]))
    /\ pc' = [pc EXCEPT ![c] = "rlen"]
    /\ UNCHANGED <<session, queue, req, result, s2c, link, srvVars, answer>>

WriteError(c) ==
    /\ pc[c] \in {"wlen", "wbody"}
    /\ link = "down"
    /\ Finish(c, Err)
    /\ UNCHANGED <<c2s, s2c>>

RecvLen(c) ==
    /\ pc[c] = "rlen"
    /\ HasLen(s2c)
    /\ Head(s2c).msg \notin Oversize
    /\ s2c' = Tail(s2c)
    /\ pc' = [pc EXCEPT ![c] = "rbody"]
    /\ UNCHANGED <<session, queue, req, result, c2s, link, srvVars, answer>>

\* "frame too large": the body stays in the stream.
RecvOversize(c) ==
    /\ pc[c] = "rlen"
    /\ HasLen(s2c)
    /\ Head(s2c).msg \in Oversize
    /\ s2c' = Tail(s2c)
    /\ Finish(c, Err)
    /\ UNCHANGED c2s

RecvBody(c) ==
    /\ pc[c] = "rbody"
    /\ HasBody(s2c)
    /\ s2c' = Tail(s2c)
    /\ Finish(c, Outcome(req[c], Head(s2c).msg))
    /\ UNCHANGED c2s

\* What may come of bytes that are not a frame: no reply, or any.  A greeting is
\* the first on its stream and does not get to read any.
Garbled(r) == {Err} \union {Outcome(r, m) : m \in {w \in Reply : r # Hello}}

\* Bytes of a body taken for a length, which is too large or that of what comes next,
\* whatever it is, or has to wait for more.
RecvMisaligned(c) ==
    /\ \/ pc[c] = "rlen" /\ HasBody(s2c)
       \/ pc[c] = "astray" /\ s2c # <<>>
    /\ \/ /\ \E k \in 0..Len(s2c) : s2c' = SubSeq(s2c, k + 1, Len(s2c))
          /\ \E o \in Garbled(req[c]) : Finish(c, o)
       \/ /\ s2c' = <<>> /\ pc' = [pc EXCEPT ![c] = "astray"]
          /\ UNCHANGED <<session, queue, req, result, link, srvVars, answer>>
    /\ UNCHANGED c2s

\* Mutant: nothing to read yet is taken for the end of the stream.
ReadEofEager(c) ==
    /\ pc[c] \in Waiting
    /\ s2c = <<>>
    /\ Finish(c, Err)
    /\ UNCHANGED <<c2s, s2c>>

ReadEof(c) ==
    /\ pc[c] \in Waiting
    /\ s2c = <<>> /\ link = "down"
    /\ Finish(c, Err)
    /\ UNCHANGED <<c2s, s2c>>

\* serve_stream ----------------------------------------------------------------

SrvRecvLen ==
    /\ srv = "rlen"
    /\ HasLen(c2s)
    /\ c2s' = Tail(c2s)
    /\ srv' = "rbody"
    /\ UNCHANGED <<clientVars, s2c, link, cur, reply, vfs, srvVersion, answer>>

SrvRecvBody ==
    /\ srv = "rbody"
    /\ HasBody(c2s)
    /\ cur' = Head(c2s)
    /\ c2s' = Tail(c2s)
    /\ srv' = "handle"
    /\ UNCHANGED <<clientVars, s2c, link, reply, vfs, srvVersion, answer>>

\* `handle`, up to the end of the VFS call.  History: the value is the answer
\* of the caller still waiting for it.
Applied(r) ==
    /\ vfs' = Effect(r, vfs)
    /\ answer' = IF pc[cur.by] \in Waiting
                 THEN [answer EXCEPT ![cur.by] = Answer(r, vfs)] ELSE answer

SrvHandle ==
    /\ srv = "handle"
    /\ IF cur.msg = Hello
       THEN /\ reply' = [op |-> "Hello", val |-> srvVersion]
            /\ UNCHANGED <<vfs, answer>>
       ELSE /\ reply' = [op |-> cur.msg.op, val |-> Answer(cur.msg, vfs)]
            /\ Applied(cur.msg)
    /\ srv' = "wlen"
    /\ UNCHANGED <<clientVars, wireVars, cur, srvVersion>>

SrvSendLen ==
    /\ srv = "wlen"
    /\ link = "up" /\ Len(s2c) < Cap
    /\ s2c' = Append(s2c, Chunk("len", cur.by, reply))
    /\ srv' = "wbody"
    /\ UNCHANGED <<clientVars, c2s, link, cur, reply, vfs, srvVersion, answer>>

SrvSendBody ==
    /\ srv = "wbody"
    /\ link = "up" /\ Len(s2c) < Cap
    /\ s2c' = Append(s2c, Chunk("body", cur.by, reply))
    /\ srv' = "rlen"
    /\ UNCHANGED <<clientVars, c2s, link, cur, reply, vfs, srvVersion, answer>>

\* Mutant: the request whose reply could not be written is served again.
SrvEndRetrying ==
    /\ link = "down"
    /\ \/ srv \in {"rlen", "rbody"} /\ c2s = <<>> /\ srv' = "done"
       \/ srv \in {"wlen", "wbody"} /\ srv' = "handle"
    /\ UNCHANGED <<clientVars, wireVars, cur, reply, vfs, srvVersion, answer>>

\* A failed read or write ends the loop with Ok(()).
SrvEnd ==
    /\ link = "down"
    /\ \/ srv \in {"rlen", "rbody"} /\ c2s = <<>>
       \/ srv \in {"wlen", "wbody"}
    /\ srv' = "done"
    /\ UNCHANGED <<clientVars, wireVars, cur, reply, vfs, srvVersion, answer>>

\* The stream --------------------------------------------------------------------

GoDown ==
    /\ link' = "down"
    /\ c2s' \in Cut(c2s)
    /\ s2c' \in Cut(s2c)

\* Bytes of a body taken for a length: read_frame fails, which ends the loop, or
\* waits for that many bytes.
SrvMisaligned ==
    /\ srv = "rlen"
    /\ HasBody(c2s)
    /\ \/ srv' = "done" /\ GoDown
       \/ srv' = "rbody" /\ c2s' = Tail(c2s) /\ UNCHANGED <<s2c, link>>
    /\ UNCHANGED <<clientVars, cur, reply, vfs, srvVersion, answer>>

\* A VFS method panics, before or after it changed the file system: the task
\* ends and its stream is dropped.
VfsPanic ==
    /\ srv = "handle"
    /\ cur.msg # Hello
    /\ srv' = "done"
    /\ GoDown
    /\ Applied(cur.msg) \/ UNCHANGED <<vfs, answer>>
    /\ UNCHANGED <<clientVars, cur, reply, srvVersion>>

\* Either end, or what carries the bytes between them, goes away.
LinkDown ==
    /\ link = "up"
    /\ GoDown
    /\ UNCHANGED <<clientVars, srvVars, answer>>

MidCall == {"wbody"} \union Waiting          \* in the middle of an exchange

\* QEMU connects again (reconnect=1, after a second), and the mount's accept loop
\* starts another serve_stream.  The agent's port stays open: what it has been
\* sent it can read, and it does not greet again.
Reconnect ==
    /\ link = "down" /\ srv = "done" /\ session # "failed"
    /\ \/ Reconnects = "any"
       \/ Reconnects = "settled" /\ \A c \in Caller : pc[c] \notin MidCall
    /\ link' = "up" /\ srv' = "rlen" /\ c2s' = <<>>
    /\ UNCHANGED <<clientVars, s2c, cur, reply, vfs, srvVersion, answer>>

\* The connection was refused and the server has noticed.
Terminated ==
    /\ session = "failed" /\ srv = "done"
    /\ UNCHANGED vars

-------------------------------------------------------------------------------
ClientStep(c) ==
    \/ EncodeError(c) \/ SendLen(c) \/ SendBody(c) \/ WriteError(c)
    \/ RecvLen(c) \/ RecvOversize(c) \/ RecvBody(c) \/ RecvMisaligned(c)
    \/ ReadEof(c)

SrvStep ==
    \/ SrvRecvLen \/ SrvRecvBody \/ SrvMisaligned \/ SrvHandle
    \/ SrvSendLen \/ SrvSendBody \/ SrvEnd

Next ==
    \/ \E c \in Caller : Connect(c) \/ ClientStep(c)
    \/ \E c \in Caller, r \in FsRequest : Call(c, r)
    \/ SrvStep \/ VfsPanic \/ LinkDown \/ Reconnect \/ Terminated

Spec == Init /\ [][Next]_vars

\* tokio polls every ready task; SrvStep's fairness also says that the VFS's
\* methods return.
Fairness == (\A c \in Caller : WF_vars(ClientStep(c))) /\ WF_vars(SrvStep)

FairSpec == Spec /\ Fairness
-------------------------------------------------------------------------------
\* Properties.

PcState == {"idle", "queued", "wlen", "wbody"} \union Waiting

ChunkOf(m) == [part : {"len", "body"}, by : Caller, msg : m]

Asked == {c \in Caller : req[c] # None}

\* Every variable has its type, and what a step reads has been set: the request
\* of a caller in a call, the request being served, the reply being written.
TypeOK ==
    /\ session \in {"new", "hello", "ready", "failed"}
    /\ pc \in [Caller -> PcState]
    /\ \A c \in Caller : pc[c] # "idle" => c \in Asked
    /\ queue \in Seq(Asked)
    /\ req \in [Caller -> Request \union {None}]
    /\ result \in [Caller -> Value \union {None, Err}]
    /\ c2s \in Seq(ChunkOf(Request))
    /\ s2c \in Seq(ChunkOf(Reply))
    /\ link \in {"up", "down"}
    /\ srv \in {"rlen", "rbody", "handle", "wlen", "wbody", "done"}
    /\ cur \in ChunkOf(Request) \union {None}
    /\ srv \in {"handle", "wlen", "wbody"} => cur \in ChunkOf(Request)
    /\ reply \in Reply \union {None}
    /\ srv \in {"wlen", "wbody"} => reply \in Reply
    /\ vfs \in Vfs
    /\ srvVersion \in Version
    /\ answer \in [Caller -> Value \union {None}]

\* The mutex (client.rs:71): one caller is in the critical section, the queue
\* is the set of blocked callers without repetition, and nobody is blocked on
\* a free mutex.
MutexOK ==
    /\ \A c, d \in Caller : pc[c] \in Holding /\ pc[d] \in Holding => c = d
    /\ \A c \in Caller :
          pc[c] = "queued" <=> \E i \in 1..Len(queue) : queue[i] = c
    /\ \A i, j \in 1..Len(queue) : queue[i] = queue[j] => i = j
    /\ queue # <<>> => \E c \in Caller : pc[c] \in Holding

\* The reply a waiting caller is owed.
Owed(c, m) ==
    /\ m.op = req[c].op
    /\ IF req[c] = Hello THEN m.val = srvVersion
                         ELSE answer[c] # None /\ m.val = answer[c]

\* The two chunks of a frame, and what a pipe holds of some chunks: all of them,
\* or the first few once the stream is down.
Frame(c, m) == <<Chunk("len", c, m), Chunk("body", c, m)>>
Holds(pipe, s) == pipe = s \/ (link = "down" /\ pipe \in Cut(s))

\* The server owes c the reply it is writing.
Serving(c) == c2s = <<>> /\ cur.by = c /\ Owed(c, reply)

\* Where the server and the pipes can be when c has written the length of its
\* request, when it waits for the length of the reply, and for its body.
HalfAsked(c) ==
    /\ s2c = <<>>
    /\ \/ srv = "rlen" /\ Holds(c2s, <<Chunk("len", c, req[c])>>)
       \/ srv = "rbody" /\ c2s = <<>>
       \/ srv = "done" /\ link = "down"

AwaitsLen(c) ==
    \/ srv = "rlen" /\ Holds(c2s, Frame(c, req[c])) /\ s2c = <<>>
    \/ srv = "rbody" /\ Holds(c2s, <<Chunk("body", c, req[c])>>) /\ s2c = <<>>
    \/ srv = "handle" /\ c2s = <<>> /\ s2c = <<>> /\ cur = Chunk("body", c, req[c])
    \/ srv = "wlen" /\ Serving(c) /\ s2c = <<>>
    \/ srv = "wbody" /\ Serving(c) /\ Holds(s2c, <<Chunk("len", c, reply)>>)
    \/ srv = "rlen" /\ c2s = <<>> /\ \E m \in Reply : Owed(c, m) /\ Holds(s2c, Frame(c, m))
    \/ /\ srv = "done" /\ link = "down"
       /\ s2c = <<>> \/ \E m \in Reply : Owed(c, m) /\ s2c \in Cut(Frame(c, m))

AwaitsBody(c) ==
    \/ srv = "wbody" /\ Serving(c) /\ s2c = <<>>
    \/ /\ srv = "rlen" /\ c2s = <<>>
       /\ \E m \in Reply : Owed(c, m) /\ Holds(s2c, <<Chunk("body", c, m)>>)
    \/ /\ srv = "done" /\ link = "down"
       /\ s2c = <<>> \/ \E m \in Reply : Owed(c, m) /\ s2c = <<Chunk("body", c, m)>>

\* Positional correlation (client.rs:1-3, 70-76): whatever is in a pipe belongs
\* to the one call in the critical section, at the point that call has reached;
\* between calls the live stream is empty and the server at the top of its loop.
Lockstep ==
    /\ \A c \in Caller :
          /\ pc[c] = "wbody" => HalfAsked(c)
          /\ pc[c] = "rlen"  => AwaitsLen(c)
          /\ pc[c] = "rbody" => AwaitsBody(c)
          /\ pc[c] # "astray"
    /\ (\A c \in Caller : pc[c] \notin {"wbody", "rlen", "rbody"}) =>
          s2c = <<>> /\ (link = "up" => c2s = <<>> /\ srv = "rlen")

\* An Ok or Err value a method returns is the one the VFS computed for that
\* very call (client.rs:97-224 take any reply of the right variant).
ReplyMatches ==
    \A c \in Caller :
       pc[c] \in Waiting /\ pc'[c] = "idle" /\ req[c] # Hello =>
          result'[c] = Err \/ (answer[c] # None /\ result'[c] = answer[c])

ReplyMatchesAlways == [][ReplyMatches]_vars

\* "One connection serves many calls" (client.rs:1): a call fails only when the
\* stream is gone or its own request cannot be encoded; no earlier call of
\* another caller can make it fail.
FailureIsOwn ==
    \A c \in Caller :
       pc[c] \in Holding /\ pc'[c] = "idle" /\ req[c] # Hello /\ result'[c] = Err =>
          \/ link = "down"
          \/ req[c] \in Unencodable
          \/ [op |-> req[c].op, val |-> answer[c]] \in Oversize

FailureIsOwnAlways == [][FailureIsOwn]_vars

\* The greeting gates the connection (client.rs:78-91): a host of another
\* version never gets to execute a file system request.
VersionGate ==
    srv = "handle" /\ cur.msg # Hello => srvVersion = MyVersion

\* Every call ends (client.rs:70-76): the mutex is handed on in order, and a
\* lost stream fails the call instead of leaving it blocked.
CallsReturn == \A c \in Caller : pc[c] # "idle" ~> pc[c] = "idle"

\* A call behaves as an atomic operation on the VFS between its start and its
\* return, whatever happens to the stream (client.rs:70-76, server.rs:14-33).
Phase(c) ==
    IF pc[c] = "idle" \/ req[c] = Hello THEN "idle"
    ELSE IF pc[c] \in Waiting /\ answer[c] # None THEN "served" ELSE "called"

\* Requests the server has or will read although their caller gave up.
Orphaned ==
    {x.msg : x \in {y \in {c2s[i] : i \in 1..Len(c2s)} :
                     y.part = "body" /\ pc[y.by] \notin Waiting}
                   \union {y \in {cur} : srv = "handle" /\ pc[y.by] \notin Waiting}}
        \ {Hello}

Service == INSTANCE VfsService WITH
    phase <- [c \in Caller |-> Phase(c)],
    req   <- [c \in Caller |-> IF req[c] = Hello THEN None ELSE req[c]],
    ans   <- answer,
    out   <- result,
    late  <- Orphaned

ServiceSpec == Service!Spec
===============================================================================
