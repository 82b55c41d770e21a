--------------------------- MODULE RpcChannelProofs ---------------------------
(* Theorems about RpcChannel, for every set of callers, every VFS, every pipe *)
(* capacity and every set of protocol versions.                               *)
EXTENDS RpcChannel, SequenceTheorems, TLAPS

-------------------------------------------------------------------------------
\* Sequences.

\* The first chunk of a pipe and the rest of it have the pipe's types.
LEMMA PipeHead ==
    ASSUME NEW S, NEW s \in Seq(S), s # <<>>
    PROVE  Head(s) \in S /\ Tail(s) \in Seq(S) /\ Len(s) \in Nat \ {0}
OBVIOUS

\* What a cut leaves of a pipe is a pipe.
LEMMA CutType ==
    ASSUME NEW S, NEW s \in Seq(S), NEW t \in Cut(s)
    PROVE  t \in Seq(S)
<1>1. PICK k \in 0..Len(s) : t = SubSeq(s, 1, k)
    BY DEF Cut
<1>2. QED BY <1>1

\* So is what a misaligned read leaves.
LEMMA RestType ==
    ASSUME NEW S, NEW s \in Seq(S), NEW k \in 0..Len(s)
    PROVE  SubSeq(s, k + 1, Len(s)) \in Seq(S)
OBVIOUS

-------------------------------------------------------------------------------
\* Type correctness.

\* What the client's part of TypeOK says, in the next state.
ClientType ==
    /\ session \in {"new", "hello", "ready", "failed"}
    /\ pc \in [Caller -> PcState]
    /\ \A c \in Caller : pc[c] # "idle" => c \in Asked
    /\ queue \in Seq(Asked)
    /\ req \in [Caller -> Request \union {None}]
    /\ result \in [Caller -> Value \union {None, Err}]
    /\ link \in {"up", "down"}
    /\ answer \in [Caller -> Value \union {None}]

\* And the server's.
ServerType ==
    /\ srv \in {"rlen", "rbody", "handle", "wlen", "wbody", "done"}
    /\ cur \in ChunkOf(Request) \union {None}
    /\ srv \in {"handle", "wlen", "wbody"} => cur \in ChunkOf(Request)
    /\ reply \in Reply \union {None}
    /\ srv \in {"wlen", "wbody"} => reply \in Reply
    /\ vfs \in Vfs
    /\ srvVersion \in Version

\* Asking for the mutex with a request r.
LEMMA LockType ==
    ASSUME TypeOK, NEW c \in Caller, NEW r \in Request, r # None,
           Lock(c), req' = [req EXCEPT ![c] = r]
    PROVE  /\ pc' \in [Caller -> PcState]
           /\ \A d \in Caller : pc'[d] # "idle" => d \in Asked'
           /\ queue' \in Seq(Asked')
           /\ req' \in [Caller -> Request \union {None}]
<1>1. Asked \subseteq Asked' /\ c \in Asked'
    BY DEF TypeOK, Asked
<1>2. queue \in Seq(Asked')
    BY <1>1 DEF TypeOK
<1>3. Append(queue, c) \in Seq(Asked')
    BY <1>1, <1>2, AppendProperties
<1>4. "queued" \in PcState /\ "wlen" \in PcState
    BY DEF PcState, Waiting
<1>5. QED BY <1>1, <1>2, <1>3, <1>4 DEF Lock, TypeOK

LEMMA UnlockType ==
    ASSUME TypeOK, NEW c \in Caller, Unlock(c), req' = req
    PROVE  /\ pc' \in [Caller -> PcState]
           /\ \A d \in Caller : pc'[d] # "idle" => d \in Asked'
           /\ queue' \in Seq(Asked')
<1>1. /\ pc \in [Caller -> PcState] /\ queue \in Seq(Asked)
      /\ Asked' = Asked /\ Asked \subseteq Caller
    BY DEF TypeOK, Asked
<1>2. "idle" \in PcState /\ "wlen" \in PcState
    BY DEF PcState, Waiting
<1>3. CASE queue = <<>>
    BY <1>1, <1>2, <1>3 DEF Unlock, TypeOK
<1>4. CASE queue # <<>>
    <2>1. Head(queue) \in Asked /\ Tail(queue) \in Seq(Asked)
        BY <1>1, <1>4, PipeHead
    <2>2. QED BY <1>1, <1>2, <1>4, <2>1 DEF Unlock, TypeOK
<1>5. QED BY <1>3, <1>4

LEMMA FinishType ==
    ASSUME TypeOK, NEW c \in Caller, NEW o, Finish(c, o),
           req[c] # Hello => o \in Value \union {Err}
    PROVE  ClientType' /\ ServerType'
<1>1. Unlock(c) /\ req' = req
    BY DEF Finish
<1>2. /\ pc' \in [Caller -> PcState]
      /\ \A d \in Caller : pc'[d] # "idle" => d \in Asked'
      /\ queue' \in Seq(Asked')
    BY <1>1, UnlockType
<1>3. result' \in [Caller -> Value \union {None, Err}]
    BY DEF Finish, TypeOK
<1>4. answer' \in [Caller -> Value \union {None}]
    BY DEF Finish, TypeOK
<1>5. session' \in {"new", "hello", "ready", "failed"} /\ link' \in {"up", "down"}
    BY DEF Finish, TypeOK
<1>6. ServerType'
    BY DEF Finish, TypeOK, ServerType, srvVars
<1>7. QED BY <1>1, <1>2, <1>3, <1>4, <1>5, <1>6 DEF ClientType, TypeOK

\* A misread answer fails the call, or is of the type the call returns.
LEMMA GarbledType ==
    ASSUME NEW r \in Request, r # Hello, NEW o \in Garbled(r)
    PROVE  o \in Value \union {Err}
<1>1. r.op # "Hello"
    BY ConstantAssumption DEF Request
<1>2. \A m \in Reply : Outcome(r, m) \in Value \union {Err}
    BY <1>1 DEF Outcome, Reply
<1>3. QED BY <1>2 DEF Garbled

\* A client step keeps the types.
LEMMA ClientStepType ==
    ASSUME TypeOK, NEW c \in Caller, ClientStep(c)
    PROVE  TypeOK'
<1>1. ASSUME NEW o, req[c] # Hello => o \in Value \union {Err}, Finish(c, o),
             c2s' = c2s, s2c' \in Seq(ChunkOf(Reply))
      PROVE  TypeOK'
    BY <1>1, FinishType DEF TypeOK, ClientType, ServerType
<1>2. ASSUME NEW s \in PcState, pc[c] # "idle", pc' = [pc EXCEPT ![c] = s],
             session' = session, queue' = queue, req' = req, result' = result,
             link' = link, answer' = answer, srvVars' = srvVars
      PROVE  ClientType' /\ ServerType'
    <2>1. Asked' = Asked /\ pc' \in [Caller -> PcState]
        BY <1>2 DEF TypeOK, Asked
    <2>2. \A d \in Caller : pc'[d] # "idle" => d \in Asked
        BY <1>2 DEF TypeOK
    <2>3. ClientType'
        BY <1>2, <2>1, <2>2 DEF TypeOK, ClientType
    <2>4. ServerType'
        BY <1>2 DEF TypeOK, ServerType, srvVars
    <2>5. QED BY <2>3, <2>4
<1>3. {"wbody", "rlen", "rbody", "astray"} \subseteq PcState
    BY DEF PcState, Waiting
<1>4. CASE EncodeError(c)
    BY <1>1, <1>4 DEF EncodeError, TypeOK
<1>5. CASE WriteError(c)
    BY <1>1, <1>5 DEF WriteError, TypeOK
<1>6. CASE ReadEof(c)
    BY <1>1, <1>6 DEF ReadEof, TypeOK
<1>7. CASE SendLen(c)
    <2>1. Chunk("len", c, req[c]) \in ChunkOf(Request)
        BY <1>7 DEF SendLen, TypeOK, Asked, Chunk, ChunkOf
    <2>2. c2s' \in Seq(ChunkOf(Request)) /\ s2c' \in Seq(ChunkOf(Reply))
        BY <1>7, <2>1, AppendProperties DEF SendLen, TypeOK
    <2>3. ClientType' /\ ServerType'
        BY <1>2, <1>3, <1>7 DEF SendLen
    <2>4. QED BY <2>2, <2>3 DEF TypeOK, ClientType, ServerType
<1>8. CASE SendBody(c)
    <2>1. Chunk("body", c, req[c]) \in ChunkOf(Request)
        BY <1>8 DEF SendBody, TypeOK, Asked, Chunk, ChunkOf
    <2>2. c2s' \in Seq(ChunkOf(Request)) /\ s2c' \in Seq(ChunkOf(Reply))
        BY <1>8, <2>1, AppendProperties DEF SendBody, TypeOK
    <2>3. ClientType' /\ ServerType'
        BY <1>2, <1>3, <1>8 DEF SendBody
    <2>4. QED BY <2>2, <2>3 DEF TypeOK, ClientType, ServerType
<1>9. CASE RecvLen(c)
    <2>1. c2s' \in Seq(ChunkOf(Request)) /\ s2c' \in Seq(ChunkOf(Reply))
        BY <1>9, PipeHead DEF RecvLen, HasLen, TypeOK
    <2>2. ClientType' /\ ServerType'
        BY <1>2, <1>3, <1>9 DEF RecvLen
    <2>3. QED BY <2>1, <2>2 DEF TypeOK, ClientType, ServerType
<1>10. CASE RecvOversize(c)
    <2>1. s2c' \in Seq(ChunkOf(Reply))
        BY <1>10, PipeHead DEF RecvOversize, HasLen, TypeOK
    <2>2. Finish(c, Err) /\ c2s' = c2s
        BY <1>10 DEF RecvOversize
    <2>3. QED BY <1>1, <2>1, <2>2
<1>11. CASE RecvBody(c)
    <2>1. s2c' \in Seq(ChunkOf(Reply)) /\ Head(s2c).msg \in Reply
        <3>1. s2c' \in Seq(ChunkOf(Reply)) /\ Head(s2c) \in ChunkOf(Reply)
            BY <1>11, PipeHead DEF RecvBody, HasBody, TypeOK
        <3>2. QED BY <3>1 DEF ChunkOf
    <2>2. req[c] \in Request
        BY <1>11 DEF RecvBody, TypeOK, Asked
    <2>3. req[c] # Hello => Outcome(req[c], Head(s2c).msg) \in Value \union {Err}
        BY <2>1, <2>2, ConstantAssumption DEF Outcome, Reply, Request
    <2>4. QED BY <1>1, <1>11, <2>1, <2>3 DEF RecvBody
<1>12. CASE RecvMisaligned(c)
    <2>1. s2c' \in Seq(ChunkOf(Reply)) /\ c2s' = c2s
        <3>1. s2c \in Seq(ChunkOf(Reply)) /\ <<>> \in Seq(ChunkOf(Reply))
            BY DEF TypeOK
        <3>2. QED BY <1>12, <3>1, RestType DEF RecvMisaligned
    <2>2. ASSUME NEW o \in Garbled(req[c]), Finish(c, o)
          PROVE  TypeOK'
        <3>1. req[c] \in Request
            BY <1>12 DEF RecvMisaligned, TypeOK, Asked
        <3>2. req[c] # Hello => o \in Value \union {Err}
            BY <2>2, <3>1, GarbledType
        <3>3. QED BY <1>1, <2>1, <2>2, <3>2
    <2>3. CASE pc' = [pc EXCEPT ![c] = "astray"]
               /\ UNCHANGED <<session, queue, req, result, link, srvVars, answer>>
        <3>1. "astray" \in PcState /\ pc[c] # "idle"
            BY <1>3, <1>12 DEF RecvMisaligned
        <3>2. ClientType' /\ ServerType'
            BY <1>2, <2>3, <3>1
        <3>3. QED BY <2>1, <3>2 DEF TypeOK, ClientType, ServerType
    <2>4. QED BY <1>12, <2>2, <2>3 DEF RecvMisaligned
<1>13. QED
    BY <1>4, <1>5, <1>6, <1>7, <1>8, <1>9, <1>10, <1>11, <1>12 DEF ClientStep

\* A server step keeps the types.
LEMMA SrvStepType ==
    ASSUME TypeOK, SrvStep \/ VfsPanic
    PROVE  TypeOK'
<1>1. ASSUME UNCHANGED <<clientVars, link, answer>>, ServerType',
             c2s' \in Seq(ChunkOf(Request)), s2c' \in Seq(ChunkOf(Reply))
      PROVE  TypeOK'
    BY <1>1 DEF TypeOK, ServerType, Asked, clientVars
<1>2. ASSUME srv \in {"handle"}, cur.msg # Hello, Applied(cur.msg)
      PROVE  /\ answer' \in [Caller -> Value \union {None}] /\ vfs' \in Vfs
             /\ cur.msg \in FsRequest /\ Answer(cur.msg, vfs) \in Value
    <2>1. cur.msg \in FsRequest /\ cur.by \in Caller
        BY <1>2 DEF TypeOK, ChunkOf, Request
    <2>2. QED BY <1>2, <2>1, VfsAssumption DEF Applied, TypeOK
<1>3. CASE SrvRecvLen
    BY <1>1, <1>3, PipeHead DEF SrvRecvLen, HasLen, TypeOK, ServerType
<1>4. CASE SrvRecvBody
    BY <1>1, <1>4, PipeHead DEF SrvRecvBody, HasBody, TypeOK, ServerType
<1>5. CASE SrvHandle
    <2>1. CASE cur.msg = Hello
        <3>1. reply' \in Reply
            BY <1>5, <2>1 DEF SrvHandle, Reply, TypeOK
        <3>2. QED BY <1>1, <1>5, <2>1, <3>1 DEF SrvHandle, TypeOK, ServerType, wireVars
    <2>2. CASE cur.msg # Hello
        <3>1. reply' \in Reply
            BY <1>2, <1>5, <2>2 DEF SrvHandle, Reply
        <3>2. ServerType'
            BY <1>2, <1>5, <2>2, <3>1 DEF SrvHandle, TypeOK, ServerType
        <3>3. QED
            BY <1>2, <1>5, <2>2, <3>2 DEF SrvHandle, TypeOK, ServerType, Asked,
                clientVars, wireVars
    <2>3. QED BY <2>1, <2>2
<1>6. CASE SrvSendLen
    <2>1. Chunk("len", cur.by, reply) \in ChunkOf(Reply)
        BY <1>6 DEF SrvSendLen, TypeOK, Chunk, ChunkOf
    <2>2. s2c' \in Seq(ChunkOf(Reply))
        BY <1>6, <2>1, AppendProperties DEF SrvSendLen, TypeOK
    <2>3. QED BY <1>1, <1>6, <2>2 DEF SrvSendLen, TypeOK, ServerType
<1>7. CASE SrvSendBody
    <2>1. Chunk("body", cur.by, reply) \in ChunkOf(Reply)
        BY <1>7 DEF SrvSendBody, TypeOK, Chunk, ChunkOf
    <2>2. s2c' \in Seq(ChunkOf(Reply))
        BY <1>7, <2>1, AppendProperties DEF SrvSendBody, TypeOK
    <2>3. QED BY <1>1, <1>7, <2>2 DEF SrvSendBody, TypeOK, ServerType
<1>8. CASE SrvEnd
    BY <1>1, <1>8 DEF SrvEnd, TypeOK, ServerType, wireVars
<1>9. CASE VfsPanic
    <2>1. c2s' \in Seq(ChunkOf(Request)) /\ s2c' \in Seq(ChunkOf(Reply))
        BY <1>9, CutType DEF VfsPanic, GoDown, TypeOK
    <2>2. answer' \in [Caller -> Value \union {None}] /\ vfs' \in Vfs
        BY <1>2, <1>9 DEF VfsPanic, TypeOK
    <2>3. ServerType'
        BY <1>9, <2>2 DEF VfsPanic, TypeOK, ServerType
    <2>4. ClientType'
        BY <1>9, <2>2 DEF VfsPanic, GoDown, TypeOK, ClientType, Asked, clientVars
    <2>5. QED BY <2>1, <2>3, <2>4 DEF TypeOK, ClientType, ServerType
<1>10. CASE SrvMisaligned
    <2>1. c2s' \in Seq(ChunkOf(Request)) /\ s2c' \in Seq(ChunkOf(Reply))
        BY <1>10, CutType, PipeHead DEF SrvMisaligned, GoDown, HasBody, TypeOK
    <2>2. link' \in {"up", "down"} /\ srv' \in {"done", "rbody"}
        BY <1>10 DEF SrvMisaligned, GoDown, TypeOK
    <2>3. QED
        BY <1>10, <2>1, <2>2 DEF SrvMisaligned, TypeOK, Asked, clientVars
<1>11. QED
    BY <1>3, <1>4, <1>5, <1>6, <1>7, <1>8, <1>9, <1>10 DEF SrvStep

LEMMA InitType == Init => TypeOK
BY VfsAssumption, ConstantAssumption DEF Init, TypeOK, PcState, Waiting, Asked

LEMMA HelloOp == Hello \in Request /\ Hello.op = "Hello"
BY DEF Hello, Request

LEMMA NextType == TypeOK /\ [Next]_vars => TypeOK'
<1> SUFFICES ASSUME TypeOK, [Next]_vars PROVE TypeOK'
    OBVIOUS
<1>1. ASSUME NEW c \in Caller, Connect(c)
      PROVE  TypeOK'
    <2>1. Hello \in Request /\ Hello # None
        BY HelloOp, ConstantAssumption
    <2>2. QED
        BY <1>1, <2>1, LockType DEF Connect, TypeOK, wireVars, srvVars
<1>2. ASSUME NEW c \in Caller, NEW r \in FsRequest, Call(c, r)
      PROVE  TypeOK'
    <2>1. r \in Request /\ r # None
        BY ConstantAssumption DEF Request
    <2>2. result' \in [Caller -> Value \union {None, Err}]
        BY <1>2 DEF Call, TypeOK
    <2>3. QED
        BY <1>2, <2>1, <2>2, LockType DEF Call, TypeOK, wireVars, srvVars
<1>3. ASSUME NEW c \in Caller, ClientStep(c)
      PROVE  TypeOK'
    BY <1>3, ClientStepType
<1>4. CASE SrvStep \/ VfsPanic
    BY <1>4, SrvStepType
<1>5. CASE LinkDown
    BY <1>5, CutType DEF LinkDown, GoDown, TypeOK, Asked, clientVars, srvVars
<1>6. CASE Reconnect
    <2>1. c2s' \in Seq(ChunkOf(Request))
        BY <1>6 DEF Reconnect
    <2>2. QED
        BY <1>6, <2>1 DEF Reconnect, TypeOK, Asked, clientVars
<1>7. CASE Terminated \/ UNCHANGED vars
    BY <1>7 DEF Terminated, TypeOK, Asked, vars, clientVars, wireVars, srvVars
<1>8. QED BY <1>1, <1>2, <1>3, <1>4, <1>5, <1>6, <1>7 DEF Next

\* Every variable always has its type.
THEOREM TypeCorrect == Spec => []TypeOK
BY InitType, NextType, PTL DEF Spec

-------------------------------------------------------------------------------
\* The mutex.

LEMMA LockMutex ==
    ASSUME TypeOK, MutexOK, NEW c \in Caller, pc[c] = "idle", Lock(c)
    PROVE  MutexOK'
<1>1. queue \in Seq(Caller) /\ pc \in [Caller -> PcState]
    BY DEF TypeOK, Asked
<1>2. CASE \E d \in Caller : pc[d] \in Holding
    <2>1. pc' = [pc EXCEPT ![c] = "queued"] /\ queue' = Append(queue, c)
        BY <1>2 DEF Lock
    <2>2. /\ Len(queue) \in Nat
          /\ Len(queue') = Len(queue) + 1
          /\ \A i \in 1..Len(queue) : queue'[i] = queue[i]
          /\ queue'[Len(queue) + 1] = c
        BY <1>1, <2>1, LenProperties, AppendProperties
    <2>3. \A i \in 1..Len(queue) : queue[i] # c
        BY DEF MutexOK
    <2>4. \A d \in Caller : pc'[d] \in Holding <=> pc[d] \in Holding
        BY <1>1, <2>1 DEF Holding, Waiting
    <2>5. \A d \in Caller :
             pc'[d] = "queued" <=> \E i \in 1..Len(queue') : queue'[i] = d
        BY <1>1, <2>1, <2>2 DEF MutexOK
    <2>6. \A i, j \in 1..Len(queue') : queue'[i] = queue'[j] => i = j
        BY <2>2, <2>3 DEF MutexOK
    <2>7. QED BY <1>2, <2>4, <2>5, <2>6 DEF MutexOK
<1>3. CASE ~ \E d \in Caller : pc[d] \in Holding
    <2>1. pc' = [pc EXCEPT ![c] = "wlen"] /\ queue' = queue
        BY <1>3 DEF Lock
    <2>2. queue = <<>>
        BY <1>3 DEF MutexOK
    <2>3. QED BY <1>1, <1>3, <2>1, <2>2 DEF MutexOK, Holding, Waiting
<1>4. QED BY <1>2, <1>3

LEMMA UnlockMutex ==
    ASSUME TypeOK, MutexOK, NEW c \in Caller, pc[c] \in Holding, Unlock(c)
    PROVE  MutexOK'
<1>1. queue \in Seq(Caller) /\ pc \in [Caller -> PcState]
    BY DEF TypeOK, Asked
<1>2. \A d \in Caller : d # c => pc[d] \notin Holding
    BY DEF MutexOK
<1>3. pc[c] # "queued" /\ "idle" \notin Holding /\ "wlen" \in Holding
    BY DEF Holding, Waiting
<1>4. CASE queue = <<>>
    <2>1. pc' = [pc EXCEPT ![c] = "idle"] /\ queue' = queue
        BY <1>4 DEF Unlock
    <2>2. QED BY <1>1, <1>2, <1>3, <1>4, <2>1 DEF MutexOK
<1>5. CASE queue # <<>>
    <2> DEFINE h == Head(queue)
    <2>1. pc' = [pc EXCEPT ![c] = "idle", ![h] = "wlen"] /\ queue' = Tail(queue)
        BY <1>5 DEF Unlock
    <2>2. /\ Len(queue) \in Nat \ {0}
          /\ h \in Caller /\ h = queue[1]
          /\ Len(queue') = Len(queue) - 1
          /\ \A i \in 1..Len(queue') : queue'[i] = queue[i + 1]
        BY <1>1, <1>5, <2>1, LenProperties, HeadTailProperties, EmptySeq
    <2>3. pc[h] = "queued" /\ h # c
        BY <1>3, <2>2 DEF MutexOK
    <2>4. \A d \in Caller : pc'[d] \in Holding <=> d = h
        BY <1>1, <1>2, <1>3, <2>1, <2>2, <2>3
    <2>5. \A d \in Caller : pc'[d] = "queued" <=> pc[d] = "queued" /\ d # h
        BY <1>1, <1>3, <2>1, <2>2, <2>3
    <2>6. \A i \in 1..Len(queue') : i + 1 \in 1..Len(queue) /\ queue'[i] # h
        BY <2>2 DEF MutexOK
    <2>7. \A d \in Caller :
             pc'[d] = "queued" <=> \E i \in 1..Len(queue') : queue'[i] = d
        <3>1. ASSUME NEW d \in Caller, pc[d] = "queued", d # h
              PROVE  \E i \in 1..Len(queue') : queue'[i] = d
            <4>1. PICK j \in 1..Len(queue) : queue[j] = d
                BY <3>1 DEF MutexOK
            <4>2. j - 1 \in 1..Len(queue') /\ queue'[j - 1] = d
                BY <2>2, <3>1, <4>1
            <4>3. QED BY <4>2
        <3>2. ASSUME NEW d \in Caller, NEW i \in 1..Len(queue'), queue'[i] = d
              PROVE  pc[d] = "queued" /\ d # h
            BY <2>2, <2>6, <3>2 DEF MutexOK
        <3>3. QED BY <2>5, <3>1, <3>2
    <2>8. \A i, j \in 1..Len(queue') : queue'[i] = queue'[j] => i = j
        BY <2>2, <2>6 DEF MutexOK
    <2>9. QED BY <2>2, <2>4, <2>7, <2>8 DEF MutexOK
<1>6. QED BY <1>4, <1>5

\* Moving on inside the critical section.
LEMMA HoldMutex ==
    ASSUME TypeOK, MutexOK, NEW c \in Caller, NEW s \in Holding,
           pc[c] \in Holding, pc' = [pc EXCEPT ![c] = s], queue' = queue
    PROVE  MutexOK'
<1>1. \A d \in Caller : pc'[d] \in Holding <=> pc[d] \in Holding
    BY DEF TypeOK
<1>2. \A d \in Caller : pc'[d] = "queued" <=> pc[d] = "queued"
    BY DEF TypeOK, Holding, Waiting
<1>3. QED BY <1>1, <1>2 DEF MutexOK

LEMMA InitMutex == Init => MutexOK
BY DEF Init, MutexOK, Holding, Waiting

LEMMA NextMutex == TypeOK /\ MutexOK /\ [Next]_vars => MutexOK'
<1> SUFFICES ASSUME TypeOK, MutexOK, [Next]_vars PROVE MutexOK'
    OBVIOUS
<1>1. ASSUME NEW c \in Caller, Connect(c)
      PROVE  MutexOK'
    BY <1>1, LockMutex DEF Connect
<1>2. ASSUME NEW c \in Caller, NEW r \in FsRequest, Call(c, r)
      PROVE  MutexOK'
    BY <1>2, LockMutex DEF Call
<1>3. ASSUME NEW c \in Caller, ClientStep(c)
      PROVE  MutexOK'
    <2>1. ASSUME NEW o, pc[c] \in Holding, Finish(c, o)
          PROVE  MutexOK'
        BY <2>1, UnlockMutex DEF Finish
    <2>2. CASE EncodeError(c) \/ WriteError(c) \/ RecvOversize(c) \/ ReadEof(c)
        BY <2>1, <2>2 DEF EncodeError, WriteError, RecvOversize, ReadEof, Holding, Waiting
    <2>3. CASE RecvBody(c)
        BY <2>1, <2>3 DEF RecvBody, Holding, Waiting
    <2>4. CASE SendLen(c) \/ SendBody(c) \/ RecvLen(c)
        BY <2>4, HoldMutex DEF SendLen, SendBody, RecvLen, Holding, Waiting
    <2>5. CASE RecvMisaligned(c)
        <3>1. pc[c] \in Holding /\ "astray" \in Holding
            BY <2>5 DEF RecvMisaligned, Holding, Waiting
        <3>2. QED BY <2>1, <2>5, <3>1, HoldMutex DEF RecvMisaligned
    <2>6. QED BY <1>3, <2>2, <2>3, <2>4, <2>5 DEF ClientStep
<1>4. CASE \/ SrvStep \/ VfsPanic \/ LinkDown \/ Reconnect
           \/ Terminated \/ UNCHANGED vars
    <2>1. pc' = pc /\ queue' = queue
        BY <1>4 DEF SrvStep, SrvRecvLen, SrvRecvBody, SrvHandle, SrvSendLen,
            SrvSendBody, SrvEnd, SrvMisaligned, VfsPanic, LinkDown, Reconnect, Terminated,
            vars, clientVars
    <2>2. QED BY <2>1 DEF MutexOK
<1>5. QED BY <1>1, <1>2, <1>3, <1>4 DEF Next

\* One caller at a time is in the critical section, and no caller waits for a
\* mutex that is free.
THEOREM MutexCorrect == Spec => []MutexOK
BY TypeCorrect, InitMutex, NextMutex, PTL DEF Spec

-------------------------------------------------------------------------------
\* The version gate.

\* What may be asked of, and answered by, a host of this version.
Allowed  == {r \in Request : r # Hello => srvVersion = MyVersion}
Greeting == {m \in Reply : m.op = "Hello" => m.val = srvVersion}

GateInv ==
    /\ session = "ready" => srvVersion = MyVersion
    /\ req \in [Caller -> Allowed \union {None}]
    /\ c2s \in Seq(ChunkOf(Allowed))
    /\ srv \in {"handle", "wlen", "wbody"} => cur \in ChunkOf(Allowed)
    /\ srv \in {"wlen", "wbody"} => reply \in Greeting
    /\ s2c \in Seq(ChunkOf(Greeting))

LEMMA GateClient ==
    ASSUME TypeOK, GateInv, NEW c \in Caller, ClientStep(c)
    PROVE  GateInv'
<1>1. /\ srvVersion' = srvVersion /\ cur' = cur /\ reply' = reply
      /\ req' = req /\ srv' = srv
    BY DEF ClientStep, EncodeError, SendLen, SendBody, WriteError, RecvLen,
        RecvOversize, RecvBody, RecvMisaligned, ReadEof, Finish, srvVars
<1>2. Allowed' = Allowed /\ Greeting' = Greeting
    BY <1>1 DEF Allowed, Greeting
<1>3. ASSUME NEW o, Finish(c, o), req[c] = Hello /\ o = MyVersion => srvVersion = MyVersion,
             c2s' = c2s, s2c' \in Seq(ChunkOf(Greeting))
      PROVE  GateInv'
    BY <1>1, <1>2, <1>3 DEF GateInv, Finish
<1>4. ASSUME session' = session,
             c2s' \in Seq(ChunkOf(Allowed)), s2c' \in Seq(ChunkOf(Greeting))
      PROVE  GateInv'
    BY <1>1, <1>2, <1>4 DEF GateInv
<1>5. Err # MyVersion
    BY ConstantAssumption
<1>6. CASE EncodeError(c) \/ WriteError(c) \/ ReadEof(c)
    BY <1>3, <1>5, <1>6 DEF EncodeError, WriteError, ReadEof, GateInv
<1>7. CASE SendLen(c)
    <2>1. Chunk("len", c, req[c]) \in ChunkOf(Allowed)
        BY <1>7 DEF SendLen, TypeOK, GateInv, Asked, Chunk, ChunkOf
    <2>2. QED BY <1>4, <1>7, <2>1, AppendProperties DEF SendLen, GateInv
<1>8. CASE SendBody(c)
    <2>1. Chunk("body", c, req[c]) \in ChunkOf(Allowed)
        BY <1>8 DEF SendBody, TypeOK, GateInv, Asked, Chunk, ChunkOf
    <2>2. QED BY <1>4, <1>8, <2>1, AppendProperties DEF SendBody, GateInv
<1>9. CASE RecvLen(c)
    BY <1>4, <1>9, PipeHead DEF RecvLen, HasLen, GateInv
<1>10. CASE RecvOversize(c)
    <2>1. s2c' \in Seq(ChunkOf(Greeting))
        BY <1>10, PipeHead DEF RecvOversize, HasLen, GateInv
    <2>2. Finish(c, Err) /\ c2s' = c2s
        BY <1>10 DEF RecvOversize
    <2>3. QED BY <1>3, <1>5, <2>1, <2>2
<1>11. CASE RecvBody(c)
    <2> DEFINE m == Head(s2c).msg
    <2>1. s2c' \in Seq(ChunkOf(Greeting)) /\ Head(s2c) \in ChunkOf(Greeting)
        BY <1>11, PipeHead DEF RecvBody, HasBody, GateInv
    <2>2. m \in Greeting
        BY <2>1 DEF ChunkOf
    <2>3. req[c] = Hello /\ Outcome(req[c], m) = MyVersion => srvVersion = MyVersion
        BY <1>5, <2>2, HelloOp DEF Outcome, Greeting
    <2>4. Finish(c, Outcome(req[c], m)) /\ c2s' = c2s
        BY <1>11 DEF RecvBody
    <2>5. QED BY <1>3, <2>1, <2>3, <2>4
<1>12. CASE RecvMisaligned(c)
    <2>1. s2c' \in Seq(ChunkOf(Greeting)) /\ c2s' = c2s
        <3>1. s2c \in Seq(ChunkOf(Greeting)) /\ <<>> \in Seq(ChunkOf(Greeting))
            BY DEF GateInv
        <3>2. QED BY <1>12, <3>1, RestType DEF RecvMisaligned
    <2>2. ASSUME NEW o \in Garbled(req[c]), Finish(c, o)
          PROVE  GateInv'
        <3>1. req[c] = Hello => o = Err
            BY <2>2 DEF Garbled
        <3>2. QED BY <1>3, <1>5, <2>1, <2>2, <3>1
    <2>3. CASE session' = session
        BY <1>4, <2>1, <2>3 DEF GateInv
    <2>4. QED BY <1>12, <2>2, <2>3 DEF RecvMisaligned
<1>13. QED
    BY <1>6, <1>7, <1>8, <1>9, <1>10, <1>11, <1>12 DEF ClientStep

LEMMA GateServer ==
    ASSUME TypeOK, GateInv, SrvStep \/ VfsPanic
    PROVE  GateInv'
<1>1. srvVersion' = srvVersion /\ session' = session /\ req' = req
    BY DEF SrvStep, SrvRecvLen, SrvRecvBody, SrvHandle, SrvSendLen, SrvSendBody,
        SrvEnd, SrvMisaligned, VfsPanic, clientVars
<1>2. Allowed' = Allowed /\ Greeting' = Greeting
    BY <1>1 DEF Allowed, Greeting
<1>3. ASSUME c2s' \in Seq(ChunkOf(Allowed)), s2c' \in Seq(ChunkOf(Greeting)),
             srv' \in {"handle", "wlen", "wbody"} => cur' \in ChunkOf(Allowed),
             srv' \in {"wlen", "wbody"} => reply' \in Greeting
      PROVE  GateInv'
    BY <1>1, <1>2, <1>3 DEF GateInv
<1>4. CASE SrvRecvLen
    BY <1>3, <1>4, PipeHead DEF SrvRecvLen, HasLen, GateInv
<1>5. CASE SrvRecvBody
    BY <1>3, <1>5, PipeHead DEF SrvRecvBody, HasBody, GateInv
<1>6. CASE SrvHandle
    <2>1. reply' \in Reply /\ cur \in ChunkOf(Request)
        BY <1>6, SrvStepType DEF SrvStep, TypeOK, SrvHandle
    <2>2. reply' \in Greeting
        <3>1. CASE cur.msg = Hello
            BY <1>6, <2>1, <3>1 DEF SrvHandle, Greeting
        <3>2. CASE cur.msg # Hello
            <4>1. cur.msg \in FsRequest
                BY <2>1, <3>2 DEF ChunkOf, Request
            <4>2. QED
                BY <1>6, <2>1, <3>2, <4>1, ConstantAssumption DEF SrvHandle, Greeting
        <3>3. QED BY <3>1, <3>2
    <2>3. QED BY <1>3, <1>6, <2>2 DEF SrvHandle, GateInv, wireVars
<1>7. CASE SrvSendLen
    <2>1. Chunk("len", cur.by, reply) \in ChunkOf(Greeting)
        BY <1>7 DEF SrvSendLen, TypeOK, GateInv, Chunk, ChunkOf
    <2>2. QED BY <1>3, <1>7, <2>1, AppendProperties DEF SrvSendLen, GateInv
<1>8. CASE SrvSendBody
    <2>1. Chunk("body", cur.by, reply) \in ChunkOf(Greeting)
        BY <1>8 DEF SrvSendBody, TypeOK, GateInv, Chunk, ChunkOf
    <2>2. QED BY <1>3, <1>8, <2>1, AppendProperties DEF SrvSendBody, GateInv
<1>9. CASE SrvEnd
    BY <1>3, <1>9 DEF SrvEnd, GateInv, wireVars
<1>10. CASE VfsPanic
    BY <1>3, <1>10, CutType DEF VfsPanic, GoDown, GateInv
<1>11. CASE SrvMisaligned
    BY <1>3, <1>11, CutType, PipeHead DEF SrvMisaligned, GoDown, HasBody, GateInv
<1>12. QED
    BY <1>4, <1>5, <1>6, <1>7, <1>8, <1>9, <1>10, <1>11 DEF SrvStep

LEMMA NextGate == TypeOK /\ GateInv /\ [Next]_vars => GateInv'
<1> SUFFICES ASSUME TypeOK, GateInv, [Next]_vars PROVE GateInv'
    OBVIOUS
<1>1. ASSUME NEW c \in Caller, Connect(c)
      PROVE  GateInv'
    BY <1>1, HelloOp DEF Connect, GateInv, Allowed, Greeting, wireVars, srvVars
<1>2. ASSUME NEW c \in Caller, NEW r \in FsRequest, Call(c, r)
      PROVE  GateInv'
    BY <1>2 DEF Call, GateInv, Allowed, Greeting, Request, wireVars, srvVars
<1>3. ASSUME NEW c \in Caller, ClientStep(c)
      PROVE  GateInv'
    BY <1>3, GateClient
<1>4. CASE SrvStep \/ VfsPanic
    BY <1>4, GateServer
<1>5. CASE LinkDown
    BY <1>5, CutType DEF LinkDown, GoDown, GateInv, Allowed, Greeting, clientVars, srvVars
<1>6. CASE Reconnect
    BY <1>6 DEF Reconnect, GateInv, Allowed, Greeting, clientVars
<1>7. CASE Terminated \/ UNCHANGED vars
    BY <1>7 DEF Terminated, GateInv, Allowed, Greeting, vars, clientVars, wireVars, srvVars
<1>8. QED BY <1>1, <1>2, <1>3, <1>4, <1>5, <1>6, <1>7 DEF Next

\* A host that speaks another version executes no file system request, even
\* when a reply overflows a frame and the client misreads the stream.
THEOREM VersionGateCorrect == Spec => []VersionGate
<1>1. Init => GateInv
    BY DEF Init, GateInv
<1>2. TypeOK /\ GateInv => VersionGate
    BY DEF TypeOK, GateInv, VersionGate, Allowed, ChunkOf
<1>3. QED BY <1>1, <1>2, TypeCorrect, NextGate, PTL DEF Spec
===============================================================================
