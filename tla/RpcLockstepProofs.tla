-------------------------- MODULE RpcLockstepProofs --------------------------
(* Positional correlation is sound: as long as no reply overflows a frame,    *)
(* client and server stay in lockstep whatever happens to the link, so every  *)
(* answer a call returns is its own, no call fails for another's sake, and    *)
(* the connection implements VfsService: a call takes effect at most once.    *)
EXTENDS RpcChannelProofs

-------------------------------------------------------------------------------
\* Pipes of at most two chunks.

LEMMA PipeFacts ==
    ASSUME NEW x, NEW y
    PROVE  /\ Append(<<>>, x) = <<x>> /\ Append(<<x>>, y) = <<x, y>>
           /\ Head(<<x>>) = x /\ Tail(<<x>>) = <<>> /\ <<x>> # <<>>
           /\ Head(<<x, y>>) = x /\ Tail(<<x, y>>) = <<y>> /\ <<x, y>> # <<>>
<1> DEFINE S == {x, y}
<1>1. <<>> \in Seq(S) /\ <<x>> \in Seq(S) /\ <<y>> \in Seq(S) /\ <<x, y>> \in Seq(S)
    OBVIOUS
<1>2. Len(<<>>) = 0 /\ Len(<<x>>) = 1 /\ Len(<<y>>) = 1 /\ Len(<<x, y>>) = 2
    OBVIOUS
<1>3. <<x>>[1] = x /\ <<y>>[1] = y /\ <<x, y>>[1] = x /\ <<x, y>>[2] = y
    OBVIOUS
<1>4. <<x>> # <<>> /\ <<x, y>> # <<>>
    BY <1>2
<1>5. Append(<<>>, x) = <<x>>
    OBVIOUS
<1>6. Append(<<x>>, y) = <<x, y>>
    <2>1. /\ Append(<<x>>, y) \in Seq(S) /\ Len(Append(<<x>>, y)) = 2
          /\ Append(<<x>>, y)[1] = x /\ Append(<<x>>, y)[2] = y
        BY <1>1, <1>2, <1>3, AppendProperties
    <2>2. \A i \in 1..2 : Append(<<x>>, y)[i] = <<x, y>>[i]
        <3>1. 1..2 = {1, 2}
            OBVIOUS
        <3>2. QED BY <1>3, <2>1, <3>1
    <2>3. QED BY <1>1, <1>2, <2>1, <2>2, SeqEqual
<1>7. Head(<<x>>) = x /\ Head(<<x, y>>) = x
    OBVIOUS
<1>8. Tail(<<x>>) = <<>>
    <2>1. Tail(<<x>>) \in Seq(S) /\ Len(Tail(<<x>>)) = 0
        BY <1>1, <1>2, <1>4, HeadTailProperties
    <2>2. QED BY <2>1, EmptySeq
<1>9. Tail(<<x, y>>) = <<y>>
    <2>1. /\ Tail(<<x, y>>) \in Seq(S) /\ Len(Tail(<<x, y>>)) = 1
          /\ Tail(<<x, y>>)[1] = y
        BY <1>1, <1>2, <1>3, <1>4, HeadTailProperties
    <2>2. QED BY <1>1, <1>2, <1>3, <2>1, SeqEqual
<1>10. QED BY <1>4, <1>5, <1>6, <1>7, <1>8, <1>9

LEMMA CutFacts ==
    ASSUME NEW x, NEW y
    PROVE  /\ Cut(<<>>) = {<<>>}
           /\ Cut(<<x>>) = {<<>>, <<x>>}
           /\ Cut(<<x, y>>) = {<<>>, <<x>>, <<x, y>>}
<1> DEFINE S == {x, y}
<1>1. 0..0 = {0} /\ 0..1 = {0, 1} /\ 0..2 = {0, 1, 2}
    OBVIOUS
<1>2. \A s : SubSeq(s, 1, 0) = <<>>
    BY SubSeqEmpty
<1>3. <<>> \in Seq(S) /\ <<x>> \in Seq(S) /\ <<x, y>> \in Seq(S)
    OBVIOUS
<1>4. /\ Len(<<>>) = 0 /\ Len(<<x>>) = 1 /\ Len(<<x, y>>) = 2
      /\ <<x>>[1] = x /\ <<x, y>>[1] = x
    OBVIOUS
<1>5. SubSeq(<<x>>, 1, 1) = <<x>> /\ SubSeq(<<x, y>>, 1, 2) = <<x, y>>
    BY <1>3, <1>4, SubSeqFull
<1>6. SubSeq(<<x, y>>, 1, 1) = <<x>>
    <2>1. \A i \in 1..1 : <<x, y>>[i] \in S
        BY <1>4
    <2>2. /\ SubSeq(<<x, y>>, 1, 1) \in Seq(S) /\ Len(SubSeq(<<x, y>>, 1, 1)) = 1
          /\ SubSeq(<<x, y>>, 1, 1)[1] = x
        BY <1>4, <2>1, SubSeqProperties
    <2>3. \A i \in 1..1 : SubSeq(<<x, y>>, 1, 1)[i] = <<x>>[i]
        BY <1>4, <2>2
    <2>4. QED BY <1>3, <1>4, <2>2, <2>3, SeqEqual
<1>7. Cut(<<>>) = {<<>>}
    BY <1>1, <1>2, <1>4 DEF Cut
<1>8. Cut(<<x>>) = {<<>>, <<x>>}
    <2>1. Cut(<<x>>) = {SubSeq(<<x>>, 1, k) : k \in {0, 1}}
        BY <1>1, <1>4 DEF Cut
    <2>2. QED BY <1>2, <1>5, <2>1
<1>9. Cut(<<x, y>>) = {<<>>, <<x>>, <<x, y>>}
    <2>1. Cut(<<x, y>>) = {SubSeq(<<x, y>>, 1, k) : k \in {0, 1, 2}}
        BY <1>1, <1>4 DEF Cut
    <2>2. QED BY <1>2, <1>5, <1>6, <2>1
<1>10. QED BY <1>7, <1>8, <1>9

\* The same facts about a pipe of one chunk.
LEMMA OneFacts ==
    ASSUME NEW x
    PROVE  /\ Append(<<>>, x) = <<x>> /\ Head(<<x>>) = x /\ Tail(<<x>>) = <<>> /\ <<x>> # <<>>
           /\ Cut(<<>>) = {<<>>} /\ Cut(<<x>>) = {<<>>, <<x>>}
BY PipeFacts, CutFacts

LEMMA ChunkFacts ==
    ASSUME NEW c, NEW m
    PROVE  /\ Chunk("len", c, m).part = "len" /\ Chunk("body", c, m).part = "body"
           /\ Chunk("body", c, m).by = c
           /\ Chunk("len", c, m).msg = m /\ Chunk("body", c, m).msg = m
BY DEF Chunk

-------------------------------------------------------------------------------
\* One caller at most has something on the wire.

Engaged(c) == pc[c] \in {"wbody", "rlen", "rbody", "astray"}

\* To re-establish Lockstep when c is the only caller that may be engaged.
LEMMA LockstepOf ==
    ASSUME NEW c \in Caller,
           \A d \in Caller : d # c => ~Engaged(d)', pc'[c] # "astray",
           pc'[c] = "wbody" => HalfAsked(c)',
           pc'[c] = "rlen" => AwaitsLen(c)',
           pc'[c] = "rbody" => AwaitsBody(c)',
           ~Engaged(c)' => s2c' = <<>> /\ (link' = "up" => c2s' = <<>> /\ srv' = "rlen")
    PROVE  Lockstep'
BY DEF Lockstep, Engaged

\* Nobody has been led astray.
LEMMA NotAstray ==
    ASSUME Lockstep
    PROVE  \A c \in Caller : pc[c] # "astray"
BY DEF Lockstep

LEMMA OnlyOne ==
    ASSUME MutexOK, NEW c \in Caller, pc[c] \in Holding
    PROVE  \A d \in Caller : d # c => ~Engaged(d)
BY DEF MutexOK, Engaged, Holding, Waiting

\* Leaving the critical section leaves nobody engaged.
LEMMA UnlockEngaged ==
    ASSUME TypeOK, MutexOK, NEW c \in Caller, pc[c] \in Holding, Unlock(c)
    PROVE  \A d \in Caller : ~Engaged(d)'
<1>1. \A d \in Caller : d # c => ~Engaged(d)
    BY OnlyOne
<1>2. pc \in [Caller -> PcState]
    BY DEF TypeOK
<1>3. CASE queue = <<>>
    BY <1>1, <1>2, <1>3 DEF Unlock, Engaged
<1>4. CASE queue # <<>>
    BY <1>1, <1>2, <1>4 DEF Unlock, Engaged
<1>5. QED BY <1>3, <1>4

\* The end of a call that leaves no reply behind.
LEMMA FinishLockstep ==
    ASSUME TypeOK, MutexOK, NEW c \in Caller, NEW o, pc[c] \in Holding, Finish(c, o),
           s2c' = <<>>, link = "up" => c2s' = <<>> /\ srv = "rlen"
    PROVE  Lockstep'
<1>1. \A d \in Caller : ~Engaged(d)'
    BY UnlockEngaged DEF Finish
<1>2. srv' = srv /\ (link' = "up" => link = "up")
    BY DEF Finish, srvVars, TypeOK
<1>3. QED BY <1>1, <1>2 DEF Lockstep, Engaged

-------------------------------------------------------------------------------
\* The client's steps.

\* What c can find in front of it when it reads.
LEMMA AwaitsLenPipe ==
    ASSUME NEW c \in Caller, AwaitsLen(c), s2c # <<>>
    PROVE  \E m : /\ Owed(c, m) /\ m \in Reply \union {reply}
                  /\ \/ s2c = <<Chunk("len", c, m)>>
                     \/ s2c = Frame(c, m) /\ srv # "wbody"
                  /\ c2s = <<>> \/ (srv = "done" /\ link = "down")
<1>1. CASE srv = "wbody" /\ Serving(c) /\ Holds(s2c, <<Chunk("len", c, reply)>>)
    <2>1. s2c = <<Chunk("len", c, reply)>>
        BY <1>1, OneFacts DEF Holds
    <2>2. QED BY <1>1, <2>1 DEF Serving
<1>2. CASE srv = "rlen" /\ c2s = <<>> /\ \E m \in Reply : Owed(c, m) /\ Holds(s2c, Frame(c, m))
    <2>1. PICK m \in Reply : Owed(c, m) /\ Holds(s2c, Frame(c, m))
        BY <1>2
    <2>2. s2c = <<Chunk("len", c, m)>> \/ s2c = Frame(c, m)
        BY <2>1, CutFacts DEF Holds, Frame
    <2>3. QED BY <1>2, <2>1, <2>2
<1>3. CASE srv = "done" /\ link = "down" /\ \E m \in Reply : Owed(c, m) /\ s2c \in Cut(Frame(c, m))
    <2>1. PICK m \in Reply : Owed(c, m) /\ s2c \in Cut(Frame(c, m))
        BY <1>3
    <2>2. s2c = <<Chunk("len", c, m)>> \/ s2c = Frame(c, m)
        BY <2>1, CutFacts DEF Frame
    <2>3. QED BY <1>3, <2>1, <2>2
<1>4. QED BY <1>1, <1>2, <1>3 DEF AwaitsLen

\* While it waits for a length, c never sees a body.
LEMMA NeverMisaligned ==
    ASSUME NEW c \in Caller, AwaitsLen(c)
    PROVE  ~HasBody(s2c)
<1>1. SUFFICES ASSUME s2c # <<>> PROVE Head(s2c).part = "len"
    BY <1>1 DEF HasBody
<1>2. PICK m : s2c = <<Chunk("len", c, m)>> \/ s2c = Frame(c, m)
    BY <1>1, AwaitsLenPipe
<1>3. QED BY <1>2, OneFacts, PipeFacts, ChunkFacts DEF Frame

\* So it never misreads the stream.
LEMMA NeverMisread ==
    ASSUME Lockstep, NEW c \in Caller
    PROVE  ~RecvMisaligned(c)
BY NeverMisaligned DEF RecvMisaligned, Lockstep

LEMMA AwaitsBodyPipe ==
    ASSUME NEW c \in Caller, AwaitsBody(c), s2c # <<>>
    PROVE  /\ \E m \in Reply : Owed(c, m) /\ s2c = <<Chunk("body", c, m)>>
           /\ link = "up" => c2s = <<>> /\ srv = "rlen"
<1>1. CASE srv = "rlen" /\ c2s = <<>>
           /\ \E m \in Reply : Owed(c, m) /\ Holds(s2c, <<Chunk("body", c, m)>>)
    <2>1. PICK m \in Reply : Owed(c, m) /\ Holds(s2c, <<Chunk("body", c, m)>>)
        BY <1>1
    <2>2. s2c = <<Chunk("body", c, m)>>
        BY <2>1, OneFacts DEF Holds
    <2>3. QED BY <1>1, <2>1, <2>2
<1>2. CASE srv = "done" /\ link = "down"
           /\ \E m \in Reply : Owed(c, m) /\ s2c = <<Chunk("body", c, m)>>
    BY <1>2
<1>3. QED BY <1>1, <1>2 DEF AwaitsBody

\* c takes the length of its reply off the stream.
LEMMA RecvLenLockstep ==
    ASSUME TypeOK, MutexOK, Lockstep, NEW c \in Caller, RecvLen(c)
    PROVE  Lockstep'
<1>1. /\ pc[c] = "rlen" /\ s2c # <<>> /\ s2c' = Tail(s2c) /\ pc' = [pc EXCEPT ![c] = "rbody"]
      /\ UNCHANGED <<c2s, link, srv, cur, reply, req, answer, srvVersion>>
    BY DEF RecvLen, HasLen, srvVars
<1>2. AwaitsLen(c)
    BY <1>1 DEF Lockstep
<1>3. \A d \in Caller : d # c => ~Engaged(d)'
    BY <1>1, OnlyOne DEF Engaged, Holding, Waiting, TypeOK
<1>4. pc'[c] = "rbody"
    BY <1>1 DEF TypeOK
<1>5. ASSUME NEW m, Owed(c, m) PROVE Owed(c, m)'
    BY <1>1, <1>5 DEF Owed
<1>6. AwaitsBody(c)'
    <2>1. CASE srv = "wbody" /\ Serving(c) /\ Holds(s2c, <<Chunk("len", c, reply)>>)
        <3>1. s2c' = <<>>
            <4>1. s2c = <<Chunk("len", c, reply)>>
                BY <1>1, <2>1, OneFacts DEF Holds
            <4>2. QED BY <1>1, <4>1, OneFacts
        <3>2. Serving(c)'
            BY <1>1, <1>5, <2>1 DEF Serving
        <3>3. QED BY <1>1, <2>1, <3>1, <3>2 DEF AwaitsBody
    <2>2. CASE srv = "rlen" /\ c2s = <<>>
               /\ \E m \in Reply : Owed(c, m) /\ Holds(s2c, Frame(c, m))
        <3>1. PICK m \in Reply : Owed(c, m) /\ Holds(s2c, Frame(c, m))
            BY <2>2
        <3>2. Holds(s2c, <<Chunk("body", c, m)>>)'
            <4>1. \/ s2c = Frame(c, m)
                  \/ link = "down" /\ s2c = <<Chunk("len", c, m)>>
                BY <1>1, <3>1, CutFacts DEF Holds, Frame
            <4>2. Tail(Frame(c, m)) = <<Chunk("body", c, m)>>
                BY PipeFacts DEF Frame
            <4>3. Tail(<<Chunk("len", c, m)>>) = <<>>
                BY OneFacts
            <4>4. <<>> \in Cut(<<Chunk("body", c, m)>>)
                BY OneFacts
            <4>5. QED BY <1>1, <4>1, <4>2, <4>3, <4>4 DEF Holds, Chunk
        <3>3. Owed(c, m)'
            BY <1>5, <3>1
        <3>4. QED BY <1>1, <2>2, <3>2, <3>3 DEF AwaitsBody
    <2>3. CASE srv = "done" /\ link = "down"
               /\ \E m \in Reply : Owed(c, m) /\ s2c \in Cut(Frame(c, m))
        <3>1. PICK m \in Reply : Owed(c, m) /\ s2c \in Cut(Frame(c, m))
            BY <2>3
        <3>2. s2c' = <<>> \/ s2c' = <<Chunk("body", c, m)>>
            <4>1. s2c = Frame(c, m) \/ s2c = <<Chunk("len", c, m)>>
                BY <1>1, <3>1, CutFacts DEF Frame
            <4>2. Tail(Frame(c, m)) = <<Chunk("body", c, m)>>
                BY PipeFacts DEF Frame
            <4>3. Tail(<<Chunk("len", c, m)>>) = <<>>
                BY OneFacts
            <4>4. QED BY <1>1, <4>1, <4>2, <4>3
        <3>3. Owed(c, m)'
            BY <1>5, <3>1
        <3>4. QED BY <1>1, <2>3, <3>2, <3>3 DEF AwaitsBody, Chunk
    <2>4. QED BY <1>1, <1>2, <2>1, <2>2, <2>3 DEF AwaitsLen
<1>7. QED BY <1>3, <1>4, <1>6, LockstepOf DEF Engaged

LEMMA ClientLockstep ==
    ASSUME Oversize = {}, TypeOK, MutexOK, Lockstep, NEW c \in Caller, ClientStep(c)
    PROVE  Lockstep'
<1>1. pc[c] \in Holding => \A d \in Caller : d # c => ~Engaged(d)
    BY OnlyOne
<1>2. CASE EncodeError(c)
    <2>1. pc[c] = "wlen" /\ Finish(c, Err) /\ UNCHANGED <<c2s, s2c>>
        BY <1>2 DEF EncodeError
    <2>2. s2c = <<>> /\ (link = "up" => c2s = <<>> /\ srv = "rlen")
        BY <1>1, <2>1 DEF Lockstep, Engaged, Holding
    <2>3. QED BY <2>1, <2>2, FinishLockstep DEF Holding
<1>3. CASE WriteError(c)
    <2>1. pc[c] \in {"wlen", "wbody"} /\ link = "down" /\ Finish(c, Err) /\ UNCHANGED <<c2s, s2c>>
        BY <1>3 DEF WriteError
    <2>2. s2c = <<>>
        BY <1>1, <2>1 DEF Lockstep, Engaged, Holding, HalfAsked
    <2>3. QED BY <2>1, <2>2, FinishLockstep DEF Holding
<1>4. CASE ReadEof(c)
    BY <1>4, FinishLockstep DEF ReadEof, Holding
<1>5. CASE RecvOversize(c)
    BY <1>5 DEF RecvOversize
<1>6. CASE RecvMisaligned(c)
    BY <1>6, NeverMisread
<1>7. CASE RecvBody(c)
    <2>1. /\ pc[c] = "rbody" /\ s2c # <<>> /\ s2c' = Tail(s2c) /\ c2s' = c2s
          /\ Finish(c, Outcome(req[c], Head(s2c).msg))
        BY <1>7 DEF RecvBody, HasBody
    <2>2. PICK m : s2c = <<Chunk("body", c, m)>>
        BY <2>1, AwaitsBodyPipe DEF Lockstep
    <2>3. s2c' = <<>>
        BY <2>1, <2>2, OneFacts, PipeFacts
    <2>4. link = "up" => c2s' = <<>> /\ srv = "rlen"
        BY <2>1, AwaitsBodyPipe DEF Lockstep
    <2>5. QED BY <2>1, <2>3, <2>4, FinishLockstep DEF Holding, Waiting
<1>8. CASE RecvLen(c)
    BY <1>8, RecvLenLockstep
<1>9. CASE SendLen(c)
    <2>1. /\ pc[c] = "wlen" /\ link = "up" /\ pc' = [pc EXCEPT ![c] = "wbody"]
          /\ c2s' = Append(c2s, Chunk("len", c, req[c]))
          /\ UNCHANGED <<s2c, link, srv, req>>
        BY <1>9 DEF SendLen, srvVars
    <2>2. \A d \in Caller : d # c => ~Engaged(d)'
        BY <1>1, <2>1 DEF Engaged, Holding, TypeOK
    <2>3. s2c = <<>> /\ c2s = <<>> /\ srv = "rlen"
        BY <1>1, <2>1 DEF Lockstep, Engaged, Holding
    <2>4. c2s' = <<Chunk("len", c, req[c])>>
        BY <2>1, <2>3, OneFacts, PipeFacts
    <2>5. HalfAsked(c)'
        BY <2>1, <2>3, <2>4 DEF HalfAsked, Holds, Chunk
    <2>6. pc'[c] = "wbody"
        BY <2>1 DEF TypeOK
    <2>7. QED BY <2>2, <2>5, <2>6, LockstepOf DEF Engaged
<1>10. CASE SendBody(c)
    <2>1. /\ pc[c] = "wbody" /\ link = "up" /\ pc' = [pc EXCEPT ![c] = "rlen"]
          /\ c2s' = Append(c2s, Chunk("body", c, req[c]))
          /\ UNCHANGED <<s2c, link, srv, req>>
        BY <1>10 DEF SendBody, srvVars
    <2>2. \A d \in Caller : d # c => ~Engaged(d)'
        BY <1>1, <2>1 DEF Engaged, Holding, TypeOK
    <2>3. HalfAsked(c)
        BY <2>1 DEF Lockstep
    <2>4. \/ srv = "rlen" /\ c2s' = Frame(c, req[c])
          \/ srv = "rbody" /\ c2s' = <<Chunk("body", c, req[c])>>
        <3>1. \/ srv = "rlen" /\ c2s = <<Chunk("len", c, req[c])>>
              \/ srv = "rbody" /\ c2s = <<>>
            BY <2>1, <2>3 DEF HalfAsked, Holds
        <3>2. Append(<<Chunk("len", c, req[c])>>, Chunk("body", c, req[c])) = Frame(c, req[c])
            BY PipeFacts DEF Frame
        <3>3. Append(<<>>, Chunk("body", c, req[c])) = <<Chunk("body", c, req[c])>>
            BY OneFacts
        <3>4. QED BY <2>1, <3>1, <3>2, <3>3
    <2>5. AwaitsLen(c)'
        BY <2>1, <2>3, <2>4 DEF AwaitsLen, HalfAsked, Holds, Frame, Chunk
    <2>6. pc'[c] = "rlen"
        BY <2>1 DEF TypeOK
    <2>7. QED BY <2>2, <2>5, <2>6, LockstepOf DEF Engaged
<1>11. QED
    BY <1>2, <1>3, <1>4, <1>5, <1>6, <1>7, <1>8, <1>9, <1>10 DEF ClientStep

-------------------------------------------------------------------------------
\* The server's steps.

\* Between calls the server of a live stream has nothing to do.
LEMMA IdleServer ==
    ASSUME TypeOK, Lockstep, \A d \in Caller : ~Engaged(d),
           SrvStep \/ VfsPanic \/ LinkDown
    PROVE  Lockstep'
<1>1. s2c = <<>> /\ (link = "up" => c2s = <<>> /\ srv = "rlen")
    BY DEF Lockstep, Engaged
<1>2. pc' = pc
    BY DEF SrvStep, SrvRecvLen, SrvRecvBody, SrvHandle, SrvSendLen, SrvSendBody,
        SrvEnd, SrvMisaligned, VfsPanic, LinkDown, clientVars
<1>3. link' = "down" /\ s2c' = <<>>
    <2>1. CASE SrvStep
        BY <1>1, <2>1, OneFacts DEF SrvStep, SrvRecvLen, SrvRecvBody, SrvHandle, SrvSendLen,
            SrvSendBody, SrvEnd, SrvMisaligned, GoDown, HasLen, HasBody, TypeOK, wireVars
    <2>2. CASE VfsPanic \/ LinkDown
        BY <1>1, <2>2, OneFacts DEF VfsPanic, LinkDown, GoDown
    <2>3. QED BY <2>1, <2>2
<1>4. QED BY <1>2, <1>3 DEF Lockstep, Engaged

\* During a call the server never takes a body for a length.
LEMMA ServerAligned ==
    ASSUME Lockstep, NEW c \in Caller, Engaged(c), srv = "rlen"
    PROVE  ~HasBody(c2s)
<1>1. CASE Holds(c2s, <<Chunk("len", c, req[c])>>)
    <2>1. c2s = <<Chunk("len", c, req[c])>> \/ c2s = <<>>
        BY <1>1, OneFacts DEF Holds
    <2>2. QED BY <2>1, OneFacts, ChunkFacts DEF HasBody
<1>2. CASE Holds(c2s, Frame(c, req[c]))
    <2>1. c2s = Frame(c, req[c]) \/ c2s = <<Chunk("len", c, req[c])>> \/ c2s = <<>>
        BY <1>2, CutFacts DEF Holds, Frame
    <2>2. QED BY <2>1, OneFacts, PipeFacts, ChunkFacts DEF HasBody, Frame
<1>3. CASE c2s = <<>>
    BY <1>3 DEF HasBody
<1>4. QED BY <1>1, <1>2, <1>3 DEF Lockstep, Engaged, HalfAsked, AwaitsLen, AwaitsBody

\* A server step with c engaged leaves only c engaged.
LEMMA StillEngaged ==
    ASSUME TypeOK, MutexOK, NEW c \in Caller, Engaged(c),
           SrvStep \/ VfsPanic \/ LinkDown
    PROVE  /\ pc' = pc /\ req' = req /\ srvVersion' = srvVersion
           /\ \A d \in Caller : d # c => ~Engaged(d)'
           /\ Engaged(c)'
<1>1. pc' = pc /\ req' = req /\ srvVersion' = srvVersion
    BY DEF SrvStep, SrvRecvLen, SrvRecvBody, SrvHandle, SrvSendLen, SrvSendBody,
        SrvEnd, SrvMisaligned, VfsPanic, LinkDown, clientVars, srvVars
<1>2. \A d \in Caller : d # c => ~Engaged(d)
    BY OnlyOne DEF Engaged, Holding, Waiting
<1>3. QED BY <1>1, <1>2 DEF Engaged

\* What a reply is owed for does not change while nothing is applied.
LEMMA OwedStays ==
    ASSUME NEW c \in Caller, NEW m, Owed(c, m),
           req' = req, srvVersion' = srvVersion, answer' = answer
    PROVE  Owed(c, m)'
BY DEF Owed

LEMMA ReadsLockstep ==
    ASSUME TypeOK, MutexOK, Lockstep, NEW c \in Caller, Engaged(c), SrvRecvLen \/ SrvRecvBody
    PROVE  Lockstep'
<1>1. /\ pc' = pc /\ req' = req /\ \A d \in Caller : d # c => ~Engaged(d)'
      /\ Engaged(c)'
    BY StillEngaged DEF SrvStep
<1>2. CASE SrvRecvLen
    <2>1. /\ srv = "rlen" /\ c2s # <<>> /\ Head(c2s).part = "len"
          /\ c2s' = Tail(c2s) /\ srv' = "rbody" /\ s2c' = s2c /\ link' = link
        BY <1>2 DEF SrvRecvLen, HasLen
    <2>2. ASSUME pc[c] = "wbody" PROVE HalfAsked(c)'
        <3>1. s2c = <<>> /\ Holds(c2s, <<Chunk("len", c, req[c])>>)
            BY <2>1, <2>2 DEF Lockstep, HalfAsked
        <3>2. c2s = <<Chunk("len", c, req[c])>>
            BY <2>1, <3>1, OneFacts DEF Holds
        <3>3. c2s' = <<>>
            BY <2>1, <3>2, OneFacts
        <3>4. QED BY <2>1, <3>1, <3>3 DEF HalfAsked
    <2>3. ASSUME pc[c] = "rlen" PROVE AwaitsLen(c)'
        <3>1. s2c = <<>> /\ Holds(c2s, Frame(c, req[c]))
            BY <2>1, <2>3 DEF Lockstep, AwaitsLen
        <3>2. \/ c2s = Frame(c, req[c])
              \/ link = "down" /\ c2s = <<Chunk("len", c, req[c])>>
            BY <2>1, <3>1, CutFacts DEF Holds, Frame
        <3>3. Tail(Frame(c, req[c])) = <<Chunk("body", c, req[c])>>
            BY PipeFacts DEF Frame
        <3>4. Tail(<<Chunk("len", c, req[c])>>) = <<>>
            BY OneFacts
        <3>5. <<>> \in Cut(<<Chunk("body", c, req[c])>>)
            BY OneFacts
        <3>6. Holds(c2s, <<Chunk("body", c, req[c])>>)'
            BY <1>1, <2>1, <3>2, <3>3, <3>4, <3>5 DEF Holds, Chunk
        <3>7. QED BY <2>1, <3>1, <3>6 DEF AwaitsLen
    <2>4. pc[c] # "rbody"
        BY <2>1 DEF Lockstep, AwaitsBody
    <2>5. QED BY <1>1, <2>2, <2>3, <2>4, NotAstray, LockstepOf DEF Engaged
<1>3. CASE SrvRecvBody
    <2>1. /\ srv = "rbody" /\ c2s # <<>> /\ Head(c2s).part = "body" /\ cur' = Head(c2s)
          /\ c2s' = Tail(c2s) /\ srv' = "handle" /\ s2c' = s2c /\ link' = link
        BY <1>3 DEF SrvRecvBody, HasBody
    <2>2. pc[c] # "wbody" /\ pc[c] # "rbody"
        BY <2>1 DEF Lockstep, HalfAsked, AwaitsBody
    <2>3. pc[c] = "rlen"
        BY <2>2, NotAstray DEF Engaged
    <2>4. s2c = <<>> /\ Holds(c2s, <<Chunk("body", c, req[c])>>)
        BY <2>1, <2>3 DEF Lockstep, AwaitsLen
    <2>5. c2s = <<Chunk("body", c, req[c])>>
        BY <2>1, <2>4, OneFacts DEF Holds
    <2>6. c2s' = <<>> /\ cur' = Chunk("body", c, req[c])
        BY <2>1, <2>5, OneFacts
    <2>7. AwaitsLen(c)'
        BY <1>1, <2>1, <2>4, <2>6 DEF AwaitsLen, Chunk
    <2>8. QED BY <1>1, <2>3, <2>7, LockstepOf DEF Engaged
<1>4. QED BY <1>2, <1>3

\* The request served is c's own, and the reply answers it.
LEMMA HandleLockstep ==
    ASSUME TypeOK, MutexOK, Lockstep, NEW c \in Caller, Engaged(c), SrvHandle
    PROVE  Lockstep'
<1>1. /\ pc' = pc /\ req' = req /\ \A d \in Caller : d # c => ~Engaged(d)'
      /\ Engaged(c)' /\ srvVersion' = srvVersion
    BY StillEngaged DEF SrvStep
<1>2. srv = "handle" /\ srv' = "wlen" /\ cur' = cur /\ c2s' = c2s /\ s2c' = s2c
    BY DEF SrvHandle, wireVars
<1>3. pc[c] = "rlen"
    BY <1>2 DEF Lockstep, HalfAsked, AwaitsBody, Engaged
<1>4. c2s = <<>> /\ s2c = <<>> /\ cur = Chunk("body", c, req[c])
    BY <1>2, <1>3 DEF Lockstep, AwaitsLen
<1>5. cur.by = c /\ cur.msg = req[c]
    BY <1>4, ChunkFacts
<1>6. Owed(c, reply)'
    <2>1. CASE req[c] = Hello
        BY <1>1, <1>5, <2>1, HelloOp DEF SrvHandle, Owed
    <2>2. CASE req[c] # Hello
        <3>1. /\ reply' = [op |-> req[c].op, val |-> Answer(req[c], vfs)]
              /\ answer' = [answer EXCEPT ![c] = Answer(req[c], vfs)]
            BY <1>3, <1>5, <2>2 DEF SrvHandle, Applied, Waiting
        <3>2. answer'[c] = Answer(req[c], vfs)
            BY <3>1 DEF TypeOK
        <3>3. Answer(req[c], vfs) # None
            <4>1. req[c] \in FsRequest /\ vfs \in Vfs
                BY <1>3, <2>2 DEF TypeOK, Asked, Request
            <4>2. QED BY <4>1, VfsAssumption, ConstantAssumption
        <3>4. QED BY <1>1, <2>2, <3>1, <3>2, <3>3 DEF Owed
    <2>3. QED BY <2>1, <2>2
<1>7. AwaitsLen(c)'
    BY <1>2, <1>4, <1>5, <1>6 DEF AwaitsLen, Serving
<1>8. QED BY <1>1, <1>3, <1>7, LockstepOf DEF Engaged

LEMMA WritesLockstep ==
    ASSUME TypeOK, MutexOK, Lockstep, NEW c \in Caller, Engaged(c), SrvSendLen \/ SrvSendBody
    PROVE  Lockstep'
<1>1. /\ pc' = pc /\ req' = req /\ \A d \in Caller : d # c => ~Engaged(d)'
      /\ Engaged(c)' /\ srvVersion' = srvVersion
    BY StillEngaged DEF SrvStep
<1>2. /\ link = "up" /\ link' = link /\ c2s' = c2s /\ cur' = cur /\ reply' = reply
      /\ answer' = answer /\ srv \in {"wlen", "wbody"}
    BY DEF SrvSendLen, SrvSendBody
<1>3. pc[c] \in {"rlen", "rbody"} /\ Serving(c)
    BY <1>2 DEF Lockstep, HalfAsked, AwaitsLen, AwaitsBody, Engaged
<1>4. cur.by = c /\ c2s = <<>> /\ Owed(c, reply)
    BY <1>3 DEF Serving
<1>5. Owed(c, reply)' /\ Serving(c)'
    BY <1>1, <1>2, <1>4 DEF Owed, Serving
<1>6. CASE SrvSendLen
    <2>1. srv = "wlen" /\ srv' = "wbody" /\ s2c' = Append(s2c, Chunk("len", c, reply))
        BY <1>4, <1>6 DEF SrvSendLen
    <2>2. pc[c] = "rlen" /\ s2c = <<>>
        BY <1>3, <2>1 DEF Lockstep, AwaitsLen, AwaitsBody
    <2>3. s2c' = <<Chunk("len", c, reply)>>
        BY <2>1, <2>2, OneFacts
    <2>4. AwaitsLen(c)'
        BY <1>2, <1>5, <2>1, <2>3 DEF AwaitsLen, Holds, Chunk
    <2>5. QED BY <1>1, <2>2, <2>4, LockstepOf DEF Engaged
<1>7. CASE SrvSendBody
    <2>1. srv = "wbody" /\ srv' = "rlen" /\ s2c' = Append(s2c, Chunk("body", c, reply))
        BY <1>4, <1>7 DEF SrvSendBody
    <2>2. reply \in Reply
        BY <2>1 DEF TypeOK
    <2>3. ASSUME pc[c] = "rlen" PROVE AwaitsLen(c)'
        <3>1. s2c = <<Chunk("len", c, reply)>>
            BY <1>2, <2>1, <2>3 DEF Lockstep, AwaitsLen, Holds
        <3>2. s2c' = Frame(c, reply)
            BY <2>1, <3>1, PipeFacts DEF Frame
        <3>3. Holds(s2c, Frame(c, reply))'
            BY <1>2, <3>2 DEF Holds, Frame, Chunk
        <3>4. QED BY <1>2, <1>4, <1>5, <2>1, <2>2, <3>3 DEF AwaitsLen
    <2>4. ASSUME pc[c] = "rbody" PROVE AwaitsBody(c)'
        <3>1. s2c = <<>>
            BY <1>2, <2>1, <2>4 DEF Lockstep, AwaitsBody
        <3>2. s2c' = <<Chunk("body", c, reply)>>
            BY <2>1, <3>1, OneFacts
        <3>3. Holds(s2c, <<Chunk("body", c, reply)>>)'
            BY <1>2, <3>2 DEF Holds, Chunk
        <3>4. QED BY <1>2, <1>4, <1>5, <2>1, <2>2, <3>3 DEF AwaitsBody
    <2>5. QED BY <1>1, <1>3, <2>3, <2>4, LockstepOf DEF Engaged
<1>8. QED BY <1>6, <1>7

-------------------------------------------------------------------------------
\* The end of the stream.

LEMMA EndLockstep ==
    ASSUME TypeOK, MutexOK, Lockstep, NEW c \in Caller, Engaged(c), SrvEnd
    PROVE  Lockstep'
<1>1. /\ pc' = pc /\ req' = req /\ \A d \in Caller : d # c => ~Engaged(d)'
      /\ Engaged(c)' /\ srvVersion' = srvVersion
    BY StillEngaged DEF SrvStep
<1>2. /\ link = "down" /\ link' = "down" /\ srv' = "done" /\ c2s' = c2s /\ s2c' = s2c
      /\ srv \in {"rlen", "rbody", "wlen", "wbody"} /\ answer' = answer /\ reply' = reply
    BY DEF SrvEnd, wireVars
<1>3. ASSUME NEW m, Owed(c, m) PROVE Owed(c, m)'
    BY <1>1, <1>2, <1>3, OwedStays
<1>4. ASSUME pc[c] = "wbody" PROVE HalfAsked(c)'
    BY <1>2, <1>4 DEF Lockstep, HalfAsked
<1>5. ASSUME pc[c] = "rlen" PROVE AwaitsLen(c)'
    <2>1. CASE s2c = <<>>
        BY <1>2, <2>1 DEF AwaitsLen
    <2>2. CASE s2c # <<>>
        <3>1. AwaitsLen(c)
            BY <1>5 DEF Lockstep
        <3>2. PICK m : /\ Owed(c, m) /\ m \in Reply \union {reply}
                       /\ s2c = <<Chunk("len", c, m)>> \/ s2c = Frame(c, m)
                       /\ m = reply => srv = "wbody" \/ m \in Reply
            <4>1. CASE srv = "wbody"
                <5>1. Serving(c) /\ Holds(s2c, <<Chunk("len", c, reply)>>)
                    BY <3>1, <4>1 DEF AwaitsLen
                <5>2. s2c = <<Chunk("len", c, reply)>>
                    BY <2>2, <5>1, OneFacts DEF Holds
                <5>3. QED BY <4>1, <5>1, <5>2 DEF Serving
            <4>2. CASE srv # "wbody"
                <5>1. PICK m \in Reply : Owed(c, m) /\ Holds(s2c, Frame(c, m))
                    BY <1>2, <2>2, <3>1, <4>2 DEF AwaitsLen
                <5>2. s2c = <<Chunk("len", c, m)>> \/ s2c = Frame(c, m)
                    BY <2>2, <5>1, CutFacts DEF Holds, Frame
                <5>3. QED BY <5>1, <5>2
            <4>3. QED BY <4>1, <4>2
        <3>3. m \in Reply
            BY <3>2 DEF TypeOK
        <3>4. s2c' \in Cut(Frame(c, m)) /\ Frame(c, m)' = Frame(c, m)
            <4>1. {<<Chunk("len", c, m)>>, Frame(c, m)} \subseteq Cut(Frame(c, m))
                BY CutFacts DEF Frame
            <4>2. Frame(c, m)' = Frame(c, m)
                BY DEF Frame, Chunk
            <4>3. QED BY <1>2, <3>2, <4>1, <4>2
        <3>5. Owed(c, m)'
            BY <1>3, <3>2
        <3>6. QED BY <1>2, <3>3, <3>4, <3>5 DEF AwaitsLen
    <2>3. QED BY <2>1, <2>2
<1>6. ASSUME pc[c] = "rbody" PROVE AwaitsBody(c)'
    <2>1. CASE s2c = <<>>
        BY <1>2, <2>1 DEF AwaitsBody
    <2>2. CASE s2c # <<>>
        <3>1. PICK m \in Reply : Owed(c, m) /\ s2c = <<Chunk("body", c, m)>>
            BY <1>6, <2>2, AwaitsBodyPipe DEF Lockstep
        <3>2. Owed(c, m)'
            BY <1>3, <3>1
        <3>3. QED BY <1>2, <3>1, <3>2 DEF AwaitsBody, Chunk
    <2>3. QED BY <2>1, <2>2
<1>7. QED BY <1>1, <1>4, <1>5, <1>6, NotAstray, LockstepOf DEF Engaged

LEMMA PanicLockstep ==
    ASSUME TypeOK, MutexOK, Lockstep, NEW c \in Caller, Engaged(c), VfsPanic
    PROVE  Lockstep'
<1>1. /\ pc' = pc /\ \A d \in Caller : d # c => ~Engaged(d)'
      /\ Engaged(c)'
    BY StillEngaged
<1>2. /\ srv = "handle" /\ srv' = "done" /\ link' = "down" /\ s2c' \in Cut(s2c)
    BY DEF VfsPanic, GoDown
<1>3. pc[c] = "rlen"
    BY <1>2 DEF Lockstep, HalfAsked, AwaitsBody, Engaged
<1>4. s2c' = <<>>
    BY <1>2, <1>3, OneFacts DEF Lockstep, AwaitsLen
<1>5. AwaitsLen(c)'
    BY <1>2, <1>4 DEF AwaitsLen
<1>6. QED BY <1>1, <1>3, <1>5, LockstepOf DEF Engaged

\* A pipe that is cut holds the first few of the chunks it held.
LEMMA CutHolds ==
    ASSUME NEW x, NEW y, NEW p, NEW q \in Cut(p)
    PROVE  /\ p = <<>> => q = <<>>
           /\ Holds(p, <<x>>) => q \in Cut(<<x>>)
           /\ Holds(p, <<x, y>>) => q \in Cut(<<x, y>>)
<1>1. p = <<>> => q = <<>>
    BY OneFacts
<1>2. ASSUME Holds(p, <<x>>) PROVE q \in Cut(<<x>>)
    <2>1. p = <<x>> \/ p = <<>>
        BY <1>2, OneFacts DEF Holds
    <2>2. QED BY <2>1, OneFacts
<1>3. ASSUME Holds(p, <<x, y>>) PROVE q \in Cut(<<x, y>>)
    <2>1. p = <<x, y>> \/ p = <<x>> \/ p = <<>>
        BY <1>3, CutFacts DEF Holds
    <2>2. Cut(<<x, y>>) = {<<>>, <<x>>, <<x, y>>}
        BY CutFacts
    <2>3. Cut(<<x>>) = {<<>>, <<x>>} /\ Cut(<<>>) = {<<>>}
        BY OneFacts
    <2>4. QED BY <2>1, <2>2, <2>3
<1>4. QED BY <1>1, <1>2, <1>3

LEMMA LinkDownLockstep ==
    ASSUME TypeOK, MutexOK, Lockstep, NEW c \in Caller, Engaged(c), LinkDown
    PROVE  Lockstep'
<1>1. /\ pc' = pc /\ req' = req /\ \A d \in Caller : d # c => ~Engaged(d)'
      /\ Engaged(c)'
    BY StillEngaged
<1>2. /\ link = "up" /\ link' = "down" /\ c2s' \in Cut(c2s) /\ s2c' \in Cut(s2c)
      /\ UNCHANGED <<srv, cur, reply, srvVersion, answer>>
    BY DEF LinkDown, GoDown, srvVars
<1>3. ASSUME NEW m, Owed(c, m) PROVE Owed(c, m)'
    BY <1>1, <1>2, <1>3, OwedStays
<1>4. /\ c2s = <<>> => c2s' = <<>>
      /\ s2c = <<>> => s2c' = <<>>
    BY <1>2, OneFacts
<1>5. Serving(c) => Serving(c)'
    BY <1>2, <1>3, <1>4 DEF Serving
<1>6. ASSUME pc[c] = "wbody" PROVE HalfAsked(c)'
    <2>1. HalfAsked(c)
        BY <1>6 DEF Lockstep
    <2>2. Holds(c2s, <<Chunk("len", c, req[c])>>) =>
             c2s' \in Cut(<<Chunk("len", c, req[c])>>)
        BY <1>2, CutHolds
    <2>3. QED BY <1>1, <1>2, <1>4, <2>1, <2>2 DEF HalfAsked, Holds, Chunk
<1>7. ASSUME pc[c] = "rlen" PROVE AwaitsLen(c)'
    <2>1. AwaitsLen(c)
        BY <1>7 DEF Lockstep
    <2>2. /\ Holds(c2s, Frame(c, req[c])) => c2s' \in Cut(Frame(c, req[c]))
          /\ Holds(c2s, <<Chunk("body", c, req[c])>>) =>
                c2s' \in Cut(<<Chunk("body", c, req[c])>>)
          /\ Holds(s2c, <<Chunk("len", c, reply)>>) =>
                s2c' \in Cut(<<Chunk("len", c, reply)>>)
        BY <1>2, CutHolds DEF Frame
    <2>3. CASE srv = "rlen" /\ Holds(c2s, Frame(c, req[c])) /\ s2c = <<>>
        BY <1>1, <1>2, <1>4, <2>2, <2>3 DEF AwaitsLen, Holds, Frame, Chunk
    <2>4. CASE srv = "rbody" /\ Holds(c2s, <<Chunk("body", c, req[c])>>) /\ s2c = <<>>
        BY <1>1, <1>2, <1>4, <2>2, <2>4 DEF AwaitsLen, Holds, Chunk
    <2>5. CASE srv = "handle" /\ c2s = <<>> /\ s2c = <<>> /\ cur = Chunk("body", c, req[c])
        BY <1>1, <1>2, <1>4, <2>5 DEF AwaitsLen, Chunk
    <2>6. CASE srv = "wlen" /\ Serving(c) /\ s2c = <<>>
        BY <1>2, <1>4, <1>5, <2>6 DEF AwaitsLen
    <2>7. CASE srv = "wbody" /\ Serving(c) /\ Holds(s2c, <<Chunk("len", c, reply)>>)
        BY <1>2, <1>5, <2>2, <2>7 DEF AwaitsLen, Holds, Chunk
    <2>8. CASE srv = "rlen" /\ c2s = <<>>
               /\ \E m \in Reply : Owed(c, m) /\ Holds(s2c, Frame(c, m))
        <3>1. PICK m \in Reply : Owed(c, m) /\ Holds(s2c, Frame(c, m))
            BY <2>8
        <3>2. s2c' \in Cut(Frame(c, m))
            BY <1>2, <3>1, CutHolds DEF Frame
        <3>3. Owed(c, m)' /\ Holds(s2c, Frame(c, m))'
            BY <1>2, <1>3, <3>1, <3>2 DEF Holds, Frame, Chunk
        <3>4. QED BY <1>2, <1>4, <2>8, <3>3 DEF AwaitsLen
    <2>9. QED BY <1>2, <2>1, <2>3, <2>4, <2>5, <2>6, <2>7, <2>8 DEF AwaitsLen
<1>8. ASSUME pc[c] = "rbody" PROVE AwaitsBody(c)'
    <2>1. AwaitsBody(c)
        BY <1>8 DEF Lockstep
    <2>2. CASE srv = "wbody" /\ Serving(c) /\ s2c = <<>>
        BY <1>2, <1>4, <1>5, <2>2 DEF AwaitsBody
    <2>3. CASE srv = "rlen" /\ c2s = <<>>
               /\ \E m \in Reply : Owed(c, m) /\ Holds(s2c, <<Chunk("body", c, m)>>)
        <3>1. PICK m \in Reply : Owed(c, m) /\ Holds(s2c, <<Chunk("body", c, m)>>)
            BY <2>3
        <3>2. s2c' \in Cut(<<Chunk("body", c, m)>>)
            BY <1>2, <3>1, CutHolds
        <3>3. Owed(c, m)' /\ Holds(s2c, <<Chunk("body", c, m)>>)'
            BY <1>2, <1>3, <3>1, <3>2 DEF Holds, Chunk
        <3>4. QED BY <1>2, <1>4, <2>3, <3>3 DEF AwaitsBody
    <2>4. QED BY <1>2, <2>1, <2>2, <2>3 DEF AwaitsBody
<1>9. QED BY <1>1, <1>6, <1>7, <1>8, NotAstray, LockstepOf DEF Engaged

\* A stream that is connected again is as empty as the first one was.
LEMMA ReconnectLockstep ==
    ASSUME Reconnects # "any", Lockstep, Reconnect
    PROVE  Lockstep'
<1>1. /\ pc' = pc /\ s2c' = s2c /\ c2s' = <<>> /\ srv' = "rlen"
      /\ \A c \in Caller : pc[c] \notin {"wbody", "rlen", "rbody"}
    BY DEF Reconnect, MidCall, Waiting, clientVars
<1>2. s2c = <<>>
    BY <1>1 DEF Lockstep
<1>3. QED BY <1>1, <1>2 DEF Lockstep

-------------------------------------------------------------------------------
LEMMA NextLockstep ==
    /\ Oversize = {} /\ Reconnects # "any"
    /\ TypeOK /\ MutexOK /\ Lockstep /\ [Next]_vars
    => Lockstep'
<1> SUFFICES ASSUME Oversize = {}, Reconnects # "any", TypeOK, MutexOK, Lockstep, [Next]_vars
             PROVE  Lockstep'
    OBVIOUS
<1>1. ASSUME NEW c \in Caller, pc[c] = "idle", Lock(c), UNCHANGED <<wireVars, srvVars, answer>>,
             \A d \in Caller : d # c => req'[d] = req[d]
      PROVE  Lockstep'
    <2>1. \A d \in Caller : d # c => pc'[d] = pc[d]
        BY <1>1 DEF Lock, TypeOK
    <2>2. pc'[c] \in {"queued", "wlen"}
        BY <1>1 DEF Lock, TypeOK
    <2>3. ASSUME NEW d \in Caller, Engaged(d)'
          PROVE  /\ pc'[d] # "astray"
                 /\ pc'[d] = "wbody" => HalfAsked(d)'
                 /\ pc'[d] = "rlen" => AwaitsLen(d)'
                 /\ pc'[d] = "rbody" => AwaitsBody(d)'
        <3>1. d # c /\ pc'[d] = pc[d] /\ req'[d] = req[d]
            BY <1>1, <2>1, <2>2, <2>3 DEF Engaged
        <3>2. UNCHANGED <<c2s, s2c, link, srv, cur, reply, srvVersion, answer>>
            BY <1>1 DEF wireVars, srvVars
        <3>3. \A m : Owed(d, m) = Owed(d, m)'
            BY <3>1, <3>2 DEF Owed
        <3>4. HalfAsked(d) => HalfAsked(d)'
            BY <3>1, <3>2 DEF HalfAsked, Holds, Chunk
        <3>5. AwaitsLen(d) => AwaitsLen(d)'
            BY <3>1, <3>2, <3>3 DEF AwaitsLen, Holds, Serving, Frame, Chunk
        <3>6. AwaitsBody(d) => AwaitsBody(d)'
            BY <3>2, <3>3 DEF AwaitsBody, Holds, Serving, Chunk
        <3>7. QED BY <3>1, <3>4, <3>5, <3>6 DEF Lockstep
    <2>4. (\A d \in Caller : ~Engaged(d)') => \A d \in Caller : ~Engaged(d)
        BY <1>1, <2>1 DEF Engaged
    <2>5. QED BY <1>1, <2>3, <2>4 DEF Lockstep, Engaged, wireVars, srvVars
<1>2. ASSUME NEW c \in Caller, Connect(c)
      PROVE  Lockstep'
    BY <1>1, <1>2 DEF Connect, TypeOK
<1>3. ASSUME NEW c \in Caller, NEW r \in FsRequest, Call(c, r)
      PROVE  Lockstep'
    BY <1>1, <1>3 DEF Call, TypeOK
<1>4. ASSUME NEW c \in Caller, ClientStep(c)
      PROVE  Lockstep'
    BY <1>4, ClientLockstep
<1>5. CASE SrvStep \/ VfsPanic \/ LinkDown
    <2>1. CASE \A d \in Caller : ~Engaged(d)
        BY <1>5, <2>1, IdleServer
    <2>2. ASSUME NEW c \in Caller, Engaged(c) PROVE Lockstep'
        BY <1>5, <2>2, ReadsLockstep, HandleLockstep, WritesLockstep, EndLockstep,
            PanicLockstep, LinkDownLockstep, ServerAligned DEF SrvStep, SrvMisaligned
    <2>3. QED BY <2>1, <2>2
<1>6. CASE Terminated \/ UNCHANGED vars
    <2>1. UNCHANGED <<pc, req, c2s, s2c, link, srv, cur, reply, srvVersion, answer>>
        BY <1>6 DEF Terminated, vars, clientVars, wireVars, srvVars
    <2>2. \A c, m : Owed(c, m)' = Owed(c, m)
        BY <2>1 DEF Owed
    <2>3. \A c : HalfAsked(c)' = HalfAsked(c)
        BY <2>1 DEF HalfAsked, Holds, Chunk
    <2>4. ASSUME NEW c \in Caller, AwaitsLen(c) PROVE AwaitsLen(c)'
        BY <2>1, <2>2, <2>4 DEF AwaitsLen, Holds, Serving, Frame, Chunk
    <2>5. ASSUME NEW c \in Caller, AwaitsBody(c) PROVE AwaitsBody(c)'
        BY <2>1, <2>2, <2>5 DEF AwaitsBody, Holds, Serving, Chunk
    <2>6. QED BY <2>1, <2>3, <2>4, <2>5 DEF Lockstep
<1>7. CASE Reconnect
    BY <1>7, ReconnectLockstep
<1>8. QED BY <1>2, <1>3, <1>4, <1>5, <1>6, <1>7 DEF Next

\* As long as no reply overflows a frame, and the stream is not connected again
\* under a call, whatever is in the stream belongs to the one call in the critical
\* section, at the point that call has reached.
THEOREM LockstepCorrect ==
    Oversize = {} /\ Reconnects # "any" => (Spec => []Lockstep)
<1> SUFFICES ASSUME Oversize = {}, Reconnects # "any" PROVE Spec => []Lockstep
    OBVIOUS
<1>1. Init => Lockstep
    BY DEF Init, Lockstep
<1>2. TypeOK /\ MutexOK /\ Lockstep /\ [Next]_vars => Lockstep'
    BY NextLockstep
<1>3. QED BY <1>1, <1>2, TypeCorrect, MutexCorrect, PTL DEF Spec

-------------------------------------------------------------------------------
\* What a call returns.

\* A call in the critical section is ended by its own caller only.
LEMMA EndedByOwnStep ==
    ASSUME TypeOK, MutexOK, Next, NEW c \in Caller, pc[c] \in Holding, pc'[c] = "idle"
    PROVE  ClientStep(c)
<1>1. pc[c] # "idle"
    BY DEF Holding, Waiting
<1>2. ASSUME NEW d \in Caller, pc[d] = "idle", Lock(d) PROVE FALSE
    BY <1>1, <1>2 DEF Lock, TypeOK
<1>3. ASSUME NEW d \in Caller, ClientStep(d) PROVE d = c
    <2>1. pc[d] \in Holding
        BY <1>3 DEF ClientStep, EncodeError, SendLen, SendBody, WriteError, RecvLen,
            RecvOversize, RecvBody, RecvMisaligned, ReadEof, Holding, Waiting
    <2>2. QED BY <2>1 DEF MutexOK
<1>4. CASE SrvStep \/ VfsPanic \/ LinkDown \/ Reconnect \/ Terminated
    <2>1. pc' = pc
        BY <1>4 DEF SrvStep, SrvRecvLen, SrvRecvBody, SrvHandle, SrvSendLen,
            SrvSendBody, SrvEnd, SrvMisaligned, VfsPanic, LinkDown, Reconnect, Terminated,
            vars, clientVars
    <2>2. QED BY <1>1, <2>1
<1>5. QED BY <1>2, <1>3, <1>4 DEF Next, Connect, Call

\* It ends with an error of its own or with the answer it is owed.
LEMMA Outcomes ==
    ASSUME Oversize = {}, TypeOK, MutexOK, Lockstep, NEW c \in Caller, ClientStep(c),
           pc'[c] = "idle", req[c] # Hello
    PROVE  \/ result'[c] = Err /\ (link = "down" \/ req[c] \in Unencodable)
           \/ answer[c] # None /\ result'[c] = answer[c]
<1>1. ASSUME NEW o, Finish(c, o) PROVE result'[c] = o
    BY <1>1 DEF Finish, TypeOK
<1>2. CASE EncodeError(c)
    BY <1>1, <1>2 DEF EncodeError
<1>3. CASE WriteError(c)
    BY <1>1, <1>3 DEF WriteError
<1>4. CASE ReadEof(c)
    BY <1>1, <1>4 DEF ReadEof
<1>5. CASE RecvOversize(c)
    BY <1>5 DEF RecvOversize
<1>6. CASE RecvMisaligned(c)
    BY <1>6, NeverMisread
<1>7. CASE RecvBody(c)
    <2>1. pc[c] = "rbody" /\ s2c # <<>> /\ Finish(c, Outcome(req[c], Head(s2c).msg))
        BY <1>7 DEF RecvBody, HasBody
    <2>2. PICK m \in Reply : Owed(c, m) /\ s2c = <<Chunk("body", c, m)>>
        BY <2>1, AwaitsBodyPipe DEF Lockstep
    <2>3. Head(s2c) = Chunk("body", c, m)
        BY <2>2, OneFacts
    <2>4. Head(s2c).msg = m
        BY <2>3, ChunkFacts
    <2>5. Outcome(req[c], m) = answer[c] /\ answer[c] # None
        BY <2>2 DEF Owed, Outcome
    <2>6. QED BY <1>1, <2>1, <2>4, <2>5
<1>8. CASE SendLen(c) \/ SendBody(c) \/ RecvLen(c)
    BY <1>8 DEF SendLen, SendBody, RecvLen, TypeOK
<1>9. QED
    BY <1>2, <1>3, <1>4, <1>5, <1>6, <1>7, <1>8 DEF ClientStep

\* An answer a call returns is the one the VFS computed for that very call.
THEOREM ReplyMatchesCorrect ==
    Oversize = {} /\ Reconnects # "any" => (Spec => ReplyMatchesAlways)
<1> SUFFICES ASSUME Oversize = {}, Reconnects # "any" PROVE Spec => ReplyMatchesAlways
    OBVIOUS
<1>1. TypeOK /\ MutexOK /\ Lockstep /\ [Next]_vars => [ReplyMatches]_vars
    <2> SUFFICES ASSUME TypeOK, MutexOK, Lockstep, Next,
                        NEW c \in Caller, pc[c] \in Waiting, pc'[c] = "idle", req[c] # Hello
                 PROVE  result'[c] = Err \/ (answer[c] # None /\ result'[c] = answer[c])
        BY DEF ReplyMatches
    <2>1. ClientStep(c)
        BY EndedByOwnStep DEF Holding
    <2>2. QED BY <2>1, Outcomes
<1>2. Spec => []Lockstep
    BY LockstepCorrect
<1>3. QED BY <1>1, <1>2, TypeCorrect, MutexCorrect, PTL DEF Spec, ReplyMatchesAlways

\* A call fails only when the stream is gone or its own request cannot be encoded:
\* callers that share a connection cannot make each other's calls fail.
THEOREM FailureIsOwnCorrect ==
    Oversize = {} /\ Reconnects # "any" => (Spec => FailureIsOwnAlways)
<1> SUFFICES ASSUME Oversize = {}, Reconnects # "any" PROVE Spec => FailureIsOwnAlways
    OBVIOUS
<1>1. TypeOK /\ MutexOK /\ Lockstep /\ [Next]_vars => [FailureIsOwn]_vars
    <2> SUFFICES ASSUME TypeOK, MutexOK, Lockstep, Next, NEW c \in Caller,
                        pc[c] \in Holding, pc'[c] = "idle", req[c] # Hello, result'[c] = Err
                 PROVE  link = "down" \/ req[c] \in Unencodable
        BY DEF FailureIsOwn
    <2>1. ClientStep(c)
        BY EndedByOwnStep
    <2>2. answer[c] # Err
        BY ConstantAssumption DEF TypeOK
    <2>3. QED BY <2>1, <2>2, Outcomes
<1>2. Spec => []Lockstep
    BY LockstepCorrect
<1>3. QED BY <1>1, <1>2, TypeCorrect, MutexCorrect, PTL DEF Spec, FailureIsOwnAlways
-------------------------------------------------------------------------------
\* A call is atomic.  What the server has of requests it has not served is a
\* single one, and an answer exists only inside the call it answers.

PipeShape ==
    \/ /\ srv = "rlen"
       /\ c2s = <<>> \/ \E d \in Caller, r \in Request :
                           c2s = <<Chunk("len", d, r)>> \/ c2s = Frame(d, r)
    \/ /\ srv = "rbody"
       /\ c2s = <<>> \/ \E d \in Caller, r \in Request : c2s = <<Chunk("body", d, r)>>
    \/ srv \in {"handle", "wlen", "wbody", "done"} /\ c2s = <<>>

AnswersInCall ==
    \A c \in Caller : answer[c] # None => pc[c] \in Waiting /\ req[c] # Hello

\* A request the server has yet to serve has no answer.
Unserved ==
    \A c \in Caller :
       pc[c] \in Waiting /\ (c2s # <<>> \/ srv \in {"rbody", "handle"}) => answer[c] = None

\* Nobody calls before the greeting.
Unasked == session = "new" => \A c \in Caller : req[c] = None

AtomicInv == PipeShape /\ AnswersInCall /\ Unserved /\ Unasked

\* Only the caller in the critical section can have an answer.
LEMMA OthersUnanswered ==
    ASSUME MutexOK, AnswersInCall, NEW c \in Caller, pc[c] \in Holding
    PROVE  \A d \in Caller : d # c => answer[d] = None
BY DEF MutexOK, AnswersInCall, Holding

\* The end of a call changes the phase of no other caller, and leaves no answer.
LEMMA FinishView ==
    ASSUME TypeOK, MutexOK, AnswersInCall, NEW c \in Caller, NEW o,
           pc[c] \in Holding, Finish(c, o)
    PROVE  /\ pc'[c] = "idle"
           /\ \A d \in Caller : d # c =>
                 pc'[d] = pc[d] \/ (pc[d] = "queued" /\ pc'[d] = "wlen")
           /\ \A d \in Caller : answer'[d] = None
           /\ answer' = [answer EXCEPT ![c] = None]
<1>1. pc \in [Caller -> PcState] /\ queue \in Seq(Caller) /\ pc[c] # "queued"
    BY DEF TypeOK, Asked, Holding, Waiting
<1>2. answer' = [answer EXCEPT ![c] = None] /\ \A d \in Caller : answer'[d] = None
    BY OthersUnanswered DEF Finish, TypeOK
<1>3. CASE queue = <<>>
    BY <1>1, <1>2, <1>3 DEF Finish, Unlock
<1>4. CASE queue # <<>>
    <2>1. Head(queue) \in Caller /\ pc[Head(queue)] = "queued"
        <3>1. 1 \in 1..Len(queue) /\ Head(queue) = queue[1] /\ queue[1] \in Caller
            BY <1>1, <1>4
        <3>2. QED BY <3>1 DEF MutexOK
    <2>2. Head(queue) # c
        BY <1>1, <2>1
    <2>3. QED BY <1>1, <1>2, <1>4, <2>1, <2>2 DEF Finish, Unlock
<1>5. QED BY <1>3, <1>4

\* Taking the mutex.
LEMMA LockView ==
    ASSUME TypeOK, NEW c \in Caller, Lock(c)
    PROVE  /\ pc'[c] \in {"queued", "wlen"}
           /\ \A d \in Caller : d # c => pc'[d] = pc[d]
BY DEF Lock, TypeOK

\* A step of a client that does not end its call.
LEMMA ClientEnds ==
    ASSUME Lockstep, NEW c \in Caller, ClientStep(c)
    PROVE  \/ SendLen(c) \/ SendBody(c) \/ RecvLen(c)
           \/ pc[c] \in Holding /\ c2s' = c2s /\ \E o : Finish(c, o)
BY NeverMisread DEF ClientStep, EncodeError, WriteError, RecvOversize, RecvBody, ReadEof,
    Holding, Waiting

\* What a writing caller finds in the pipe, and what it leaves there.
LEMMA SendLenPipe ==
    ASSUME MutexOK, Lockstep, NEW c \in Caller, SendLen(c)
    PROVE  /\ c2s = <<>> /\ srv = "rlen" /\ srv' = "rlen"
           /\ c2s' = <<Chunk("len", c, req[c])>>
<1>1. \A d \in Caller : ~Engaged(d)
    BY OnlyOne DEF SendLen, Engaged, Holding
<1>2. s2c = <<>> /\ c2s = <<>> /\ srv = "rlen"
    BY <1>1 DEF Lockstep, Engaged, SendLen
<1>3. QED BY <1>2, OneFacts DEF SendLen, srvVars

LEMMA SendBodyPipe ==
    ASSUME Lockstep, NEW c \in Caller, SendBody(c)
    PROVE  /\ srv' = srv
           /\ \/ /\ srv = "rlen" /\ c2s = <<Chunk("len", c, req[c])>>
                 /\ c2s' = Frame(c, req[c])
              \/ /\ srv = "rbody" /\ c2s = <<>>
                 /\ c2s' = <<Chunk("body", c, req[c])>>
<1>1. /\ link = "up" /\ srv' = srv /\ HalfAsked(c)
      /\ c2s' = Append(c2s, Chunk("body", c, req[c]))
    BY DEF SendBody, Lockstep, srvVars
<1>2. \/ srv = "rlen" /\ c2s = <<Chunk("len", c, req[c])>>
      \/ srv = "rbody" /\ c2s = <<>>
    BY <1>1 DEF HalfAsked, Holds
<1>3. /\ Append(<<Chunk("len", c, req[c])>>, Chunk("body", c, req[c])) = Frame(c, req[c])
      /\ Append(<<>>, Chunk("body", c, req[c])) = <<Chunk("body", c, req[c])>>
    BY PipeFacts DEF Frame
<1>4. QED BY <1>1, <1>2, <1>3

\* What is left of the pipe's contents once its first chunk is read, or it is cut.
LEMMA ShapeReads ==
    ASSUME TypeOK, PipeShape, SrvRecvLen \/ SrvRecvBody
    PROVE  /\ c2s # <<>>
           /\ \/ /\ srv = "rlen" /\ srv' = "rbody" /\ UNCHANGED cur
                 /\ \E d \in Caller, r \in Request :
                       \/ c2s = <<Chunk("len", d, r)>> /\ c2s' = <<>>
                       \/ c2s = Frame(d, r) /\ c2s' = <<Chunk("body", d, r)>>
              \/ /\ srv = "rbody" /\ srv' = "handle" /\ c2s' = <<>>
                 /\ \E d \in Caller, r \in Request : c2s = <<Chunk("body", d, r)>>
                 /\ c2s = <<cur'>>
<1>1. CASE SrvRecvLen
    <2>1. /\ srv = "rlen" /\ srv' = "rbody" /\ c2s # <<>> /\ c2s' = Tail(c2s)
          /\ UNCHANGED cur
        BY <1>1 DEF SrvRecvLen, HasLen
    <2>2. PICK d \in Caller, r \in Request : c2s = <<Chunk("len", d, r)>> \/ c2s = Frame(d, r)
        BY <2>1 DEF PipeShape
    <2>3. /\ Tail(<<Chunk("len", d, r)>>) = <<>>
          /\ Tail(Frame(d, r)) = <<Chunk("body", d, r)>>
        BY OneFacts, PipeFacts DEF Frame
    <2>4. QED BY <2>1, <2>2, <2>3
<1>2. CASE SrvRecvBody
    <2>1. /\ srv = "rbody" /\ srv' = "handle" /\ c2s # <<>> /\ c2s' = Tail(c2s)
          /\ cur' = Head(c2s)
        BY <1>2 DEF SrvRecvBody, HasBody
    <2>2. PICK d \in Caller, r \in Request : c2s = <<Chunk("body", d, r)>>
        BY <2>1 DEF PipeShape
    <2>3. c2s' = <<>> /\ cur' = Chunk("body", d, r)
        BY <2>1, <2>2, OneFacts
    <2>4. QED BY <2>1, <2>2, <2>3
<1>3. QED BY <1>1, <1>2

LEMMA ShapeAligned ==
    ASSUME PipeShape, SrvMisaligned
    PROVE  FALSE
<1>1. srv = "rlen" /\ HasBody(c2s)
    BY DEF SrvMisaligned
<1>2. PICK d \in Caller, r \in Request : c2s = <<Chunk("len", d, r)>> \/ c2s = Frame(d, r)
    BY <1>1 DEF PipeShape, HasBody
<1>3. Head(c2s) = Chunk("len", d, r)
    BY <1>2, OneFacts, PipeFacts DEF Frame
<1>4. QED BY <1>1, <1>3, ChunkFacts DEF HasBody

\* The server's other steps find the pipe empty.
LEMMA ShapeServes ==
    ASSUME PipeShape, SrvHandle \/ SrvSendLen \/ SrvSendBody \/ SrvEnd \/ VfsPanic
    PROVE  /\ c2s = <<>> /\ c2s' = <<>>
           /\ srv' \in {"wlen", "wbody", "rlen", "done"}
<1>1. c2s = <<>> /\ srv' \in {"wlen", "wbody", "rlen", "done"}
    BY DEF PipeShape, SrvHandle, SrvSendLen, SrvSendBody, SrvEnd, VfsPanic
<1>2. c2s' = <<>>
    BY <1>1, OneFacts DEF SrvHandle, SrvSendLen, SrvSendBody, SrvEnd, VfsPanic, GoDown, wireVars
<1>3. QED BY <1>1, <1>2

LEMMA ShapeCut ==
    ASSUME PipeShape, LinkDown
    PROVE  /\ srv' = srv /\ cur' = cur
           /\ \/ c2s' = c2s \/ c2s' = <<>>
              \/ \E d \in Caller, r \in Request :
                    c2s = Frame(d, r) /\ c2s' = <<Chunk("len", d, r)>> /\ srv = "rlen"
<1>1. srv' = srv /\ cur' = cur /\ c2s' \in Cut(c2s)
    BY DEF LinkDown, GoDown, srvVars
<1>2. CASE c2s = <<>>
    BY <1>1, <1>2, OneFacts
<1>3. ASSUME NEW x, c2s = <<x>> PROVE c2s' = c2s \/ c2s' = <<>>
    <2>1. Cut(<<x>>) = {<<>>, <<x>>}
        BY OneFacts
    <2>2. QED BY <1>1, <1>3, <2>1
<1>4. ASSUME NEW d \in Caller, NEW r \in Request, c2s = Frame(d, r)
      PROVE  c2s' = c2s \/ c2s' = <<>> \/ c2s' = <<Chunk("len", d, r)>>
    <2>1. Cut(Frame(d, r)) = {<<>>, <<Chunk("len", d, r)>>, Frame(d, r)}
        BY CutFacts DEF Frame
    <2>2. QED BY <1>1, <1>4, <2>1
<1>5. QED BY <1>1, <1>2, <1>3, <1>4 DEF PipeShape

\* Every request in the pipe is one of the callers'.
LEMMA NextShape ==
    ASSUME TypeOK, MutexOK, Lockstep, PipeShape, [Next]_vars
    PROVE  PipeShape'
<1>1. ASSUME c2s' = c2s, srv' = srv PROVE PipeShape'
    BY <1>1 DEF PipeShape, Frame, Chunk
<1>2. ASSUME NEW c \in Caller, ClientStep(c) PROVE PipeShape'
    <2>1. CASE SendLen(c)
        <3>1. req[c] \in Request
            BY <2>1 DEF SendLen, TypeOK, Asked
        <3>2. QED BY <2>1, <3>1, SendLenPipe DEF PipeShape, Chunk
    <2>2. CASE SendBody(c)
        <3>1. req[c] \in Request
            BY <2>2 DEF SendBody, TypeOK, Asked
        <3>2. QED BY <2>2, <3>1, SendBodyPipe DEF PipeShape, Frame, Chunk
    <2>3. CASE RecvLen(c)
        BY <1>1, <2>3 DEF RecvLen, srvVars
    <2>4. CASE c2s' = c2s /\ \E o : Finish(c, o)
        BY <1>1, <2>4 DEF Finish, srvVars
    <2>5. QED BY <1>2, <2>1, <2>2, <2>3, <2>4, ClientEnds
<1>3. CASE SrvRecvLen \/ SrvRecvBody
    BY <1>3, ShapeReads DEF PipeShape, Chunk
<1>4. CASE SrvHandle \/ SrvSendLen \/ SrvSendBody \/ SrvEnd \/ VfsPanic
    BY <1>4, ShapeServes DEF PipeShape
<1>5. CASE LinkDown
    BY <1>5, ShapeCut DEF PipeShape, Frame, Chunk
<1>6. CASE Reconnect
    BY <1>6 DEF Reconnect, PipeShape
<1>7. CASE (\E c \in Caller : Connect(c)) \/ (\E c \in Caller, r \in FsRequest : Call(c, r))
    BY <1>1, <1>7 DEF Connect, Call, wireVars, srvVars
<1>8. CASE Terminated \/ UNCHANGED vars
    BY <1>1, <1>8 DEF Terminated, vars, wireVars, srvVars
<1>9. QED
    BY <1>2, <1>3, <1>4, <1>5, <1>6, <1>7, <1>8, ShapeAligned DEF Next, SrvStep

\* While a request is the server's, its caller has sent exactly that.
LEMMA HandledOwn ==
    ASSUME MutexOK, Lockstep, NEW c \in Caller, pc[c] \in Waiting, srv = "handle"
    PROVE  cur = Chunk("body", c, req[c])
BY DEF Lockstep, Waiting, AwaitsLen, AwaitsBody

\* What a step may do to the answers.
LEMMA NextAnswers ==
    ASSUME TypeOK, MutexOK, Lockstep, AtomicInv, [Next]_vars
    PROVE  AnswersInCall' /\ Unserved'
<1> USE DEF AtomicInv
<1>1. ASSUME NEW c \in Caller, pc[c] = "idle", Lock(c), UNCHANGED <<wireVars, srvVars, answer>>,
             \A d \in Caller : d # c => req'[d] = req[d]
      PROVE  AnswersInCall' /\ Unserved'
    <2>1. /\ pc'[c] \notin Waiting /\ answer[c] = None
          /\ \A d \in Caller : d # c => pc'[d] = pc[d]
        BY <1>1, LockView DEF AnswersInCall, Waiting
    <2>2. UNCHANGED <<c2s, srv, answer>>
        BY <1>1 DEF wireVars, srvVars
    <2>3. QED BY <1>1, <2>1, <2>2 DEF AnswersInCall, Unserved
<1>2. ASSUME NEW c \in Caller, ClientStep(c) PROVE AnswersInCall' /\ Unserved'
    <2>1. ASSUME NEW o, pc[c] \in Holding, Finish(c, o) PROVE AnswersInCall' /\ Unserved'
        BY <2>1, FinishView DEF AnswersInCall, Unserved
    <2>2. CASE SendLen(c) \/ SendBody(c)
        <3>1. pc[c] \in {"wlen", "wbody"} /\ answer' = answer
            BY <2>2 DEF SendLen, SendBody
        <3>2. \A d \in Caller : answer[d] = None
            BY <3>1, OthersUnanswered DEF AnswersInCall, Waiting, Holding
        <3>3. QED BY <3>1, <3>2 DEF AnswersInCall, Unserved
    <2>3. CASE RecvLen(c)
        BY <2>3 DEF RecvLen, AnswersInCall, Unserved, Waiting, TypeOK, srvVars
    <2>4. QED BY <1>2, <2>1, <2>2, <2>3, ClientEnds
<1>3. CASE SrvRecvLen \/ SrvRecvBody
    <2>1. UNCHANGED <<pc, req, answer>>
        BY <1>3 DEF SrvRecvLen, SrvRecvBody, clientVars
    <2>2. QED BY <1>3, <2>1, ShapeReads DEF AnswersInCall, Unserved
<1>4. CASE SrvHandle \/ SrvSendLen \/ SrvSendBody \/ SrvEnd \/ VfsPanic
    <2>1. UNCHANGED <<pc, req>>
        BY <1>4 DEF SrvHandle, SrvSendLen, SrvSendBody, SrvEnd, VfsPanic, clientVars
    <2>2. Unserved'
        BY <1>4, ShapeServes DEF Unserved
    <2>3. CASE answer' = answer
        BY <2>1, <2>2, <2>3 DEF AnswersInCall
    <2>4. CASE answer' # answer
        <3>1. srv = "handle" /\ cur.msg # Hello /\ Applied(cur.msg)
            BY <1>4, <2>4 DEF SrvHandle, SrvSendLen, SrvSendBody, SrvEnd, VfsPanic
        <3>2. cur.by \in Caller /\ pc[cur.by] \in Waiting
            BY <2>4, <3>1 DEF Applied, TypeOK, ChunkOf
        <3>3. req[cur.by] = cur.msg
            BY <3>1, <3>2, HandledOwn, ChunkFacts
        <3>4. QED BY <2>1, <2>2, <3>1, <3>2, <3>3 DEF Applied, AnswersInCall, TypeOK
    <2>5. QED BY <2>3, <2>4
<1>5. CASE LinkDown
    <2>1. UNCHANGED <<pc, req, answer>>
        BY <1>5 DEF LinkDown, clientVars
    <2>2. srv' = srv /\ (c2s' # <<>> => c2s # <<>>)
        BY <1>5, ShapeCut, PipeFacts DEF Frame
    <2>3. QED BY <2>1, <2>2 DEF AnswersInCall, Unserved
<1>6. CASE Reconnect
    BY <1>6 DEF Reconnect, clientVars, AnswersInCall, Unserved
<1>7. CASE (\E c \in Caller : Connect(c)) \/ (\E c \in Caller, r \in FsRequest : Call(c, r))
    BY <1>1, <1>7 DEF Connect, Call, TypeOK
<1>8. CASE Terminated \/ UNCHANGED vars
    BY <1>8 DEF Terminated, vars, clientVars, wireVars, srvVars, AnswersInCall, Unserved
<1>9. QED
    BY <1>2, <1>3, <1>4, <1>5, <1>6, <1>7, <1>8, ShapeAligned DEF Next, SrvStep

LEMMA NextUnasked ==
    ASSUME Lockstep, Unasked, [Next]_vars
    PROVE  Unasked'
<1>1. ASSUME UNCHANGED <<session, req>> PROVE Unasked'
    BY <1>1 DEF Unasked
<1>2. ASSUME NEW c \in Caller, ClientStep(c) PROVE Unasked'
    <2>1. CASE SendLen(c) \/ SendBody(c) \/ RecvLen(c)
        BY <1>1, <2>1 DEF SendLen, SendBody, RecvLen
    <2>2. CASE \E o : Finish(c, o)
        BY <2>2 DEF Finish, Unasked
    <2>3. QED BY <1>2, <2>1, <2>2, ClientEnds
<1>3. CASE SrvStep \/ VfsPanic \/ LinkDown \/ Reconnect \/ Terminated \/ UNCHANGED vars
    BY <1>1, <1>3 DEF SrvStep, SrvRecvLen, SrvRecvBody, SrvHandle, SrvSendLen, SrvSendBody,
        SrvEnd, SrvMisaligned, VfsPanic, LinkDown, Reconnect, Terminated, vars, clientVars
<1>4. QED BY <1>2, <1>3 DEF Next, Connect, Call, Unasked

LEMMA AtomicCorrect ==
    Oversize = {} /\ Reconnects # "any" => (Spec => []AtomicInv)
<1> SUFFICES ASSUME Oversize = {}, Reconnects # "any" PROVE Spec => []AtomicInv
    OBVIOUS
<1>1. Init => AtomicInv
    BY DEF Init, AtomicInv, PipeShape, AnswersInCall, Unserved, Unasked
<1>2. TypeOK /\ MutexOK /\ Lockstep /\ AtomicInv /\ [Next]_vars => AtomicInv'
    BY NextShape, NextAnswers, NextUnasked DEF AtomicInv
<1>3. Spec => []Lockstep
    BY LockstepCorrect
<1>4. QED BY <1>1, <1>2, <1>3, TypeCorrect, MutexCorrect, PTL DEF Spec

-------------------------------------------------------------------------------
\* What callers see of a step.

\* The requests the server has read, or will, and has not served.
HeldOf(pipe, at, x) ==
    {y \in {pipe[i] : i \in 1..Len(pipe)} : y.part = "body"} \union {y \in {x} : at = "handle"}

Held == HeldOf(c2s, srv, cur)

LEMMA HeldPipe ==
    ASSUME NEW p, NEW at, NEW x, NEW d, NEW r, at # "handle"
    PROVE  /\ p = <<Chunk("len", d, r)>> => HeldOf(p, at, x) = {}
           /\ p = <<Chunk("body", d, r)>> => HeldOf(p, at, x) = {Chunk("body", d, r)}
           /\ p = Frame(d, r) => HeldOf(p, at, x) = {Chunk("body", d, r)}
<1>1. 1..1 = {1} /\ 1..2 = {1, 2}
    OBVIOUS
<1>2. ASSUME NEW u PROVE {<<u>>[i] : i \in 1..Len(<<u>>)} = {u}
    <2>1. Len(<<u>>) = 1 /\ <<u>>[1] = u
        OBVIOUS
    <2>2. QED BY <1>1, <2>1
<1>3. ASSUME NEW u, NEW v PROVE {<<u, v>>[i] : i \in 1..Len(<<u, v>>)} = {u, v}
    <2>1. Len(<<u, v>>) = 2 /\ <<u, v>>[1] = u /\ <<u, v>>[2] = v
        OBVIOUS
    <2>2. QED BY <1>1, <2>1
<1>4. Chunk("len", d, r).part # "body" /\ Chunk("body", d, r).part = "body"
    BY ChunkFacts
<1>5. HeldOf(<<Chunk("len", d, r)>>, at, x) = {}
    BY <1>2, <1>4 DEF HeldOf
<1>6. HeldOf(<<Chunk("body", d, r)>>, at, x) = {Chunk("body", d, r)}
    BY <1>2, <1>4 DEF HeldOf
<1>7. HeldOf(Frame(d, r), at, x) = {Chunk("body", d, r)}
    BY <1>3, <1>4 DEF HeldOf, Frame
<1>8. QED BY <1>5, <1>6, <1>7

LEMMA HeldEmpty ==
    ASSUME NEW at, NEW x
    PROVE  HeldOf(<<>>, at, x) = {y \in {x} : at = "handle"}
<1>1. {<<>>[i] : i \in 1..Len(<<>>)} = {}
    <2>1. Len(<<>>) = 0 /\ 1..0 = {}
        OBVIOUS
    <2>2. QED BY <2>1
<1>2. QED BY <1>1 DEF HeldOf

\* At most one request is held.
LEMMA OneHeld ==
    ASSUME PipeShape
    PROVE  /\ \A x, y \in Held : x = y
           /\ c2s = <<>> /\ srv # "handle" => Held = {}
           /\ srv = "handle" => Held = {cur}
<1>1. CASE c2s = <<>>
    <2>1. /\ srv = "handle" => Held = {cur}
          /\ srv # "handle" => Held = {}
        BY <1>1, HeldEmpty DEF Held
    <2>2. QED BY <2>1
<1>2. CASE c2s # <<>>
    <2>1. srv # "handle"
        BY <1>2 DEF PipeShape
    <2>2. PICK d, r : \/ c2s = <<Chunk("len", d, r)>> \/ c2s = Frame(d, r)
                     \/ c2s = <<Chunk("body", d, r)>>
        BY <1>2 DEF PipeShape
    <2>3. Held = {} \/ Held = {Chunk("body", d, r)}
        <3>1. /\ c2s = <<Chunk("len", d, r)>> => HeldOf(c2s, srv, cur) = {}
              /\ c2s = <<Chunk("body", d, r)>> =>
                    HeldOf(c2s, srv, cur) = {Chunk("body", d, r)}
              /\ c2s = Frame(d, r) => HeldOf(c2s, srv, cur) = {Chunk("body", d, r)}
            BY <2>1, HeldPipe
        <3>2. QED BY <2>2, <3>1 DEF Held
    <2>4. QED BY <1>2, <2>1, <2>3
<1>3. QED BY <1>1, <1>2

\* The request held while c waits is c's, and it has no answer yet.
LEMMA OwnHeld ==
    ASSUME MutexOK, Lockstep, PipeShape, Unserved,
           NEW c \in Caller, pc[c] \in Waiting, NEW x \in Held
    PROVE  x = Chunk("body", c, req[c]) /\ answer[c] = None
<1>1. c2s # <<>> \/ srv = "handle"
    BY OneHeld
<1>2. answer[c] = None
    BY <1>1 DEF Unserved
<1>3. CASE srv = "handle"
    <2>1. x = cur
        BY <1>3, OneHeld
    <2>2. QED BY <1>2, <1>3, <2>1, HandledOwn
<1>4. CASE srv # "handle"
    <2>1. c2s # <<>>
        BY <1>1, <1>4
    <2>2. pc[c] = "rlen"
        <3>1. pc[c] # "rbody" /\ pc[c] # "astray"
            BY <2>1, <1>4 DEF Lockstep, AwaitsBody, Serving, PipeShape
        <3>2. QED BY <3>1 DEF Waiting
    <2>3. Holds(c2s, Frame(c, req[c])) \/ Holds(c2s, <<Chunk("body", c, req[c])>>)
        BY <2>1, <2>2, <1>4 DEF Lockstep, AwaitsLen, Serving, PipeShape
    <2>4. \/ c2s = Frame(c, req[c]) \/ c2s = <<Chunk("len", c, req[c])>>
          \/ c2s = <<Chunk("body", c, req[c])>>
        <3>1. Cut(<<Chunk("body", c, req[c])>>) = {<<>>, <<Chunk("body", c, req[c])>>}
            BY OneFacts
        <3>2. Cut(Frame(c, req[c])) = {<<>>, <<Chunk("len", c, req[c])>>, Frame(c, req[c])}
            BY CutFacts DEF Frame
        <3>3. QED BY <2>1, <2>3, <3>1, <3>2 DEF Holds
    <2>5. Held \subseteq {Chunk("body", c, req[c])}
        <3>1. /\ c2s = <<Chunk("len", c, req[c])>> => HeldOf(c2s, srv, cur) = {}
              /\ c2s = <<Chunk("body", c, req[c])>> =>
                    HeldOf(c2s, srv, cur) = {Chunk("body", c, req[c])}
              /\ c2s = Frame(c, req[c]) => HeldOf(c2s, srv, cur) = {Chunk("body", c, req[c])}
            BY <1>4, HeldPipe
        <3>2. QED BY <2>4, <3>1 DEF Held
    <2>6. QED BY <1>2, <2>5
<1>5. QED BY <1>3, <1>4

LEMMA HeldTyped ==
    ASSUME TypeOK, NEW x \in Held
    PROVE  x \in ChunkOf(Request) /\ x.by \in Caller /\ x.msg \in Request
<1>1. x \in ChunkOf(Request)
    <2>1. CASE x = cur /\ srv = "handle"
        BY <2>1 DEF TypeOK
    <2>2. CASE \E i \in 1..Len(c2s) : x = c2s[i]
        BY <2>2 DEF TypeOK
    <2>3. QED BY <2>1, <2>2 DEF Held, HeldOf
<1>2. QED BY <1>1 DEF ChunkOf

\* The orphans are the held requests of callers that gave up.
OrphansOf(held, at) == {x.msg : x \in {y \in held : at[y.by] \notin Waiting}} \ {Hello}

LEMMA OrphanedIs == Orphaned = OrphansOf(Held, pc) /\ Orphaned' = OrphansOf(Held', pc')
<1>1. Orphaned = OrphansOf(Held, pc)
    <2>1. {y \in {c2s[i] : i \in 1..Len(c2s)} : y.part = "body" /\ pc[y.by] \notin Waiting}
             \union {y \in {cur} : srv = "handle" /\ pc[y.by] \notin Waiting}
          = {y \in HeldOf(c2s, srv, cur) : pc[y.by] \notin Waiting}
        BY DEF HeldOf
    <2>2. QED BY <2>1 DEF Orphaned, OrphansOf, Held
<1>2. /\ Orphaned' = {x.msg : x \in {y \in {c2s'[i] : i \in 1..Len(c2s')} :
                                       y.part = "body" /\ pc'[y.by] \notin Waiting}
                                     \union {y \in {cur'} : srv' = "handle" /\ pc'[y.by] \notin Waiting}}
                          \ {Hello}
      /\ Held' = HeldOf(c2s', srv', cur')
    BY DEF Orphaned, Held, HeldOf, Hello, Waiting
<1>3. Orphaned' = OrphansOf(Held', pc')
    <2>1. {y \in {c2s'[i] : i \in 1..Len(c2s')} : y.part = "body" /\ pc'[y.by] \notin Waiting}
             \union {y \in {cur'} : srv' = "handle" /\ pc'[y.by] \notin Waiting}
          = {y \in HeldOf(c2s', srv', cur') : pc'[y.by] \notin Waiting}
        BY DEF HeldOf
    <2>2. QED BY <1>2, <2>1 DEF OrphansOf
<1>4. QED BY <1>1, <1>3

LEMMA SameOrphans ==
    ASSUME Held' = Held, \A y \in Held : pc'[y.by] \in Waiting <=> pc[y.by] \in Waiting
    PROVE  Orphaned' = Orphaned
<1>1. {y \in Held : pc'[y.by] \notin Waiting} = {y \in Held : pc[y.by] \notin Waiting}
    OBVIOUS
<1>2. QED BY <1>1, OrphanedIs DEF OrphansOf

\* While c waits nothing held is an orphan.
LEMMA NoOrphans ==
    ASSUME MutexOK, Lockstep, PipeShape, Unserved, NEW c \in Caller, pc[c] \in Waiting
    PROVE  Orphaned = {}
<1>1. \A x \in Held : x.by = c
    BY OwnHeld, ChunkFacts
<1>2. QED BY <1>1, OrphanedIs DEF OrphansOf

\* Reading moves a request from the pipe to the server.
LEMMA HeldReads ==
    ASSUME TypeOK, PipeShape, SrvRecvLen \/ SrvRecvBody
    PROVE  Held' = Held
<1>1. Held = HeldOf(c2s, srv, cur) /\ Held' = HeldOf(c2s', srv', cur')
    BY DEF Held, HeldOf
<1>2. CASE srv = "rlen" /\ srv' = "rbody"
    <2>1. PICK d \in Caller, r \in Request :
             \/ c2s = <<Chunk("len", d, r)>> /\ c2s' = <<>>
             \/ c2s = Frame(d, r) /\ c2s' = <<Chunk("body", d, r)>>
        BY <1>2, ShapeReads
    <2>2. /\ c2s = <<Chunk("len", d, r)>> => HeldOf(c2s, srv, cur) = {}
          /\ c2s = Frame(d, r) => HeldOf(c2s, srv, cur) = {Chunk("body", d, r)}
          /\ c2s' = <<Chunk("body", d, r)>> => HeldOf(c2s', srv', cur') = {Chunk("body", d, r)}
        BY <1>2, HeldPipe
    <2>3. c2s' = <<>> => HeldOf(c2s', srv', cur') = {}
        BY <1>2, HeldEmpty
    <2>4. QED BY <1>1, <2>1, <2>2, <2>3
<1>3. CASE srv = "rbody" /\ srv' = "handle"
    <2>1. c2s = <<cur'>> /\ c2s' = <<>>
        BY <1>3, ShapeReads
    <2>2. PICK d \in Caller, r \in Request : c2s = <<Chunk("body", d, r)>>
        BY <1>3, ShapeReads
    <2>3. cur' = Chunk("body", d, r)
        BY <2>1, <2>2, OneFacts
    <2>4. HeldOf(c2s, srv, cur) = {Chunk("body", d, r)}
        BY <1>3, <2>2, HeldPipe
    <2>5. HeldOf(c2s', srv', cur') = {cur'}
        BY <1>3, <2>1, HeldEmpty
    <2>6. QED BY <1>1, <2>3, <2>4, <2>5
<1>4. QED BY <1>2, <1>3, ShapeReads

\* A request is served once.
LEMMA HeldServes ==
    ASSUME PipeShape, SrvHandle \/ SrvSendLen \/ SrvSendBody \/ SrvEnd \/ VfsPanic
    PROVE  Held' = {} /\ (Held # {} => srv = "handle")
<1>1. Held' = HeldOf(c2s', srv', cur')
    BY DEF Held, HeldOf
<1>2. Held' = {}
    BY <1>1, ShapeServes, HeldEmpty
<1>3. QED BY <1>2, ShapeServes, OneHeld

\* A cut loses the request or leaves it.
LEMMA HeldCut ==
    ASSUME PipeShape, LinkDown
    PROVE  Held' = Held \/ Held' = {}
<1>1. Held = HeldOf(c2s, srv, cur) /\ Held' = HeldOf(c2s', srv', cur')
    BY DEF Held, HeldOf
<1>2. srv' = srv /\ cur' = cur
    BY ShapeCut
<1>3. CASE c2s' = c2s
    BY <1>1, <1>2, <1>3
<1>4. CASE c2s' = <<>>
    <2>1. srv # "handle" => Held' = {}
        BY <1>1, <1>2, <1>4, HeldEmpty
    <2>2. srv = "handle" => c2s' = c2s
        BY <1>4 DEF PipeShape
    <2>3. QED BY <1>1, <1>2, <2>1, <2>2
<1>5. CASE \E d \in Caller, r \in Request :
              c2s = Frame(d, r) /\ c2s' = <<Chunk("len", d, r)>> /\ srv = "rlen"
    BY <1>1, <1>2, <1>5, HeldPipe
<1>6. QED BY <1>3, <1>4, <1>5, ShapeCut

PhaseOf(at, r, v) ==
    IF at = "idle" \/ r = Hello THEN "idle"
    ELSE IF at \in Waiting /\ v # None THEN "served" ELSE "called"

AskedOf(r) == IF r = Hello THEN None ELSE r

LEMMA PhaseOfIs ==
    ASSUME NEW at, NEW r, NEW v
    PROVE  /\ at = "idle" \/ r = Hello => PhaseOf(at, r, v) = "idle"
           /\ at # "idle" /\ r # Hello =>
                 /\ at \in Waiting /\ v # None => PhaseOf(at, r, v) = "served"
                 /\ at \notin Waiting \/ v = None => PhaseOf(at, r, v) = "called"
BY DEF PhaseOf, Waiting

LEMMA ViewIs ==
    /\ [c \in Caller |-> Phase(c)] = [c \in Caller |-> PhaseOf(pc[c], req[c], answer[c])]
    /\ [c \in Caller |-> Phase(c)]' = [c \in Caller |-> PhaseOf(pc'[c], req'[c], answer'[c])]
    /\ [c \in Caller |-> IF req[c] = Hello THEN None ELSE req[c]]
          = [c \in Caller |-> AskedOf(req[c])]
    /\ [c \in Caller |-> IF req[c] = Hello THEN None ELSE req[c]]'
          = [c \in Caller |-> AskedOf(req'[c])]
BY DEF Phase, PhaseOf, AskedOf, Hello, Waiting

\* A step that callers do not notice.
LEMMA Unnoticed ==
    ASSUME \A c \in Caller : PhaseOf(pc'[c], req'[c], answer'[c]) = PhaseOf(pc[c], req[c], answer[c]),
           \A c \in Caller : AskedOf(req'[c]) = AskedOf(req[c]),
           UNCHANGED <<answer, result, vfs>>, Orphaned' = Orphaned
    PROVE  UNCHANGED Service!vars
<1>1. [c \in Caller |-> PhaseOf(pc'[c], req'[c], answer'[c])]
         = [c \in Caller |-> PhaseOf(pc[c], req[c], answer[c])]
    OBVIOUS
<1>2. [c \in Caller |-> AskedOf(req'[c])] = [c \in Caller |-> AskedOf(req[c])]
    OBVIOUS
<1>3. QED BY <1>1, <1>2, ViewIs DEF Service!vars

\* The start of a call.
LEMMA InvokeStep ==
    ASSUME TypeOK, MutexOK, Lockstep, AtomicInv, NEW c \in Caller, NEW r \in FsRequest, Call(c, r)
    PROVE  Service!Invoke(c, r)
<1>1. /\ pc[c] = "idle" /\ pc'[c] \in {"queued", "wlen"} /\ req' = [req EXCEPT ![c] = r]
      /\ result' = [result EXCEPT ![c] = None] /\ UNCHANGED <<answer, vfs, c2s, srv, cur>>
      /\ \A d \in Caller : d # c => pc'[d] = pc[d]
    BY LockView DEF Call, wireVars, srvVars
<1>2. r # Hello /\ r \in Request
    BY ConstantAssumption DEF Hello, Request
<1>3. /\ req'[c] = r /\ \A d \in Caller : d # c => req'[d] = req[d]
    BY <1>1 DEF TypeOK
<1>4. /\ PhaseOf(pc[c], req[c], answer[c]) = "idle"
      /\ PhaseOf(pc'[c], req'[c], answer'[c]) = "called"
    BY <1>1, <1>2, <1>3, PhaseOfIs DEF Waiting
<1>5. AskedOf(req'[c]) = r
    BY <1>2, <1>3 DEF AskedOf
<1>6. Orphaned' = Orphaned
    <2>1. Held' = Held
        BY <1>1 DEF Held, HeldOf
    <2>2. \A y \in Held : pc'[y.by] \in Waiting <=> pc[y.by] \in Waiting
        BY <1>1, HeldTyped DEF Waiting
    <2>3. QED BY <2>1, <2>2, SameOrphans
<1>7. [d \in Caller |-> PhaseOf(pc'[d], req'[d], answer'[d])]
         = [[d \in Caller |-> PhaseOf(pc[d], req[d], answer[d])] EXCEPT ![c] = "called"]
    <2>1. \A d \in Caller : d # c =>
             PhaseOf(pc'[d], req'[d], answer'[d]) = PhaseOf(pc[d], req[d], answer[d])
        BY <1>1, <1>3
    <2>2. QED BY <1>4, <2>1
<1>8. [d \in Caller |-> AskedOf(req'[d])] = [[d \in Caller |-> AskedOf(req[d])] EXCEPT ![c] = r]
    BY <1>3, <1>5
<1>9. QED BY <1>1, <1>4, <1>6, <1>7, <1>8, ViewIs DEF Service!Invoke

\* The end of a call: it returns its answer or fails, and a call that fails
\* before its request was served may leave that request behind.
LEMMA FinishStep ==
    ASSUME Oversize = {}, TypeOK, MutexOK, Lockstep, AtomicInv, NEW c \in Caller, NEW o,
           pc[c] \in Holding, ClientStep(c), Finish(c, o), c2s' = c2s
    PROVE  Service!Return(c) \/ Service!Fail(c) \/ UNCHANGED Service!vars
<1> USE DEF AtomicInv
<1>1. /\ pc'[c] = "idle" /\ answer' = [answer EXCEPT ![c] = None]
      /\ \A d \in Caller : d # c => pc'[d] = pc[d] \/ (pc[d] = "queued" /\ pc'[d] = "wlen")
    BY FinishView
<1>2. UNCHANGED <<req, vfs, srv, cur>> /\ pc[c] # "idle"
    BY DEF Finish, srvVars, Holding, Waiting
<1>3. \A d \in Caller : d # c => answer'[d] = answer[d]
    BY <1>1
<1>4. \A d \in Caller : d # c =>
         PhaseOf(pc'[d], req'[d], answer'[d]) = PhaseOf(pc[d], req[d], answer[d])
    <2> SUFFICES ASSUME NEW d \in Caller, d # c
                 PROVE  PhaseOf(pc'[d], req'[d], answer'[d]) = PhaseOf(pc[d], req[d], answer[d])
        OBVIOUS
    <2>1. CASE pc'[d] = pc[d]
        BY <1>2, <1>3, <2>1
    <2>2. CASE pc[d] = "queued" /\ pc'[d] = "wlen"
        BY <1>2, <2>2, PhaseOfIs DEF Waiting
    <2>3. QED BY <1>1, <2>1, <2>2
<1>5. PhaseOf(pc'[c], req'[c], answer'[c]) = "idle"
    BY <1>1, PhaseOfIs
<1>6. Held' = Held
    BY <1>2 DEF Held, HeldOf
<1>7. \A d \in Caller : d # c => (pc'[d] \in Waiting <=> pc[d] \in Waiting)
    BY <1>1 DEF Waiting
<1>8. (pc[c] \notin Waiting \/ Held = {}) => Orphaned' = Orphaned
    <2> SUFFICES ASSUME pc[c] \notin Waiting \/ Held = {} PROVE Orphaned' = Orphaned
        OBVIOUS
    <2>1. \A y \in Held : pc'[y.by] \in Waiting <=> pc[y.by] \in Waiting
        BY <1>1, <1>7, HeldTyped DEF Waiting
    <2>2. QED BY <1>6, <2>1, SameOrphans
<1>9. pc[c] \in Waiting /\ Held # {} =>
         /\ answer[c] = None /\ Orphaned = {}
         /\ Orphaned' = {req[c]} \ {Hello}
    <2> SUFFICES ASSUME pc[c] \in Waiting, Held # {}
                 PROVE  /\ answer[c] = None /\ Orphaned = {}
                        /\ Orphaned' = {req[c]} \ {Hello}
        OBVIOUS
    <2>1. Held = {Chunk("body", c, req[c])} /\ answer[c] = None
        BY OwnHeld
    <2>2. Orphaned = {}
        BY NoOrphans
    <2>3. Orphaned' = {req[c]} \ {Hello}
        <3>1. {y \in Held : pc'[y.by] \notin Waiting} = {Chunk("body", c, req[c])}
            BY <1>1, <2>1, ChunkFacts DEF Waiting
        <3>2. {x.msg : x \in {Chunk("body", c, req[c])}} = {req[c]}
            BY ChunkFacts
        <3>3. QED BY <1>6, <3>1, <3>2, OrphanedIs DEF OrphansOf
    <2>4. QED BY <2>1, <2>2, <2>3
<1>10. CASE req[c] = Hello
    <2>1. answer[c] = None /\ answer' = answer
        BY <1>1, <1>10 DEF AnswersInCall, TypeOK
    <2>2. result' = result
        BY <1>10 DEF Finish
    <2>3. Orphaned' = Orphaned
        BY <1>8, <1>9, <1>10
    <2>4. PhaseOf(pc[c], req[c], answer[c]) = "idle"
        BY <1>10, PhaseOfIs
    <2>5. UNCHANGED Service!vars
        BY <1>2, <1>4, <1>5, <2>1, <2>2, <2>3, <2>4, Unnoticed
    <2>6. QED BY <2>5
<1>11. CASE req[c] # Hello
    <2>1. result' = [result EXCEPT ![c] = result'[c]]
        BY <1>11 DEF Finish, TypeOK
    <2>2. PhaseOf(pc[c], req[c], answer[c]) # "idle"
        BY <1>2, <1>11, PhaseOfIs
    <2>3. [d \in Caller |-> PhaseOf(pc'[d], req'[d], answer'[d])]
             = [[d \in Caller |-> PhaseOf(pc[d], req[d], answer[d])] EXCEPT ![c] = "idle"]
        BY <1>4, <1>5
    <2>4. [d \in Caller |-> AskedOf(req'[d])] = [d \in Caller |-> AskedOf(req[d])]
        BY <1>2
    <2>5. CASE result'[c] = answer[c] /\ answer[c] # None
        <3>1. pc[c] \in Waiting
            BY <2>5 DEF AnswersInCall
        <3>2. PhaseOf(pc[c], req[c], answer[c]) = "served"
            BY <1>2, <1>11, <2>5, <3>1, PhaseOfIs
        <3>3. Orphaned' = Orphaned
            BY <1>8, <1>9, <2>5
        <3>4. result' = [result EXCEPT ![c] = answer[c]]
            BY <2>1, <2>5
        <3>5. Service!Return(c)
            BY <1>1, <1>2, <2>3, <2>4, <3>2, <3>3, <3>4, ViewIs
                DEF Service!Return, Service!Finish
        <3>6. QED BY <3>5
    <2>6. CASE result'[c] = Err
        <3>1. result' = [result EXCEPT ![c] = Err]
            BY <2>1, <2>6
        <3>2. \/ Orphaned' = Orphaned
              \/ /\ PhaseOf(pc[c], req[c], answer[c]) = "called"
                 /\ Orphaned' = Orphaned \union {AskedOf(req[c])}
            <4>1. CASE pc[c] \in Waiting /\ Held # {}
                BY <1>2, <1>9, <1>11, <4>1, PhaseOfIs DEF AskedOf
            <4>2. QED BY <1>8, <4>1
        <3>3. Service!Fail(c)
            BY <1>1, <1>2, <2>2, <2>3, <2>4, <3>1, <3>2, ViewIs
                DEF Service!Fail, Service!Finish
        <3>4. QED BY <3>3
    <2>7. QED BY <1>1, <1>11, <2>5, <2>6, Outcomes
<1>12. QED BY <1>10, <1>11

\* Applying a request serves the call that waits for it, or an orphan.
LEMMA ApplyStep ==
    ASSUME TypeOK, MutexOK, Lockstep, AtomicInv, srv = "handle", cur.msg # Hello,
           Applied(cur.msg), Held' = {}, UNCHANGED <<pc, req, result>>
    PROVE  \/ \E c \in Caller : Service!Serve(c)
           \/ \E r \in Orphaned : Service!LateServe(r)
<1> USE DEF AtomicInv
<1>1. cur.by \in Caller /\ Held = {cur}
    BY OneHeld, HeldTyped
<1>2. vfs' = Effect(cur.msg, vfs) /\ Orphaned' = {}
    BY OrphanedIs DEF OrphansOf, Applied
<1>3. [d \in Caller |-> AskedOf(req'[d])] = [d \in Caller |-> AskedOf(req[d])]
    OBVIOUS
<1>4. CASE pc[cur.by] \in Waiting
    <2> DEFINE c == cur.by
    <2>1. cur = Chunk("body", c, req[c]) /\ answer[c] = None
        BY <1>1, <1>4, OwnHeld
    <2>2. cur.msg = req[c] /\ req[c] # Hello
        BY <2>1, ChunkFacts
    <2>3. answer' = [answer EXCEPT ![c] = Answer(req[c], vfs)]
        BY <1>4, <2>2 DEF Applied
    <2>4. Answer(req[c], vfs) # None
        <3>1. req[c] \in FsRequest /\ vfs \in Vfs
            BY <1>1, <2>2, HeldTyped DEF Request, TypeOK
        <3>2. QED BY <3>1, VfsAssumption, ConstantAssumption
    <2>5. PhaseOf(pc[c], req[c], answer[c]) = "called"
        BY <1>4, <2>1, <2>2, PhaseOfIs DEF Waiting
    <2>6. [d \in Caller |-> PhaseOf(pc'[d], req'[d], answer'[d])]
             = [[d \in Caller |-> PhaseOf(pc[d], req[d], answer[d])] EXCEPT ![c] = "served"]
        <3>1. answer'[c] # None /\ \A d \in Caller : d # c => answer'[d] = answer[d]
            BY <1>1, <2>3, <2>4 DEF TypeOK
        <3>2. PhaseOf(pc'[c], req'[c], answer'[c]) = "served"
            BY <1>4, <2>2, <3>1, PhaseOfIs DEF Waiting
        <3>3. QED BY <3>1, <3>2
    <2>7. Orphaned' = Orphaned
        BY <1>1, <1>2, <1>4, NoOrphans
    <2>8. AskedOf(req[c]) = req[c]
        BY <2>2 DEF AskedOf
    <2>9. Service!Serve(c)
        BY <1>1, <1>2, <1>3, <2>2, <2>3, <2>5, <2>6, <2>7, <2>8, ViewIs DEF Service!Serve
    <2>10. QED BY <1>1, <2>9
<1>5. CASE pc[cur.by] \notin Waiting
    <2>1. Orphaned = {cur.msg}
        <3>1. {y \in Held : pc[y.by] \notin Waiting} = {cur}
            BY <1>1, <1>5
        <3>2. QED BY <3>1, OrphanedIs DEF OrphansOf
    <2>2. answer' = answer
        BY <1>5 DEF Applied
    <2>3. Orphaned' = Orphaned \ {cur.msg}
        BY <1>2, <2>1
    <2>4. [d \in Caller |-> PhaseOf(pc'[d], req'[d], answer'[d])]
             = [d \in Caller |-> PhaseOf(pc[d], req[d], answer[d])]
        BY <2>2
    <2>5. Service!LateServe(cur.msg)
        BY <1>2, <1>3, <2>2, <2>3, <2>4, ViewIs DEF Service!LateServe
    <2>6. QED BY <2>1, <2>5
<1>6. QED BY <1>4, <1>5

\* A request that is lost leaves no trace, whether its caller still waits or not.
LEMMA LoseStep ==
    ASSUME PipeShape, UNCHANGED <<pc, req, result, answer, vfs>>, Held' = Held \/ Held' = {}
    PROVE  (\E r \in Orphaned : Service!Lose(r)) \/ UNCHANGED Service!vars
<1>1. CASE Orphaned' = Orphaned
    BY <1>1, Unnoticed
<1>2. CASE Orphaned' # Orphaned
    <2>1. Orphaned' = {}
        BY <1>2, SameOrphans, OrphanedIs DEF OrphansOf
    <2>2. \A r, q \in Orphaned : r = q
        BY OneHeld, OrphanedIs DEF OrphansOf
    <2>3. PICK r \in Orphaned : Orphaned' = Orphaned \ {r}
        BY <1>2, <2>1, <2>2
    <2>4. /\ [d \in Caller |-> PhaseOf(pc'[d], req'[d], answer'[d])]
               = [d \in Caller |-> PhaseOf(pc[d], req[d], answer[d])]
          /\ [d \in Caller |-> AskedOf(req'[d])] = [d \in Caller |-> AskedOf(req[d])]
        OBVIOUS
    <2>5. Service!Lose(r)
        BY <2>3, <2>4, ViewIs DEF Service!Lose
    <2>6. QED BY <2>5
<1>3. QED BY <1>1, <1>2

LEMMA SendStep ==
    ASSUME TypeOK, MutexOK, Lockstep, AtomicInv, NEW c \in Caller,
           SendLen(c) \/ SendBody(c) \/ RecvLen(c)
    PROVE  UNCHANGED Service!vars
<1> USE DEF AtomicInv
<1>1. /\ UNCHANGED <<req, answer, result, vfs, srv, cur>>
      /\ pc[c] \in Holding /\ pc'[c] \in Holding
      /\ \A d \in Caller : d # c => pc'[d] = pc[d]
    BY DEF SendLen, SendBody, RecvLen, srvVars, Holding, Waiting, TypeOK
<1>2. \A d \in Caller :
         PhaseOf(pc'[d], req'[d], answer'[d]) = PhaseOf(pc[d], req[d], answer[d])
    <2>1. CASE pc[c] \in Waiting <=> pc'[c] \in Waiting
        BY <1>1, <2>1, PhaseOfIs DEF Holding, Waiting, PhaseOf
    <2>2. CASE answer[c] = None
        BY <1>1, <2>2, PhaseOfIs DEF Holding, Waiting, PhaseOf
    <2>3. QED BY <1>1, <2>1, <2>2 DEF AnswersInCall, SendLen, SendBody, RecvLen, Waiting, TypeOK
<1>3. Orphaned' = Orphaned
    <2>1. Held = HeldOf(c2s, srv, cur) /\ Held' = HeldOf(c2s', srv', cur')
        BY DEF Held, HeldOf
    <2>2. CASE RecvLen(c)
        <3>1. Held' = Held /\ (pc'[c] \in Waiting <=> pc[c] \in Waiting)
            BY <1>1, <2>1, <2>2 DEF RecvLen, Waiting, TypeOK
        <3>2. QED BY <1>1, <3>1, SameOrphans, HeldTyped
    <2>3. CASE SendLen(c)
        <3>1. Held = {} /\ Held' = {}
            BY <2>1, <2>3, SendLenPipe, OneHeld, HeldPipe
        <3>2. QED BY <3>1, SameOrphans
    <2>4. CASE SendBody(c)
        <3>1. \/ srv = "rlen" /\ c2s = <<Chunk("len", c, req[c])>> /\ c2s' = Frame(c, req[c])
              \/ srv = "rbody" /\ c2s = <<>> /\ c2s' = <<Chunk("body", c, req[c])>>
            BY <2>4, SendBodyPipe
        <3>2. Held = {}
            <4>1. c2s = <<Chunk("len", c, req[c])>> => HeldOf(c2s, srv, cur) = {}
                BY <3>1, HeldPipe
            <4>2. QED BY <2>1, <3>1, <4>1, OneHeld
        <3>3. Held' = {Chunk("body", c, req[c])}
            <4>1. srv' # "handle"
                BY <1>1, <3>1
            <4>2. c2s' = Frame(c, req[c]) =>
                     HeldOf(c2s', srv', cur') = {Chunk("body", c, req[c])}
                BY <4>1, HeldPipe
            <4>3. ASSUME c2s' = <<Chunk("body", c, req[c])>>
                  PROVE  HeldOf(c2s', srv', cur') = {Chunk("body", c, req[c])}
                BY <4>1, <4>3, HeldPipe
            <4>4. QED BY <2>1, <3>1, <4>2, <4>3
        <3>4. pc'[c] \in Waiting
            BY <2>4 DEF SendBody, Waiting, TypeOK
        <3>5. {y \in Held' : pc'[y.by] \notin Waiting} = {}
            BY <3>3, <3>4, ChunkFacts
        <3>6. QED BY <3>2, <3>5, OrphanedIs DEF OrphansOf
    <2>5. QED BY <2>2, <2>3, <2>4
<1>4. QED BY <1>1, <1>2, <1>3, Unnoticed

\* Every step of the connection is a step of the service callers see, or none.
LEMMA ServiceStep ==
    ASSUME Oversize = {}, TypeOK, MutexOK, Lockstep, AtomicInv, [Next]_vars
    PROVE  [Service!Next]_(Service!vars)
<1> USE DEF AtomicInv
<1>1. ASSUME NEW c \in Caller, Connect(c) PROVE UNCHANGED Service!vars
    <2>1. /\ UNCHANGED <<answer, result, vfs, c2s, srv, cur>> /\ req' = [req EXCEPT ![c] = Hello]
          /\ \A d \in Caller : req[d] = None
          /\ \A d \in Caller : d # c => pc'[d] = pc[d]
          /\ pc[c] = "idle" /\ pc'[c] \in {"queued", "wlen"}
        BY <1>1, LockView DEF Connect, wireVars, srvVars, Unasked
    <2>2. None # Hello /\ req'[c] = Hello /\ \A d \in Caller : d # c => req'[d] = req[d]
        BY <2>1, HelloOp, ConstantAssumption DEF TypeOK
    <2>3. Orphaned' = Orphaned
        <3>1. Held' = Held /\ \A y \in Held : pc'[y.by] \in Waiting <=> pc[y.by] \in Waiting
            BY <2>1, HeldTyped DEF Held, HeldOf, Waiting
        <3>2. QED BY <3>1, SameOrphans
    <2>4. \A d \in Caller :
             PhaseOf(pc'[d], req'[d], answer'[d]) = PhaseOf(pc[d], req[d], answer[d])
        BY <2>1, <2>2, PhaseOfIs
    <2>5. \A d \in Caller : AskedOf(req'[d]) = AskedOf(req[d])
        BY <2>1, <2>2 DEF AskedOf
    <2>6. QED BY <2>1, <2>3, <2>4, <2>5, Unnoticed
<1>2. ASSUME NEW c \in Caller, NEW r \in FsRequest, Call(c, r) PROVE Service!Next
    BY <1>2, InvokeStep DEF Service!Next
<1>3. ASSUME NEW c \in Caller, ClientStep(c) PROVE [Service!Next]_(Service!vars)
    <2>1. CASE SendLen(c) \/ SendBody(c) \/ RecvLen(c)
        BY <2>1, SendStep
    <2>2. ASSUME NEW o, pc[c] \in Holding, Finish(c, o), c2s' = c2s
          PROVE  [Service!Next]_(Service!vars)
        BY <1>3, <2>2, FinishStep DEF Service!Next
    <2>3. QED BY <1>3, <2>1, <2>2, ClientEnds
<1>4. CASE SrvHandle
    <2>1. Held' = {} /\ srv = "handle" /\ UNCHANGED <<pc, req, result>>
        BY <1>4, HeldServes DEF SrvHandle, clientVars
    <2>2. CASE cur.msg = Hello
        <3>1. UNCHANGED <<vfs, answer>>
            BY <1>4, <2>2 DEF SrvHandle
        <3>2. Orphaned' = Orphaned
            <4>1. Held = {cur}
                BY <2>1, OneHeld
            <4>2. Orphaned = {} /\ Orphaned' = {}
                BY <2>1, <2>2, <4>1, OrphanedIs DEF OrphansOf
            <4>3. QED BY <4>2
        <3>3. QED BY <2>1, <3>1, <3>2, Unnoticed
    <2>3. CASE cur.msg # Hello
        <3>1. Applied(cur.msg)
            BY <1>4, <2>3 DEF SrvHandle
        <3>2. QED BY <2>1, <2>3, <3>1, ApplyStep DEF Service!Next
    <2>4. QED BY <2>2, <2>3
<1>5. CASE VfsPanic
    <2>1. Held' = {} /\ srv = "handle" /\ cur.msg # Hello /\ UNCHANGED <<pc, req, result>>
        BY <1>5, HeldServes DEF VfsPanic, clientVars
    <2>2. CASE Applied(cur.msg)
        BY <2>1, <2>2, ApplyStep DEF Service!Next
    <2>3. CASE UNCHANGED <<vfs, answer>>
        BY <2>1, <2>3, LoseStep DEF Service!Next
    <2>4. QED BY <1>5, <2>2, <2>3 DEF VfsPanic
<1>6. CASE SrvRecvLen \/ SrvRecvBody
    <2>1. UNCHANGED <<pc, req, result, answer, vfs>>
        BY <1>6 DEF SrvRecvLen, SrvRecvBody, clientVars
    <2>2. QED BY <1>6, <2>1, HeldReads, LoseStep DEF Service!Next
<1>7. CASE SrvSendLen \/ SrvSendBody \/ SrvEnd
    <2>1. UNCHANGED <<pc, req, result, answer, vfs>>
        BY <1>7 DEF SrvSendLen, SrvSendBody, SrvEnd, clientVars
    <2>2. QED BY <1>7, <2>1, HeldServes, LoseStep DEF Service!Next
<1>8. CASE LinkDown
    <2>1. UNCHANGED <<pc, req, result, answer, vfs>>
        BY <1>8 DEF LinkDown, clientVars, srvVars
    <2>2. QED BY <1>8, <2>1, HeldCut, LoseStep DEF Service!Next
<1>9. CASE Reconnect
    <2>1. UNCHANGED <<pc, req, result, answer, vfs>> /\ srv' = "rlen" /\ c2s' = <<>>
        BY <1>9 DEF Reconnect, clientVars
    <2>2. Held' = {}
        BY <2>1, HeldEmpty DEF Held, HeldOf
    <2>3. QED BY <2>1, <2>2, LoseStep DEF Service!Next
<1>10. CASE Terminated \/ UNCHANGED vars
    <2>1. UNCHANGED <<pc, req, result, answer, vfs, c2s, srv, cur>>
        BY <1>10 DEF Terminated, vars, clientVars, wireVars, srvVars
    <2>2. Held' = Held
        BY <2>1 DEF Held, HeldOf
    <2>3. QED BY <2>1, <2>2, LoseStep DEF Service!Next
<1>11. QED
    BY <1>1, <1>2, <1>3, <1>4, <1>5, <1>6, <1>7, <1>8, <1>9, <1>10, ShapeAligned
        DEF Next, SrvStep

\* Callers that share a connection see a file system whose calls take effect at
\* most once, atomically, between their start and their return, and that return
\* the value computed for them or fail (client.rs:70-76, server.rs:14-33).
THEOREM ServiceCorrect ==
    Oversize = {} /\ Reconnects # "any" => (Spec => ServiceSpec)
<1> SUFFICES ASSUME Oversize = {}, Reconnects # "any" PROVE Spec => ServiceSpec
    OBVIOUS
<1>1. Init => Service!Init
    <2> SUFFICES ASSUME Init PROVE Service!Init
        OBVIOUS
    <2>1. ASSUME NEW c \in Caller
          PROVE  PhaseOf(pc[c], req[c], answer[c]) = "idle" /\ AskedOf(req[c]) = None
        <3>1. pc[c] = "idle" /\ req[c] = None
            BY DEF Init
        <3>2. QED BY <3>1, PhaseOfIs, HelloOp, ConstantAssumption DEF AskedOf
    <2>2. Orphaned = {}
        <3>1. Held = {}
            BY HeldEmpty DEF Init, Held
        <3>2. QED BY <3>1, OrphanedIs DEF OrphansOf
    <2>3. QED BY <2>1, <2>2, ViewIs DEF Init, Service!Init
<1>2. TypeOK /\ MutexOK /\ Lockstep /\ AtomicInv /\ [Next]_vars => [Service!Next]_(Service!vars)
    BY ServiceStep
<1>3. Spec => []Lockstep /\ []AtomicInv
    BY LockstepCorrect, AtomicCorrect
<1>4. QED
    BY <1>1, <1>2, <1>3, TypeCorrect, MutexCorrect, PTL DEF Spec, ServiceSpec, Service!Spec
===============================================================================
