-------------------------- MODULE MacosSandboxProofs --------------------------
(* MacosSandbox, for any number of mounts and calls, dropped futures, a       *)
(* thread that dies and a framework that does not answer: types, what Stopped *)
(* and a finished stop mean, and the life cycle callers see.                  *)
EXTENDS MacosSandbox, TLAPS

\* How far the thread is, and what it has by then.  One that is over has nothing.
ThreadSide ==
    /\ ThreadOver => vm \in {"none", "released"} /\ held = {} /\ chan = <<>> /\ waiters = {}
    /\ thread \in {"building", "starting"} =>
          inner = "none" /\ chan = <<>> /\ started = "none" /\ job.op = "None" /\ ~stopped
    /\ thread = "building" => vm = "none"
    /\ thread \in {"starting"} \union ThreadLoop => raw = {} /\ vm # "none"
    /\ started = "Ok" => thread \in ThreadLoop \union {"over"} /\ raw = {} /\ vm # "none"
    /\ thread \in {"asked", "stopping"} => job.op \in {"Stop", "Shutdown"}

\* What the methods know of the thread: start is awaited or given up as long as
\* the sandbox is Starting, and while self holds Inner the thread has not heard
\* of a stop, so that its end alone answers a wait.
CallerSide ==
    /\ state = "Created" =>
          /\ thread = "none" /\ started = "none" /\ vm = "none" /\ raw = {}
          /\ pc = "idle" /\ inner = "none" /\ ~givenUp /\ ~stopped /\ job.op = "None"
    /\ state = "Starting" => pc = "start" \/ givenUp
    /\ pc = "start" => chan = <<>> /\ job.op = "None" /\ ~stopped /\ thread # "none"
    /\ inner = "self" =>
          /\ state = "Running" \/ (state = "Stopped" /\ ThreadOver)
          /\ ~stopped /\ job.op = "None" /\ thread \in {"recv", "over"} /\ pc \in {"idle", "wait"}
    /\ pc = "wait" => inner = "self" /\ (answer = "none" \/ ThreadOver)
    /\ pc \in {"stop", "join"} => state = "Stopping"
    /\ dropped => pc \in {"idle", "dropping"}
    /\ pc = "dropping" => dropped \/ state = "Stopping"

\* Nothing but waits is in the channel while self holds Inner.
OnlyWaits == inner = "self" => \A i \in 1..Len(chan) : chan[i].op = "Wait"

IInv == TypeOK /\ ThreadSide /\ CallerSide /\ OnlyWaits /\ StoppedMeansGone

LEMMA InitOK == Init => IInv
<1> USE DEF Init
<1> SUFFICES ASSUME Init PROVE IInv
  OBVIOUS
<1>1. chan \in Seq(Command)
  OBVIOUS
<1>2. job \in Command \union {None} /\ job.op = "None"
  BY DEF None
<1>3. TypeOK
  BY <1>1, <1>2 DEF TypeOK, CallerTypes, ThreadTypes, Holding
<1>4. ThreadSide /\ CallerSide
  BY <1>2 DEF ThreadSide, CallerSide, ThreadOver, ThreadLoop
<1> QED BY <1>3, <1>4 DEF IInv, OnlyWaits, StoppedMeansGone

\* What is sent is a command, and reaches a thread that is not over.
LEMMA SendOK ==
    ASSUME chan \in Seq(Command), call' \in Nat, NEW op \in {"Stop", "Wait", "Shutdown"}, Send(op)
    PROVE  /\ chan' \in Seq(Command)
           /\ ThreadOver => chan' = chan
           /\ op = "Wait" /\ (\A i \in 1..Len(chan) : chan[i].op = "Wait") =>
                 \A i \in 1..Len(chan') : chan'[i].op = "Wait"
<1>1. [op |-> op, call |-> call'] \in Command
  BY DEF Command
<1>2. CASE ThreadOver
  BY <1>2 DEF Send
<1>3. CASE ~ThreadOver
  <2>1. chan' = Append(chan, [op |-> op, call |-> call'])
    BY <1>3 DEF Send
  <2>2. chan' \in Seq(Command)
    BY <1>1, <2>1
  <2>3. Len(chan') = Len(chan) + 1
    BY <1>1, <2>1
  <2>4. \A i \in 1..Len(chan) : chan'[i] = chan[i]
    BY <1>1, <2>1
  <2>5. chan'[Len(chan) + 1].op = op
    BY <1>1, <2>1
  <2>6. \A i \in 1..Len(chan') : i \in 1..Len(chan) \/ i = Len(chan) + 1
    BY <2>3
  <2> QED BY <1>3, <2>2, <2>4, <2>5, <2>6
<1> QED BY <1>2, <1>3

\* What is received is a command, the rest are those that were behind it.
LEMMA ReceiveOK ==
    ASSUME chan \in Seq(Command), chan # <<>>
    PROVE  /\ Head(chan) \in Command /\ Head(chan) = chan[1] /\ 1 \in 1..Len(chan)
           /\ Tail(chan) \in Seq(Command)
           /\ (\A i \in 1..Len(chan) : chan[i].op = "Wait") =>
                 \A i \in 1..Len(Tail(chan)) : Tail(chan)[i].op = "Wait"
<1>1. Len(Tail(chan)) = Len(chan) - 1 /\ Len(chan) \in Nat /\ Len(chan) > 0
  OBVIOUS
<1>2. \A i \in 1..Len(Tail(chan)) : Tail(chan)[i] = chan[i + 1] /\ i + 1 \in 1..Len(chan)
  BY <1>1
<1>3. Tail(chan) \in Seq(Command) /\ Head(chan) \in Command /\ Head(chan) = chan[1]
  OBVIOUS
<1> QED BY <1>1, <1>2, <1>3

\* The methods keep the invariant (lib.rs:82-134, imp.rs:59-204).
LEMMA StartOK ==
    ASSUME IInv, Start \/ StartAgain \/ Started
    PROVE  IInv'
<1> USE DEF IInv, TypeOK, ThreadOver, ThreadLoop, Callable, Return, Await, caller, locals,
            ends, link, machine, Heard, Ok
<1>1. CASE Start
  <2>1. PICK n \in 0..NMounts :
          /\ raw' = 1..n /\ serving' = 1..n
          /\ \/ state' = "Failed" /\ Return("Error") /\ UNCHANGED thread
             \/ n = NMounts /\ state' = "Starting" /\ Await("start") /\ thread' = "building"
    BY <1>1 DEF Start
  <2>2. 1..n \subseteq Mount
    BY <2>1, SandboxAssumption DEF Mount
  <2>3. CallerTypes' /\ ThreadTypes'
    BY <1>1, <2>1, <2>2 DEF Start, CallerTypes, ThreadTypes
  <2>4. Holding'
    BY <1>1, <2>1 DEF Start, Holding, CallerSide
  <2>5. ThreadSide' /\ CallerSide'
    BY <1>1, <2>1 DEF Start, Holding, ThreadSide, CallerSide
  <2>6. OnlyWaits' /\ StoppedMeansGone'
    BY <1>1, <2>1 DEF Start, CallerSide, OnlyWaits, StoppedMeansGone
  <2> QED BY <2>3, <2>4, <2>5, <2>6
<1>2. CASE StartAgain
  <2>1. CallerTypes'
    BY <1>2 DEF StartAgain, CallerTypes
  <2>2. ThreadTypes'
    BY <1>2 DEF StartAgain, ThreadTypes
  <2>3. Holding'
    BY <1>2 DEF StartAgain, Holding, ThreadSide, CallerSide
  <2>4. ThreadSide'
    BY <1>2 DEF StartAgain, Holding, ThreadSide, CallerSide
  <2>5. CallerSide'
    BY <1>2 DEF StartAgain, Holding, ThreadSide, CallerSide
  <2>6. OnlyWaits' /\ StoppedMeansGone'
    BY <1>2 DEF StartAgain, Holding, ThreadSide, CallerSide, OnlyWaits, StoppedMeansGone, VmGone
  <2> QED BY <2>1, <2>2, <2>3, <2>4, <2>5, <2>6
<1>3. CASE Started
  <2>1. CallerTypes'
    BY <1>3 DEF Started, CallerTypes
  <2>2. ThreadTypes'
    BY <1>3 DEF Started, ThreadTypes
  <2>3. Holding'
    BY <1>3 DEF Started, Holding, ThreadSide, CallerSide
  <2>4. ThreadSide'
    BY <1>3 DEF Started, Holding, ThreadSide, CallerSide
  <2>5. CallerSide'
    BY <1>3 DEF Started, Holding, ThreadSide, CallerSide
  <2>6. OnlyWaits' /\ StoppedMeansGone'
    BY <1>3 DEF Started, Holding, ThreadSide, CallerSide, OnlyWaits, StoppedMeansGone, VmGone
  <2> QED BY <2>1, <2>2, <2>3, <2>4, <2>5, <2>6
<1> QED BY <1>1, <1>2, <1>3

LEMMA StopOK ==
    ASSUME IInv, Stop \/ StopNothing \/ StopHeard \/ StopDone
    PROVE  IInv'
<1> USE DEF IInv, TypeOK, ThreadOver, ThreadLoop, Callable, Return, Await, caller, locals,
            ends, link, machine, Heard, Ok
<1>1. CASE Stop /\ inner = "self"
  <2>1. chan \in Seq(Command) /\ call \in Nat
    BY DEF ThreadTypes
  <2>2. Send("Stop") /\ call' \in Nat
    BY <1>1, <2>1 DEF Stop, Ask
  <2>3. /\ chan' \in Seq(Command)
        /\ ThreadOver => chan' = chan
    BY <2>1, <2>2, SendOK
  <2>4. CallerTypes'
    BY <1>1, <2>2, <2>3 DEF Stop, Ask, CallerTypes
  <2>5. ThreadTypes'
    BY <1>1, <2>2, <2>3 DEF Stop, Ask, ThreadTypes
  <2>6. Holding'
    BY <1>1, <2>2, <2>3 DEF Stop, Ask, Holding, ThreadSide, CallerSide
  <2>7. ThreadSide'
    BY <1>1, <2>2, <2>3 DEF Stop, Ask, Holding, ThreadSide, CallerSide
  <2>8. CallerSide'
    BY <1>1, <2>2, <2>3 DEF Stop, Ask, Holding, ThreadSide, CallerSide
  <2>9. OnlyWaits' /\ StoppedMeansGone'
    BY <1>1, <2>2, <2>3 DEF Stop, Ask, Holding, ThreadSide, CallerSide, OnlyWaits,
       StoppedMeansGone, VmGone
  <2> QED BY <2>4, <2>5, <2>6, <2>7, <2>8, <2>9
<1>2. CASE Stop /\ inner # "self"
  <2>1. CallerTypes'
    BY <1>2 DEF Stop, CallerTypes
  <2>2. ThreadTypes'
    BY <1>2 DEF Stop, ThreadTypes
  <2>3. Holding'
    BY <1>2 DEF Stop, Holding, ThreadSide, CallerSide
  <2>4. ThreadSide'
    BY <1>2 DEF Stop, Holding, ThreadSide, CallerSide
  <2>5. CallerSide'
    BY <1>2 DEF Stop, Holding, ThreadSide, CallerSide
  <2>6. OnlyWaits' /\ StoppedMeansGone'
    <3>1. state = "Starting" /\ givenUp
      BY <1>2 DEF Stop, CallerTypes, Holding, CallerSide
    <3> QED BY <1>2, <3>1 DEF Stop, OnlyWaits, StoppedMeansGone
  <2> QED BY <2>1, <2>2, <2>3, <2>4, <2>5, <2>6
<1>3. CASE StopNothing
  <2>1. CallerTypes'
    BY <1>3 DEF StopNothing, CallerTypes
  <2>2. ThreadTypes'
    BY <1>3 DEF StopNothing, ThreadTypes
  <2>3. Holding'
    BY <1>3 DEF StopNothing, Holding, ThreadSide, CallerSide
  <2>4. ThreadSide'
    BY <1>3 DEF StopNothing, Holding, ThreadSide, CallerSide
  <2>5. CallerSide'
    BY <1>3 DEF StopNothing, Holding, ThreadSide, CallerSide
  <2>6. OnlyWaits' /\ StoppedMeansGone'
    BY <1>3 DEF StopNothing, Holding, ThreadSide, CallerSide, OnlyWaits, StoppedMeansGone, VmGone
  <2> QED BY <2>1, <2>2, <2>3, <2>4, <2>5, <2>6
<1>4. CASE StopHeard
  <2>1. chan \in Seq(Command) /\ call \in Nat
    BY DEF ThreadTypes
  <2>2. Send("Shutdown") /\ call' \in Nat
    BY <1>4, <2>1 DEF StopHeard, Shutdown
  <2>3. /\ chan' \in Seq(Command)
        /\ ThreadOver => chan' = chan
    BY <2>1, <2>2, SendOK
  <2>4. CallerTypes'
    BY <1>4, <2>2, <2>3 DEF StopHeard, Shutdown, CallerTypes
  <2>5. ThreadTypes'
    BY <1>4, <2>2, <2>3 DEF StopHeard, Shutdown, ThreadTypes
  <2>6. Holding'
    BY <1>4, <2>2, <2>3 DEF StopHeard, Shutdown, Holding, ThreadSide, CallerSide
  <2>7. ThreadSide'
    BY <1>4, <2>2, <2>3 DEF StopHeard, Shutdown, Holding, ThreadSide, CallerSide
  <2>8. CallerSide'
    BY <1>4, <2>2, <2>3 DEF StopHeard, Shutdown, Holding, ThreadSide, CallerSide
  <2>9. OnlyWaits' /\ StoppedMeansGone'
    BY <1>4, <2>2, <2>3 DEF StopHeard, Shutdown, Holding, ThreadSide, CallerSide, OnlyWaits,
       StoppedMeansGone, VmGone
  <2> QED BY <2>4, <2>5, <2>6, <2>7, <2>8, <2>9
<1>5. CASE StopDone
  <2>1. CallerTypes'
    BY <1>5 DEF StopDone, CallerTypes
  <2>2. ThreadTypes'
    BY <1>5 DEF StopDone, ThreadTypes
  <2>3. Holding'
    BY <1>5 DEF StopDone, Holding, ThreadSide, CallerSide
  <2>4. ThreadSide'
    BY <1>5 DEF StopDone, Holding, ThreadSide, CallerSide
  <2>5. CallerSide'
    BY <1>5 DEF StopDone, Holding, ThreadSide, CallerSide
  <2>6. OnlyWaits' /\ StoppedMeansGone'
    BY <1>5 DEF StopDone, Holding, ThreadSide, CallerSide, OnlyWaits, StoppedMeansGone, VmGone
  <2> QED BY <2>1, <2>2, <2>3, <2>4, <2>5, <2>6
<1> QED BY <1>1, <1>2, <1>3, <1>4, <1>5

\* wait, Drop and dropped futures keep it.
LEMMA CallerOK ==
    ASSUME IInv, Wait \/ WaitDone \/ Cancel \/ Drop \/ InnerDropped
    PROVE  IInv'
<1> USE DEF IInv, TypeOK, ThreadOver, ThreadLoop, Callable, Return, Await, caller, locals,
            ends, link, machine, Heard, Ok
<1>1. CASE Wait /\ inner = "self"
  <2>1. chan \in Seq(Command) /\ call \in Nat
    BY DEF ThreadTypes
  <2>2. Send("Wait") /\ call' \in Nat
    BY <1>1, <2>1 DEF Wait, Ask
  <2>3. /\ chan' \in Seq(Command)
        /\ ThreadOver => chan' = chan
        /\ OnlyWaits'
    BY <1>1, <2>1, <2>2, SendOK DEF Wait, Ask, OnlyWaits
  <2>4. CallerTypes'
    BY <1>1, <2>2, <2>3 DEF Wait, Ask, CallerTypes
  <2>5. ThreadTypes'
    BY <1>1, <2>2, <2>3 DEF Wait, Ask, ThreadTypes
  <2>6. Holding'
    BY <1>1, <2>2, <2>3 DEF Wait, Ask, Holding, ThreadSide, CallerSide
  <2>7. ThreadSide'
    BY <1>1, <2>2, <2>3 DEF Wait, Ask, Holding, ThreadSide, CallerSide
  <2>8. CallerSide'
    BY <1>1, <2>2, <2>3 DEF Wait, Ask, Holding, ThreadSide, CallerSide
  <2>9. OnlyWaits' /\ StoppedMeansGone'
    BY <1>1, <2>2, <2>3 DEF Wait, Ask, Holding, ThreadSide, CallerSide, OnlyWaits,
       StoppedMeansGone, VmGone
  <2> QED BY <2>4, <2>5, <2>6, <2>7, <2>8, <2>9
<1>2. CASE Wait /\ inner # "self"
  <2>1. CallerTypes'
    BY <1>2 DEF Wait, CallerTypes
  <2>2. ThreadTypes'
    BY <1>2 DEF Wait, ThreadTypes
  <2>3. Holding'
    BY <1>2 DEF Wait, Holding, ThreadSide, CallerSide
  <2>4. ThreadSide'
    BY <1>2 DEF Wait, Holding, ThreadSide, CallerSide
  <2>5. CallerSide'
    BY <1>2 DEF Wait, Holding, ThreadSide, CallerSide
  <2>6. OnlyWaits' /\ StoppedMeansGone'
    BY <1>2 DEF Wait, Holding, ThreadSide, CallerSide, OnlyWaits, StoppedMeansGone, VmGone
  <2> QED BY <2>1, <2>2, <2>3, <2>4, <2>5, <2>6
<1>3. CASE WaitDone
  <2>1. CallerTypes'
    BY <1>3 DEF WaitDone, CallerTypes
  <2>2. ThreadTypes'
    BY <1>3 DEF WaitDone, ThreadTypes
  <2>3. Holding'
    BY <1>3 DEF WaitDone, Holding, ThreadSide, CallerSide
  <2>4. ThreadSide'
    BY <1>3 DEF WaitDone, Holding, ThreadSide, CallerSide
  <2>5. CallerSide'
    BY <1>3 DEF WaitDone, Holding, ThreadSide, CallerSide
  <2>6. OnlyWaits' /\ StoppedMeansGone'
    BY <1>3 DEF WaitDone, Holding, ThreadSide, CallerSide, OnlyWaits, StoppedMeansGone, VmGone
  <2> QED BY <2>1, <2>2, <2>3, <2>4, <2>5, <2>6
<1>4. CASE Cancel /\ pc = "stop"
  <2>1. chan \in Seq(Command) /\ call \in Nat
    BY DEF ThreadTypes
  <2>2. Send("Shutdown") /\ call' \in Nat
    BY <1>4, <2>1 DEF Cancel, Shutdown
  <2>3. /\ chan' \in Seq(Command)
        /\ ThreadOver => chan' = chan
    BY <2>1, <2>2, SendOK
  <2>4. CallerTypes'
    BY <1>4, <2>2, <2>3 DEF Cancel, Shutdown, CallerTypes
  <2>5. ThreadTypes'
    BY <1>4, <2>2, <2>3 DEF Cancel, Shutdown, ThreadTypes
  <2>6. Holding'
    BY <1>4, <2>2, <2>3 DEF Cancel, Shutdown, Holding, ThreadSide, CallerSide
  <2>7. ThreadSide'
    BY <1>4, <2>2, <2>3 DEF Cancel, Shutdown, Holding, ThreadSide, CallerSide
  <2>8. CallerSide'
    BY <1>4, <2>2, <2>3 DEF Cancel, Shutdown, Holding, ThreadSide, CallerSide
  <2>9. OnlyWaits' /\ StoppedMeansGone'
    BY <1>4, <2>2, <2>3 DEF Cancel, Shutdown, Holding, ThreadSide, CallerSide, OnlyWaits,
       StoppedMeansGone, VmGone
  <2> QED BY <2>4, <2>5, <2>6, <2>7, <2>8, <2>9
<1>5. CASE Cancel /\ pc # "stop"
  <2>1. CallerTypes'
    BY <1>5 DEF Cancel, CallerTypes
  <2>2. ThreadTypes'
    BY <1>5 DEF Cancel, ThreadTypes
  <2>3. Holding'
    BY <1>5 DEF Cancel, Holding, ThreadSide, CallerSide
  <2>4. ThreadSide'
    BY <1>5 DEF Cancel, Holding, ThreadSide, CallerSide
  <2>5. CallerSide'
    BY <1>5 DEF Cancel, Holding, ThreadSide, CallerSide
  <2>6. OnlyWaits' /\ StoppedMeansGone'
    BY <1>5 DEF Cancel, Holding, ThreadSide, CallerSide, OnlyWaits, StoppedMeansGone, VmGone
  <2> QED BY <2>1, <2>2, <2>3, <2>4, <2>5, <2>6
<1>6. CASE Drop /\ inner = "self"
  <2>1. chan \in Seq(Command) /\ call \in Nat
    BY DEF ThreadTypes
  <2>2. Send("Shutdown") /\ call' \in Nat
    BY <1>6, <2>1 DEF Drop, Shutdown
  <2>3. /\ chan' \in Seq(Command)
        /\ ThreadOver => chan' = chan
    BY <2>1, <2>2, SendOK
  <2>4. CallerTypes'
    BY <1>6, <2>2, <2>3 DEF Drop, Shutdown, CallerTypes
  <2>5. ThreadTypes'
    BY <1>6, <2>2, <2>3 DEF Drop, Shutdown, ThreadTypes
  <2>6. Holding'
    BY <1>6, <2>2, <2>3 DEF Drop, Shutdown, Holding, ThreadSide, CallerSide
  <2>7. ThreadSide'
    BY <1>6, <2>2, <2>3 DEF Drop, Shutdown, Holding, ThreadSide, CallerSide
  <2>8. CallerSide'
    BY <1>6, <2>2, <2>3 DEF Drop, Shutdown, Holding, ThreadSide, CallerSide
  <2>9. OnlyWaits' /\ StoppedMeansGone'
    BY <1>6, <2>2, <2>3 DEF Drop, Shutdown, Holding, ThreadSide, CallerSide, OnlyWaits,
       StoppedMeansGone, VmGone
  <2> QED BY <2>4, <2>5, <2>6, <2>7, <2>8, <2>9
<1>7. CASE Drop /\ inner # "self"
  <2>1. CallerTypes'
    BY <1>7 DEF Drop, CallerTypes
  <2>2. ThreadTypes'
    BY <1>7 DEF Drop, ThreadTypes
  <2>3. Holding'
    BY <1>7 DEF Drop, Holding, ThreadSide, CallerSide
  <2>4. ThreadSide'
    BY <1>7 DEF Drop, Holding, ThreadSide, CallerSide
  <2>5. CallerSide'
    BY <1>7 DEF Drop, Holding, ThreadSide, CallerSide
  <2>6. OnlyWaits' /\ StoppedMeansGone'
    BY <1>7 DEF Drop, Holding, ThreadSide, CallerSide, OnlyWaits, StoppedMeansGone, VmGone
  <2> QED BY <2>1, <2>2, <2>3, <2>4, <2>5, <2>6
<1>8. CASE InnerDropped
  <2>1. CallerTypes'
    BY <1>8 DEF InnerDropped, CallerTypes
  <2>2. ThreadTypes'
    BY <1>8 DEF InnerDropped, ThreadTypes
  <2>3. Holding'
    BY <1>8 DEF InnerDropped, Holding, ThreadSide, CallerSide
  <2>4. ThreadSide'
    BY <1>8 DEF InnerDropped, Holding, ThreadSide, CallerSide
  <2>5. CallerSide'
    BY <1>8 DEF InnerDropped, Holding, ThreadSide, CallerSide
  <2>6. OnlyWaits' /\ StoppedMeansGone'
    BY <1>8 DEF InnerDropped, Holding, ThreadSide, CallerSide, OnlyWaits, StoppedMeansGone, VmGone
  <2> QED BY <2>1, <2>2, <2>3, <2>4, <2>5, <2>6
<1> QED BY <1>1, <1>2, <1>3, <1>4, <1>5, <1>6, <1>7, <1>8

\* So does the thread (imp.rs:247-320, 473-504).
LEMMA BuildOK ==
    ASSUME IInv,
    Build \/ BuildFails \/ VmStarts \/ VmRefuses \/ Slept \/ RecvDisconnected \/ Panic
    PROVE  IInv'
<1> USE DEF IInv, TypeOK, ThreadOver, ThreadLoop, caller, locals, ends, link, machine,
            ThreadStep, None
<1>0. <<>> \in Seq(Command)
  OBVIOUS
<1>1. CASE Build
  <2>1. CallerTypes'
    BY <1>1, <1>0 DEF Build, CallerTypes
  <2>2. ThreadTypes'
    BY <1>1, <1>0 DEF Build, ThreadTypes
  <2>3. Holding'
    BY <1>1, <1>0 DEF Build, Holding, ThreadSide, CallerSide
  <2>4. ThreadSide'
    BY <1>1, <1>0 DEF Build, Holding, ThreadSide, CallerSide
  <2>5. CallerSide'
    BY <1>1, <1>0 DEF Build, Holding, ThreadSide, CallerSide
  <2>6. OnlyWaits' /\ StoppedMeansGone'
    BY <1>1, <1>0 DEF Build, Holding, ThreadSide, CallerSide, OnlyWaits, StoppedMeansGone, VmGone
  <2> QED BY <2>1, <2>2, <2>3, <2>4, <2>5, <2>6
<1>2. CASE BuildFails
  <2>1. CallerTypes'
    BY <1>2, <1>0 DEF BuildFails, End, CallerTypes
  <2>2. ThreadTypes'
    BY <1>2, <1>0 DEF BuildFails, End, ThreadTypes
  <2>3. Holding'
    BY <1>2, <1>0 DEF BuildFails, End, Holding, ThreadSide, CallerSide
  <2>4. ThreadSide'
    BY <1>2, <1>0 DEF BuildFails, End, Holding, ThreadSide, CallerSide
  <2>5. CallerSide'
    BY <1>2, <1>0 DEF BuildFails, End, Holding, ThreadSide, CallerSide
  <2>6. OnlyWaits' /\ StoppedMeansGone'
    BY <1>2, <1>0 DEF BuildFails, End, Holding, ThreadSide, CallerSide, OnlyWaits,
       StoppedMeansGone, VmGone
  <2> QED BY <2>1, <2>2, <2>3, <2>4, <2>5, <2>6
<1>3. CASE VmStarts
  <2>1. CallerTypes'
    BY <1>3, <1>0 DEF VmStarts, CallerTypes
  <2>2. ThreadTypes'
    BY <1>3, <1>0 DEF VmStarts, ThreadTypes
  <2>3. Holding'
    BY <1>3, <1>0 DEF VmStarts, Holding, ThreadSide, CallerSide
  <2>4. ThreadSide'
    BY <1>3, <1>0 DEF VmStarts, Holding, ThreadSide, CallerSide
  <2>5. CallerSide'
    BY <1>3, <1>0 DEF VmStarts, Holding, ThreadSide, CallerSide
  <2>6. OnlyWaits' /\ StoppedMeansGone'
    BY <1>3, <1>0 DEF VmStarts, Holding, ThreadSide, CallerSide, OnlyWaits, StoppedMeansGone,
       VmGone
  <2> QED BY <2>1, <2>2, <2>3, <2>4, <2>5, <2>6
<1>4. CASE VmRefuses
  <2>1. CallerTypes'
    BY <1>4, <1>0 DEF VmRefuses, End, CallerTypes
  <2>2. ThreadTypes'
    BY <1>4, <1>0 DEF VmRefuses, End, ThreadTypes
  <2>3. Holding'
    BY <1>4, <1>0 DEF VmRefuses, End, Holding, ThreadSide, CallerSide
  <2>4. ThreadSide'
    BY <1>4, <1>0 DEF VmRefuses, End, Holding, ThreadSide, CallerSide
  <2>5. CallerSide'
    BY <1>4, <1>0 DEF VmRefuses, End, Holding, ThreadSide, CallerSide
  <2>6. OnlyWaits' /\ StoppedMeansGone'
    BY <1>4, <1>0 DEF VmRefuses, End, Holding, ThreadSide, CallerSide, OnlyWaits,
       StoppedMeansGone, VmGone
  <2> QED BY <2>1, <2>2, <2>3, <2>4, <2>5, <2>6
<1>5. CASE Slept
  <2>1. CallerTypes'
    BY <1>5, <1>0 DEF Slept, CallerTypes
  <2>2. ThreadTypes'
    BY <1>5, <1>0 DEF Slept, ThreadTypes
  <2>3. Holding'
    BY <1>5, <1>0 DEF Slept, Holding, ThreadSide, CallerSide
  <2>4. ThreadSide'
    BY <1>5, <1>0 DEF Slept, Holding, ThreadSide, CallerSide
  <2>5. CallerSide'
    BY <1>5, <1>0 DEF Slept, Holding, ThreadSide, CallerSide
  <2>6. OnlyWaits' /\ StoppedMeansGone'
    BY <1>5, <1>0 DEF Slept, Holding, ThreadSide, CallerSide, OnlyWaits, StoppedMeansGone, VmGone
  <2> QED BY <2>1, <2>2, <2>3, <2>4, <2>5, <2>6
<1>6. CASE RecvDisconnected
  <2>1. CallerTypes'
    BY <1>6, <1>0 DEF RecvDisconnected, End, CallerTypes
  <2>2. ThreadTypes'
    BY <1>6, <1>0 DEF RecvDisconnected, End, ThreadTypes
  <2>3. Holding'
    BY <1>6, <1>0 DEF RecvDisconnected, End, Holding, ThreadSide, CallerSide
  <2>4. ThreadSide'
    BY <1>6, <1>0 DEF RecvDisconnected, End, Holding, ThreadSide, CallerSide
  <2>5. CallerSide'
    BY <1>6, <1>0 DEF RecvDisconnected, End, Holding, ThreadSide, CallerSide
  <2>6. OnlyWaits' /\ StoppedMeansGone'
    BY <1>6, <1>0 DEF RecvDisconnected, End, Holding, ThreadSide, CallerSide, OnlyWaits,
       StoppedMeansGone, VmGone
  <2> QED BY <2>1, <2>2, <2>3, <2>4, <2>5, <2>6
<1>7. CASE Panic
  <2>1. CallerTypes'
    BY <1>7, <1>0 DEF Panic, End, CallerTypes
  <2>2. ThreadTypes'
    BY <1>7, <1>0 DEF Panic, End, ThreadTypes
  <2>3. Holding'
    BY <1>7, <1>0 DEF Panic, End, Holding, ThreadSide, CallerSide
  <2>4. ThreadSide'
    BY <1>7, <1>0 DEF Panic, End, Holding, ThreadSide, CallerSide
  <2>5. CallerSide'
    BY <1>7, <1>0 DEF Panic, End, Holding, ThreadSide, CallerSide
  <2>6. OnlyWaits' /\ StoppedMeansGone'
    BY <1>7, <1>0 DEF Panic, End, Holding, ThreadSide, CallerSide, OnlyWaits, StoppedMeansGone,
       VmGone
  <2> QED BY <2>1, <2>2, <2>3, <2>4, <2>5, <2>6
<1> QED BY <1>1, <1>2, <1>3, <1>4, <1>5, <1>6, <1>7

LEMMA CommandOK ==
    ASSUME IInv, RecvStop \/ RecvWait \/ RecvShutdown \/ StopAnswered(TRUE) \/ StopAnswered(FALSE)
    PROVE  IInv'
<1> USE DEF IInv, TypeOK, ThreadOver, ThreadLoop, caller, locals, ends, link, machine, ThreadStep
<1>0. <<>> \in Seq(Command) /\ None.op = "None"
  BY DEF None
<1>r. ASSUME chan # <<>>
      PROVE  /\ Head(chan) \in Command /\ Head(chan) = chan[1] /\ 1 \in 1..Len(chan)
             /\ Tail(chan) \in Seq(Command)
             /\ inner = "self" => Head(chan).op = "Wait"
             /\ OnlyWaits => (inner = "self" => \A i \in 1..Len(Tail(chan)) : Tail(chan)[i].op = "Wait")
  BY <1>r, ReceiveOK DEF ThreadTypes, OnlyWaits
<1>c. \A c \in Command : c.op \in {"Stop", "Wait", "Shutdown"} /\ c.call \in Nat
  BY DEF Command
<1>1. CASE RecvStop
  <2>1. CallerTypes'
    BY <1>1, <1>0, <1>r, <1>c DEF RecvStop, RequestStop, Reply, CallerTypes
  <2>2. ThreadTypes'
    BY <1>1, <1>0, <1>r, <1>c DEF RecvStop, RequestStop, Reply, ThreadTypes
  <2>3. Holding'
    BY <1>1, <1>0, <1>r, <1>c DEF RecvStop, RequestStop, Reply, Holding, ThreadSide, CallerSide
  <2>4. ThreadSide'
    BY <1>1, <1>0, <1>r, <1>c DEF RecvStop, RequestStop, Reply, Holding, ThreadSide, CallerSide
  <2>5. CallerSide'
    BY <1>1, <1>0, <1>r, <1>c DEF RecvStop, RequestStop, Reply, Holding, ThreadSide, CallerSide
  <2>6. OnlyWaits' /\ StoppedMeansGone'
    BY <1>1, <1>0, <1>r, <1>c DEF RecvStop, RequestStop, Reply, Holding, ThreadSide,
       CallerSide, OnlyWaits, StoppedMeansGone, VmGone
  <2> QED BY <2>1, <2>2, <2>3, <2>4, <2>5, <2>6
<1>2. CASE RecvWait
  <2>1. CallerTypes'
    BY <1>2, <1>0, <1>r, <1>c DEF RecvWait, Reply, CallerTypes
  <2>2. ThreadTypes'
    BY <1>2, <1>0, <1>r, <1>c DEF RecvWait, Reply, ThreadTypes
  <2>3. Holding'
    BY <1>2, <1>0, <1>r, <1>c DEF RecvWait, Reply, Holding, ThreadSide, CallerSide
  <2>4. ThreadSide'
    BY <1>2, <1>0, <1>r, <1>c DEF RecvWait, Reply, Holding, ThreadSide, CallerSide
  <2>5. CallerSide'
    BY <1>2, <1>0, <1>r, <1>c DEF RecvWait, Reply, Holding, ThreadSide, CallerSide
  <2>6. OnlyWaits' /\ StoppedMeansGone'
    BY <1>2, <1>0, <1>r, <1>c DEF RecvWait, Reply, Holding, ThreadSide, CallerSide, OnlyWaits,
       StoppedMeansGone, VmGone
  <2> QED BY <2>1, <2>2, <2>3, <2>4, <2>5, <2>6
<1>3. CASE RecvShutdown
  <2>1. CallerTypes'
    BY <1>3, <1>0, <1>r, <1>c DEF RecvShutdown, RequestStop, Reply, End, CallerTypes
  <2>2. ThreadTypes'
    BY <1>3, <1>0, <1>r, <1>c DEF RecvShutdown, RequestStop, Reply, End, ThreadTypes
  <2>3. Holding'
    BY <1>3, <1>0, <1>r, <1>c DEF RecvShutdown, RequestStop, Reply, End, Holding, ThreadSide,
       CallerSide
  <2>4. ThreadSide'
    BY <1>3, <1>0, <1>r, <1>c DEF RecvShutdown, RequestStop, Reply, End, Holding, ThreadSide,
       CallerSide
  <2>5. CallerSide'
    BY <1>3, <1>0, <1>r, <1>c DEF RecvShutdown, RequestStop, Reply, End, Holding, ThreadSide,
       CallerSide
  <2>6. OnlyWaits' /\ StoppedMeansGone'
    BY <1>3, <1>0, <1>r, <1>c DEF RecvShutdown, RequestStop, Reply, End, Holding, ThreadSide,
       CallerSide, OnlyWaits, StoppedMeansGone, VmGone
  <2> QED BY <2>1, <2>2, <2>3, <2>4, <2>5, <2>6
<1>4. CASE StopAnswered(TRUE)
  <2>1. CallerTypes'
    BY <1>4, <1>0, <1>r, <1>c DEF StopAnswered, Reply, End, CallerTypes
  <2>2. ThreadTypes'
    BY <1>4, <1>0, <1>r, <1>c DEF StopAnswered, Reply, End, ThreadTypes
  <2>3. Holding'
    BY <1>4, <1>0, <1>r, <1>c DEF StopAnswered, Reply, End, Holding, ThreadSide, CallerSide
  <2>4. ThreadSide'
    BY <1>4, <1>0, <1>r, <1>c DEF StopAnswered, Reply, End, Holding, ThreadSide, CallerSide
  <2>5. CallerSide'
    BY <1>4, <1>0, <1>r, <1>c DEF StopAnswered, Reply, End, Holding, ThreadSide, CallerSide
  <2>6. OnlyWaits' /\ StoppedMeansGone'
    BY <1>4, <1>0, <1>r, <1>c DEF StopAnswered, Reply, End, Holding, ThreadSide, CallerSide,
       OnlyWaits, StoppedMeansGone, VmGone
  <2> QED BY <2>1, <2>2, <2>3, <2>4, <2>5, <2>6
<1>5. CASE StopAnswered(FALSE)
  <2>1. CallerTypes'
    BY <1>5, <1>0, <1>r, <1>c DEF StopAnswered, Reply, End, CallerTypes
  <2>2. ThreadTypes'
    BY <1>5, <1>0, <1>r, <1>c DEF StopAnswered, Reply, End, ThreadTypes
  <2>3. Holding'
    BY <1>5, <1>0, <1>r, <1>c DEF StopAnswered, Reply, End, Holding, ThreadSide, CallerSide
  <2>4. ThreadSide'
    BY <1>5, <1>0, <1>r, <1>c DEF StopAnswered, Reply, End, Holding, ThreadSide, CallerSide
  <2>5. CallerSide'
    BY <1>5, <1>0, <1>r, <1>c DEF StopAnswered, Reply, End, Holding, ThreadSide, CallerSide
  <2>6. OnlyWaits' /\ StoppedMeansGone'
    BY <1>5, <1>0, <1>r, <1>c DEF StopAnswered, Reply, End, Holding, ThreadSide, CallerSide,
       OnlyWaits, StoppedMeansGone, VmGone
  <2> QED BY <2>1, <2>2, <2>3, <2>4, <2>5, <2>6
<1> QED BY <1>1, <1>2, <1>3, <1>4, <1>5

LEMMA OthersOK ==
    ASSUME IInv,
           GuestPowersOff \/ VmHangs \/ (\E m \in Mount : ServeEnds(m)) \/ UNCHANGED vars
    PROVE  IInv'
<1> USE DEF IInv, TypeOK, ThreadOver, ThreadLoop, caller, locals, ends, link, machine
<1>1. CASE GuestPowersOff
  <2>1. CallerTypes'
    BY <1>1 DEF GuestPowersOff, CallerTypes
  <2>2. ThreadTypes'
    BY <1>1 DEF GuestPowersOff, ThreadTypes
  <2>3. Holding'
    BY <1>1 DEF GuestPowersOff, Holding, ThreadSide, CallerSide
  <2>4. ThreadSide'
    BY <1>1 DEF GuestPowersOff, Holding, ThreadSide, CallerSide
  <2>5. CallerSide'
    BY <1>1 DEF GuestPowersOff, Holding, ThreadSide, CallerSide
  <2>6. OnlyWaits' /\ StoppedMeansGone'
    BY <1>1 DEF GuestPowersOff, Holding, ThreadSide, CallerSide, OnlyWaits, StoppedMeansGone,
       VmGone
  <2> QED BY <2>1, <2>2, <2>3, <2>4, <2>5, <2>6
<1>2. CASE VmHangs
  <2>1. CallerTypes'
    BY <1>2 DEF VmHangs, CallerTypes
  <2>2. ThreadTypes'
    BY <1>2 DEF VmHangs, ThreadTypes
  <2>3. Holding'
    BY <1>2 DEF VmHangs, Holding, ThreadSide, CallerSide
  <2>4. ThreadSide'
    BY <1>2 DEF VmHangs, Holding, ThreadSide, CallerSide
  <2>5. CallerSide'
    BY <1>2 DEF VmHangs, Holding, ThreadSide, CallerSide
  <2>6. OnlyWaits' /\ StoppedMeansGone'
    BY <1>2 DEF VmHangs, Holding, ThreadSide, CallerSide, OnlyWaits, StoppedMeansGone, VmGone
  <2> QED BY <2>1, <2>2, <2>3, <2>4, <2>5, <2>6
<1>3. CASE \E m \in Mount : ServeEnds(m)
  <2>1. CallerTypes'
    BY <1>3 DEF ServeEnds, CallerTypes
  <2>2. ThreadTypes'
    BY <1>3 DEF ServeEnds, ThreadTypes
  <2>3. Holding'
    BY <1>3 DEF ServeEnds, Holding, ThreadSide, CallerSide
  <2>4. ThreadSide'
    BY <1>3 DEF ServeEnds, Holding, ThreadSide, CallerSide
  <2>5. CallerSide'
    BY <1>3 DEF ServeEnds, Holding, ThreadSide, CallerSide
  <2>6. OnlyWaits' /\ StoppedMeansGone'
    BY <1>3 DEF ServeEnds, Holding, ThreadSide, CallerSide, OnlyWaits, StoppedMeansGone, VmGone
  <2> QED BY <2>1, <2>2, <2>3, <2>4, <2>5, <2>6
<1>4. CASE UNCHANGED vars
  <2>1. CallerTypes'
    BY <1>4 DEF vars, CallerTypes
  <2>2. ThreadTypes'
    BY <1>4 DEF vars, ThreadTypes
  <2>3. Holding'
    BY <1>4 DEF vars, Holding, ThreadSide, CallerSide
  <2>4. ThreadSide'
    BY <1>4 DEF vars, Holding, ThreadSide, CallerSide
  <2>5. CallerSide'
    BY <1>4 DEF vars, Holding, ThreadSide, CallerSide
  <2>6. OnlyWaits' /\ StoppedMeansGone'
    BY <1>4 DEF vars, Holding, ThreadSide, CallerSide, OnlyWaits, StoppedMeansGone, VmGone
  <2> QED BY <2>1, <2>2, <2>3, <2>4, <2>5, <2>6
<1> QED BY <1>1, <1>2, <1>3, <1>4

LEMMA StepOK == IInv /\ [Next]_vars => IInv'
BY StartOK, StopOK, CallerOK, BuildOK, CommandOK, OthersOK
DEF Next, MethodStep, VmThread, Recv, Over

\* Every variable has its type, Inner is where the methods expect it, and no
\* guest end is left open by a start that worked.
THEOREM TypeCorrect == Spec => []TypeOK
<1>1. IInv => TypeOK
  BY DEF IInv
<1> QED BY <1>1, InitOK, StepOK, PTL DEF Spec

\* Stopped means that thread and machine are gone (lib.rs:101-111, 128-134).
THEOREM StoppedMeansGoneCorrect == Spec => []StoppedMeansGone
<1>1. IInv => StoppedMeansGone
  BY DEF IInv
<1> QED BY <1>1, InitOK, StepOK, PTL DEF Spec

LEMMA StopReleasesOK == IInv /\ [Next]_vars => StopReleases
<1> SUFFICES ASSUME IInv, [Next]_vars, pc = "join", pc' = "idle", result' # "Cancelled"
             PROVE  VmGone /\ raw = {} /\ held = {} /\ waiters = {} /\ chan = <<>>
  BY DEF StopReleases
<1>1. StopDone
  BY DEF Next, MethodStep, VmThread, Recv, Over, vars, caller, link, machine, Callable, Return,
     Await,
         Start, StartAgain, Stop, StopNothing, Wait, Drop, Cancel, Started, StopHeard, WaitDone,
         InnerDropped, ThreadStep, Build, BuildFails, VmStarts, VmRefuses, RecvStop, RecvWait,
         RecvShutdown, RecvDisconnected, Slept, StopAnswered, Panic, GuestPowersOff, VmHangs,
         ServeEnds
<1> QED BY <1>1 DEF StopDone, IInv, TypeOK, Holding, ThreadSide, VmGone

\* However stop ends, thread, machine, guest ends and waiters are dealt with
\* (imp.rs:166-177, 289-320).
THEOREM StopReleasesCorrect == Spec => StopReleasesAlways
<1>1. Spec => [][StopReleases]_vars
  BY InitOK, StepOK, StopReleasesOK, PTL DEF Spec
<1> QED BY <1>1 DEF StopReleasesAlways

\* A step of the sandbox is a step of the life cycle callers see, or none.
LEMMA LifecycleStep ==
    ASSUME IInv, [Next]_vars
    PROVE  [Lifecycle!Next]_(Lifecycle!vars)
<1> USE DEF IInv, TypeOK, Lifecycle!vars, method, Callable, Return, Await, caller, link, machine,
            Lifecycle!Call, Lifecycle!Finish
<1>1. CASE Start
  BY <1>1 DEF Start, CallerSide, Lifecycle!Next, Lifecycle!StartBegins, Lifecycle!StartFails
<1>2. CASE StartAgain
  BY <1>2 DEF StartAgain, Lifecycle!Next, Lifecycle!StartRefused
<1>3. CASE Started
  BY <1>3 DEF Started, Holding, ThreadSide, Lifecycle!Next, Lifecycle!StartSucceeds,
              Lifecycle!StartFails
<1>4. CASE Stop
  BY <1>4 DEF Stop, Lifecycle!Next, Lifecycle!StopBegins, Lifecycle!StopSucceeds, Lifecycle!Final
<1>5. CASE StopNothing
  BY <1>5 DEF StopNothing, Lifecycle!Next, Lifecycle!StopNeedless
<1>6. CASE StopHeard
  BY <1>6 DEF StopHeard
<1>7. CASE StopDone
  BY <1>7 DEF StopDone, CallerSide, Lifecycle!Next, Lifecycle!StopSucceeds, Lifecycle!StopFails
<1>8. CASE Wait
  BY <1>8 DEF Wait, Lifecycle!Next, Lifecycle!WaitBegins, Lifecycle!WaitEnds
<1>9. CASE WaitDone
  BY <1>9 DEF WaitDone, CallerSide, Lifecycle!Next, Lifecycle!WaitEnds
<1>10. CASE Cancel
  BY <1>10 DEF Cancel, Holding, CallerSide, Lifecycle!Next, Lifecycle!Cancelled
<1>11. CASE Drop
  BY <1>11 DEF Drop
<1>12. CASE InnerDropped
  BY <1>12 DEF InnerDropped, Lifecycle!Next, Lifecycle!Cancelled
<1>13. CASE Build
  BY <1>13 DEF Build, ThreadStep, ThreadSide, CallerSide, Lifecycle!Next, Lifecycle!Launch
<1>14. CASE UNCHANGED <<caller, vm = "none">>
  BY <1>14
<1>15. CASE VmThread \/ Panic
  <2>1. Build \/ UNCHANGED <<caller, vm = "none">>
    BY <1>15 DEF VmThread, Recv, ThreadStep, End, BuildFails, VmStarts, VmRefuses, RecvStop,
         RecvWait, RecvShutdown, RecvDisconnected, Slept, StopAnswered, Panic, ThreadSide,
         ThreadLoop, ThreadOver
  <2> QED BY <2>1, <1>13, <1>14
<1>16. CASE GuestPowersOff \/ VmHangs \/ (\E m \in Mount : ServeEnds(m)) \/ UNCHANGED vars
  <2>1. UNCHANGED <<caller, vm = "none">>
    BY <1>16 DEF GuestPowersOff, VmHangs, ServeEnds, vars, link, machine, locals
  <2> QED BY <2>1, <1>14
<1> QED BY <1>1, <1>2, <1>3, <1>4, <1>5, <1>6, <1>7, <1>8, <1>9, <1>10, <1>11, <1>12, <1>15, <1>16
        DEF Next, MethodStep, Over

\* Callers see the life cycle of the trait (core lib.rs:580-616).
THEOREM LifecycleCorrect == Spec => LifecycleSpec
<1>1. Init => Lifecycle!Init
  BY DEF Init, Lifecycle!Init, method
<1>2. IInv /\ [Next]_vars => [Lifecycle!Next]_(Lifecycle!vars)
  BY LifecycleStep
<1> QED BY <1>1, <1>2, InitOK, StepOK, PTL DEF Spec, LifecycleSpec, Lifecycle!Spec
===============================================================================
