-------------------------- MODULE QemuSandboxProofs --------------------------
(* QemuSandbox, for any number of mounts, callers that drop futures, a QEMU   *)
(* that hangs and a program that exits: types and ownership, Running and      *)
(* Stopped mean what they say, and no QEMU process is lost.                   *)
EXTENDS QemuSandbox, TLAPS

\* Who owns QEMU at each point.  Strengthens the invariants by what they rest
\* on: a handle is given up only when QEMU is dead or killed, and only when the
\* sandbox cannot be stopped any more.
Ownership ==
    /\ state = "Created" => qemu = "absent" /\ backlog = {}
    /\ ~exited =>
          /\ state = "Created" =>
                pc = "idle" /\ child = "none" /\ qmp = "none" /\ servers = {} /\ local = {}
          /\ child = "none" /\ ~Gone => killed /\ (dropped \/ state = "Stopping")
          /\ child # "none" => qemu # "absent"
          /\ pc = "servers" => Gone /\ child = "none"
          /\ pc \in {"wait", "powerdown", "quit"} => child = "self"
          /\ pc \in StartPc => servers = Mount
          /\ qmp = "self" => pc \in {"idle", "wait"} /\ child = "self"
          /\ dropped => pc = "idle"
          /\ state = "Running" => pc \in {"idle", "wait"}
          /\ state = "Stopped" => pc \in {"idle", "wait"}

IInv == TypeOK /\ Ownership /\ RunningMeansUp /\ StoppedMeansGone

LEMMA InitOK == Init => IInv
BY DEF Init, IInv, TypeOK, Ownership, RunningMeansUp, StoppedMeansGone, Gone,
       exited, StateOf, StartPc, StopPc

\* start keeps the invariant (lib.rs:132-259).
LEMMA StartOK ==
    ASSUME IInv, Start \/ StartAgain \/ Connect \/ ConnectDeadline \/ Greeting
                 \/ Capabilities \/ QmpClosed
    PROVE  IInv'
<1> USE DEF IInv, TypeOK, Ownership, RunningMeansUp, StoppedMeansGone, Gone, exited, StateOf,
            StartPc, StopPc, Callable, At, Return, Await, owned, tasks
<1>1. CASE Start
  <2>1. PICK n \in 0..NMounts :
          /\ servers' = 1..n /\ sock' = sock \union 1..n
          /\ task' = [m \in Mount |-> IF m <= n THEN "accepting" ELSE "none"]
          /\ \/ Return("Error") /\ UNCHANGED <<child, qemu>>
             \/ n = NMounts /\ Await("connect") /\ child' = "self" /\ qemu' = "booting"
    BY <1>1 DEF Start
  <2>2. 1..n \subseteq Mount /\ (n = NMounts => 1..n = Mount)
    BY <2>1, SandboxAssumption DEF Mount
  <2>3. task' \in [Mount -> {"none", "accepting", "aborted"}]
    BY <2>1
  <2> QED BY <1>1, <2>1, <2>2, <2>3 DEF Start
<1>2. CASE StartAgain
  BY <1>2 DEF StartAgain
<1>3. CASE Connect
  BY <1>3 DEF Connect
<1>4. CASE ConnectDeadline
  BY <1>4 DEF ConnectDeadline
<1>5. CASE Greeting
  BY <1>5 DEF Greeting
<1>6. CASE Capabilities
  BY <1>6 DEF Capabilities
<1>7. CASE QmpClosed
  BY <1>7 DEF QmpClosed
<1> QED BY <1>1, <1>2, <1>3, <1>4, <1>5, <1>6, <1>7

\* stop keeps the invariant (lib.rs:261-289).
LEMMA StopOK ==
    ASSUME IInv, Stop \/ StopNothing \/ Powerdown \/ Quit \/ Grace \/ Reap
                 \/ AbortServer \/ ServerGone \/ StopDone
    PROVE  IInv'
<1> USE DEF IInv, TypeOK, Ownership, RunningMeansUp, StoppedMeansGone, Gone, exited, StateOf,
            StartPc, StopPc, Callable, At, Return, Await, owned, tasks
<1>1. CASE Stop
  BY <1>1 DEF Stop, TakeChild, TakeServers
<1>2. CASE StopNothing
  BY <1>2 DEF StopNothing
<1>3. CASE Powerdown
  BY <1>3 DEF Powerdown
<1>4. CASE Quit
  BY <1>4 DEF Quit, TakeChild, TakeServers
<1>5. CASE Grace
  BY <1>5 DEF Grace
<1>6. CASE Reap
  BY <1>6 DEF Reap
<1>7. CASE AbortServer
  <2>1. task' \in [Mount -> {"none", "accepting", "aborted"}]
    BY <1>7 DEF AbortServer
  <2> QED BY <1>7, <2>1 DEF AbortServer
<1>8. CASE ServerGone
  BY <1>8 DEF ServerGone
<1>9. CASE StopDone
  <2>1. TypeOK'
    BY <1>9 DEF StopDone
  <2>2. Ownership'
    <3>1. /\ state' = "Stopped" /\ pc' = "idle" /\ ~exited
          /\ UNCHANGED <<child, qmp, qemu, killed, dropped, program>>
      BY <1>9 DEF StopDone
    <3>2. Gone /\ child = "none" /\ qmp # "self" /\ dropped = FALSE
      BY <1>9 DEF StopDone
    <3> HIDE DEF IInv, TypeOK, RunningMeansUp, StoppedMeansGone
    <3>3. Gone'
      BY <3>1, <3>2
    <3> QED BY <3>1, <3>2, <3>3
  <2>3. RunningMeansUp' /\ StoppedMeansGone'
    BY <1>9 DEF StopDone
  <2> QED BY <2>1, <2>2, <2>3
<1> QED BY <1>1, <1>2, <1>3, <1>4, <1>5, <1>6, <1>7, <1>8, <1>9

\* wait, Drop, dropped futures and the exit of the program keep the invariant.
LEMMA CallerOK ==
    ASSUME IInv, Wait \/ WaitDone \/ Cancel \/ Drop \/ Exit
    PROVE  IInv'
<1> USE DEF IInv, TypeOK, Ownership, RunningMeansUp, StoppedMeansGone, Gone, exited, StateOf,
            StartPc, StopPc, Callable, At, Return, Await, owned, tasks
<1>1. CASE Wait
  BY <1>1 DEF Wait
<1>2. CASE WaitDone
  BY <1>2 DEF WaitDone
<1>3. CASE Cancel
  <2>1. TypeOK'
    BY <1>3 DEF Cancel
  <2>2. Ownership'
    <3>1. /\ pc' = "idle" /\ pc # "idle" /\ ~exited
          /\ child' = IF child = "self" THEN "self" ELSE "none"
          /\ qmp' = IF qmp = "self" THEN "self" ELSE "none"
          /\ killed' = (killed \/ child = "stop")
          /\ UNCHANGED <<state, servers, qemu, dropped, program>>
      BY <1>3 DEF Cancel
    <3>2. dropped = FALSE /\ state # "Created"
      BY <3>1
    <3>3. child = "stop" => state = "Stopping"
      BY <3>1
    <3>4. qmp' = "self" => child' = "self"
      BY <3>1
    <3>5. state = "Running" => pc' \in {"idle", "wait"}
      BY <3>1
    <3> QED BY <3>1, <3>2, <3>3, <3>4, <3>5
  <2>3. RunningMeansUp' /\ StoppedMeansGone'
    BY <1>3 DEF Cancel
  <2> QED BY <2>1, <2>2, <2>3
<1>4. CASE Drop
  <2>1. task' \in [Mount -> {"none", "accepting", "aborted"}]
    BY <1>4 DEF Drop
  <2>2. backlog' \subseteq {m \in Mount : task'[m] # "none"}
    BY <1>4 DEF Drop
  <2>3. TypeOK'
    BY <1>4, <2>1, <2>2 DEF Drop
  <2>4. Ownership' /\ RunningMeansUp' /\ StoppedMeansGone'
    BY <1>4 DEF Drop
  <2> QED BY <2>3, <2>4
<1>5. CASE Exit
  BY <1>5 DEF Exit
<1> QED BY <1>1, <1>2, <1>3, <1>4, <1>5

\* So do the accept loops, the streams and QEMU.
LEMMA OthersOK ==
    ASSUME IInv,
           \/ \E m \in Mount :
                 AbortLands(m) \/ AcceptError(m) \/ Dial(m) \/ Accept(m) \/ ServeEnds(m)
           \/ QemuUp \/ QemuStuck \/ QemuExits \/ KillLands \/ UNCHANGED vars
    PROVE  IInv'
<1> USE DEF IInv, TypeOK, Ownership, RunningMeansUp, StoppedMeansGone, Gone, exited, StateOf,
            StartPc, StopPc, owned, tasks
<1>1. ASSUME NEW m \in Mount, AbortLands(m) \/ AcceptError(m) PROVE IInv'
  <2>1. task' \in [Mount -> {"none", "accepting", "aborted"}]
    BY <1>1 DEF AbortLands, AcceptError, LoopEnds
  <2>2. TypeOK'
    BY <1>1, <2>1 DEF AbortLands, AcceptError, LoopEnds
  <2>3. Ownership' /\ RunningMeansUp' /\ StoppedMeansGone'
    BY <1>1 DEF AbortLands, AcceptError, LoopEnds
  <2> QED BY <2>2, <2>3
<1>2. ASSUME NEW m \in Mount, Dial(m) \/ Accept(m) \/ ServeEnds(m) PROVE IInv'
  <2>1. TypeOK'
    BY <1>2 DEF Dial, Accept, ServeEnds
  <2>2. Ownership'
    BY <1>2 DEF Dial, Accept, ServeEnds
  <2>3. RunningMeansUp' /\ StoppedMeansGone'
    BY <1>2 DEF Dial, Accept, ServeEnds
  <2> QED BY <2>1, <2>2, <2>3
<1>3. CASE QemuUp \/ QemuStuck
  <2>1. TypeOK'
    BY <1>3 DEF QemuUp, QemuStuck
  <2>2. Ownership'
    BY <1>3 DEF QemuUp, QemuStuck
  <2>3. RunningMeansUp' /\ StoppedMeansGone'
    BY <1>3 DEF QemuUp, QemuStuck
  <2> QED BY <2>1, <2>2, <2>3
<1>4. CASE QemuExits \/ KillLands
  <2>1. TypeOK'
    BY <1>4 DEF QemuExits, KillLands
  <2>2. Ownership'
    BY <1>4 DEF QemuExits, KillLands
  <2>3. RunningMeansUp' /\ StoppedMeansGone'
    BY <1>4 DEF QemuExits, KillLands
  <2> QED BY <2>1, <2>2, <2>3
<1>5. CASE UNCHANGED vars
  BY <1>5 DEF vars
<1> QED BY <1>1, <1>2, <1>3, <1>4, <1>5

LEMMA StepOK == IInv /\ [Next]_vars => IInv'
BY StartOK, StopOK, CallerOK, OthersOK DEF Next, MethodStep, Over

\* Every variable has its type and what a method needs at an await is held.
THEOREM TypeCorrect == Spec => []TypeOK
<1>1. IInv => TypeOK
  BY DEF IInv
<1> QED BY <1>1, InitOK, StepOK, PTL DEF Spec

\* A Running sandbox has its QEMU child, its QMP client and all its servers.
THEOREM RunningMeansUpCorrect == Spec => []RunningMeansUp
<1>1. IInv => RunningMeansUp
  BY DEF IInv
<1> QED BY <1>1, InitOK, StepOK, PTL DEF Spec

\* A live QEMU process has an owner or has been sent SIGKILL, dropped futures
\* included (lib.rs:270-274, 319-324, qemu.rs:145).
THEOREM QemuOwnedCorrect == Spec => []QemuOwned
<1>1. IInv => QemuOwned
  BY DEF IInv, Ownership, QemuOwned
<1> QED BY <1>1, InitOK, StepOK, PTL DEF Spec

\* Stopped means that QEMU is gone (lib.rs:270-287, 300-306).
THEOREM StoppedMeansGoneCorrect == Spec => []StoppedMeansGone
<1>1. IInv => StoppedMeansGone
  BY DEF IInv
<1> QED BY <1>1, InitOK, StepOK, PTL DEF Spec

\* As long as nobody drops a future, the servers' tasks and sockets are in
\* vfs_servers or in the hands of stop.
ServersSide ==
    /\ pc = "servers" => state = "Stopping" /\ servers = {}
    /\ ~exited => sock \subseteq servers \union local
    /\ ~exited /\ ~dropped => \A m \in Mount : task[m] # "none" => m \in servers \union local
    /\ dropped => \A m \in Mount : task[m] # "accepting"

LEMMA ServersInit == Init => ServersSide
BY DEF Init, ServersSide, exited

LEMMA ServersStep ==
    ASSUME ~MayCancel, IInv, ServersSide, [Next]_vars
    PROVE  ServersSide'
<1> USE DEF IInv, TypeOK, Ownership, ServersSide, exited, StartPc, StopPc, Callable, At, Return,
            Await, owned, tasks
<1>1. CASE Start
  <2>1. servers = {} /\ local = {} /\ sock = {} /\ state' = "Starting" /\ ~dropped' /\ ~exited'
    BY <1>1 DEF Start
  <2>2. PICK n \in 0..NMounts :
          /\ servers' = 1..n /\ sock' = sock \union 1..n
          /\ task' = [m \in Mount |-> IF m <= n THEN "accepting" ELSE "none"]
    BY <1>1 DEF Start
  <2>3. pc' # "servers"
    BY <1>1 DEF Start
  <2>4. \A m \in Mount : task'[m] # "none" => m \in servers'
    BY <2>2, SandboxAssumption DEF Mount
  <2> QED BY <2>1, <2>2, <2>3, <2>4
<1>2. CASE Stop \/ Quit
  BY <1>2 DEF Stop, Quit, TakeChild, TakeServers
<1>3. CASE Reap
  BY <1>3 DEF Reap
<1>4. CASE AbortServer
  BY <1>4 DEF AbortServer
<1>5. CASE ServerGone
  BY <1>5 DEF ServerGone
<1>6. CASE StopDone \/ StopNothing \/ StartAgain \/ Connect \/ ConnectDeadline
  BY <1>6 DEF StopDone, StopNothing, StartAgain, Connect, ConnectDeadline
<1>7. CASE Greeting \/ Capabilities \/ QmpClosed \/ Powerdown \/ Grace \/ Wait \/ WaitDone
  BY <1>7 DEF Greeting, Capabilities, QmpClosed, Powerdown, Grace, Wait, WaitDone
<1>8. CASE Drop
  BY <1>8 DEF Drop
<1>9. CASE Exit
  BY <1>9 DEF Exit
<1>10. ASSUME NEW m \in Mount, AbortLands(m) \/ AcceptError(m) PROVE ServersSide'
  BY <1>10 DEF AbortLands, AcceptError, LoopEnds
<1>11. ASSUME NEW m \in Mount, Dial(m) \/ Accept(m) \/ ServeEnds(m) PROVE ServersSide'
  BY <1>11 DEF Dial, Accept, ServeEnds
<1>12. CASE QemuUp \/ QemuStuck \/ QemuExits \/ KillLands \/ UNCHANGED vars
  BY <1>12 DEF QemuUp, QemuStuck, QemuExits, KillLands, vars
<1>13. ~Cancel
  BY DEF Cancel
<1> QED BY <1>1, <1>2, <1>3, <1>4, <1>5, <1>6, <1>7, <1>8, <1>9, <1>10, <1>11, <1>12, <1>13
        DEF Next, MethodStep, Over

\* No accept loop is lost, as long as nobody drops a future (lib.rs:275-286).
THEOREM TasksOwnedCorrect == ~MayCancel => (Spec => []TasksOwned)
<1> SUFFICES ASSUME ~MayCancel PROVE Spec => []TasksOwned
  OBVIOUS
<1>1. IInv /\ ServersSide => TasksOwned
  BY DEF IInv, Ownership, ServersSide, TasksOwned
<1>2. IInv /\ ServersSide /\ [Next]_vars => ServersSide'
  BY ServersStep
<1> QED BY <1>1, <1>2, InitOK, StepOK, ServersInit, PTL DEF Spec

LEMMA StopReleasesOK == IInv /\ ServersSide /\ [Next]_vars => StopReleases
<1> SUFFICES ASSUME IInv, ServersSide, [Next]_vars, pc = "servers", state' = "Stopped"
             PROVE  /\ Gone /\ child' = "none" /\ qmp' = "none"
                    /\ servers' = {} /\ local' = {} /\ sock' = {}
                    /\ \A m \in Mount : task'[m] = "none"
  BY DEF StopReleases
<1>1. StopDone
  BY DEF ServersSide, Next, MethodStep, Over, vars, Callable, At, Start, StartAgain, Stop,
         StopNothing, Wait, Drop, Exit, Cancel, Connect, ConnectDeadline, Greeting,
         Capabilities, QmpClosed, Powerdown, Quit, Grace, Reap, AbortServer, ServerGone,
         WaitDone, AbortLands, AcceptError, LoopEnds, Dial, Accept, ServeEnds, QemuUp,
         QemuStuck, QemuExits, KillLands
<1>2. ~exited /\ ~dropped /\ local = {} /\ servers = {} /\ UNCHANGED <<owned, tasks>>
  BY <1>1 DEF StopDone, At, IInv, Ownership, ServersSide
<1>3. Gone /\ child = "none" /\ qmp = "none"
  BY <1>2 DEF IInv, Ownership, TypeOK
<1>4. sock = {} /\ \A m \in Mount : task[m] = "none"
  BY <1>2 DEF ServersSide
<1> QED BY <1>2, <1>3, <1>4 DEF owned, tasks

\* When stop gets to its end nothing it is responsible for is left, as long as
\* nobody drops a future (lib.rs:261-289).
THEOREM StopReleasesCorrect == ~MayCancel => (Spec => StopReleasesAlways)
<1> SUFFICES ASSUME ~MayCancel PROVE Spec => StopReleasesAlways
  OBVIOUS
<1>1. IInv /\ ServersSide /\ [Next]_vars => ServersSide'
  BY ServersStep
<1>2. Spec => [][StopReleases]_vars
  BY <1>1, InitOK, StepOK, ServersInit, StopReleasesOK, PTL DEF Spec
<1> QED BY <1>2 DEF StopReleasesAlways

\* A step of the sandbox is a step of the life cycle callers see, or none.
LEMMA LifecycleStep ==
    ASSUME IInv, [Next]_vars
    PROVE  [Lifecycle!Next]_(Lifecycle!vars)
<1>0. \/ Start \/ StartAgain \/ Stop \/ StopNothing \/ Wait \/ Drop \/ MethodStep \/ Cancel \/ Exit
      \/ \E m \in Mount : AbortLands(m) \/ AcceptError(m) \/ Dial(m) \/ Accept(m) \/ ServeEnds(m)
      \/ QemuUp \/ QemuStuck \/ QemuExits \/ KillLands \/ UNCHANGED vars
  BY DEF Next, Over
<1> USE DEF IInv, TypeOK, Ownership, StateOf, StartPc, StopPc, Gone, Lifecycle!vars, method,
            Callable, At, Return, Await, owned, tasks, Lifecycle!Call, Lifecycle!Finish
<1>1. CASE Start
  BY <1>1 DEF Start, Lifecycle!Next, Lifecycle!StartBegins, Lifecycle!StartFails
<1>2. CASE StartAgain
  BY <1>2 DEF StartAgain, Lifecycle!Next, Lifecycle!StartRefused
<1>3. CASE ConnectDeadline \/ QmpClosed
  BY <1>3 DEF ConnectDeadline, QmpClosed, Lifecycle!Next, Lifecycle!StartFails
<1>4. CASE Capabilities
  BY <1>4 DEF Capabilities, Lifecycle!Next, Lifecycle!StartSucceeds
<1>5. CASE Stop
  BY <1>5 DEF Stop, TakeChild, TakeServers, Lifecycle!Next, Lifecycle!StopBegins, Lifecycle!Final
<1>6. CASE StopNothing
  BY <1>6 DEF StopNothing, Lifecycle!Next, Lifecycle!StopNeedless
<1>7. CASE StopDone
  BY <1>7 DEF StopDone, Lifecycle!Next, Lifecycle!StopSucceeds
<1>8. CASE Wait
  BY <1>8 DEF Wait, Lifecycle!Next, Lifecycle!WaitBegins, Lifecycle!WaitEnds
<1>9. CASE WaitDone
  BY <1>9 DEF WaitDone, Lifecycle!Next, Lifecycle!WaitEnds
<1>10. CASE Cancel
  BY <1>10 DEF Cancel, Lifecycle!Next, Lifecycle!Cancelled
<1>11. CASE Connect \/ Greeting \/ Powerdown \/ Grace \/ AbortServer \/ ServerGone
  BY <1>11 DEF Connect, Greeting, Powerdown, Grace, AbortServer, ServerGone
<1>12. CASE Quit \/ Reap
  BY <1>12 DEF Quit, Reap, TakeChild, TakeServers
<1>13. CASE Drop \/ Exit \/ UNCHANGED vars
  BY <1>13 DEF Drop, Exit, vars
<1>14. CASE \E m \in Mount : AbortLands(m) \/ AcceptError(m) \/ Dial(m) \/ Accept(m) \/ ServeEnds(m)
  BY <1>14 DEF AbortLands, AcceptError, LoopEnds, Dial, Accept, ServeEnds
<1>15. CASE QemuUp \/ QemuStuck \/ QemuExits \/ KillLands
  BY <1>15 DEF QemuUp, QemuStuck, QemuExits, KillLands
<1>16. CASE MethodStep
  BY <1>3, <1>4, <1>7, <1>9, <1>11, <1>12, <1>16 DEF MethodStep
<1> QED BY <1>0, <1>1, <1>2, <1>5, <1>6, <1>8, <1>10, <1>13, <1>14, <1>15, <1>16

\* Callers see the life cycle of the trait (core lib.rs:580-616).
THEOREM LifecycleCorrect == Spec => LifecycleSpec
<1>1. Init => Lifecycle!Init
  BY DEF Init, Lifecycle!Init, method, StartPc, StopPc
<1>2. IInv /\ [Next]_vars => [Lifecycle!Next]_(Lifecycle!vars)
  BY LifecycleStep
<1> QED BY <1>1, <1>2, InitOK, StepOK, PTL DEF Spec, LifecycleSpec, Lifecycle!Spec
===============================================================================
