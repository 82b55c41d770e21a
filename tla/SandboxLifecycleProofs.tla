------------------------ MODULE SandboxLifecycleProofs ------------------------
(* What the life cycle of the Sandbox trait promises callers, and so every    *)
(* backend shown to implement it: states move forward only, and a Running     *)
(* sandbox has launched its guest.                                            *)
EXTENDS SandboxLifecycle, TLAPS

\* The order in which states may follow one another.
Forward ==
    /\ state' = "Created"  => state = "Created"
    /\ state' = "Starting" => state \in {"Created", "Starting"}
    /\ state' = "Running"  => state \in {"Starting", "Running"}
    /\ state' = "Stopping" => state \notin Final
    /\ state \in Final     => state' = state

\* A start that is under way has nothing to fear from other methods: the sandbox
\* is Starting until it ends.
LInv ==
    /\ state \in {"Created", "Starting", "Running", "Stopping"} \union Final
    /\ launched \in BOOLEAN
    /\ method = "start" => state = "Starting"
    /\ method = "stop" => state = "Stopping"
    /\ state = "Created" => method \in {"none", "wait", "exec"} /\ ~launched
    /\ state = "Running" => launched

LEMMA LInit == Init => LInv
BY DEF Init, LInv, Final

LEMMA LStep ==
    ASSUME LInv, [Next]_vars
    PROVE  LInv' /\ Forward
<1> USE DEF LInv, Forward, Call, Finish, Final
<1>1. CASE StartRefused \/ StartBegins \/ StartFails
  BY <1>1 DEF StartRefused, StartBegins, StartFails
<1>2. CASE StartSucceeds \/ Launch
  BY <1>2 DEF StartSucceeds, Launch
<1>3. CASE StopNeedless \/ StopBegins \/ StopSucceeds \/ StopFails
  BY <1>3 DEF StopNeedless, StopBegins, StopSucceeds, StopFails
<1>4. CASE WaitBegins \/ WaitEnds
  BY <1>4 DEF WaitBegins, WaitEnds
<1>5. CASE ExecBegins \/ ExecEnds
  BY <1>5 DEF ExecBegins, ExecEnds
<1>6. CASE Cancelled \/ UNCHANGED vars
  BY <1>6 DEF Cancelled, vars
<1> QED BY <1>1, <1>2, <1>3, <1>4, <1>5, <1>6 DEF Next

\* Running only after a guest was launched (core lib.rs:580-616).
THEOREM RunningIsLaunched == Spec => [](state = "Running" => launched)
<1>1. LInv => (state = "Running" => launched)
  BY DEF LInv
<1>2. LInv /\ [Next]_vars => LInv'
  BY LStep
<1> QED BY <1>1, <1>2, LInit, PTL DEF Spec

\* States move forward only: no restart, and nothing follows Stopped or Failed
\* (core lib.rs:580-616).
THEOREM StatesMoveForward == Spec => [][Forward]_vars
<1>1. LInv /\ [Next]_vars => LInv' /\ Forward
  BY LStep
<1> QED BY <1>1, LInit, PTL DEF Spec
===============================================================================
