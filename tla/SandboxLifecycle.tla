--------------------------- MODULE SandboxLifecycle ---------------------------
(* What callers of the Sandbox trait (packages/tokimo-packages-vm-core) may   *)
(* rely on whichever backend they have: start works once; it says Ok only of  *)
(* a guest it launched; after stop has said Ok the sandbox is not Running;    *)
(* Stopped and Failed are final; a dropped future changes nothing but the     *)
(* caller's view.  QemuSandbox, MacosSandbox and WslSandbox implement it.     *)

VARIABLES
    state,          \* Sandbox::state
    method,         \* the method whose future is alive, or "none"
    result,         \* what the last method returned
    launched        \* whether a guest was ever launched

vars == <<state, method, result, launched>>

Final == {"Stopped", "Failed"}

Init == state = "Created" /\ method = "none" /\ result = "None" /\ launched = FALSE

Call(m) == method = "none" /\ method' = m /\ UNCHANGED result
Finish(m, r) == method \in {"none", m} /\ method' = "none" /\ result' = r

\* A method that need not wait for anything finishes in the step it is called.

StartRefused ==
    /\ method = "none" /\ state # "Created"
    /\ Finish("start", "AlreadyStarted")
    /\ UNCHANGED <<state, launched>>

StartBegins ==
    /\ state = "Created" /\ state' = "Starting"
    /\ Call("start")
    /\ launched' \in BOOLEAN

\* A failed start is Starting (and stop may clean up) or Failed.
StartFails ==
    /\ state = (IF method = "none" THEN "Created" ELSE "Starting")
    /\ state' \in {"Starting", "Failed"}
    /\ Finish("start", "Error")
    /\ launched' \in {launched, TRUE}

StartSucceeds ==
    /\ method = "start" /\ state = "Starting" /\ state' = "Running"
    /\ Finish("start", "Ok")
    /\ launched' = TRUE

\* A launch may outlive the start that asked for it, and there is only one.
Launch ==
    /\ state # "Created" /\ ~launched /\ launched' = TRUE
    /\ UNCHANGED <<state, method, result>>

StopNeedless ==
    /\ method = "none" /\ state \notin {"Starting", "Running"}
    /\ Finish("stop", "Ok")
    /\ UNCHANGED <<state, launched>>

StopBegins ==
    /\ state \notin Final /\ state' = "Stopping"
    /\ Call("stop")
    /\ UNCHANGED launched

StopSucceeds ==
    /\ IF method = "none" THEN state \notin Final ELSE state = "Stopping"
    /\ state' = "Stopped"
    /\ Finish("stop", "Ok")
    /\ UNCHANGED launched

StopFails ==
    /\ method = "stop"
    /\ Finish("stop", "Error")
    /\ UNCHANGED <<state, launched>>

WaitBegins == Call("wait") /\ UNCHANGED <<state, launched>>

WaitEnds ==
    /\ state' \in {"Stopped"} \union (IF method = "none" THEN {state} ELSE {})
    /\ state # "Failed" \/ state' = "Failed"
    /\ Finish("wait", "Ok")
    /\ UNCHANGED launched

\* exec works in a launched guest only.
ExecBegins == launched /\ Call("exec") /\ UNCHANGED <<state, launched>>

ExecEnds ==
    /\ \/ method = "exec" /\ (Finish("exec", "Ok") \/ Finish("exec", "Error"))
       \/ ~launched /\ Finish("none", "Error")
    /\ UNCHANGED <<state, launched>>

Cancelled ==
    /\ method # "none" /\ Finish(method, "Cancelled")
    /\ UNCHANGED <<state, launched>>

Next ==
    \/ StartRefused \/ StartBegins \/ StartFails \/ StartSucceeds \/ Launch
    \/ StopNeedless \/ StopBegins \/ StopSucceeds \/ StopFails
    \/ WaitBegins \/ WaitEnds
    \/ ExecBegins \/ ExecEnds
    \/ Cancelled

Spec == Init /\ [][Next]_vars
===============================================================================
