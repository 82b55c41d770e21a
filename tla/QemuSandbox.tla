----------------------------- MODULE QemuSandbox -----------------------------
(* The Linux backend's sandbox (packages/tokimo-packages-vm-linux, lib.rs):   *)
(* start, stop, wait and Drop, the QEMU process and its QMP socket, and the   *)
(* tasks that serve each mount.                                               *)
(*                                                                            *)
(* The methods take &mut self, so one runs at a time; `pc` is the await it is *)
(* suspended at.  The code between two awaits is one step.  A caller may drop *)
(* a method's future at an await, or the whole program may exit.              *)
EXTENDS Naturals

CONSTANTS
    NMounts,        \* mounts, numbered in the order of the configuration
    MayCancel,      \* whether callers drop futures (select!, timeout)
    MayExit,        \* whether the program calls process::exit (examples/repl.rs)
    MayHang         \* whether QEMU may stop answering

ASSUME SandboxAssumption ==
    NMounts \in Nat /\ {MayCancel, MayExit, MayHang} \subseteq BOOLEAN

Mount == 1..NMounts

VARIABLES
    state,          \* QemuSandbox::state
    pc,             \* the await the running method is suspended at, or "idle"
    result,         \* what the last method returned
    child, qmp,     \* who holds QemuSandbox::{qemu_child, qmp}
    servers,        \* QemuSandbox::vfs_servers
    local,          \* the servers stop has taken
    task,           \* each mount's accept loop: "none", "accepting", "aborted"
    sock,           \* mounts whose rpcN.sock exists
    backlog,        \* mounts on whose socket QEMU waits to be accepted
    serving,        \* mounts with a serve_stream task, which nobody holds
    qemu, killed,   \* the QEMU process; whether it was sent SIGKILL
    dropped,        \* the sandbox is gone
    program         \* main of examples/repl.rs: "starting", "running" once start has
                    \* returned Ok, "exited"

owned == <<child, qmp, servers, local>>
tasks == <<task, sock, backlog, serving>>
vars  == <<state, pc, result, owned, tasks, qemu, killed, dropped, program>>

exited == program = "exited"

Gone == qemu \in {"absent", "dead"}

Init ==
    /\ state = "Created" /\ pc = "idle" /\ result = "None"
    /\ child = "none" /\ qmp = "none" /\ servers = {} /\ local = {}
    /\ task = [m \in Mount |-> "none"] /\ sock = {} /\ backlog = {} /\ serving = {}
    /\ qemu = "absent" /\ killed = FALSE
    /\ dropped = FALSE /\ program = "starting"

Callable == pc = "idle" /\ ~dropped /\ ~exited
At(p)    == pc = p /\ ~exited
Return(r) == pc' = "idle" /\ result' = r
Await(p)  == pc' = p /\ UNCHANGED result

\* start -------------------------------------------------------------------------

StartAgain ==
    /\ Callable /\ state # "Created"
    /\ Return("AlreadyStarted")
    /\ UNCHANGED <<state, owned, tasks, qemu, killed, dropped, program>>

\* Mutant: the state is set before the outcome is known.
StartHasty ==
    /\ Callable /\ state = "Created"
    /\ state' = "Running"
    /\ \E n \in 0..NMounts :
          /\ servers' = 1..n /\ sock' = sock \union 1..n
          /\ task' = [m \in Mount |-> IF m <= n THEN "accepting" ELSE "none"]
          /\ \/ Return("Error") /\ UNCHANGED <<child, qemu>>
             \/ n = NMounts /\ Await("connect") /\ child' = "self" /\ qemu' = "booting"
    /\ UNCHANGED <<qmp, local, backlog, serving, killed, dropped, program>>

\* Up to its first await, start may fail for want of a runtime directory or an
\* image, at a bind, or at the spawn; the mounts bound so far stay.
Start ==
    /\ Callable /\ state = "Created"
    /\ state' = "Starting"
    /\ \E n \in 0..NMounts :
          /\ servers' = 1..n /\ sock' = sock \union 1..n
          /\ task' = [m \in Mount |-> IF m <= n THEN "accepting" ELSE "none"]
          /\ \/ Return("Error") /\ UNCHANGED <<child, qemu>>
             \/ n = NMounts /\ Await("connect") /\ child' = "self" /\ qemu' = "booting"
    /\ UNCHANGED <<qmp, local, backlog, serving, killed, dropped, program>>

\* QmpClient::connect tries until QEMU listens or ten seconds have passed.
Connect ==
    /\ At("connect") /\ qemu \in {"up", "stuck"}
    /\ qmp' = "start" /\ Await("greeting")
    /\ UNCHANGED <<state, child, servers, local, tasks, qemu, killed, dropped, program>>

ConnectDeadline ==
    /\ At("connect") /\ qemu \notin {"up", "stuck"}
    /\ Return("Error")
    /\ UNCHANGED <<state, owned, tasks, qemu, killed, dropped, program>>

Greeting ==
    /\ At("greeting") /\ qemu = "up"
    /\ Await("caps")
    /\ UNCHANGED <<state, owned, tasks, qemu, killed, dropped, program>>

Capabilities ==
    /\ At("caps") /\ qemu = "up"
    /\ qmp' = "self" /\ state' = "Running" /\ Return("Ok")
    /\ program' = "running"
    /\ UNCHANGED <<child, servers, local, tasks, qemu, killed, dropped>>

QmpClosed ==
    /\ At("greeting") \/ At("caps")
    /\ qemu = "dead"
    /\ qmp' = "none" /\ Return("Error")
    /\ UNCHANGED <<state, child, servers, local, tasks, qemu, killed, dropped, program>>

\* stop --------------------------------------------------------------------------

\* With QMP out of the way stop takes the child, or else the servers.
TakeServers == local' = servers /\ servers' = {} /\ Await("servers") /\ UNCHANGED child
TakeChild ==
    IF child = "self"
    THEN child' = "stop" /\ Await("grace") /\ UNCHANGED <<servers, local>>
    ELSE TakeServers

StopNothing ==
    /\ Callable /\ state \notin {"Running", "Starting"}
    /\ Return("Ok")
    /\ UNCHANGED <<state, owned, tasks, qemu, killed, dropped, program>>

Stop ==
    /\ Callable /\ state \in {"Running", "Starting"}
    /\ state' = "Stopping"
    /\ IF qmp = "self"
       THEN qmp' = "stop" /\ Await("powerdown") /\ UNCHANGED <<child, servers, local>>
       ELSE TakeChild /\ UNCHANGED qmp
    /\ UNCHANGED <<tasks, qemu, killed, dropped, program>>

\* No timeout: an answer or the end of the socket.
Powerdown ==
    /\ At("powerdown") /\ qemu # "stuck"
    /\ Await("quit")
    /\ UNCHANGED <<state, owned, tasks, qemu, killed, dropped, program>>

\* Mutant: quit has no timeout either.
QuitPatient ==
    /\ At("quit") /\ qemu # "stuck"
    /\ qemu' = "dead"
    /\ qmp' = "none" /\ TakeChild
    /\ UNCHANGED <<state, tasks, killed, dropped, program>>

\* QEMU quits, or three seconds pass.
Quit ==
    /\ At("quit")
    /\ \/ qemu # "stuck" /\ qemu' = "dead"
       \/ UNCHANGED qemu
    /\ qmp' = "none" /\ TakeChild
    /\ UNCHANGED <<state, tasks, killed, dropped, program>>

\* Mutant: after the three seconds QEMU is left alone.
GraceOnly ==
    /\ At("grace")
    /\ child' = "none"
    /\ local' = servers /\ servers' = {} /\ Await("servers")
    /\ UNCHANGED <<state, qmp, tasks, qemu, killed, dropped, program>>

\* Mutant: stop goes on waiting for a QEMU it does not kill.
GraceLenient ==
    /\ At("grace")
    /\ Await("reap")
    /\ UNCHANGED <<state, owned, tasks, qemu, killed, dropped, program>>

\* QEMU exits, or three seconds pass; then it is killed in either case.
Grace ==
    /\ At("grace")
    /\ killed' = TRUE /\ Await("reap")
    /\ UNCHANGED <<state, owned, tasks, qemu, dropped, program>>

Reap ==
    /\ At("reap") /\ qemu = "dead"
    /\ child' = "none"
    /\ local' = servers /\ servers' = {} /\ Await("servers")
    /\ UNCHANGED <<state, qmp, tasks, qemu, killed, dropped, program>>

First(S) == CHOOSE m \in S : \A n \in S : m <= n

AbortServer ==
    /\ At("servers") /\ local # {} /\ task[First(local)] = "accepting"
    /\ task' = [task EXCEPT ![First(local)] = "aborted"]
    /\ UNCHANGED <<state, pc, result, owned, sock, backlog, serving, qemu, killed, dropped,
                   program>>

\* Mutant: the socket file stays.
ServerGoneKeepingFile ==
    /\ At("servers") /\ local # {} /\ task[First(local)] = "none"
    /\ local' = local \ {First(local)}
    /\ UNCHANGED <<state, pc, result, child, qmp, servers, tasks, qemu, killed, dropped, program>>

ServerGone ==
    /\ At("servers") /\ local # {} /\ task[First(local)] = "none"
    /\ sock' = sock \ {First(local)} /\ local' = local \ {First(local)}
    /\ UNCHANGED <<state, pc, result, child, qmp, servers, task, backlog, serving, qemu, killed,
                   dropped, program>>

\* Mutant: the last server is left to itself.
StopDoneEarly ==
    /\ At("servers") /\ \A m, n \in local : m = n
    /\ state' = "Stopped" /\ local' = {} /\ Return("Ok")
    /\ UNCHANGED <<child, qmp, servers, tasks, qemu, killed, dropped, program>>

StopDone ==
    /\ At("servers") /\ local = {}
    /\ state' = "Stopped" /\ Return("Ok")
    /\ UNCHANGED <<owned, tasks, qemu, killed, dropped, program>>

\* wait, Drop, and what callers do to a method ---------------------------------------

Wait ==
    /\ Callable
    /\ IF child = "self" THEN Await("wait") ELSE Return("Ok")
    /\ UNCHANGED <<state, owned, tasks, qemu, killed, dropped, program>>

WaitDone ==
    /\ At("wait") /\ qemu = "dead"
    /\ state' = "Stopped" /\ Return("Ok")
    /\ UNCHANGED <<owned, tasks, qemu, killed, dropped, program>>

\* Mutant: kill_on_drop is not set.
CancelSparing ==
    /\ MayCancel /\ pc # "idle" /\ ~exited
    /\ Return("Cancelled")
    /\ qmp' = IF qmp = "self" THEN "self" ELSE "none"
    /\ child' = IF child = "self" THEN "self" ELSE "none"
    /\ local' = {}
    /\ UNCHANGED <<state, servers, tasks, qemu, killed, dropped, program>>

\* Dropping a future drops what the method holds: a QMP client closes its
\* socket, a Child is killed (kill_on_drop), a JoinHandle lets its task go on.
Cancel ==
    /\ MayCancel /\ pc # "idle" /\ ~exited
    /\ Return("Cancelled")
    /\ qmp' = IF qmp = "self" THEN "self" ELSE "none"
    /\ child' = IF child = "self" THEN "self" ELSE "none"
    /\ killed' = (killed \/ child = "stop")
    /\ local' = {}
    /\ UNCHANGED <<state, servers, tasks, qemu, dropped, program>>

\* Mutant: the accept loops are not aborted.
DropDetaching ==
    /\ Callable
    /\ dropped' = TRUE
    /\ killed' = (killed \/ child = "self")
    /\ child' = "none" /\ qmp' = "none" /\ servers' = {}
    /\ sock' = sock \ servers
    /\ UNCHANGED <<state, pc, result, local, task, backlog, serving, qemu, program>>

Drop ==
    /\ Callable
    /\ dropped' = TRUE
    /\ killed' = (killed \/ child = "self")
    /\ child' = "none" /\ qmp' = "none" /\ servers' = {}
    /\ task' = [m \in Mount |->
                  IF m \in servers /\ task[m] = "accepting" THEN "aborted" ELSE task[m]]
    /\ sock' = sock \ servers
    /\ UNCHANGED <<state, pc, result, local, backlog, serving, qemu, program>>

\* The program goes without running a destructor: the thread that looks for
\* Ctrl-A x is there once start has returned Ok, and while stop runs.
Exit ==
    /\ MayExit /\ program = "running"
    /\ program' = "exited"
    /\ child' = "none" /\ qmp' = "none" /\ servers' = {} /\ local' = {}
    /\ task' = [m \in Mount |-> "none"] /\ backlog' = {} /\ serving' = {}
    /\ UNCHANGED <<state, pc, result, sock, qemu, killed, dropped>>

\* The accept loops and the streams they hand to serve_stream -----------------------

\* A loop that ends closes its listener, and with it what waits there.
LoopEnds(m) ==
    /\ task' = [task EXCEPT ![m] = "none"] /\ backlog' = backlog \ {m}
    /\ UNCHANGED <<state, pc, result, owned, sock, serving, qemu, killed, dropped, program>>

AbortLands(m)  == task[m] = "aborted" /\ LoopEnds(m)
AcceptError(m) == task[m] = "accepting" /\ LoopEnds(m)

\* QEMU connects to a mount's socket, and does so again when the stream ends
\* (reconnect=1).
Dial(m) ==
    /\ qemu = "up" /\ m \in sock /\ task[m] # "none" /\ m \notin backlog \union serving
    /\ backlog' = backlog \union {m}
    /\ UNCHANGED <<state, pc, result, owned, task, sock, serving, qemu, killed, dropped, program>>

\* A task being aborted may get to accept once more, although the file of its
\* socket, or QEMU, is gone by then.
Accept(m) ==
    /\ m \in backlog
    /\ backlog' = backlog \ {m} /\ serving' = serving \union {m}
    /\ UNCHANGED <<state, pc, result, owned, task, sock, qemu, killed, dropped, program>>

\* The VFS panics, or QEMU is gone.
ServeEnds(m) ==
    /\ m \in serving
    /\ serving' = serving \ {m}
    /\ UNCHANGED <<state, pc, result, owned, task, sock, backlog, qemu, killed, dropped, program>>

\* QEMU --------------------------------------------------------------------------

\* QEMU listens on the QMP socket its command line names.
QemuUp ==
    /\ qemu = "booting" /\ qemu' = "up"
    /\ UNCHANGED <<state, pc, result, owned, tasks, killed, dropped, program>>

QemuStuck ==
    /\ MayHang /\ qemu = "up" /\ qemu' = "stuck"
    /\ UNCHANGED <<state, pc, result, owned, tasks, killed, dropped, program>>

\* The guest powers off, or QEMU crashes or quits late.
QemuExits ==
    /\ ~Gone /\ qemu' = "dead"
    /\ UNCHANGED <<state, pc, result, owned, tasks, killed, dropped, program>>

KillLands ==
    /\ killed /\ ~Gone /\ qemu' = "dead"
    /\ UNCHANGED <<state, pc, result, owned, tasks, killed, dropped, program>>

\* Nothing is left to happen.
Over ==
    /\ dropped \/ exited
    /\ Gone /\ serving = {}
    /\ \A m \in Mount : task[m] # "aborted"
    /\ UNCHANGED vars
-------------------------------------------------------------------------------
MethodStep ==
    \/ Connect \/ ConnectDeadline \/ Greeting \/ Capabilities \/ QmpClosed
    \/ Powerdown \/ Quit \/ Grace \/ Reap \/ AbortServer \/ ServerGone \/ StopDone
    \/ WaitDone

Next ==
    \/ Start \/ StartAgain \/ Stop \/ StopNothing \/ Wait \/ Drop
    \/ MethodStep
    \/ Cancel \/ Exit
    \/ \E m \in Mount : AbortLands(m) \/ AcceptError(m) \/ Dial(m) \/ Accept(m) \/ ServeEnds(m)
    \/ QemuUp \/ QemuStuck \/ QemuExits \/ KillLands
    \/ Over

Spec == Init /\ [][Next]_vars

\* tokio polls a ready task and fires a timer; the operating system delivers a
\* signal; serve_stream reads the end of a stream whose other end is gone.
Fairness ==
    /\ WF_vars(MethodStep) /\ WF_vars(KillLands)
    /\ \A m \in Mount : WF_vars(AbortLands(m)) /\ WF_vars(Gone /\ ServeEnds(m))

FairSpec == Spec /\ Fairness
-------------------------------------------------------------------------------
\* Properties.

\* The values SandboxState takes; nothing assigns Failed.
StateOf == {"Created", "Starting", "Running", "Stopping", "Stopped"}
StartPc == {"connect", "greeting", "caps"}
StopPc  == {"powerdown", "quit", "grace", "reap", "servers"}

\* Every variable has its type, and what a method holds is held while it is at
\* an await that needs it.
TypeOK ==
    /\ state \in StateOf
    /\ pc \in {"idle", "wait"} \union StartPc \union StopPc
    /\ result \in {"None", "Ok", "Error", "AlreadyStarted", "Cancelled"}
    /\ child \in {"none", "self", "stop"} /\ qmp \in {"none", "self", "start", "stop"}
    /\ servers \subseteq Mount /\ local \subseteq Mount /\ sock \subseteq Mount
    /\ serving \subseteq Mount /\ backlog \subseteq {m \in Mount : task[m] # "none"}
    /\ task \in [Mount -> {"none", "accepting", "aborted"}]
    /\ qemu \in {"absent", "booting", "up", "stuck", "dead"}
    /\ killed \in BOOLEAN /\ dropped \in BOOLEAN
    /\ program \in {"starting", "running", "exited"}
    /\ ~exited =>
          /\ pc \in StartPc => state = "Starting" /\ child = "self"
          /\ pc \in StopPc => state = "Stopping"
          /\ pc \in {"grace", "reap"} <=> child = "stop"
          /\ pc \in {"powerdown", "quit"} <=> qmp = "stop"
          /\ pc \in {"greeting", "caps"} <=> qmp = "start"
          /\ local # {} => pc = "servers"

\* A Running sandbox has its QEMU child, its QMP client and a server for every
\* mount, whichever early return start may have taken before (lib.rs:132-259).
RunningMeansUp ==
    state = "Running" /\ ~dropped /\ ~exited =>
       child = "self" /\ qmp = "self" /\ servers = Mount

\* No QEMU process is lost: somebody holds its handle, or it has been sent
\* SIGKILL; this is what kill_on_drop is for when a future is dropped
\* (lib.rs:270-274, 319-324, qemu.rs:145).
QemuOwned == ~Gone /\ ~exited => child # "none" \/ killed

\* No accept loop is lost: it is in vfs_servers or in the hands of stop, or it
\* has been aborted (lib.rs:205-210, 275-286, 325-328).
TasksOwned ==
    ~exited => \A m \in Mount : task[m] = "accepting" => m \in servers \union local

\* Stopped, by stop or by wait, means that QEMU is gone (lib.rs:270-287, 300-306).
StoppedMeansGone == state = "Stopped" => Gone

\* When stop gets to its end, after a failed start too, nothing it is
\* responsible for is left: no process, client, task or socket (lib.rs:261-289).
StopReleases ==
    pc = "servers" /\ state' = "Stopped" =>
       /\ Gone /\ child' = "none" /\ qmp' = "none"
       /\ servers' = {} /\ local' = {} /\ sock' = {}
       /\ \A m \in Mount : task'[m] = "none"

StopReleasesAlways == [][StopReleases]_vars

\* Once dropped the sandbox takes everything with it in the end, the detached
\* serve_stream tasks included (lib.rs:319-329).
DropReleases ==
    dropped /\ ~exited ~>
       Gone /\ serving = {} /\ sock = {} /\ (\A m \in Mount : task[m] = "none")

\* start and stop come to an end unless QEMU hangs (lib.rs:132-289).
MethodsReturn ==
    pc \in StartPc \union StopPc /\ ~exited ~> pc = "idle" \/ exited \/ qemu = "stuck"

\* The waits that have a deadline end although QEMU hangs (qmp.rs:16-26,
\* lib.rs:268-274); the ones for the greeting, for the capabilities and for the
\* answer to system_powerdown have none.
DeadlinesHold ==
    \A p \in {"connect", "quit", "grace", "reap", "servers"} : pc = p ~> pc # p

method ==
    CASE pc \in StartPc -> "start"
      [] pc \in StopPc  -> "stop"
      [] pc = "wait"    -> "wait"
      [] OTHER          -> "none"

Lifecycle == INSTANCE SandboxLifecycle WITH launched <- qemu # "absent"

\* Callers see the life cycle of the trait; Running only of a QEMU that was
\* spawned (core lib.rs:580-616).
LifecycleSpec == Lifecycle!Spec

\* "press Ctrl-A x on the host to force-stop the sandbox" (docs/DEBUG.md:18-19):
\* when the program has been left that way QEMU is gone or has been killed.
ForceStopStops == exited => Gone \/ killed
===============================================================================
