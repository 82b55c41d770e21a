---------------------------- MODULE MacosSandbox ----------------------------
(* The macOS backend's sandbox (packages/tokimo-packages-vm-macos): the       *)
(* methods of MacosSandbox and Inner, the thread that owns the virtual        *)
(* machine, and the channels and socket pairs between them.                   *)
(*                                                                            *)
(* The methods take &mut self, so one runs at a time; `pc` is the await, or   *)
(* the blocking join, it is suspended at.  The thread learns what it has to   *)
(* do from a channel and answers over the oneshot channel in the command; a   *)
(* command is numbered by the call that sent it.                              *)
EXTENDS Naturals, Sequences

CONSTANTS
    NMounts,        \* mounts, numbered in the order of the configuration
    MaxCalls,       \* bound on the commands callers send
    MayCancel,      \* whether callers drop futures (select!, timeout)
    MayPanic,       \* whether the thread may die, which the methods allow for
    MayHang         \* whether a start may never be answered by the framework

ASSUME SandboxAssumption ==
    NMounts \in Nat /\ MaxCalls \in Nat /\ {MayCancel, MayPanic, MayHang} \subseteq BOOLEAN

Mount == 1..NMounts

VARIABLES
    state,          \* MacosSandbox::state
    pc,             \* where the running method is suspended, or "idle"
    result,         \* what the last method returned
    inner,          \* who holds Inner: "none", "self" or "stop"
    call, answer,   \* the last command sent; what its sender has heard
    chan,           \* the commands in the mpsc channel
    thread,         \* where the VM thread is
    job, stopped, waiters, \* vm_thread_main's command and locals
    started,        \* the oneshot channel start_tx, start_rx
    vm,             \* the virtual machine
    raw, held,      \* guest ends of socket pairs: bare numbers; held by the VM
    serving,        \* mounts with a serve_stream task
    givenUp,        \* whether start was dropped while the thread was at work
    dropped         \* whether the sandbox is gone

caller == <<state, pc, result, inner, dropped, givenUp>>
locals == <<job, stopped, waiters>>
ends   == <<raw, held, serving>>
link   == <<call, answer, chan>>
machine == <<thread, locals, started, vm, ends>>
vars   == <<caller, link, machine>>

Command == [op : {"Stop", "Wait", "Shutdown"}, call : Nat]
None    == [op |-> "None", call |-> 0]

Init ==
    /\ state = "Created" /\ pc = "idle" /\ result = "None" /\ inner = "none"
    /\ call = 0 /\ answer = "none" /\ chan = <<>>
    /\ thread = "none" /\ job = None /\ stopped = FALSE /\ waiters = {}
    /\ started = "none" /\ vm = "none"
    /\ raw = {} /\ held = {} /\ serving = {}
    /\ givenUp = FALSE /\ dropped = FALSE

Callable == pc = "idle" /\ ~dropped
Return(r) == pc' = "idle" /\ result' = r
Await(p)  == pc' = p /\ UNCHANGED result

ThreadOver == thread \in {"none", "over"}

\* A command whose receiver is gone is lost with its answer channel.
Send(op) ==
    chan' = IF ThreadOver THEN chan ELSE Append(chan, [op |-> op, call |-> call'])
Ask(op) == call' = call + 1 /\ answer' = "none" /\ Send(op)
Shutdown == call' = call /\ Send("Shutdown")

\* A caller hears the answer, or that the sender has gone with the thread.  The
\* code sees at once that a command cannot be sent, and here it does a step later.
Heard == answer # "none" \/ ThreadOver
Ok == answer \in {"Ok", "none"}

\* start -------------------------------------------------------------------------

StartAgain ==
    /\ Callable /\ state # "Created"
    /\ Return("AlreadyStarted")
    /\ UNCHANGED <<state, inner, dropped, givenUp, link, machine>>

\* Up to its await, start may fail for want of an image or a directory, at a
\* socket pair, at the log or at the thread.  The mounts so far are served, and
\* nobody closes their guest ends any more.
Start ==
    /\ Callable /\ state = "Created"
    /\ \E n \in 0..NMounts :
          /\ raw' = 1..n /\ serving' = 1..n
          /\ \/ state' = "Failed" /\ Return("Error") /\ UNCHANGED thread
             \/ n = NMounts /\ state' = "Starting" /\ Await("start") /\ thread' = "building"
    /\ UNCHANGED <<inner, dropped, givenUp, call, answer, chan, locals, started, vm, held>>

\* Mutant: an error of the thread goes unnoticed.
StartedBlindly ==
    /\ pc = "start" /\ (started # "none" \/ ThreadOver)
    /\ state' = "Running" /\ inner' = "self" /\ Return("Ok")
    /\ UNCHANGED <<dropped, givenUp, link, machine>>

\* The thread has answered, or is gone.
Started ==
    /\ pc = "start" /\ (started # "none" \/ ThreadOver)
    /\ IF started = "Ok"
       THEN state' = "Running" /\ inner' = "self" /\ Return("Ok")
       ELSE ThreadOver /\ state' = "Failed" /\ Return("Error") /\ UNCHANGED inner
    /\ UNCHANGED <<dropped, givenUp, link, machine>>

\* stop --------------------------------------------------------------------------

StopNothing ==
    /\ Callable /\ state \notin {"Running", "Starting"}
    /\ Return("Ok")
    /\ UNCHANGED <<state, inner, dropped, givenUp, link, machine>>

\* After a start that was given up there is no Inner to stop.
Stop ==
    /\ Callable /\ state \in {"Running", "Starting"}
    /\ IF inner = "self"
       THEN state' = "Stopping" /\ inner' = "stop" /\ Await("stop") /\ Ask("Stop")
       ELSE state' = "Stopped" /\ Return("Ok") /\ UNCHANGED <<inner, call, answer, chan>>
    /\ UNCHANGED <<dropped, givenUp, machine>>

StopHeard ==
    /\ pc = "stop" /\ Heard
    /\ Await("join") /\ Shutdown
    /\ UNCHANGED <<state, inner, dropped, givenUp, thread, answer, locals, started, vm, ends>>

\* Mutant: the thread is not joined.
StopDoneEarly ==
    /\ pc = "join"
    /\ inner' = "none"
    /\ IF Ok THEN state' = "Stopped" /\ Return("Ok") ELSE Return("Error") /\ UNCHANGED state
    /\ UNCHANGED <<dropped, givenUp, link, machine>>

\* The thread is joined; an error leaves the sandbox Stopping for good.
StopDone ==
    /\ pc = "join" /\ ThreadOver
    /\ inner' = "none"
    /\ IF Ok THEN state' = "Stopped" /\ Return("Ok") ELSE Return("Error") /\ UNCHANGED state
    /\ UNCHANGED <<dropped, givenUp, link, machine>>

\* wait, Drop, and futures that are dropped -------------------------------------------

Wait ==
    /\ Callable /\ call < MaxCalls
    /\ IF inner = "self"
       THEN Await("wait") /\ Ask("Wait")
       ELSE Return("Ok") /\ UNCHANGED <<call, answer, chan>>
    /\ UNCHANGED <<state, inner, dropped, givenUp, machine>>

WaitDone ==
    /\ pc = "wait" /\ Heard
    /\ state' = "Stopped" /\ Return("Ok")
    /\ UNCHANGED <<inner, dropped, givenUp, link, machine>>

\* The start that is dropped lets go of the thread; the stop that is dropped
\* before its answer drops Inner, which blocks until the thread is over; after
\* that the join goes on by itself.
Cancel ==
    /\ MayCancel /\ pc \in {"start", "stop", "join", "wait"}
    /\ IF pc = "stop"
       THEN Await("dropping") /\ Shutdown /\ UNCHANGED inner
       ELSE Return("Cancelled") /\ inner' = (IF pc = "wait" THEN "self" ELSE "none")
            /\ UNCHANGED <<call, chan>>
    /\ givenUp' = (givenUp \/ pc = "start")
    /\ UNCHANGED <<state, dropped, answer, machine>>

Drop ==
    /\ Callable
    /\ dropped' = TRUE
    /\ IF inner = "self"
       THEN Await("dropping") /\ Shutdown /\ inner' = "stop"
       ELSE UNCHANGED <<pc, result, inner, call, chan>>
    /\ UNCHANGED <<state, givenUp, answer, machine>>

InnerDropped ==
    /\ pc = "dropping" /\ ThreadOver
    /\ inner' = "none"
    /\ IF dropped THEN Await("idle") ELSE Return("Cancelled")
    /\ UNCHANGED <<state, dropped, givenUp, link, machine>>

\* The VM thread ------------------------------------------------------------------

ThreadStep == UNCHANGED <<caller, call, serving>>

\* Mutant: closeOnDealloc is false.
EndKeepingEnds ==
    /\ thread' = "over" /\ chan' = <<>> /\ job' = None /\ waiters' = {}
    /\ vm' = IF vm = "none" THEN "none" ELSE "released"
    /\ UNCHANGED <<stopped, held>>

\* Mutant: the thread keeps the machine.
EndKeepingVm ==
    /\ thread' = "over" /\ chan' = <<>> /\ job' = None /\ waiters' = {}
    /\ UNCHANGED <<stopped, vm, held>>

\* What the thread owns goes with it: the commands it has not read, the answer
\* channels it keeps, the machine with the handles the machine holds.
End ==
    /\ thread' = "over" /\ chan' = <<>> /\ job' = None /\ waiters' = {}
    /\ vm' = IF vm = "none" THEN "none" ELSE "released"
    /\ held' = {}
    /\ UNCHANGED stopped

\* The machine takes the guest ends.
Build ==
    /\ thread = "building" /\ thread' = "starting"
    /\ vm' = "starting" /\ held' = raw /\ raw' = {}
    /\ UNCHANGED <<answer, chan, locals, started>> /\ ThreadStep

\* A bad kernel path comes before the guest ends are wrapped, a bad root disk or
\* an invalid configuration after.
BuildFails ==
    /\ thread = "building" /\ End
    /\ started' = "Error" /\ raw' \in {raw, {}}
    /\ UNCHANGED answer /\ ThreadStep

VmStarts ==
    /\ thread = "starting" /\ vm = "starting"
    /\ thread' = "recv" /\ vm' = "running" /\ started' = "Ok"
    /\ UNCHANGED <<answer, chan, locals, raw, held>> /\ ThreadStep

VmRefuses ==
    /\ thread = "starting" /\ vm = "starting" /\ End
    /\ started' = "Error"
    /\ UNCHANGED <<answer, raw>> /\ ThreadStep

\* Answers reach the caller who is still waiting for them.
Reply(calls, r) == answer' = IF call \in calls THEN r ELSE answer

\* The guest is asked to power off and gets two seconds, unless the framework
\* refuses to ask; then the machine is told to stop and gets five.
RequestStop(cmd) ==
    /\ job' = cmd
    /\ thread' \in {"stopping"} \union (IF vm = "running" THEN {"asked"} ELSE {})

RecvStop ==
    /\ thread = "recv" /\ chan # <<>> /\ Head(chan).op = "Stop"
    /\ chan' = Tail(chan)
    /\ IF stopped
       THEN Reply({Head(chan).call}, "Ok") /\ UNCHANGED <<thread, job>>
       ELSE RequestStop(Head(chan)) /\ UNCHANGED answer
    /\ UNCHANGED <<stopped, waiters, started, vm, raw, held>> /\ ThreadStep

RecvWait ==
    /\ thread = "recv" /\ chan # <<>> /\ Head(chan).op = "Wait"
    /\ chan' = Tail(chan)
    /\ IF stopped
       THEN Reply({Head(chan).call}, "Ok") /\ UNCHANGED waiters
       ELSE waiters' = waiters \union {Head(chan).call} /\ UNCHANGED answer
    /\ UNCHANGED <<thread, job, stopped, started, vm, raw, held>> /\ ThreadStep

RecvShutdown ==
    /\ thread = "recv" /\ chan # <<>> /\ Head(chan).op = "Shutdown"
    /\ IF stopped
       THEN End /\ Reply(waiters, "Ok")
       ELSE chan' = Tail(chan) /\ RequestStop(Head(chan))
            /\ UNCHANGED <<answer, stopped, waiters, vm, held>>
    /\ UNCHANGED <<started, raw>> /\ ThreadStep

\* Every sender is gone: the thread ends without a word to the guest.
RecvDisconnected ==
    /\ thread = "recv" /\ chan = <<>> /\ inner = "none" /\ pc # "start"
    /\ End
    /\ UNCHANGED <<answer, started, raw>> /\ ThreadStep

Slept ==
    /\ thread = "asked" /\ thread' = "stopping"
    /\ UNCHANGED <<answer, chan, locals, started, vm, raw, held>> /\ ThreadStep

\* Mutant: a Shutdown whose stop fails goes back to the channel.
StopAnsweredStrictly(ok) ==
    /\ thread = "stopping"
    /\ IF job.op = "Shutdown" /\ ok
       THEN End /\ Reply(waiters, "Ok")
       ELSE /\ thread' = "recv" /\ job' = None /\ stopped' = ok
            /\ vm' = IF ok THEN "off" ELSE vm
            /\ waiters' = IF ok THEN {} ELSE waiters
            /\ Reply({job.call} \union (IF ok THEN waiters ELSE {}),
                     IF ok THEN "Ok" ELSE "Error")
            /\ UNCHANGED <<chan, held>>
    /\ UNCHANGED <<started, raw>> /\ ThreadStep

\* The framework says that the machine has stopped, or that it cannot (it may be
\* off already), or five seconds pass.  Only success reaches the waiters; after
\* a Shutdown the thread ends in either case.
StopAnswered(ok) ==
    /\ thread = "stopping"
    /\ IF job.op = "Shutdown"
       THEN End /\ Reply(waiters, "Ok")
       ELSE /\ thread' = "recv" /\ job' = None /\ stopped' = ok
            /\ vm' = IF ok THEN "off" ELSE vm
            /\ waiters' = IF ok THEN {} ELSE waiters
            /\ Reply({job.call} \union (IF ok THEN waiters ELSE {}),
                     IF ok THEN "Ok" ELSE "Error")
            /\ UNCHANGED <<chan, held>>
    /\ UNCHANGED <<started, raw>> /\ ThreadStep

\* While it builds, the thread has wrapped the guest ends or has not.
Panic ==
    /\ MayPanic /\ ~ThreadOver /\ End
    /\ raw' \in {raw, {}}
    /\ UNCHANGED <<answer, started>> /\ ThreadStep

\* The machine and the streams --------------------------------------------------------

GuestPowersOff ==
    /\ vm = "running" /\ vm' = "off"
    /\ UNCHANGED <<caller, link, thread, locals, started, ends>>

\* The framework does not call the completion handler.
VmHangs ==
    /\ MayHang /\ vm = "starting" /\ vm' = "hung"
    /\ UNCHANGED <<caller, link, thread, locals, started, ends>>

\* The stream ends when its guest end is closed, or the VFS panics.
ServeEnds(m) ==
    /\ m \in serving /\ serving' = serving \ {m}
    /\ UNCHANGED <<caller, link, thread, locals, started, vm, raw, held>>

\* Nothing is left to happen.
Over ==
    /\ dropped /\ pc = "idle" /\ (ThreadOver \/ vm = "hung")
    /\ serving \subseteq raw \union held
    /\ UNCHANGED vars
-------------------------------------------------------------------------------
MethodStep == Started \/ StopHeard \/ StopDone \/ WaitDone \/ InnerDropped

Recv == RecvStop \/ RecvWait \/ RecvShutdown \/ RecvDisconnected

VmThread ==
    \/ Build \/ BuildFails \/ VmStarts \/ VmRefuses
    \/ Recv \/ Slept
    \/ StopAnswered(TRUE) \/ StopAnswered(FALSE)

Next ==
    \/ Start \/ StartAgain \/ Stop \/ StopNothing \/ Wait \/ Drop \/ Cancel
    \/ MethodStep
    \/ VmThread \/ Panic
    \/ GuestPowersOff \/ VmHangs
    \/ \E m \in Mount : ServeEnds(m)
    \/ Over

Spec == Init /\ [][Next]_vars

\* tokio polls a ready task; the thread is scheduled, its sleep and its
\* recv_timeout end; serve_stream reads the end of a closed stream.
Fairness ==
    /\ WF_vars(MethodStep) /\ WF_vars(VmThread)
    /\ \A m \in Mount : WF_vars(m \notin raw \union held /\ ServeEnds(m))

FairSpec == Spec /\ Fairness
-------------------------------------------------------------------------------
\* Properties.

ThreadLoop == {"recv", "asked", "stopping"}

CallerTypes ==
    /\ state \in {"Created", "Starting", "Running", "Stopping", "Stopped", "Failed"}
    /\ pc \in {"idle", "start", "stop", "join", "wait", "dropping"}
    /\ result \in {"None", "Ok", "Error", "AlreadyStarted", "Cancelled"}
    /\ inner \in {"none", "self", "stop"}
    /\ givenUp \in BOOLEAN /\ dropped \in BOOLEAN
    /\ serving \subseteq Mount

ThreadTypes ==
    /\ call \in Nat /\ answer \in {"none", "Ok", "Error"}
    /\ chan \in Seq(Command)
    /\ thread \in {"none", "building", "starting", "over"} \union ThreadLoop
    /\ job \in Command \union {None}
    /\ stopped \in BOOLEAN /\ waiters \subseteq Nat
    /\ started \in {"none", "Ok", "Error"}
    /\ vm \in {"none", "starting", "running", "off", "hung", "released"}
    /\ raw \subseteq Mount /\ held \subseteq Mount

Holding ==
    /\ pc = "start" => state = "Starting" /\ inner = "none"
    /\ pc \in {"stop", "join", "dropping"} <=> inner = "stop"
    /\ state = "Running" /\ ~dropped => inner # "none" /\ thread \in ThreadLoop \union {"over"}
    /\ inner # "none" => raw = {}

\* Every variable has its type; Inner is held from the Running thread to its
\* end, and bare guest ends outlive the building of the machine only with a
\* start that failed (imp.rs:94-107, 147-161).
TypeOK == CallerTypes /\ ThreadTypes /\ Holding

VmGone == ThreadOver /\ vm \in {"none", "released"}

\* Stopped means that the thread is over and the machine released, unless start
\* was dropped before it knew of either (lib.rs:101-111, 128-134).
StoppedMeansGone == state = "Stopped" /\ ~givenUp => VmGone

\* However stop ends, with the framework's error too, the thread has been
\* joined, the machine released, every guest end closed and every waiter
\* answered (imp.rs:166-177, 289-320).
StopReleases ==
    pc = "join" /\ pc' = "idle" /\ result' # "Cancelled" =>
       VmGone /\ raw = {} /\ held = {} /\ waiters = {} /\ chan = <<>>

StopReleasesAlways == [][StopReleases]_vars

\* start, stop and Drop end unless the framework leaves a start unanswered; a
\* wait ends when the thread does (imp.rs:147-185, 197-204).
MethodsReturn ==
    /\ pc \in {"start", "stop", "join", "dropping"} ~> pc = "idle" \/ vm = "hung"
    /\ pc = "wait" /\ ThreadOver ~> pc = "idle"

\* Once dropped the sandbox takes the thread, the machine and the tasks with it,
\* a start that was given up included; only the tasks of guest ends that a
\* failed start left open stay (imp.rs:94-107, 197-204, 280-284, 319).
DropReleases == dropped ~> vm = "hung" \/ (VmGone /\ held = {} /\ serving \subseteq raw)

\* The sandbox is one: see SandboxLifecycle.
method ==
    CASE pc \in {"start", "wait"} -> pc
      [] pc \in {"stop", "join"}  -> "stop"
      [] pc = "dropping"          -> IF dropped THEN "none" ELSE "stop"
      [] OTHER                    -> "none"

Lifecycle == INSTANCE SandboxLifecycle WITH launched <- vm # "none"

\* Whatever the thread does, callers see the life cycle of the trait: in
\* particular Running only of a machine that was started (core lib.rs:580-616).
LifecycleSpec == Lifecycle!Spec
===============================================================================
