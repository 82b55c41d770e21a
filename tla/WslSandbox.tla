------------------------------ MODULE WslSandbox ------------------------------
(* The Windows backend's sandbox (packages/tokimo-packages-vm-wsl): importing *)
(* the distribution, one wsl.exe process per mount that runs the agent, the   *)
(* tasks that serve them over its pipes, and start, stop, exec and wait.      *)
(*                                                                            *)
(* start, stop and wait take &mut self, so one method runs at a time; `pc` is *)
(* the await it is suspended at.  Other programs see the same distribution.   *)
EXTENDS Naturals

CONSTANTS
    NMounts,        \* mounts, numbered in the order of the configuration
    MayCancel,      \* whether callers drop futures (select!, timeout)
    MayHang         \* whether wsl.exe may stop answering

ASSUME SandboxAssumption ==
    NMounts \in Nat /\ {MayCancel, MayHang} \subseteq BOOLEAN

Mount == 1..NMounts

VARIABLES
    state,          \* WslSandbox::state
    pc,             \* the await the running method is suspended at, or "idle"
    result,         \* what the last method returned
    resolved,       \* whether WslSandbox::resolved_distro is set
    children,       \* WslSandbox::agent_children
    local,          \* the children stop or wait has taken
    tasks,          \* WslSandbox::vfs_tasks
    task,           \* each mount's task: "none", "serving", "aborted"
    agent,          \* each mount's wsl.exe: "none", "running", "exited"
    killed, lost,   \* the ones sent a kill; the ones let go unkilled
    distro,         \* the distribution: "absent", "off", "up"
    stuck,          \* wsl.exe does not answer any more
    dropped         \* the sandbox is gone

owned == <<resolved, children, local, tasks>>
world == <<agent, killed, lost, distro, stuck>>
vars  == <<state, pc, result, owned, task, world, dropped>>

RunningAgents == {m \in Mount : agent[m] = "running"}
Serving       == {m \in Mount : task[m] = "serving"}

Init ==
    /\ state = "Created" /\ pc = "idle" /\ result = "None"
    /\ resolved = FALSE /\ children = {} /\ local = {} /\ tasks = {}
    /\ task = [m \in Mount |-> "none"] /\ agent = [m \in Mount |-> "none"]
    /\ killed = {} /\ lost = {}
    /\ distro \in {"absent", "off", "up"}
    /\ stuck = FALSE /\ dropped = FALSE

Callable == pc = "idle" /\ ~dropped
Return(r) == pc' = "idle" /\ result' = r
Await(p)  == pc' = p /\ UNCHANGED result

\* start -------------------------------------------------------------------------

StartAgain ==
    /\ Callable /\ state # "Created"
    /\ Return("AlreadyStarted")
    /\ UNCHANGED <<state, owned, task, world, dropped>>

\* The runtime directory may be out of reach.
Start ==
    /\ Callable /\ state = "Created"
    /\ state' = "Starting"
    /\ Await("list") \/ Return("Error")
    /\ UNCHANGED <<owned, task, world, dropped>>

Up(m, n, s) == [i \in Mount |-> IF i <= n THEN s ELSE m[i]]

\* Mutant: the name is not kept.
SpawnUnresolved ==
    /\ \E n \in 0..NMounts :
          /\ agent' = Up(agent, n, "running") /\ task' = Up(task, n, "serving")
          /\ children' = 1..n /\ tasks' = 1..n
          /\ distro' = IF n > 0 THEN "up" ELSE IF distro = "absent" THEN "off" ELSE distro
          /\ \/ Return("Error") /\ UNCHANGED state
             \/ n = NMounts /\ state' = "Running" /\ Return("Ok")
    /\ UNCHANGED <<resolved, local, killed, lost, stuck>>

\* With a distribution at hand every mount gets its wsl.exe, which boots it, and
\* its task; a log that cannot be made or a failed spawn ends the loop.
Spawn ==
    /\ resolved' = TRUE
    /\ \E n \in 0..NMounts :
          /\ agent' = Up(agent, n, "running") /\ task' = Up(task, n, "serving")
          /\ children' = 1..n /\ tasks' = 1..n
          /\ distro' = IF n > 0 THEN "up" ELSE IF distro = "absent" THEN "off" ELSE distro
          /\ \/ Return("Error") /\ UNCHANGED state
             \/ n = NMounts /\ state' = "Running" /\ Return("Ok")
    /\ UNCHANGED <<local, killed, lost, stuck>>

\* wsl --list fails, or names the distribution or not; then the directory or the
\* archive may be missing.
Listed ==
    /\ pc = "list" /\ ~stuck
    /\ \/ distro # "absent" /\ Spawn
       \/ distro = "absent" /\ Await("import") /\ UNCHANGED <<state, owned, task, world>>
       \/ Return("Error") /\ UNCHANGED <<state, owned, task, world>>
    /\ UNCHANGED dropped

\* The import fails if the name has been taken since, among other reasons.
Imported ==
    /\ pc = "import" /\ ~stuck
    /\ \/ distro = "absent" /\ Spawn
       \/ Return("Error") /\ UNCHANGED <<state, owned, task, world>>
    /\ UNCHANGED dropped

\* stop --------------------------------------------------------------------------

\* The child whose turn it is: the loops go through the Vec in its order.
First(S) == {m \in S : \A n \in S : m <= n}

\* Mutant: the tasks are dropped, not aborted.
EndTasksDetached ==
    /\ tasks' = {} /\ UNCHANGED task
    /\ IF resolved
       THEN Await("terminate") /\ state' = "Stopping"
       ELSE state' = "Stopped" /\ Return("Ok")

\* With the children out of the way stop aborts the tasks; a distribution that
\* was never resolved is not terminated.
EndTasks ==
    /\ tasks' = {}
    /\ task' = [m \in Mount |->
                  IF m \in tasks /\ task[m] = "serving" THEN "aborted" ELSE task[m]]
    /\ IF resolved
       THEN Await("terminate") /\ state' = "Stopping"
       ELSE state' = "Stopped" /\ Return("Ok")

StopAgain ==
    /\ Callable /\ state = "Stopped"
    /\ Return("Ok")
    /\ UNCHANGED <<state, owned, task, world, dropped>>

Stop ==
    /\ Callable /\ state # "Stopped"
    /\ children' = {} /\ local' = children
    /\ IF children = {}
       THEN EndTasks /\ UNCHANGED killed
       ELSE /\ state' = "Stopping" /\ Await("kill") /\ killed' = killed \union First(children)
            /\ UNCHANGED <<tasks, task>>
    /\ UNCHANGED <<resolved, agent, lost, distro, stuck, dropped>>

\* Mutant: the first child is killed, the others are waited for.
KillPatient ==
    /\ pc = "kill" /\ First(local) \cap RunningAgents = {}
    /\ local' = local \ First(local)
    /\ IF local' = {}
       THEN EndTasks /\ UNCHANGED killed
       ELSE UNCHANGED <<state, pc, result, killed, tasks, task>>
    /\ UNCHANGED <<resolved, children, agent, lost, distro, stuck, dropped>>

\* kill().await: a kill, and the wait for the process; then the next one's.
Kill ==
    /\ pc = "kill" /\ First(local) \cap RunningAgents = {}
    /\ local' = local \ First(local)
    /\ IF local' = {}
       THEN EndTasks /\ UNCHANGED killed
       ELSE /\ killed' = killed \union First(local')
            /\ UNCHANGED <<state, pc, result, tasks, task>>
    /\ UNCHANGED <<resolved, children, agent, lost, distro, stuck, dropped>>

\* What it means for the distribution and the wsl.exe processes in it.
Terminate ==
    /\ distro' = IF distro = "up" THEN "off" ELSE distro
    /\ agent' = [m \in Mount |-> IF agent[m] = "running" THEN "exited" ELSE agent[m]]

\* The outcome of wsl --terminate is ignored.
Terminated ==
    /\ pc = "terminate" /\ ~stuck
    /\ Terminate \/ UNCHANGED <<distro, agent>>
    /\ state' = "Stopped" /\ Return("Ok")
    /\ UNCHANGED <<owned, task, killed, lost, stuck, dropped>>

\* exec and wait -----------------------------------------------------------------

\* exec asks for a resolved distribution only: it works before Running and after
\* Stopped, and boots what stop has terminated.
Exec ==
    /\ Callable
    /\ IF resolved
       THEN Await("exec") /\ distro' = (IF distro = "off" THEN "up" ELSE distro)
       ELSE Return("Error") /\ UNCHANGED distro
    /\ UNCHANGED <<state, owned, task, agent, killed, lost, stuck, dropped>>

ExecDone ==
    /\ pc = "exec" /\ ~stuck
    /\ Return("Ok") \/ Return("Error")
    /\ UNCHANGED <<state, owned, task, world, dropped>>

Wait ==
    /\ Callable
    /\ children' = {} /\ local' = children
    /\ IF children = {}
       THEN state' = "Stopped" /\ Return("Ok")
       ELSE Await("wait") /\ UNCHANGED state
    /\ UNCHANGED <<resolved, tasks, task, world, dropped>>

\* Mutant: one agent is waited for.
WaitFirst ==
    /\ pc = "wait" /\ First(local) \cap RunningAgents = {}
    /\ local' = {} /\ state' = "Stopped" /\ Return("Ok")
    /\ UNCHANGED <<resolved, children, tasks, task, world, dropped>>

WaitNext ==
    /\ pc = "wait" /\ First(local) \cap RunningAgents = {}
    /\ local' = local \ First(local)
    /\ IF local' = {}
       THEN state' = "Stopped" /\ Return("Ok")
       ELSE UNCHANGED <<state, pc, result>>
    /\ UNCHANGED <<resolved, children, tasks, task, world, dropped>>

\* Dropped futures and the sandbox's end -----------------------------------------------

\* The children a method has taken go with its future, and go on running: there
\* is no kill_on_drop.  So do a wsl --import and a wsl --terminate.
Cancel ==
    /\ MayCancel /\ pc # "idle"
    /\ Return("Cancelled")
    /\ local' = {} /\ lost' = lost \union (local \ killed)
    /\ UNCHANGED <<state, resolved, children, tasks, task, agent, killed, distro, stuck, dropped>>

\* There is no Drop: the children and the tasks go on.
Drop ==
    /\ Callable
    /\ dropped' = TRUE
    /\ lost' = lost \union children /\ children' = {} /\ tasks' = {}
    /\ UNCHANGED <<state, pc, result, resolved, local, task, agent, killed, distro, stuck>>

\* Tasks, processes, other programs ------------------------------------------------------

\* The agent's end closes the pipe; the VFS may panic, the pipe may break.
ServeEnds(m) ==
    /\ task[m] = "serving"
    /\ task' = [task EXCEPT ![m] = "none"]
    /\ UNCHANGED <<state, pc, result, owned, world, dropped>>

AbortLands(m) ==
    /\ task[m] = "aborted"
    /\ task' = [task EXCEPT ![m] = "none"]
    /\ UNCHANGED <<state, pc, result, owned, world, dropped>>

AgentExits(m) ==
    /\ agent[m] = "running"
    /\ agent' = [agent EXCEPT ![m] = "exited"]
    /\ UNCHANGED <<state, pc, result, owned, task, killed, lost, distro, stuck, dropped>>

\* Another sandbox of this name imports the distribution or terminates it, a
\* cancelled import or terminate gets to its end, or the user shuts WSL down.
OtherImports ==
    /\ distro = "absent" /\ distro' = "off"
    /\ UNCHANGED <<state, pc, result, owned, task, agent, killed, lost, stuck, dropped>>

OtherTerminates ==
    /\ distro = "up" /\ Terminate
    /\ UNCHANGED <<state, pc, result, owned, task, killed, lost, stuck, dropped>>

WslStuck ==
    /\ MayHang /\ ~stuck /\ stuck' = TRUE
    /\ UNCHANGED <<state, pc, result, owned, task, agent, killed, lost, distro, dropped>>

\* Nothing is left to happen.
Over ==
    /\ dropped /\ \A m \in Mount : task[m] = "none"
    /\ UNCHANGED vars
-------------------------------------------------------------------------------
MethodStep == Listed \/ Imported \/ Kill \/ Terminated \/ ExecDone \/ WaitNext

Next ==
    \/ Start \/ StartAgain \/ Stop \/ StopAgain \/ Exec \/ Wait \/ Drop \/ Cancel
    \/ MethodStep
    \/ \E m \in Mount : ServeEnds(m) \/ AbortLands(m) \/ AgentExits(m)
    \/ OtherImports \/ OtherTerminates \/ WslStuck
    \/ Over

Spec == Init /\ [][Next]_vars

\* tokio polls a ready task; the operating system carries out a kill; the task
\* reads the end of a pipe whose other end is gone; wsl.exe ends unless stuck.
Fairness ==
    /\ WF_vars(MethodStep)
    /\ \A m \in Mount :
          /\ WF_vars(m \in killed /\ AgentExits(m))
          /\ WF_vars(AbortLands(m)) /\ WF_vars(agent[m] = "exited" /\ ServeEnds(m))

FairSpec == Spec /\ Fairness
-------------------------------------------------------------------------------
\* Properties.

MethodTypes ==
    /\ state \in {"Created", "Starting", "Running", "Stopping", "Stopped"}
    /\ pc \in {"idle", "list", "import", "kill", "terminate", "exec", "wait"}
    /\ result \in {"None", "Ok", "Error", "AlreadyStarted", "Cancelled"}
    /\ resolved \in BOOLEAN /\ dropped \in BOOLEAN
    /\ children \subseteq Mount /\ local \subseteq Mount /\ tasks \subseteq Mount

WorldTypes ==
    /\ task \in [Mount -> {"none", "serving", "aborted"}]
    /\ agent \in [Mount -> {"none", "running", "exited"}]
    /\ killed \subseteq Mount /\ lost \subseteq Mount
    /\ distro \in {"absent", "off", "up"} /\ stuck \in BOOLEAN

Holding ==
    /\ pc \in {"kill", "wait"} <=> local # {}
    /\ pc \in {"list", "import"} => state = "Starting" /\ ~resolved
    /\ pc \in {"kill", "terminate"} => state = "Stopping" /\ children = {}
    /\ \A m \in Mount : agent[m] # "none" => resolved

\* Every variable has its type; each child is in one pair of hands, what a
\* method waits for is there, and an agent runs in a resolved distribution only
\* (lib.rs:203-256, 262-287, 328-337).
TypeOK == MethodTypes /\ WorldTypes /\ Holding

\* Stopped, by stop or by wait, after a start that failed half way too, means
\* that every agent has exited or been sent a kill, but the ones a dropped
\* future let go
\* (lib.rs:262-287, 328-337).
StoppedMeansExited == state = "Stopped" => RunningAgents \subseteq lost \union killed

\* When stop gets to its end, an interrupted stop that is called again included,
\* it has let go of nothing it is responsible for (lib.rs:262-287).
StopReleases ==
    pc \in {"kill", "terminate"} /\ state' = "Stopped" =>
       /\ children' = {} /\ tasks' = {} /\ Serving' = {}
       /\ RunningAgents' \subseteq lost \union killed

StopReleasesAlways == [][StopReleases]_vars

\* stop gets past the agents whatever they do, and to its end unless wsl.exe
\* hangs; after stop or wait every task ends whose agent was not let go
\* (lib.rs:265-287).
StopEnds ==
    /\ pc = "kill" ~> pc # "kill"
    /\ pc = "terminate" ~> pc # "terminate" \/ stuck
    /\ state = "Stopped" ~> Serving \subseteq lost

\* "Block until every per-mount agent has exited" (lib.rs:330-331), or, after a
\* stop that was interrupted, is at least being killed.
WaitBlocks ==
    [][(Wait \/ WaitNext) /\ pc' = "idle" => RunningAgents' \subseteq killed]_vars

method ==
    CASE pc \in {"list", "import"}    -> "start"
      [] pc \in {"kill", "terminate"} -> "stop"
      [] pc \in {"wait", "exec"}      -> pc
      [] OTHER                        -> "none"

Lifecycle == INSTANCE SandboxLifecycle WITH launched <- resolved

\* Callers see the life cycle of the trait; Running only of a distribution that
\* was resolved (core lib.rs:580-616).
LifecycleSpec == Lifecycle!Spec
===============================================================================
