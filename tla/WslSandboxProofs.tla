--------------------------- MODULE WslSandboxProofs --------------------------
(* WslSandbox, for any number of mounts, with dropped futures and a wsl.exe   *)
(* that hangs: types, what Stopped and a finished stop mean for the agents    *)
(* and the tasks, and the life cycle callers see.                             *)
EXTENDS WslSandbox, TLAPS

\* Where the methods are: what is Created or was never resolved has nothing, what
\* is Stopped has let go of its children, and only a living sandbox has a method.
MethodSide ==
    /\ state = "Created" => pc = "idle" /\ ~resolved
    /\ state = "Stopped" => pc \in {"idle", "exec"} /\ children = {}
    /\ pc = "wait" => children = {}
    /\ ~resolved => children = {} /\ local = {} /\ tasks = {}
    /\ pc # "idle" => ~dropped

\* Who looks after what runs: every running agent is somebody's, or was killed or
\* let go, and every task that serves is in vfs_tasks until stop aborts it.
WorldSide ==
    /\ RunningAgents \subseteq children \union local \union lost \union killed
    /\ \A m \in Mount : task[m] # "none" => resolved
    /\ ~dropped => Serving \subseteq tasks
    /\ pc = "terminate" => tasks = {}

\* StoppedMeansExited is not inductive: it needs to know who has the agents.
IInv == TypeOK /\ MethodSide /\ WorldSide /\ StoppedMeansExited

LEMMA InitOK == Init => IInv
BY DEF Init, IInv, TypeOK, MethodTypes, WorldTypes, Holding, MethodSide, WorldSide,
       StoppedMeansExited, RunningAgents, Serving

\* What Spawn leaves behind: the agents, children and tasks of the first mounts.
LEMMA SpawnHas ==
    ASSUME IInv, ~resolved, Spawn
    PROVE  /\ resolved' = TRUE /\ UNCHANGED <<local, killed, lost, stuck>>
           /\ children' \subseteq Mount /\ tasks' = children'
           /\ agent' \in [Mount -> {"none", "running", "exited"}]
           /\ task' \in [Mount -> {"none", "serving", "aborted"}]
           /\ {m \in Mount : agent'[m] = "running"} \subseteq children'
           /\ {m \in Mount : task'[m] = "serving"} \subseteq tasks'
           /\ distro' \in {"absent", "off", "up"}
           /\ pc' = "idle" /\ result' \in {"Ok", "Error"}
           /\ state' \in {state, "Running"}
<1> USE SandboxAssumption DEF IInv, TypeOK, Mount
<1>1. PICK n \in 0..NMounts :
          /\ agent' = Up(agent, n, "running") /\ task' = Up(task, n, "serving")
          /\ children' = 1..n /\ tasks' = 1..n
  BY DEF Spawn
<1>2. /\ children' \subseteq Mount /\ tasks' = children'
      /\ agent' \in [Mount -> {"none", "running", "exited"}]
      /\ task' \in [Mount -> {"none", "serving", "aborted"}]
  BY <1>1 DEF Up, WorldTypes
<1>3. \A m \in Mount : agent[m] # "running" /\ task[m] # "serving"
  BY DEF Holding, WorldSide
<1>4. /\ {m \in Mount : agent'[m] = "running"} \subseteq children'
      /\ {m \in Mount : task'[m] = "serving"} \subseteq tasks'
  BY <1>1, <1>3 DEF Up
<1> QED BY <1>2, <1>4 DEF Spawn, Return, WorldTypes

LEMMA StartOK ==
    ASSUME IInv,
           StartAgain \/ Start \/ Listed \/ Imported
    PROVE  IInv'
<1> USE DEF IInv, TypeOK, RunningAgents, Serving, owned, world
<1>1. CASE StartAgain
  <2>1. MethodTypes'
    BY <1>1 DEF StartAgain, Callable, Return, MethodTypes, WorldTypes, Holding
  <2>2. WorldTypes'
    BY <1>1 DEF StartAgain, Callable, Return, MethodTypes, WorldTypes
  <2>3. Holding'
    BY <1>1 DEF StartAgain, Callable, Return, MethodTypes, WorldTypes, Holding, MethodSide
  <2>4. MethodSide'
    BY <1>1 DEF StartAgain, Callable, Return, MethodTypes, Holding, MethodSide
  <2>5. WorldSide'
    BY <1>1 DEF StartAgain, Callable, Return, MethodTypes, WorldTypes, Holding, MethodSide,
       WorldSide
  <2>6. StoppedMeansExited'
    BY <1>1 DEF StartAgain, Callable, Return, MethodTypes, WorldTypes, Holding,
           MethodSide, WorldSide, StoppedMeansExited
  <2> QED BY <2>1, <2>2, <2>3, <2>4, <2>5, <2>6
<1>2. CASE Start
  <2>1. MethodTypes'
    BY <1>2 DEF Start, Callable, Return, Await, MethodTypes, WorldTypes, Holding
  <2>2. WorldTypes'
    BY <1>2 DEF Start, Callable, Return, Await, MethodTypes, WorldTypes
  <2>3. Holding'
    BY <1>2 DEF Start, Callable, Return, Await, MethodTypes, WorldTypes, Holding, MethodSide
  <2>4. MethodSide'
    BY <1>2 DEF Start, Callable, Return, Await, MethodTypes, Holding, MethodSide
  <2>5. WorldSide'
    BY <1>2 DEF Start, Callable, Return, Await, MethodTypes, WorldTypes, Holding, MethodSide,
       WorldSide
  <2>6. StoppedMeansExited'
    BY <1>2 DEF Start, Callable, Return, Await, MethodTypes, WorldTypes, Holding,
           MethodSide, WorldSide, StoppedMeansExited
  <2> QED BY <2>1, <2>2, <2>3, <2>4, <2>5, <2>6
<1>3. CASE Listed
  <2>1. CASE Spawn
    <3>1. ~resolved /\ state = "Starting" /\ ~dropped /\ dropped' = dropped /\ local = {}
      BY <1>3 DEF Listed, Holding, MethodSide
    <3> QED BY <2>1, <3>1, SpawnHas DEF MethodTypes, WorldTypes, Holding, MethodSide,
           WorldSide, StoppedMeansExited
  <2>2. CASE ~Spawn
    BY <1>3, <2>2 DEF Listed, Return, Await, MethodTypes, WorldTypes, Holding, MethodSide,
           WorldSide, StoppedMeansExited
  <2> QED BY <2>1, <2>2
<1>4. CASE Imported
  <2>1. CASE Spawn
    <3>1. ~resolved /\ state = "Starting" /\ ~dropped /\ dropped' = dropped /\ local = {}
      BY <1>4 DEF Imported, Holding, MethodSide
    <3> QED BY <2>1, <3>1, SpawnHas DEF MethodTypes, WorldTypes, Holding, MethodSide,
           WorldSide, StoppedMeansExited
  <2>2. CASE ~Spawn
    BY <1>4, <2>2 DEF Imported, Return, Await, MethodTypes, WorldTypes, Holding, MethodSide,
           WorldSide, StoppedMeansExited
  <2> QED BY <2>1, <2>2
<1> QED BY <1>1, <1>2, <1>3, <1>4

LEMMA StopOK ==
    ASSUME IInv,
           StopAgain \/ Stop \/ Kill \/ Terminated
    PROVE  IInv'
<1> USE DEF IInv, TypeOK, RunningAgents, Serving, owned, world
<1>1. CASE StopAgain
  <2>1. MethodTypes'
    BY <1>1 DEF StopAgain, Callable, Return, MethodTypes, WorldTypes, Holding
  <2>2. WorldTypes'
    BY <1>1 DEF StopAgain, Callable, Return, MethodTypes, WorldTypes
  <2>3. Holding'
    BY <1>1 DEF StopAgain, Callable, Return, MethodTypes, WorldTypes, Holding, MethodSide
  <2>4. MethodSide'
    BY <1>1 DEF StopAgain, Callable, Return, MethodTypes, Holding, MethodSide
  <2>5. WorldSide'
    BY <1>1 DEF StopAgain, Callable, Return, MethodTypes, WorldTypes, Holding, MethodSide,
       WorldSide
  <2>6. StoppedMeansExited'
    BY <1>1 DEF StopAgain, Callable, Return, MethodTypes, WorldTypes, Holding,
           MethodSide, WorldSide, StoppedMeansExited
  <2> QED BY <2>1, <2>2, <2>3, <2>4, <2>5, <2>6
<1>2. CASE Stop
  <2>1. MethodTypes'
    BY <1>2 DEF Stop, Callable, Return, Await, EndTasks, First, MethodTypes, WorldTypes, Holding
  <2>2. WorldTypes'
    BY <1>2 DEF Stop, Callable, Return, Await, EndTasks, First, MethodTypes, WorldTypes
  <2>3. Holding'
    BY <1>2 DEF Stop, Callable, Return, Await, EndTasks, First, MethodTypes, WorldTypes,
       Holding, MethodSide
  <2>4. MethodSide'
    BY <1>2 DEF Stop, Callable, Return, Await, EndTasks, First, MethodTypes, Holding, MethodSide
  <2>5. WorldSide'
    BY <1>2 DEF Stop, Callable, Return, Await, EndTasks, First, MethodTypes, WorldTypes,
       Holding, MethodSide, WorldSide
  <2>6. StoppedMeansExited'
    BY <1>2 DEF Stop, Callable, Return, Await, EndTasks, First, MethodTypes, WorldTypes, Holding,
           MethodSide, WorldSide, StoppedMeansExited
  <2> QED BY <2>1, <2>2, <2>3, <2>4, <2>5, <2>6
<1>3. CASE Kill
  <2>1. MethodTypes'
    BY <1>3 DEF Kill, Return, Await, EndTasks, First, MethodTypes, WorldTypes, Holding
  <2>2. WorldTypes'
    BY <1>3 DEF Kill, Return, Await, EndTasks, First, MethodTypes, WorldTypes
  <2>3. Holding'
    BY <1>3 DEF Kill, Return, Await, EndTasks, First, MethodTypes, WorldTypes, Holding, MethodSide
  <2>4. MethodSide'
    BY <1>3 DEF Kill, Return, Await, EndTasks, First, MethodTypes, Holding, MethodSide
  <2>5. WorldSide'
    BY <1>3 DEF Kill, Return, Await, EndTasks, First, MethodTypes, WorldTypes, Holding,
       MethodSide, WorldSide
  <2>6. StoppedMeansExited'
    BY <1>3 DEF Kill, Return, Await, EndTasks, First, MethodTypes, WorldTypes, Holding,
           MethodSide, WorldSide, StoppedMeansExited
  <2> QED BY <2>1, <2>2, <2>3, <2>4, <2>5, <2>6
<1>4. CASE Terminated
  <2>1. MethodTypes'
    BY <1>4 DEF Terminated, Return, Terminate, MethodTypes, WorldTypes, Holding
  <2>2. WorldTypes'
    BY <1>4 DEF Terminated, Return, Terminate, MethodTypes, WorldTypes
  <2>3. Holding'
    BY <1>4 DEF Terminated, Return, Terminate, MethodTypes, WorldTypes, Holding, MethodSide
  <2>4. MethodSide'
    BY <1>4 DEF Terminated, Return, Terminate, MethodTypes, Holding, MethodSide
  <2>5. WorldSide'
    BY <1>4 DEF Terminated, Return, Terminate, MethodTypes, WorldTypes, Holding, MethodSide,
       WorldSide
  <2>6. StoppedMeansExited'
    BY <1>4 DEF Terminated, Return, Terminate, MethodTypes, WorldTypes, Holding,
           MethodSide, WorldSide, StoppedMeansExited
  <2> QED BY <2>1, <2>2, <2>3, <2>4, <2>5, <2>6
<1> QED BY <1>1, <1>2, <1>3, <1>4

LEMMA CallerOK ==
    ASSUME IInv,
           Exec \/ ExecDone \/ Wait \/ WaitNext \/ Cancel \/ Drop
    PROVE  IInv'
<1> USE DEF IInv, TypeOK, RunningAgents, Serving, owned, world
<1>1. CASE Exec
  <2>1. MethodTypes'
    BY <1>1 DEF Exec, Callable, Return, Await, MethodTypes, WorldTypes, Holding
  <2>2. WorldTypes'
    BY <1>1 DEF Exec, Callable, Return, Await, MethodTypes, WorldTypes
  <2>3. Holding'
    BY <1>1 DEF Exec, Callable, Return, Await, MethodTypes, WorldTypes, Holding, MethodSide
  <2>4. MethodSide'
    BY <1>1 DEF Exec, Callable, Return, Await, MethodTypes, Holding, MethodSide
  <2>5. WorldSide'
    BY <1>1 DEF Exec, Callable, Return, Await, MethodTypes, WorldTypes, Holding, MethodSide,
       WorldSide
  <2>6. StoppedMeansExited'
    BY <1>1 DEF Exec, Callable, Return, Await, MethodTypes, WorldTypes, Holding,
           MethodSide, WorldSide, StoppedMeansExited
  <2> QED BY <2>1, <2>2, <2>3, <2>4, <2>5, <2>6
<1>2. CASE ExecDone
  <2>1. MethodTypes'
    BY <1>2 DEF ExecDone, Return, MethodTypes, WorldTypes, Holding
  <2>2. WorldTypes'
    BY <1>2 DEF ExecDone, Return, MethodTypes, WorldTypes
  <2>3. Holding'
    BY <1>2 DEF ExecDone, Return, MethodTypes, WorldTypes, Holding, MethodSide
  <2>4. MethodSide'
    BY <1>2 DEF ExecDone, Return, MethodTypes, Holding, MethodSide
  <2>5. WorldSide'
    BY <1>2 DEF ExecDone, Return, MethodTypes, WorldTypes, Holding, MethodSide, WorldSide
  <2>6. StoppedMeansExited'
    BY <1>2 DEF ExecDone, Return, MethodTypes, WorldTypes, Holding,
           MethodSide, WorldSide, StoppedMeansExited
  <2> QED BY <2>1, <2>2, <2>3, <2>4, <2>5, <2>6
<1>3. CASE Wait
  <2>1. MethodTypes'
    BY <1>3 DEF Wait, Callable, Return, Await, MethodTypes, WorldTypes, Holding
  <2>2. WorldTypes'
    BY <1>3 DEF Wait, Callable, Return, Await, MethodTypes, WorldTypes
  <2>3. Holding'
    BY <1>3 DEF Wait, Callable, Return, Await, MethodTypes, WorldTypes, Holding, MethodSide
  <2>4. MethodSide'
    BY <1>3 DEF Wait, Callable, Return, Await, MethodTypes, Holding, MethodSide
  <2>5. WorldSide'
    BY <1>3 DEF Wait, Callable, Return, Await, MethodTypes, WorldTypes, Holding, MethodSide,
       WorldSide
  <2>6. StoppedMeansExited'
    BY <1>3 DEF Wait, Callable, Return, Await, MethodTypes, WorldTypes, Holding,
           MethodSide, WorldSide, StoppedMeansExited
  <2> QED BY <2>1, <2>2, <2>3, <2>4, <2>5, <2>6
<1>4. CASE WaitNext
  <2>1. MethodTypes'
    BY <1>4 DEF WaitNext, Return, First, MethodTypes, WorldTypes, Holding
  <2>2. WorldTypes'
    BY <1>4 DEF WaitNext, Return, First, MethodTypes, WorldTypes
  <2>3. Holding'
    BY <1>4 DEF WaitNext, Return, First, MethodTypes, WorldTypes, Holding, MethodSide
  <2>4. MethodSide'
    BY <1>4 DEF WaitNext, Return, First, MethodTypes, Holding, MethodSide
  <2>5. WorldSide'
    BY <1>4 DEF WaitNext, Return, First, MethodTypes, WorldTypes, Holding, MethodSide, WorldSide
  <2>6. StoppedMeansExited'
    BY <1>4 DEF WaitNext, Return, First, MethodTypes, WorldTypes, Holding,
           MethodSide, WorldSide, StoppedMeansExited
  <2> QED BY <2>1, <2>2, <2>3, <2>4, <2>5, <2>6
<1>5. CASE Cancel
  <2>1. MethodTypes'
    BY <1>5 DEF Cancel, Return, MethodTypes, WorldTypes, Holding
  <2>2. WorldTypes'
    BY <1>5 DEF Cancel, Return, MethodTypes, WorldTypes
  <2>3. Holding'
    BY <1>5 DEF Cancel, Return, MethodTypes, WorldTypes, Holding, MethodSide
  <2>4. MethodSide'
    BY <1>5 DEF Cancel, Return, MethodTypes, Holding, MethodSide
  <2>5. WorldSide'
    BY <1>5 DEF Cancel, Return, MethodTypes, WorldTypes, Holding, MethodSide, WorldSide
  <2>6. StoppedMeansExited'
    BY <1>5 DEF Cancel, Return, MethodTypes, WorldTypes, Holding,
           MethodSide, WorldSide, StoppedMeansExited
  <2> QED BY <2>1, <2>2, <2>3, <2>4, <2>5, <2>6
<1>6. CASE Drop
  <2>1. MethodTypes'
    BY <1>6 DEF Drop, Callable, MethodTypes, WorldTypes, Holding
  <2>2. WorldTypes'
    BY <1>6 DEF Drop, Callable, MethodTypes, WorldTypes
  <2>3. Holding'
    BY <1>6 DEF Drop, Callable, MethodTypes, WorldTypes, Holding, MethodSide
  <2>4. MethodSide'
    BY <1>6 DEF Drop, Callable, MethodTypes, Holding, MethodSide
  <2>5. WorldSide'
    BY <1>6 DEF Drop, Callable, MethodTypes, WorldTypes, Holding, MethodSide, WorldSide
  <2>6. StoppedMeansExited'
    BY <1>6 DEF Drop, Callable, MethodTypes, WorldTypes, Holding,
           MethodSide, WorldSide, StoppedMeansExited
  <2> QED BY <2>1, <2>2, <2>3, <2>4, <2>5, <2>6
<1> QED BY <1>1, <1>2, <1>3, <1>4, <1>5, <1>6

LEMMA OthersOK ==
    ASSUME IInv,
           \/ \E m \in Mount : ServeEnds(m) \/ AbortLands(m) \/ AgentExits(m)
           \/ OtherImports \/ OtherTerminates \/ WslStuck \/ UNCHANGED vars
    PROVE  IInv'
<1> USE DEF IInv, TypeOK, RunningAgents, Serving, owned, world
<1>1. CASE \E m \in Mount : ServeEnds(m)
  <2>1. MethodTypes'
    BY <1>1 DEF ServeEnds, MethodTypes, WorldTypes, Holding
  <2>2. WorldTypes'
    BY <1>1 DEF ServeEnds, MethodTypes, WorldTypes
  <2>3. Holding'
    BY <1>1 DEF ServeEnds, MethodTypes, WorldTypes, Holding, MethodSide
  <2>4. MethodSide'
    BY <1>1 DEF ServeEnds, MethodTypes, Holding, MethodSide
  <2>5. WorldSide'
    BY <1>1 DEF ServeEnds, MethodTypes, WorldTypes, Holding, MethodSide, WorldSide
  <2>6. StoppedMeansExited'
    BY <1>1 DEF ServeEnds, MethodTypes, WorldTypes, Holding,
           MethodSide, WorldSide, StoppedMeansExited
  <2> QED BY <2>1, <2>2, <2>3, <2>4, <2>5, <2>6
<1>2. CASE \E m \in Mount : AbortLands(m)
  <2>1. MethodTypes'
    BY <1>2 DEF AbortLands, MethodTypes, WorldTypes, Holding
  <2>2. WorldTypes'
    BY <1>2 DEF AbortLands, MethodTypes, WorldTypes
  <2>3. Holding'
    BY <1>2 DEF AbortLands, MethodTypes, WorldTypes, Holding, MethodSide
  <2>4. MethodSide'
    BY <1>2 DEF AbortLands, MethodTypes, Holding, MethodSide
  <2>5. WorldSide'
    BY <1>2 DEF AbortLands, MethodTypes, WorldTypes, Holding, MethodSide, WorldSide
  <2>6. StoppedMeansExited'
    BY <1>2 DEF AbortLands, MethodTypes, WorldTypes, Holding,
           MethodSide, WorldSide, StoppedMeansExited
  <2> QED BY <2>1, <2>2, <2>3, <2>4, <2>5, <2>6
<1>3. CASE \E m \in Mount : AgentExits(m)
  <2>1. MethodTypes'
    BY <1>3 DEF AgentExits, MethodTypes, WorldTypes, Holding
  <2>2. WorldTypes'
    BY <1>3 DEF AgentExits, MethodTypes, WorldTypes
  <2>3. Holding'
    BY <1>3 DEF AgentExits, MethodTypes, WorldTypes, Holding, MethodSide
  <2>4. MethodSide'
    BY <1>3 DEF AgentExits, MethodTypes, Holding, MethodSide
  <2>5. WorldSide'
    BY <1>3 DEF AgentExits, MethodTypes, WorldTypes, Holding, MethodSide, WorldSide
  <2>6. StoppedMeansExited'
    BY <1>3 DEF AgentExits, MethodTypes, WorldTypes, Holding,
           MethodSide, WorldSide, StoppedMeansExited
  <2> QED BY <2>1, <2>2, <2>3, <2>4, <2>5, <2>6
<1>4. CASE OtherImports
  <2>1. MethodTypes'
    BY <1>4 DEF OtherImports, MethodTypes, WorldTypes, Holding
  <2>2. WorldTypes'
    BY <1>4 DEF OtherImports, MethodTypes, WorldTypes
  <2>3. Holding'
    BY <1>4 DEF OtherImports, MethodTypes, WorldTypes, Holding, MethodSide
  <2>4. MethodSide'
    BY <1>4 DEF OtherImports, MethodTypes, Holding, MethodSide
  <2>5. WorldSide'
    BY <1>4 DEF OtherImports, MethodTypes, WorldTypes, Holding, MethodSide, WorldSide
  <2>6. StoppedMeansExited'
    BY <1>4 DEF OtherImports, MethodTypes, WorldTypes, Holding,
           MethodSide, WorldSide, StoppedMeansExited
  <2> QED BY <2>1, <2>2, <2>3, <2>4, <2>5, <2>6
<1>5. CASE OtherTerminates
  <2>1. MethodTypes'
    BY <1>5 DEF OtherTerminates, Terminate, MethodTypes, WorldTypes, Holding
  <2>2. WorldTypes'
    BY <1>5 DEF OtherTerminates, Terminate, MethodTypes, WorldTypes
  <2>3. Holding'
    BY <1>5 DEF OtherTerminates, Terminate, MethodTypes, WorldTypes, Holding, MethodSide
  <2>4. MethodSide'
    BY <1>5 DEF OtherTerminates, Terminate, MethodTypes, Holding, MethodSide
  <2>5. WorldSide'
    BY <1>5 DEF OtherTerminates, Terminate, MethodTypes, WorldTypes, Holding, MethodSide,
       WorldSide
  <2>6. StoppedMeansExited'
    BY <1>5 DEF OtherTerminates, Terminate, MethodTypes, WorldTypes, Holding,
           MethodSide, WorldSide, StoppedMeansExited
  <2> QED BY <2>1, <2>2, <2>3, <2>4, <2>5, <2>6
<1>6. CASE WslStuck
  <2>1. MethodTypes'
    BY <1>6 DEF WslStuck, MethodTypes, WorldTypes, Holding
  <2>2. WorldTypes'
    BY <1>6 DEF WslStuck, MethodTypes, WorldTypes
  <2>3. Holding'
    BY <1>6 DEF WslStuck, MethodTypes, WorldTypes, Holding, MethodSide
  <2>4. MethodSide'
    BY <1>6 DEF WslStuck, MethodTypes, Holding, MethodSide
  <2>5. WorldSide'
    BY <1>6 DEF WslStuck, MethodTypes, WorldTypes, Holding, MethodSide, WorldSide
  <2>6. StoppedMeansExited'
    BY <1>6 DEF WslStuck, MethodTypes, WorldTypes, Holding,
           MethodSide, WorldSide, StoppedMeansExited
  <2> QED BY <2>1, <2>2, <2>3, <2>4, <2>5, <2>6
<1>7. CASE UNCHANGED vars
  <2>1. MethodTypes'
    BY <1>7 DEF vars, MethodTypes, WorldTypes, Holding
  <2>2. WorldTypes'
    BY <1>7 DEF vars, MethodTypes, WorldTypes
  <2>3. Holding'
    BY <1>7 DEF vars, MethodTypes, WorldTypes, Holding, MethodSide
  <2>4. MethodSide'
    BY <1>7 DEF vars, MethodTypes, Holding, MethodSide
  <2>5. WorldSide'
    BY <1>7 DEF vars, MethodTypes, WorldTypes, Holding, MethodSide, WorldSide
  <2>6. StoppedMeansExited'
    BY <1>7 DEF vars, MethodTypes, WorldTypes, Holding,
           MethodSide, WorldSide, StoppedMeansExited
  <2> QED BY <2>1, <2>2, <2>3, <2>4, <2>5, <2>6
<1> QED BY <1>1, <1>2, <1>3, <1>4, <1>5, <1>6, <1>7

LEMMA StepOK == IInv /\ [Next]_vars => IInv'
BY StartOK, StopOK, CallerOK, OthersOK DEF Next, MethodStep, Over

\* Every variable has its type and every child is in one pair of hands.
THEOREM TypeCorrect == Spec => []TypeOK
<1>1. IInv => TypeOK
  BY DEF IInv
<1> QED BY <1>1, InitOK, StepOK, PTL DEF Spec

\* Stopped means that every agent has exited, is being killed or was let go by a
\* dropped future (lib.rs:262-287, 328-337).
THEOREM StoppedMeansExitedCorrect == Spec => []StoppedMeansExited
<1>1. IInv => StoppedMeansExited
  BY DEF IInv
<1> QED BY <1>1, InitOK, StepOK, PTL DEF Spec

LEMMA StopReleasesOK == IInv /\ [Next]_vars => StopReleases
<1> SUFFICES ASSUME IInv, [Next]_vars, pc \in {"kill", "terminate"}, state' = "Stopped"
             PROVE  /\ children' = {} /\ tasks' = {} /\ Serving' = {}
                    /\ RunningAgents' \subseteq lost \union killed
  BY DEF StopReleases
<1> USE DEF IInv, TypeOK, Holding, MethodSide, WorldSide, RunningAgents, Serving
<1>1. Kill \/ Terminated
  BY DEF Next, MethodStep, Over, vars, owned, world, Callable, Start, StartAgain, Stop, StopAgain,
         Exec, ExecDone, Wait, WaitNext, Drop, Cancel, Listed, Imported, ServeEnds, AbortLands,
         AgentExits, OtherImports, OtherTerminates, WslStuck
<1>2. CASE Kill
  BY <1>2 DEF Kill, EndTasks, Return, Await, First
<1>3. CASE Terminated
  BY <1>3 DEF Terminated, Terminate, owned
<1> QED BY <1>1, <1>2, <1>3

\* However stop gets to its end, children, tasks and agents are dealt with
\* (lib.rs:262-287).
THEOREM StopReleasesCorrect == Spec => StopReleasesAlways
<1>1. Spec => [][StopReleases]_vars
  BY InitOK, StepOK, StopReleasesOK, PTL DEF Spec
<1> QED BY <1>1 DEF StopReleasesAlways

\* A step of the sandbox is a step of the life cycle callers see, or none.
LEMMA LifecycleStep ==
    ASSUME IInv, [Next]_vars
    PROVE  [Lifecycle!Next]_(Lifecycle!vars)
<1>0. \/ StartAgain \/ Start \/ Listed \/ Imported \/ StopAgain \/ Stop \/ Kill \/ Terminated
      \/ Exec \/ ExecDone \/ Wait \/ WaitNext \/ Cancel \/ Drop
      \/ \E m \in Mount : ServeEnds(m) \/ AbortLands(m) \/ AgentExits(m)
      \/ OtherImports \/ OtherTerminates \/ WslStuck \/ UNCHANGED vars
  BY DEF Next, MethodStep, Over
<1> USE DEF IInv, TypeOK, MethodTypes, Holding, MethodSide, Lifecycle!vars, method, Callable,
            Return,
            Await, owned, world, Lifecycle!Call, Lifecycle!Finish
<1>1. CASE StartAgain
  BY <1>1 DEF StartAgain, Lifecycle!Next, Lifecycle!StartRefused
<1>2. CASE Start
  BY <1>2 DEF Start, Lifecycle!Next, Lifecycle!StartBegins, Lifecycle!StartFails
<1>3. CASE Listed
  BY <1>3 DEF Listed, Spawn, Lifecycle!Next, Lifecycle!StartFails, Lifecycle!StartSucceeds
<1>4. CASE Imported
  BY <1>4 DEF Imported, Spawn, Lifecycle!Next, Lifecycle!StartFails, Lifecycle!StartSucceeds
<1>5. CASE StopAgain
  BY <1>5 DEF StopAgain, Lifecycle!Next, Lifecycle!StopNeedless
<1>6. CASE Stop
  BY <1>6 DEF Stop, EndTasks, Lifecycle!Next, Lifecycle!StopBegins, Lifecycle!StopSucceeds,
     Lifecycle!Final
<1>7. CASE Kill
  BY <1>7 DEF Kill, EndTasks, Lifecycle!Next, Lifecycle!StopSucceeds
<1>8. CASE Terminated
  BY <1>8 DEF Terminated, Lifecycle!Next, Lifecycle!StopSucceeds
<1>9. CASE Exec
  BY <1>9 DEF Exec, Lifecycle!Next, Lifecycle!ExecBegins, Lifecycle!ExecEnds
<1>10. CASE ExecDone
  BY <1>10 DEF ExecDone, Lifecycle!Next, Lifecycle!ExecEnds
<1>11. CASE Wait
  BY <1>11 DEF Wait, Lifecycle!Next, Lifecycle!WaitBegins, Lifecycle!WaitEnds
<1>12. CASE WaitNext
  BY <1>12 DEF WaitNext, Lifecycle!Next, Lifecycle!WaitEnds
<1>13. CASE Cancel
  BY <1>13 DEF Cancel, Lifecycle!Next, Lifecycle!Cancelled
<1>14. CASE Drop
  BY <1>14 DEF Drop
<1>15. CASE \/ \E m \in Mount : ServeEnds(m) \/ AbortLands(m) \/ AgentExits(m)
            \/ OtherImports \/ OtherTerminates \/ WslStuck \/ UNCHANGED vars
  <2>1. UNCHANGED <<state, pc, result, resolved>>
    BY <1>15 DEF ServeEnds, AbortLands, AgentExits, OtherImports, OtherTerminates, WslStuck, vars
  <2> QED BY <2>1
<1> QED BY <1>0, <1>1, <1>2, <1>3, <1>4, <1>5, <1>6, <1>7, <1>8, <1>9, <1>10, <1>11, <1>12,
           <1>13, <1>14, <1>15

\* Callers see the life cycle of the trait (core lib.rs:580-616).
THEOREM LifecycleCorrect == Spec => LifecycleSpec
<1>1. Init => Lifecycle!Init
  BY DEF Init, Lifecycle!Init, method
<1>2. IInv /\ [Next]_vars => [Lifecycle!Next]_(Lifecycle!vars)
  BY LifecycleStep
<1> QED BY <1>1, <1>2, InitOK, StepOK, PTL DEF Spec, LifecycleSpec, Lifecycle!Spec
===============================================================================
