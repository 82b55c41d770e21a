# Formal models of tokimo-kvm

TLA+ specifications of the parts of tokimo-kvm in which order, failure and ownership matter, TLC
configurations that model-check them, and theorems about them that TLAPS checks. Paths below are
relative to the repository's root; `file:line` refers to the code the models are translated from.

tokimo-kvm runs a Linux guest on a host (QEMU on Linux, Virtualization.framework on macOS, WSL on
Windows) and shows it host directories or user-written file systems. There is no 9p or virtiofs: the
guest's `tokimo-agent` is a FUSE file system whose every operation is a call over one byte stream
per mount to a `TokimoVfs` on the host.

    program in the guest
      | system calls
    kernel FUSE client            inode numbers, handles, a directory being read
      | one request at a time
    tokimo-agent (TokimoFuse)     ino <-> path, fh -> path          AgentFuse
      | Client::call
    rpc::Client  --- stream ---  rpc::serve_stream                  RpcChannel
    (FIFO mutex)  virtio-serial   (a task per stream)
      |                             |
      |                          TokimoVfs: HostFs, or the user's   HostFs, VfsService
      |
    a backend: start, stop, wait, exec, Drop                        SandboxLifecycle
      Linux:   QEMU, QMP, accept loops                              QemuSandbox
      macOS:   a thread that owns the machine, its commands         MacosSandbox
      Windows: wsl.exe, one agent process per mount                 WslSandbox

## 1. Inventory

### RPC channel (`packages/tokimo-packages-vm-rpc`)

*State.* On the guest's side a stream under a `tokio::sync::Mutex`; on the host's a loop that reads
a frame, drives the VFS, writes a frame. *Operations.* Ten file system calls and the greeting
`Hello`. *Interaction.* The agent calls it; a backend gives each accepted stream to `serve_stream`.
*Hard.* Frames carry no identifier, so that a reply belongs to a call only by its position in the
stream: every early return of every call must leave the stream where the next caller expects it. The
stream can break anywhere, a VFS can panic, a frame can exceed the 64 MiB that `read_frame` accepts,
the two binaries can have different versions. *Correct means.* Callers get their own answers; a call
takes effect at most once; a call fails for its own reasons only; calls end; nothing is served
before the versions were compared.

### HostFs (`packages/tokimo-packages-vm-core/src/lib.rs`)

*State.* None of its own but the root and the read-only flag; the directory is the state.
*Operations.* `stat`, `list`, `read`, `write`, `create`, `mkdir`, `remove`, `rmdir`, `rename`,
`truncate`. *Hard.* The jail check compares the parent of a path; `write` opens with create and
truncate and leaves the data to a background thread of tokio; host programs use the directory
meanwhile; error kinds are folded. *Correct means.* Nothing changes on a read-only mount; what the
guest may name it may reach; what was written stays written.

### Guest agent (`packages/tokimo-packages-vm-agent`)

*State.* `inodes` and `rev` (inode number to path and back), `fhs` (handle to path), two counters.
*Operations.* The FUSE requests, served one at a time. *Interaction.* The kernel above, the RPC
client below. *Hard.* Numbers outlive what they name: the host removes and replaces files, `rename`
leaves the tables alone, a directory is read in several requests that each list it anew, `setattr`
makes two calls. *Correct means.* The tables agree with each other and with what the kernel was
told; a number never changes its meaning; an error leaves no trace; a directory that stays the same
is read exactly.

### Linux backend (`packages/tokimo-packages-vm-linux`)

*State.* `SandboxState`, the QEMU child, the QMP client, one accept loop and socket per mount, and
tasks nobody holds (`serve_stream`). *Operations.* `start`, `stop`, `wait`, `Drop`. *Interaction.*
Spawns QEMU; QEMU connects to the sockets and does so again when a stream ends; QMP asks QEMU to
power down and quit. *Hard.* `start` can fail after any of its effects; QEMU dies or hangs at any
moment; three waits have a deadline and others do not; callers drop futures (`timeout`, `select!`);
`examples/repl.rs` exits the process. *Correct means.* Running is complete, Stopped is final for
QEMU, `stop` and `Drop` leave nothing behind, no process is lost.

### macOS backend (`packages/tokimo-packages-vm-macos`)

*State.* `SandboxState` and `Inner`: the sender of a command channel, a thread handle, the serving
tasks. The thread holds the machine, the callers of `wait`, and whether it has stopped the machine.
*Operations.* `start`, `stop`, `wait`, `Drop`; the commands Stop, Wait, Shutdown. *Interaction.*
Methods and thread talk over an mpsc channel, each command bringing its own answer channel; the
framework answers by completion handlers; one socket pair per mount, whose guest end goes to the
machine as a bare file descriptor. *Hard.* The thread can fail to build or start the machine at
several points, and die; a stop can be refused by the framework, or time out; a guest that powers
off is not noticed; dropped futures leave a thread at work. *Correct means.* Stopped is final for
the machine, `stop` and `Drop` leave neither thread nor machine nor descriptors, methods end.

### WSL backend (`packages/tokimo-packages-vm-wsl`)

*State.* `SandboxState`, the name of the distribution once it is resolved, the `wsl.exe` children
(one agent per mount) and their serving tasks. *Operations.* `start` (list, import, spawn), `stop`
(kill, abort, terminate), `exec`, `wait`. *Interaction.* Processes with pipes; a distribution other
programs may use, import and terminate. *Hard.* `start` fails half way; `stop` and `wait` take the
children out of the sandbox before they await them, and a `tokio::process::Child` that is dropped
here runs on; there is no `Drop`; `wait` makes the state Stopped, after which `stop` does nothing.
*Correct means.* Stopped leaves no agent but those a dropped future let go; `stop` ends; a stop
called again after an interrupted one finishes its work.

### The `Sandbox` trait (`packages/tokimo-packages-vm-core/src/lib.rs:580-616`)

*State.* `SandboxState`. *Correct means.* Whatever the backend: `start` works once, Running is only
of a guest that was launched, Stopped and Failed are final, a `stop` that has something to stop and
succeeds leaves Stopped (in Created or Stopping it may return Ok and do nothing).

## 2. Modules

| Module | Models | Uses |
|---|---|---|
| `VfsService` | what a `TokimoVfs` reached over RPC promises (abstract) | |
| `RpcChannel` | client, framing, greeting, `serve_stream`, the stream | instantiates `VfsService` |
| `MCRpcChannel` | a file system of one value for TLC | `RpcChannel` |
| `RpcChannelProofs`, `RpcLockstepProofs` | theorems about `RpcChannel` | `RpcChannel`, TLAPS |
| `HostFs` | the methods of `HostFs` as functions of a directory tree | |
| `HostFsProofs` | theorems about those functions | `HostFs`, TLAPS |
| `AgentFuse` | the agent, its kernel, the host using its directory | `HostFs` |
| `MCAgentFuse` | small directories for TLC | `AgentFuse` |
| `AgentFuseProofs` | theorems about the agent | `AgentFuse`, `HostFsProofs`, TLAPS |
| `SandboxLifecycle` | what callers of a `Sandbox` see whatever the backend (abstract) | |
| `SandboxLifecycleProofs` | what follows from it | `SandboxLifecycle`, TLAPS |
| `QemuSandbox` | the Linux backend's lifecycle | instantiates `SandboxLifecycle` |
| `MacosSandbox` | the macOS backend: methods, VM thread, machine | instantiates `SandboxLifecycle` |
| `WslSandbox` | the WSL backend: methods, agents, distribution | instantiates `SandboxLifecycle` |
| `QemuSandboxProofs`, `MacosSandboxProofs`, `WslSandboxProofs` | theorems about each | the backend, TLAPS |

Definitions whose comment begins with "Mutant:" are variants of the definition after them with a
plausible bug. No specification uses them; each shows that a property notices the bug when it takes
the definition's place.

### RpcChannel

`pc[c]` is where a caller is in `Client::call`: queued on the mutex, writing the length or the body
of its frame, reading those of the reply. A frame is two chunks because `write_frame` and
`read_frame` make two calls, between which the stream may break. `c2s` and `s2c` are the pipes, of
at most `Cap` chunks; `srv`, `cur`, `reply` are where `serve_stream` is; `link` falls when either
end goes. The greeting of `connect_port` is a call like the others, whose outcome decides `session`.
`EncodeError` is postcard refusing a path that is not UTF-8, `RecvOversize` the 64 MiB limit,
`VfsPanic` a panic in the VFS. `RecvMisaligned` is a body read as a length: the call fails, decodes
whatever the bytes after it happen to say, or takes what there is and waits for more ("astray"),
holding the mutex. A greeting comes first on its stream and never meets a body, so that what a
misread stream says is never taken for a version. The field `by` of a chunk and the variable
`answer` are history: they say whose call a chunk belongs to, no guard looks at them.

*Reconnects.* QEMU connects a broken socket again (`reconnect=1`, `qemu.rs:101`) after a second, and
the mount's accept loop starts another `serve_stream`; the agent's port stays open and does not
greet again. QEMU sees the socket break only when the server's end is closed, so a new stream comes
after the server of the old one is done. The constant `Reconnects` says when: "never"; "settled",
once the call that the break interrupted has failed, for which the guest has that second; "any",
also before. With "any" a caller may wait for ever for a reply the new server does not know of,
holding the mutex: `Lockstep` and `CallsReturn` are not claimed then. What the agent had been sent
and not read stays readable. `SrvMisaligned` is the server's counterpart of `RecvMisaligned`: it
meets half a request.

`VfsService` is the abstract specification: a call is invoked, takes effect in one step, and returns
the value computed there; a failed call may have taken effect, may do so later (its request is still
in a pipe), or never. `RpcChannel` implements it under the mapping at its end.

Left out: dropping the future of a call. Only the agent calls, with `block_on`.

### HostFs and AgentFuse

A directory tree is a function from paths to nodes. `HostFs` has an operator per method that gives
the answer and the tree it leaves; guards and errors come in the order of the code (`check_rw`,
`resolve`, then the host). `resolve` is modelled by what it does: `Denied` compares the parent of
the path. A file has blocks, 0 for a hole, and `flight`, the writes that `tokio::fs::File` reported
as written and has still to do; `Land` does one, or loses it to an error nobody sees. A write in
flight to a file that is removed is gone with it. Data blocks carry no content beyond what tells
them from holes.

`AgentFuse` has an action per FUSE request. `fuser` hands over one request at a time, so a request
is one step, except `setattr` (two calls) and `readdir` (a step per entry, as the reply buffer may
fill at any of them); `pend` keeps the others out meanwhile, the host excepted. A call is answered,
fails before its effect, or fails after it (`Rpc`); once the link is down every call fails without
effect, until QEMU has connected again (`Reconnect`). The late effect that `VfsService` also allows
(`LateServe`) is left out: a request still in a pipe is served, or lost, before the server of the
old stream is done, so before `Reconnect`, when no other call has an effect.
`known`, `opened` and `scan` are what the kernel keeps of the answers: it asks only about numbers it
was given. `HostEdit` is any other program on the host.

Left out: symbolic links, permission bits, times, names that are not UTF-8 (they fail in
`RpcChannel!EncodeError`), paths with ".." (the kernel resolves them and never sends one); a host
edit in the middle of one VFS method; that two equal writes in flight are two; the kernel's cache.

### QemuSandbox

The methods take `&mut self`: one runs at a time, suspended at an await (`pc`); the code between two
awaits is a step. `child`, `qmp`, `servers` and `local` say who holds what: the sandbox, a method's
local variable, nobody. That is what matters when a future is dropped (`Cancel`): what a local
variable held is dropped with it, where a `Child` is killed (`kill_on_drop`) and a `JoinHandle` lets
its task run on. `Start` fails at any of its early returns with the servers bound so far. A wait
with a deadline ends with or without what it waits for; a wait without one only with it. `program`
is `main` of `examples/repl.rs`: its thread that reads Ctrl-A x, and with it `Exit`
(`process::exit`), is there once `start` has returned Ok. `backlog` are the mounts on whose socket
QEMU waits to be accepted (`Dial`); an accept loop that is being aborted may accept such a
connection once more, when the socket's file, or QEMU, is gone already (`Accept`), and a loop that
ends takes its backlog with it.

### SandboxLifecycle

The variables are what a caller can see: `state`, the method whose future is alive, its outcome, and
whether a guest was ever launched. Each method may begin and end in two steps or in one; `Cancelled`
is a dropped future, `Launch` a machine that comes up after the start that asked for it has gone.
`StopFails` and `ExecBegins` are there because one backend needs them: a stop can fail on macOS,
exec works on WSL. Each backend defines `method` from its `pc` and instantiates the module as
`Lifecycle`.

### MacosSandbox

`pc` is the await, or the blocking join, of the running method; `inner` says who has `Inner`: the
sandbox, the running stop (or destructor), nobody. `chan` is the command channel. A command is
numbered by the call that sent it and `answer` is what the caller of the last one has heard, so that
an answer to a call that was dropped goes nowhere. A command to a thread that is over is lost; where
the code notices at once that it cannot send, the model notices a step later. The thread goes
`building`, `starting`, `recv` (its loop), `asked` (the two seconds after a power-off request),
`stopping` (the five seconds of the stop), `over`; `job`, `stopped`, `waiters` are its locals. `End`
is everything the thread drops when it ends. `raw` and `held` are the guest ends of the socket
pairs: bare numbers nobody would close, and handles of the machine.

Assumed of what is not in the repository: releasing the last reference to a machine ends it; a
machine that is off refuses to stop or not (both happen); a start may never be answered (`MayHang`).
`MayPanic` lets the thread die anywhere, because the methods allow for it (`imp.rs:160`,
`unwrap_or_else(|_| Ok(()))`). What the model then shows of the code as it is: when the guest powers
off by itself `stop` may return an error and leave the state Stopping; a `wait` ends with the thread
only; a `stop` after a start whose future was dropped says Stopped while the machine is still coming
up (the thread gives up once it is, having lost its sender).

### WslSandbox

`children`, `local` and `tasks` say who holds the agents and their tasks: the sandbox, the running
method, nobody (`lost` collects the agents let go unkilled). `Kill` and `WaitNext` go through the
children in order, one await each. `distro` is shared: `OtherImports` and `OtherTerminates` are
other sandboxes of that name and the user. `EndTasks` is what `stop` does once the children are out
of the way. A `wsl.exe` process and the agent inside it are one thing. Left out: the text of
`wsl --list`, the pipes of a child whose spawn half failed.

## 3. Runs

`tlc -config <cfg> <module>`; PROJECT.json lists the properties of each run.

| Run | Shows | Bounds |
|---|---|---|
| `RpcChannel.cfg` | lockstep of client and server, own answers, own failures, refinement of `VfsService`, with encode errors, lost links and panics; every call ends | 2 callers, 2 chunks a pipe, 2 versions, 4 requests, one not encodable, reconnects "settled" |
| `RpcSkew.cfg` | types, mutex and version gate hold even when an over-long reply puts the stream out of step, or a new stream overtakes a call | 2 callers, one over-long reply, reconnects "any" |
| `AgentTables.cfg` | the tables under every request, renames of subtrees included | paths of 2 names out of 2, inode numbers to 3, 1 handle, empty files |
| `AgentHost.cfg` | reading a directory, errors, and `setattr`, with the host editing and late writes | 2 names, one level, inode numbers to 3, 1 handle, files of 1 block |
| `AgentRoot.cfg` (violated) | the root of a writable mount is refused | 1 name |
| `AgentOverwrite.cfg` (violated) | a write loses the rest of the file | a file of 2 blocks |
| `QemuSandbox.cfg` | Running, Stopped, `stop`, `Drop`, ownership of accept loops, methods and deadlines | 3 mounts, QEMU may hang |
| `QemuCancel.cfg` | no QEMU process is lost when futures are dropped; the life cycle of the trait | 2 mounts, QEMU may hang, the program may exit |
| `QemuForceStop.cfg` (violated) | QEMU survives `process::exit` | 1 mount |
| `MacosSandbox.cfg` | Stopped, `stop`, `Drop`, the end of methods, the life cycle | 3 mounts, 3 numbered commands, everything may fail |
| `WslSandbox.cfg` | Stopped, `stop`, the end of `stop` and of tasks, the life cycle | 3 mounts, wsl.exe may hang |
| `WslWait.cfg` (violated) | a second `wait` returns while agents run | 2 mounts |

Why the bounds suffice. Two callers are all a misplaced reply needs: one whose call is disturbed and
one that disturbs it. Two chunks let a whole frame lie in a pipe. Inode tables need two paths of
different depth and one more for a rename to hit: three numbers. A directory of two entries, with a
buffer that may be full after any of them, is read in up to four requests; it needs one handle. One
block and two sizes tell a `setattr` that worked from one that did not, two blocks a write that
keeps the rest from one that does not. Three mounts let `start` fail between two of them, and `stop`
be half way through its list. Three numbered commands on macOS are two waits, one of them dropped,
and a stop. What the theorems below state holds for every value of these.

Deadlock is checked in every run. `RpcChannel!Terminated` and the sandboxes' `Over` are the ends the
system may come to; they name the state in which everything is at rest, so that a stuck caller or a
task left behind is still reported.

### The violated properties

Each states a sentence of the repository, which the code does not keep:

- `OwnPathsAdmitted`: `packages/tokimo-packages-vm-core/src/lib.rs:99-100`, the resolved path has to
  lie under the root; the code compares the parent of the path, which for the root of the mount lies
  outside it, so that looking at a mounted directory itself is denied. `RootOnlyDeniedCorrect` shows
  that it goes no further: on a writable mount nothing but a request about the root is ever denied.
- `WriteKeepsRestAlways`: `docs/DEBUG.md:13`, the directory is mounted read-write; every write
  truncates the file first.
- `ForceStopStops`: `docs/DEBUG.md:18-19`, Ctrl-A x force-stops the sandbox; in the trace `start`
  returns Ok, the program exits from Running, and QEMU runs on.
- `WaitBlocks`: `packages/tokimo-packages-vm-wsl/src/lib.rs:330-331`, wait blocks until every agent
  has exited; a wait whose future was dropped has taken the agents along, and the next returns at
  once.

The models show more of this kind, which no text of the repository contradicts: an over-long reply
makes later calls of other callers fail (`FailureIsOwn` without the hypothesis of its theorem); a
write reported as done may be lost (`Land`); an accept loop outlives a sandbox whose `stop` was
cancelled (`TasksOwned` with `MayCancel`); a handle names a path and not a file (`WriteData` after
`Unlink` or `RenameEntry`); `wait` leaves the state Stopped, and a later `stop` then releases
nothing; a failed stop on macOS leaves Stopping for good; exec on WSL boots a distribution that
`stop` terminated.

### Fairness

`RpcChannel`: weak fairness of each caller's and of the server's next step. tokio polls a task that
is ready, the mutex is first come first served (it hands itself to the head of its queue), and a VFS
method is assumed to return: the code has no timeout that would cover one that does not. Nothing
makes the link fail or a caller call.

`QemuSandbox`: weak fairness of the running method (a ready task is polled, a timer fires), of
SIGKILL, of an aborted task's end, and of the end of a serving task once QEMU is gone (its read
reports the end of the stream). None of QEMU coming up, answering, or exiting. The waits for QEMU's
answers are steps of the method, possible only when QEMU is there to answer or dead: with a QEMU
that hangs they are never enabled, which is why `MethodsReturn` excepts a hanging QEMU and
`DeadlinesHold` does not.

`MacosSandbox`: weak fairness of the running method and of the thread, whose sleeps and receives
with a deadline end (a stop the framework never answers is its timeout), and of a serving task whose
guest end is closed. The framework's answer to a start is the thread's step and impossible once it
hangs.

`WslSandbox`: weak fairness of the running method, of a kill, of an abort, and of a task whose agent
has exited. wsl.exe ends unless it is stuck, in which case the awaits on it never do.

## 4. Theorems

All are `Spec => []Inv`, `Spec => [][A]_vars` or `Spec => Lifecycle!Spec`, for every value of the
constants that satisfies the modules' assumptions: any set of callers and requests, any VFS with a
type, any pipe size; any names, depth, tree and host behaviour; any number of mounts.

**RpcChannel.** `TypeCorrect`: the type invariant is inductive; what makes it so is that it ties a
caller with the request `Hello` to an unfinished `session`, so that a version is never returned as a
value. `MutexCorrect`: also inductive given the types. `VersionGateCorrect`: the strengthening says
that a ready session implies equal versions, that with any other host only greetings are asked
anywhere (the callers' requests, the pipe, `cur`), and that every greeting's reply on its way
carries the host's version; it does not need lockstep, so it holds with over-long replies too.
`LockstepCorrect`: with no over-long reply `Lockstep` is inductive given types and mutex; a new
stream finds both pipes as a call that starts expects them. It lists, for each place a caller can be
in, the places of the server and the contents of both pipes; each step moves from one line of the
list to the next. One lemma per group of actions. `ReplyMatchesCorrect` and `FailureIsOwnCorrect`
are read off it: the chunk a caller takes is the one it is owed. The hypotheses `Oversize = {}` and
`Reconnects # "any"` are necessary: with the over-long reply of `RpcSkew.cfg` `FailureIsOwnAlways`
is violated, with a stream that overtakes a call `Lockstep` is.
`ServiceCorrect`, under the same hypotheses, is that the connection implements `VfsService`, so that
a call takes effect at most once and returns what was computed then. The mapping makes a call take
effect when the server executes it, and what has to be shown is that every request the server
executes is one the abstract service still owes: `AtomicInv` adds to `Lockstep` that answers exist
only inside calls, that a request held in a pipe or by the server is unserved, and that where a
caller waits it is that caller's own. The requests of callers that gave up are the mapping's
orphans.

**HostFs.** `ListedExact`: a listing gives every entry once and no other, in the host's order.
`MethodsKeepTree`: whatever the path names and however the method ends, what it leaves is a tree
again: nodes of the right shape, each with a directory above it. The hard case is `rename`, which
moves a subtree onto a path that may hold something already: `Carried` is shown to be one to one on
the paths it keeps (`CarriedUnder`, `CarriedParent`).

**AgentFuse.** Every step of the agent, the kernel and the host is one of six changes of the tables
(`NextIsTableStep`), so the file system does not matter. The invariant is `TablesInverse`,
`KernelView` and `NumbersOK`: the numbers in the tables are below the counters, without which a new
number could overwrite an old entry. From it `TablesInverseCorrect`, `KernelViewCorrect`,
`NumbersStableCorrect`. `FailureLeavesNoTraceCorrect` needs only that the last answer is not an
error while a request takes more steps. `ReadOnlyCorrect`: on a read-only mount every method leaves
the tree alone, so every outcome of a call does; the invariant is that no write is in flight, as one
could land later. `TypeOKCorrect`, `ScanExactCorrect` and `SetattrReportsCorrect` have one
invariant, `Inv`: the tables' invariant and types, the tree, and what a request under way may rely
on. `ScanOK`: what the kernel was given of a directory is the beginning of the present listing as
long as no entry came or went; `ReadOK`: within a `readdir`, what the agent has still to hand over
is the rest of it; `SetOK`: the file a `setattr` has truncated has the size it asked for until
somebody interferes. The listing is the same before and after a change elsewhere (`SameListed`).
They assume `MaxIno >= 1` (the root has number 1). `RootOnlyDeniedCorrect` and
`OwnPathsAdmittedCorrect` are about the jail of a mount whose root was given as a canonical path:
all other paths the kernel can name have their parent under the root, so only the root is denied,
and not even the root where its parent is admitted.

**QemuSandbox.** The invariant is the type invariant, which says what is held at each await, with
`Ownership` (a live QEMU has a holder or was killed; one that is held exists), `RunningMeansUp` and
`StoppedMeansGone`. The last needs the ownership: `stop` sets Stopped after a wait for the child it
took, or because there was none. From it `TypeCorrect`, `RunningMeansUpCorrect`, `QemuOwnedCorrect`,
`StoppedMeansGoneCorrect`, `LifecycleCorrect`. `TasksOwnedCorrect` and `StopReleasesCorrect` have
the hypothesis `~MayCancel`: a dropped future detaches accept loops.

**MacosSandbox.** The type invariant says which `pc` holds `Inner`, and that bare guest ends outlive
building only with a failed start. `StoppedMeansGoneCorrect` adds what the thread and the machine
look like at each of the thread's stages, and that a sandbox without `Inner` that was not given up
has no thread any more. `StopReleasesCorrect` follows: the thread is joined at the end of `stop`,
and a thread that is over has no commands, waiters, machine or handles.

**WslSandbox.** The invariant ties every child to one pair of hands (`children`, `local`, `lost`,
`killed`). From it `TypeCorrect`, `StoppedMeansExitedCorrect`, `StopReleasesCorrect`.

**Life cycle.** `LifecycleCorrect` of each backend: the initial states map to the abstract ones, and
every step to an abstract step or a stutter, one step of the proof per action. What is proved once
of `SandboxLifecycle`, that Running implies a launched guest (`RunningIsLaunched`) and that states
only move forward (`StatesMoveForward`), so holds of all three.

**Model-checked only.** Liveness (`CallsReturn`, `DropReleases`, `MethodsReturn`, `DeadlinesHold`,
`StopEnds`): reasoning about fairness and ENABLED is beyond the prover. Every type invariant, safety
invariant and action property of a passing run, and each of the refinements, is also proved, under
the hypotheses named above.

**Induction.** The library's induction theorems take an operator as a parameter, which no installed
prover instantiates. `HostFsProofs` goes round that where it has to: `Least` (a non-empty set of
numbers has a least element) is shown for sets and not for formulas, `SetInduction` follows from it,
and the recursive function in `InOrder`, by which a listing is filtered, is shown to be defined and
right for every prefix by applying that to the set of prefixes it is right for.

## 5. Not modelled

- **Guest init** (`scripts/image/build.sh`) and the image build: linear shell scripts that run once,
  without shared state.
- **The kernel's caches** (TTL of one second, `imp.rs:20`): external; the agent hands the TTL over
  and never invalidates. `docs/ARCHITECTURE.md:66` says "No caching; correctness first", which is
  true of the agent and not of the kernel it lets cache for that second.
- **`MemoryVfs`** of `examples/vfs_memory_demo.rs`: an example file system under one lock, so that
  its methods are atomic, as `VfsService` assumes of a VFS.
- **Runtime directories** (`runtime.rs`): named after the sandbox and the process; two sandboxes of
  one name in one process would take each other's sockets. One sandbox is modelled.
- **Configuration types, the facade crate, the other examples, command lines**: data, forwarding,
  layout.
- **Memory**: `forget` is not implemented and the agent's tables grow; `MaxIno` bounds the model,
  not the code.

Worth proving next: what follows from `VfsService` by itself, stated once for every implementation;
what is left of `Lockstep` when a new stream may overtake a call (`Reconnects = "any"`); that the
repaired variants of the violated properties hold.
