------------------------------ MODULE VfsService ------------------------------
(* What a TokimoVfs reached over an RPC connection promises its callers,      *)
(* whatever the frames, the mutex and the link do underneath.  A call takes   *)
(* effect at most once, atomically, between its invocation and its return;    *)
(* a call that returns a value returns the one the VFS computed for it.       *)
(* A call that fails tells nothing: its effect may have been applied, may be  *)
(* applied later, or never.                                                   *)
EXTENDS Naturals

CONSTANTS
    Caller,         \* tasks that share one rpc::Client
    FsRequest,      \* the file system requests
    Vfs,            \* states of the served file system
    InitVfs,
    Value,          \* the Ok and Err values TokimoVfs methods return
    Answer(_, _),   \* Answer(r, s): what request r returns in state s
    Effect(_, _),   \* Effect(r, s): the state r leaves behind
    None,
    Err             \* VfsError::Io of a call that was not answered

VARIABLES
    phase,          \* phase[c]: "idle", "called" or "served"
    req,            \* req[c]: the request of c's current or last call
    ans,            \* ans[c]: the value computed for c's current call
    out,            \* out[c]: what c's last finished call returned
    vfs,            \* the file system
    late            \* requests of failed calls that may still be served

vars == <<phase, req, ans, out, vfs, late>>

Init ==
    /\ phase = [c \in Caller |-> "idle"]
    /\ req = [c \in Caller |-> None]
    /\ ans = [c \in Caller |-> None]
    /\ out = [c \in Caller |-> None]
    /\ vfs = InitVfs
    /\ late = {}

Invoke(c, r) ==
    /\ phase[c] = "idle"
    /\ phase' = [phase EXCEPT ![c] = "called"]
    /\ req' = [req EXCEPT ![c] = r]
    /\ out' = [out EXCEPT ![c] = None]
    /\ UNCHANGED <<ans, vfs, late>>

\* The atomic step at which the call takes effect.
Serve(c) ==
    /\ phase[c] = "called"
    /\ phase' = [phase EXCEPT ![c] = "served"]
    /\ ans' = [ans EXCEPT ![c] = Answer(req[c], vfs)]
    /\ vfs' = Effect(req[c], vfs)
    /\ UNCHANGED <<req, out, late>>

Finish(c, o) ==
    /\ phase' = [phase EXCEPT ![c] = "idle"]
    /\ ans' = [ans EXCEPT ![c] = None]
    /\ out' = [out EXCEPT ![c] = o]
    /\ UNCHANGED <<req, vfs>>

Return(c) ==
    /\ phase[c] = "served"
    /\ Finish(c, ans[c])
    /\ UNCHANGED late

\* Before it was served a failed call may leave its request behind.
Fail(c) ==
    /\ phase[c] # "idle"
    /\ Finish(c, Err)
    /\ \/ UNCHANGED late
       \/ phase[c] = "called" /\ late' = late \union {req[c]}

LateServe(r) ==
    /\ vfs' = Effect(r, vfs)
    /\ late' = late \ {r}
    /\ UNCHANGED <<phase, req, ans, out>>

Lose(r) ==
    /\ late' = late \ {r}
    /\ UNCHANGED <<phase, req, ans, out, vfs>>

Next ==
    \/ \E c \in Caller :
          \/ \E r \in FsRequest : Invoke(c, r)
          \/ Serve(c)
          \/ Return(c)
          \/ Fail(c)
    \/ \E r \in late : LateServe(r) \/ Lose(r)

Spec == Init /\ [][Next]_vars
===============================================================================
