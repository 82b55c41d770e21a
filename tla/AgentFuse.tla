------------------------------ MODULE AgentFuse ------------------------------
(* tokimo-agent's FUSE file system (packages/tokimo-packages-vm-agent,        *)
(* imp.rs): the tables that give inode and handle numbers to paths, and the   *)
(* requests that turn into calls on the served TokimoVfs, here a HostFs.      *)
(*                                                                            *)
(* fuser hands over one request at a time, so a request is one step, except   *)
(* setattr, which makes two calls, and readdir, whose loop over the entries   *)
(* is a step per entry; `pend` keeps every other request out meanwhile.  A    *)
(* call is answered, or fails with the link lost, its effect applied or not;  *)
(* the effect VfsService lets come later would come while the link is down,   *)
(* when every call fails, and is not modelled.  The host uses its directory   *)
(* whenever it likes.  `known`, `opened` and `scan` are what the kernel keeps *)
(* of the answers it got: it asks only about numbers the agent gave it, so    *)
(* the agent's ENOENT and EBADF for unknown numbers are not modelled (KernelView). *)
EXTENDS Naturals, Sequences, FiniteSets, HostFs

CONSTANTS
    HostEdits,      \* whether the host changes the directory meanwhile
    InitFs,         \* the directory when the agent mounts it
    MaxIno, MaxFh,  \* bounds: numbers handed out, the inode 1 of the root included
    MaxFlight,      \* bound: writes in flight to one file
    None

\* A setattr and a readdir that are under way, and what the kernel has read of
\* a directory.
Entry   == Name \union {".", ".."}
Setting == [op : {"setattr"}, ino : Nat, size : Nat \union {None}, quiet : BOOLEAN]
Reading == [op : {"readdir"}, ino : Nat, added : Nat, rest : Seq(Entry)]
Scan    == [fh : Nat, offset : Nat, got : Seq(Entry), eof : BOOLEAN, quiet : BOOLEAN]

ASSUME AgentAssumption ==
    /\ MaxIno \in Nat \ {0} /\ MaxFh \in Nat /\ MaxFlight \in Nat
    /\ HostEdits \in BOOLEAN
    /\ Tree(InitFs)
    /\ None \notin Setting \union Reading \union Scan

VARIABLES
    inodes, rev, next_ino,  \* TokimoFuse's tables: ino -> path and back
    fhs, next_fh,           \* fh -> path
    known,                  \* ino -> kind, as the kernel was told
    opened,                 \* fh -> the ino and kind it was opened for
    scan,                   \* the directory the kernel is reading, or None
    pend,                   \* the request that takes more steps, or None
    reply,                  \* the last answer
    fs, link                \* the host's directory; "up" or "down"

inoTable == <<inodes, rev, next_ino>>
fhTable  == <<fhs, next_fh>>
vars == <<inoTable, fhTable, known, opened, scan, pend, reply, fs, link>>

Nothing == [x \in {} |-> x]
Without(f, x) == [y \in DOMAIN f \ {x} |-> f[y]]

Init ==
    /\ inodes = Nothing /\ rev = Nothing /\ next_ino = 2
    /\ fhs = Nothing /\ next_fh = 1
    /\ known = [i \in {1} |-> "dir"] /\ opened = Nothing
    /\ scan = None /\ pend = None /\ reply = Done
    /\ fs = InitFs /\ link = "up"

Unanswered == Failed("pending")

PathFor(ino) == IF ino = 1 THEN Root ELSE inodes[ino]

Ino(path) ==
    IF path = Root THEN 1 ELSE IF path \in DOMAIN rev THEN rev[path] ELSE next_ino

\* Mutant: a path gets a new number every time.
InternAgain(path) ==
    IF path = Root THEN UNCHANGED inoTable
    ELSE /\ next_ino <= MaxIno
         /\ inodes' = Put(inodes, next_ino, path)
         /\ rev' = Put(rev, path, next_ino)
         /\ next_ino' = next_ino + 1

\* Mutant: the next number is not moved on.
InternStuck(path) ==
    IF path = Root \/ path \in DOMAIN rev THEN UNCHANGED inoTable
    ELSE /\ inodes' = Put(inodes, next_ino, path)
         /\ rev' = Put(rev, path, next_ino)
         /\ UNCHANGED next_ino

Intern(path) ==
    IF path = Root \/ path \in DOMAIN rev
    THEN UNCHANGED inoTable
    ELSE /\ next_ino <= MaxIno
         /\ inodes' = Put(inodes, next_ino, path)
         /\ rev' = Put(rev, path, next_ino)
         /\ next_ino' = next_ino + 1

AllocFh(path, ino, kind) ==
    /\ next_fh <= MaxFh
    /\ fhs' = Put(fhs, next_fh, path)
    /\ next_fh' = next_fh + 1
    /\ opened' = Put(opened, next_fh, [ino |-> ino, kind |-> kind])

\* An entry reply: the kernel learns the number of a path.
Enter(path, kind) ==
    /\ Intern(path)
    /\ known' = Put(known, Ino(path), kind)

\* Calling the host --------------------------------------------------------------

\* What a call to the host may come to, o being its answer and its effect.
Rpc(o) ==
    LET lost(f) == [res |-> Failed("Io"), fs |-> f, link |-> "down"]
    IN  IF link = "down" THEN {lost(fs)}
        ELSE {[res |-> o.res, fs |-> o.fs, link |-> "up"], lost(fs), lost(o.fs)}

\* History: whether the entries of the directory being read stay the same.
Watch ==
    scan' = IF scan = None THEN None
            ELSE LET dir == fhs[scan.fh]
                 IN  [scan EXCEPT !.quiet = @ /\ Children(fs', dir) = Children(fs, dir)]

Settle(o) == fs' = o.fs /\ link' = o.link /\ Watch
Answer(o) == Settle(o) /\ reply' = o.res

Idle == pend = None
Knows(ino, kind) == ino \in DOMAIN known /\ known[ino] = kind
Holds(fh, kind)  == fh \in DOMAIN opened /\ opened[fh].kind = kind
Below(ino, n)    == Append(PathFor(ino), n)
May(path)        == Len(path) <= MaxDepth

\* Requests ------------------------------------------------------------------------

\* Mutant: the path gets its number before the host is asked about it.
LookupEager(parent, n) ==
    /\ Idle /\ Knows(parent, "dir") /\ May(Below(parent, n))
    /\ \E o \in Rpc(Stat(fs, Below(parent, n))) :
          /\ Answer(o)
          /\ Intern(Below(parent, n))
          /\ IF Is(o, "Ok") THEN known' = Put(known, Ino(Below(parent, n)), o.res.val.kind)
                            ELSE UNCHANGED known
    /\ UNCHANGED <<fhTable, opened, pend>>

Lookup(parent, n) ==
    /\ Idle /\ Knows(parent, "dir") /\ May(Below(parent, n))
    /\ \E o \in Rpc(Stat(fs, Below(parent, n))) :
          /\ Answer(o)
          /\ IF Is(o, "Ok") THEN Enter(Below(parent, n), o.res.val.kind)
                            ELSE UNCHANGED <<inoTable, known>>
    /\ UNCHANGED <<fhTable, opened, pend>>

Getattr(ino) ==
    /\ Idle /\ ino \in DOMAIN known
    /\ \E o \in Rpc(Stat(fs, PathFor(ino))) : Answer(o)
    /\ UNCHANGED <<inoTable, fhTable, known, opened, pend>>

\* Mutant: the call goes on to stat although truncate failed.
SetattrHeedless(ino, size) ==
    /\ Idle /\ ino \in DOMAIN known
    /\ size # None => known[ino] = "file"
    /\ \E o \in IF size = None THEN {[res |-> Done, fs |-> fs, link |-> link]}
                ELSE Rpc(Truncate(fs, PathFor(ino), size)) :
          /\ Settle(o)
          /\ pend' = [op |-> "setattr", ino |-> ino, size |-> size, quiet |-> TRUE]
          /\ reply' = Unanswered
    /\ UNCHANGED <<inoTable, fhTable, known, opened>>

Setattr(ino, size) ==
    /\ Idle /\ ino \in DOMAIN known
    /\ size # None => known[ino] = "file"
    /\ \E o \in IF size = None THEN {[res |-> Done, fs |-> fs, link |-> link]}
                ELSE Rpc(Truncate(fs, PathFor(ino), size)) :
          IF Is(o, "Ok")
          THEN /\ Settle(o)
               /\ pend' = [op |-> "setattr", ino |-> ino, size |-> size, quiet |-> TRUE]
               /\ reply' = Unanswered
          ELSE Answer(o) /\ UNCHANGED pend
    /\ UNCHANGED <<inoTable, fhTable, known, opened>>

SetattrStat ==
    /\ ~Idle /\ pend.op = "setattr"
    /\ \E o \in Rpc(Stat(fs, PathFor(pend.ino))) : Answer(o)
    /\ pend' = None
    /\ UNCHANGED <<inoTable, fhTable, known, opened>>

\* The kernel reads one directory at a time here, from its start.
Opendir(ino) ==
    /\ Idle /\ Knows(ino, "dir")
    /\ AllocFh(PathFor(ino), ino, "dir")
    /\ scan' = IF scan # None THEN scan
               ELSE [fh |-> next_fh, offset |-> 0, got |-> <<>>, eof |-> FALSE, quiet |-> TRUE]
    /\ reply' = Done
    /\ UNCHANGED <<inoTable, known, pend, fs, link>>

Releasedir(fh) ==
    /\ Idle /\ Holds(fh, "dir")
    /\ fhs' = Without(fhs, fh) /\ opened' = Without(opened, fh)
    /\ scan' = IF scan # None /\ scan.fh = fh THEN None ELSE scan
    /\ reply' = Done
    /\ UNCHANGED <<inoTable, next_fh, known, pend, fs, link>>

\* Bound: the numbers up to MaxIno suffice for these paths.
NumbersLeftFor(paths) == next_ino + Cardinality(paths \ DOMAIN rev) <= MaxIno + 1

\* readdir lists the directory anew and skips what the offset says was read.
Readdir ==
    /\ Idle /\ scan # None /\ ~scan.eof
    /\ LET ino == opened[scan.fh].ino
       IN  /\ NumbersLeftFor(Children(fs, PathFor(ino)))
           /\ \E o \in Rpc(List(fs, PathFor(ino))) :
                 IF Is(o, "Ok")
                 THEN LET all == <<".", "..">> \o o.res.val.names
                      IN  /\ Settle(o)
                          /\ pend' = [op |-> "readdir", ino |-> ino, added |-> 0,
                                      rest |-> SubSeq(all, scan.offset + 1, Len(all))]
                          /\ reply' = Unanswered
                 ELSE Answer(o) /\ UNCHANGED pend
    /\ UNCHANGED <<inoTable, fhTable, known, opened>>

\* Mutant: the entry that did not fit counts as read.
ReaddirEntrySkipping ==
    /\ ~Idle /\ pend.op = "readdir" /\ pend.rest # <<>>
    /\ LET n == Head(pend.rest)
       IN  /\ IF n \in {".", ".."} THEN UNCHANGED inoTable ELSE Intern(Below(pend.ino, n))
           /\ \/ /\ scan' = [scan EXCEPT !.offset = @ + 1, !.got = Append(@, n)]
                 /\ pend' = [pend EXCEPT !.rest = Tail(@), !.added = @ + 1]
                 /\ UNCHANGED reply
              \/ /\ pend.added > 0
                 /\ scan' = [scan EXCEPT !.offset = @ + 1]
                 /\ pend' = None /\ reply' = Done
    /\ UNCHANGED <<fhTable, known, opened, fs, link>>

\* An entry is interned, then added; the buffer, which holds one entry at
\* least, may turn out to be full.
ReaddirEntry ==
    /\ ~Idle /\ pend.op = "readdir" /\ pend.rest # <<>>
    /\ LET n == Head(pend.rest)
       IN  /\ IF n \in {".", ".."} THEN UNCHANGED inoTable ELSE Intern(Below(pend.ino, n))
           /\ \/ /\ scan' = [scan EXCEPT !.offset = @ + 1, !.got = Append(@, n)]
                 /\ pend' = [pend EXCEPT !.rest = Tail(@), !.added = @ + 1]
                 /\ UNCHANGED reply
              \/ /\ pend.added > 0
                 /\ pend' = None /\ reply' = Done
                 /\ UNCHANGED scan
    /\ UNCHANGED <<fhTable, known, opened, fs, link>>

\* An answer without entries is the end of the directory.
ReaddirEnd ==
    /\ ~Idle /\ pend.op = "readdir" /\ pend.rest = <<>>
    /\ scan' = [scan EXCEPT !.eof = pend.added = 0]
    /\ pend' = None /\ reply' = Done
    /\ UNCHANGED <<inoTable, fhTable, known, opened, fs, link>>

Open(ino) ==
    /\ Idle /\ Knows(ino, "file")
    /\ AllocFh(PathFor(ino), ino, "file")
    /\ reply' = Done
    /\ UNCHANGED <<inoTable, known, scan, pend, fs, link>>

Release(fh) ==
    /\ Idle /\ Holds(fh, "file")
    /\ fhs' = Without(fhs, fh) /\ opened' = Without(opened, fh)
    /\ reply' = Done
    /\ UNCHANGED <<inoTable, next_fh, known, scan, pend, fs, link>>

\* Data goes to the path the handle was opened on, whatever is there now.
ReadData(fh, at) ==
    /\ Idle /\ Holds(fh, "file")
    /\ \E o \in Rpc(Read(fs, fhs[fh], at)) : Answer(o)
    /\ UNCHANGED <<inoTable, fhTable, known, opened, pend>>

WriteData(fh, at, b) ==
    /\ Idle /\ Holds(fh, "file")
    /\ IsFile(fs, fhs[fh]) => Cardinality(fs[fhs[fh]].flight) < MaxFlight
    /\ \E o \in Rpc(Write(fs, fhs[fh], at, b)) : Answer(o)
    /\ UNCHANGED <<inoTable, fhTable, known, opened, pend>>

\* Mutant: the handle is opened on the parent's path.
CreateFileMisplaced(parent, n) ==
    /\ Idle /\ Knows(parent, "dir") /\ May(Below(parent, n))
    /\ \E o \in Rpc(Create(fs, Below(parent, n))) :
          /\ Answer(o)
          /\ IF Is(o, "Ok")
             THEN /\ Enter(Below(parent, n), "file")
                  /\ AllocFh(PathFor(parent), Ino(Below(parent, n)), "file")
             ELSE UNCHANGED <<inoTable, fhTable, known, opened>>
    /\ UNCHANGED pend

CreateFile(parent, n) ==
    /\ Idle /\ Knows(parent, "dir") /\ May(Below(parent, n))
    /\ \E o \in Rpc(Create(fs, Below(parent, n))) :
          /\ Answer(o)
          /\ IF Is(o, "Ok")
             THEN /\ Enter(Below(parent, n), "file")
                  /\ AllocFh(Below(parent, n), Ino(Below(parent, n)), "file")
             ELSE UNCHANGED <<inoTable, fhTable, known, opened>>
    /\ UNCHANGED pend

MakeDir(parent, n) ==
    /\ Idle /\ Knows(parent, "dir") /\ May(Below(parent, n))
    /\ \E o \in Rpc(Mkdir(fs, Below(parent, n))) :
          /\ Answer(o)
          /\ IF Is(o, "Ok") THEN Enter(Below(parent, n), "dir")
                            ELSE UNCHANGED <<inoTable, known>>
    /\ UNCHANGED <<fhTable, opened, pend>>

Unlink(parent, n) ==
    /\ Idle /\ Knows(parent, "dir") /\ May(Below(parent, n))
    /\ \E o \in Rpc(Remove(fs, Below(parent, n))) : Answer(o)
    /\ UNCHANGED <<inoTable, fhTable, known, opened, pend>>

RemoveDir(parent, n) ==
    /\ Idle /\ Knows(parent, "dir") /\ May(Below(parent, n))
    /\ \E o \in Rpc(Rmdir(fs, Below(parent, n))) : Answer(o)
    /\ UNCHANGED <<inoTable, fhTable, known, opened, pend>>

\* The tables keep the old path.
RenameEntry(parent, n, newparent, m) ==
    /\ Idle /\ Knows(parent, "dir") /\ Knows(newparent, "dir")
    /\ May(Below(parent, n)) /\ May(Below(newparent, m))
    /\ \E o \in Rpc(Rename(fs, Below(parent, n), Below(newparent, m))) :
          Answer(o) /\ DOMAIN o.fs \subseteq Path
    /\ UNCHANGED <<inoTable, fhTable, known, opened, pend>>

\* QEMU connects a lost stream again, once its server has ended (reconnect=1); the
\* agent goes on with the same Client.
Reconnect ==
    /\ link = "down" /\ link' = "up"
    /\ UNCHANGED <<inoTable, fhTable, known, opened, scan, pend, reply, fs>>

\* The host ------------------------------------------------------------------------

\* Whether the file a setattr is about stays as truncate left it.
Noticed ==
    pend' = IF Idle \/ pend.op # "setattr" THEN pend
            ELSE LET p == PathFor(pend.ino)
                 IN  [pend EXCEPT !.quiet = @ /\ p \in DOMAIN fs \intersect DOMAIN fs' /\ fs'[p] = fs[p]]

HostEdit(p) ==
    /\ HostEdits
    /\ p # Root
    /\ \/ p \in DOMAIN fs /\ fs' = Cut(fs, p)
       \/ p \notin DOMAIN fs /\ IsDir(fs, Parent(p)) /\ fs' = Put(fs, p, Dir)
       \/ /\ IsDir(fs, Parent(p)) /\ ~IsDir(fs, p)
          /\ \E d \in Data :
                fs' = Put(fs, p, File(d, IF p \in DOMAIN fs THEN fs[p].flight ELSE {}))
    /\ Watch /\ Noticed
    /\ UNCHANGED <<inoTable, fhTable, known, opened, reply, link>>

Land(p) ==
    /\ IsFile(fs, p)
    /\ \E w \in fs[p].flight : fs' \in Landed(fs, p, w)
    /\ Watch /\ Noticed
    /\ UNCHANGED <<inoTable, fhTable, known, opened, reply, link>>
-------------------------------------------------------------------------------
Next ==
    \/ \E i \in DOMAIN known :
          \/ \E n \in Name :
                \/ Lookup(i, n) \/ CreateFile(i, n) \/ MakeDir(i, n)
                \/ Unlink(i, n) \/ RemoveDir(i, n)
                \/ \E j \in DOMAIN known, m \in Name : RenameEntry(i, n, j, m)
          \/ Getattr(i) \/ Opendir(i) \/ Open(i)
          \/ \E size \in 0..MaxSize \union {None} : Setattr(i, size)
    \/ \E h \in DOMAIN opened :
          \/ Releasedir(h) \/ Release(h)
          \/ \E at \in 0..(MaxSize - 1) : ReadData(h, at) \/ \E b \in Block : WriteData(h, at, b)
    \/ SetattrStat \/ Readdir \/ ReaddirEntry \/ ReaddirEnd
    \/ Reconnect
    \/ \E p \in DOMAIN fs : Land(p)
    \/ \E p \in Path : HostEdit(p)

Spec == Init /\ [][Next]_vars
-------------------------------------------------------------------------------
\* Properties.

Ran(f) == {f[x] : x \in DOMAIN f}

\* Every variable has its type; the host's tree stays a tree, renames included.
TypeOK ==
    /\ next_ino \in 2..(MaxIno + 1) /\ DOMAIN inodes = 2..(next_ino - 1)
    /\ Ran(inodes) \subseteq Path /\ Ran(rev) \subseteq 2..(next_ino - 1)
    /\ next_fh \in 1..(MaxFh + 1) /\ DOMAIN fhs \subseteq 1..(next_fh - 1)
    /\ Ran(fhs) \subseteq Path
    /\ Ran(known) \subseteq {"dir", "file"}
    /\ scan \in Scan \union {None} /\ (scan # None => Holds(scan.fh, "dir"))
    /\ pend \in Setting \union Reading \union {None}
    /\ reply.tag \in {"Ok", "Io", "NotFound", "PermissionDenied", "AlreadyExists"}
                    \union (IF Idle THEN {} ELSE {"pending"})
    /\ Tree(fs)
    /\ link \in {"up", "down"}

\* The two directions of the inode table (imp.rs:165-177) are inverse to each
\* other: a path has one number, a number one path, the root neither.
TablesInverse ==
    /\ \A p \in DOMAIN rev : rev[p] \in DOMAIN inodes /\ inodes[rev[p]] = p
    /\ \A i \in DOMAIN inodes : inodes[i] \in DOMAIN rev /\ rev[inodes[i]] = i
    /\ Root \notin DOMAIN rev /\ 1 \notin DOMAIN inodes

\* What the agent remembers covers what the kernel may ask about: every inode
\* the kernel was told of resolves, the handle table holds exactly the open
\* handles, and a handle and the inode it was opened for name the same path
\* (imp.rs:157-184, 309-328, 383-404, 458-487).
KernelView ==
    /\ DOMAIN known \subseteq {1} \union DOMAIN inodes
    /\ DOMAIN fhs = DOMAIN opened
    /\ \A h \in DOMAIN opened :
          opened[h].ino \in DOMAIN known /\ fhs[h] = PathFor(opened[h].ino)

\* A number never changes its path nor a path its number, however long the
\* agent runs and whatever happens to the files (imp.rs:165-184).
NumbersStable ==
    /\ \A i \in DOMAIN inodes : i \in DOMAIN inodes' /\ inodes'[i] = inodes[i]
    /\ \A p \in DOMAIN rev : p \in DOMAIN rev' /\ rev'[p] = rev[p]
    /\ \A h \in DOMAIN fhs \intersect DOMAIN fhs' : fhs'[h] = fhs[h]

NumbersStableAlways == [][NumbersStable]_vars

\* A request that is answered with an error leaves no trace in the agent's
\* tables (imp.rs:231-572: numbers are given out after the host said Ok).
FailureLeavesNoTrace ==
    reply'.tag \notin {"Ok", "pending"} => UNCHANGED <<inoTable, fhTable, known, opened>>

FailureLeavesNoTraceAlways == [][FailureLeavesNoTrace]_vars

\* Reading a directory in several requests, each of which lists it anew
\* (imp.rs:330-381), gives every entry once while no entry comes or goes.
ScanExact ==
    scan # None /\ scan.quiet =>
       LET all == <<".", "..">> \o Listed(fs, fhs[scan.fh])
       IN  /\ scan.got = SubSeq(all, 1, scan.offset)
           /\ scan.eof => scan.got = all

\* setattr with a size reports that size, unless somebody else changed the file
\* between its two calls (imp.rs:266-307).
SetattrReports ==
    /\ ~Idle /\ pend.op = "setattr" /\ pend.size # None /\ pend.quiet
    /\ pend' = None /\ reply'.tag = "Ok"
    => reply'.val.size = pend.size

SetattrReportsAlways == [][SetattrReports]_vars

\* "We require the resolved path to be underneath `self.root`" (core
\* lib.rs:99-100): no request names a path outside the root, so none is denied
\* on a writable mount.
OwnPathsAdmitted == [][reply'.tag = "PermissionDenied" => ReadOnly]_vars

\* The mount is "read-write" (docs/DEBUG.md:13): a write of one block leaves
\* the others as they were.
WriteKeepsRest ==
    \A h \in DOMAIN opened, at \in 0..(MaxSize - 1), b \in Block :
       WriteData(h, at, b) /\ reply'.tag = "Ok" /\ IsFile(fs, fhs[h]) =>
          LET old == fs[fhs[h]].data
              new == fs'[fhs[h]].data
          IN  \A i \in 1..Len(old) : i # at + 1 => i <= Len(new) /\ new[i] = old[i]

WriteKeepsRestAlways == [][WriteKeepsRest]_vars
===============================================================================
