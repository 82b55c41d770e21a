------------------------------- MODULE HostFs -------------------------------
(* The TokimoVfs that serves a host directory                                 *)
(* (packages/tokimo-packages-vm-core/src/lib.rs, HostFs): what each of its     *)
(* methods returns for a state of the directory, and the state it leaves.     *)
(*                                                                            *)
(* A directory tree is a function from paths, relative to HostFs::root, to     *)
(* nodes; the root is always there.  A file holds blocks, 0 being a hole, and *)
(* `flight`: writes handed to tokio::fs::File, which reports them written     *)
(* and lets a background thread carry them out (HostFs::write never flushes). *)
EXTENDS Naturals, Sequences

CONSTANTS
    Name,           \* entry names
    Listing,        \* the order in which the host lists names, a sequence
    MaxDepth,       \* bound: components of a path
    Block,          \* what guests write, a block at a time
    MaxSize,        \* bound: blocks of a file
    ReadOnly,       \* HostFs::read_only
    CanonicalRoot,  \* HostFs::root was given as a canonical path
    RootAdmitted    \* the parent of HostFs::root lies under it: only for "/"

ASSUME HostFsAssumption ==
    /\ Listing \in Seq(Name)
    /\ MaxDepth \in Nat \ {0}
    /\ MaxSize \in Nat
    /\ 0 \notin Block
    /\ {ReadOnly, CanonicalRoot, RootAdmitted} \subseteq BOOLEAN

Root == <<>>
Path == UNION {[1..n -> Name] : n \in 0..MaxDepth}
Parent(p) == SubSeq(p, 1, Len(p) - 1)
Under(p, q) == Len(q) < Len(p) /\ SubSeq(p, 1, Len(q)) = q

Dir == [kind |-> "dir"]
File(data, flight) == [kind |-> "file", data |-> data, flight |-> flight]
Data == UNION {[1..n -> Block \union {0}] : n \in 0..MaxSize}
Pending == [at : 0..(MaxSize - 1), block : Block]
Node == {Dir} \union {File(d, w) : d \in Data, w \in SUBSET Pending}

IsDir(fs, p)  == p \in DOMAIN fs /\ fs[p] = Dir
IsFile(fs, p) == p \in DOMAIN fs /\ fs[p] # Dir
Children(fs, p) == {q \in DOMAIN fs : q # Root /\ Parent(q) = p}

\* The states of a directory tree: every entry lies in a directory.
Tree(fs) ==
    /\ DOMAIN fs \subseteq Path
    /\ \A p \in DOMAIN fs : fs[p] \in Node
    /\ IsDir(fs, Root)
    /\ \A p \in DOMAIN fs \ {Root} : IsDir(fs, Parent(p))

Put(fs, p, n) == [q \in DOMAIN fs \union {p} |-> IF q = p THEN n ELSE fs[q]]
Cut(fs, p)    == [q \in {r \in DOMAIN fs : r # p /\ ~Under(r, p)} |-> fs[q]]

\* Where p goes to q, what happens to r, which is p or under it.
Carried(r, p, q) == q \o SubSeq(r, Len(p) + 1, Len(r))

Moved(fs, p, q) ==
    LET rest == Cut(Cut(fs, p), q)
        sub  == {Carried(r, p, q) : r \in {s \in DOMAIN fs : s = p \/ Under(s, p)}}
    IN  [r \in DOMAIN rest \union sub |-> IF r \in sub THEN fs[Carried(r, q, p)] ELSE rest[r]]

\* Bytes past the end of a file read as holes.
Resized(d, n) == [i \in 1..n |-> IF i <= Len(d) THEN d[i] ELSE 0]
Overlaid(d, w) ==
    [Resized(d, IF w.at < Len(d) THEN Len(d) ELSE w.at + 1) EXCEPT ![w.at + 1] = w.block]

\* Answers --------------------------------------------------------------------

Value(v)  == [tag |-> "Ok", val |-> v]
Done      == [tag |-> "Ok"]
Failed(e) == [tag |-> e]
Is(o, tag) == o.res.tag = tag
Attr(n)   == [kind |-> n.kind, size |-> IF n = Dir THEN 0 ELSE Len(n.data)]

Result(res, fs) == [res |-> res, fs |-> fs]
Refused(e, fs)  == Result(Failed(e), fs)

\* resolve, the jail check: what has to lie under the root is the parent of
\* the path, compared as it stands when it cannot be canonicalised.
Denied(fs, p) ==
    IF p = Root THEN ~RootAdmitted
                ELSE ~CanonicalRoot /\ Parent(p) \notin DOMAIN fs

\* map_io over what the host says of a path it cannot reach: a file in the
\* middle of the path is ENOTDIR, which is none of the three kinds it keeps.
Unreachable(fs, p) ==
    IF \E k \in 1..(Len(p) - 1) : IsFile(fs, SubSeq(p, 1, k)) THEN "Io" ELSE "NotFound"

\* Resolving p, then finding there what `found` describes; else `otherwise`.
Checked(fs, p, found, otherwise) ==
    IF Denied(fs, p) THEN Refused("PermissionDenied", fs)
    ELSE IF ~found THEN Refused(otherwise, fs)
    ELSE Result(Done, fs)

OnExisting(fs, p) == Checked(fs, p, p \in DOMAIN fs, Unreachable(fs, p))
OnNewEntry(fs, p) == Checked(fs, p, p = Root \/ IsDir(fs, Parent(p)), Unreachable(fs, p))

\* check_rw comes first in every method that changes something.
Writable(fs, o) == IF ReadOnly THEN Refused("PermissionDenied", fs) ELSE o

\* TokimoVfs --------------------------------------------------------------------

Stat(fs, p) ==
    LET o == OnExisting(fs, p)
    IN  IF Is(o, "Ok") THEN Result(Value(Attr(fs[p])), fs) ELSE o

\* The names in S, in the order in which the host lists them.
InOrder(S) ==
    LET upto[k \in 0..Len(Listing)] ==
          IF k = 0 THEN <<>>
          ELSE IF Listing[k] \in S THEN Append(upto[k - 1], Listing[k]) ELSE upto[k - 1]
    IN  upto[Len(Listing)]

Entries(fs, p) == {n \in Name : Append(p, n) \in DOMAIN fs}
Listed(fs, p)  == InOrder(Entries(fs, p))

List(fs, p) ==
    LET o == OnExisting(fs, p)
    IN  IF ~Is(o, "Ok") THEN o
        ELSE IF IsFile(fs, p) THEN Refused("Io", fs)
        ELSE Result(Value([names |-> Listed(fs, p)]), fs)

\* What is on the disk is read, whatever writes are in flight.
Read(fs, p, at) ==
    LET o == OnExisting(fs, p)
    IN  IF ~Is(o, "Ok") THEN o
        ELSE IF IsDir(fs, p) THEN Refused("Io", fs)
        ELSE Result(Value([data |-> SubSeq(fs[p].data, at + 1, Len(fs[p].data))]), fs)

\* Opening with create and truncate, which `write` and `create` both do.
Emptied(fs, p) ==
    LET o == OnNewEntry(fs, p)
    IN  IF ~Is(o, "Ok") THEN o
        ELSE IF IsDir(fs, p) THEN Refused("Io", fs)
        ELSE Result(Done, Put(fs, p,
                 File(<<>>, IF p \in DOMAIN fs THEN fs[p].flight ELSE {})))

Written(fs, p, at, b) ==
    LET o == Emptied(fs, p)
    IN  IF ~Is(o, "Ok") THEN o
        ELSE Result(Value([written |-> 1]), Put(o.fs, p,
                 File(<<>>, o.fs[p].flight \union {[at |-> at, block |-> b]})))

Write(fs, p, at, b) == Writable(fs, Written(fs, p, at, b))

Create(fs, p) ==
    Writable(fs,
      LET o == Emptied(fs, p)
      IN  IF Is(o, "Ok") THEN Result(Value(Attr(o.fs[p])), o.fs) ELSE o)

Mkdir(fs, p) ==
    Writable(fs,
      LET o == OnNewEntry(fs, p)
      IN  IF ~Is(o, "Ok") THEN o
          ELSE IF p \in DOMAIN fs THEN Refused("AlreadyExists", fs)
          ELSE Result(Value(Attr(Dir)), Put(fs, p, Dir)))

Remove(fs, p) ==
    Writable(fs,
      LET o == OnExisting(fs, p)
      IN  IF ~Is(o, "Ok") THEN o
          ELSE IF IsDir(fs, p) THEN Refused("Io", fs)
          ELSE Result(Done, Cut(fs, p)))

Rmdir(fs, p) ==
    Writable(fs,
      LET o == OnExisting(fs, p)
      IN  IF ~Is(o, "Ok") THEN o
          ELSE IF IsFile(fs, p) \/ Children(fs, p) # {} THEN Refused("Io", fs)
          ELSE Result(Done, Cut(fs, p)))

\* Both paths pass the jail before the host sees either; the host then looks
\* at the two parents and at the old name, in this order.
Rename(fs, p, q) ==
    Writable(fs,
      IF Denied(fs, p) \/ Denied(fs, q) THEN Refused("PermissionDenied", fs)
      ELSE IF ~IsDir(fs, Parent(p)) THEN Refused(Unreachable(fs, p), fs)
      ELSE IF ~IsDir(fs, Parent(q)) THEN Refused(Unreachable(fs, q), fs)
      ELSE IF p \notin DOMAIN fs THEN Refused("NotFound", fs)
      ELSE IF p = q THEN Result(Done, fs)
      ELSE IF \/ Under(q, p)
              \/ q \in DOMAIN fs /\ fs[q].kind # fs[p].kind
              \/ Children(fs, q) # {}
           THEN Refused("Io", fs)
      ELSE Result(Done, Moved(fs, p, q)))

Truncate(fs, p, n) ==
    Writable(fs,
      LET o == OnExisting(fs, p)
      IN  IF ~Is(o, "Ok") THEN o
          ELSE IF IsDir(fs, p) THEN Refused("Io", fs)
          ELSE Result(Done, Put(fs, p, File(Resized(fs[p].data, n), fs[p].flight))))

\* The background thread carries out a write in flight, or fails: the error
\* has nobody left to go to.
Landed(fs, p, w) ==
    LET rest == fs[p].flight \ {w}
    IN  {Put(fs, p, File(Overlaid(fs[p].data, w), rest)), Put(fs, p, File(fs[p].data, rest))}
===============================================================================
