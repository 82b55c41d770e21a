--------------------------- MODULE AgentFuseProofs ---------------------------
(* The agent's tables, for every bound and whatever the host does: the two    *)
(* directions of the inode table stay inverse, they cover what the kernel was *)
(* told, and no number ever changes its meaning.                              *)
(*                                                                            *)
(* A request touches the tables in one of six ways (TableStep); the invariant *)
(* is proved for these, so the file system behind the agent does not matter.  *)
EXTENDS AgentFuse, HostFsProofs

\* Numbers not yet given out are not in the tables.
NumbersOK ==
    /\ next_ino \in Nat /\ next_ino > 1
    /\ \A i \in DOMAIN inodes : i \in Nat /\ i < next_ino
    /\ next_fh \in Nat
    /\ \A h \in DOMAIN fhs : h \in Nat /\ h < next_fh

IInv == NumbersOK /\ TablesInverse /\ KernelView

TableStep ==
    \/ UNCHANGED <<inoTable, fhTable, known, opened>>
    \/ \E path, kind : Enter(path, kind) /\ UNCHANGED <<fhTable, opened>>
    \/ \E path : Intern(path) /\ UNCHANGED <<fhTable, known, opened>>
    \/ \E i \in DOMAIN known : \E kind :
          AllocFh(PathFor(i), i, kind) /\ UNCHANGED <<inoTable, known>>
    \/ \E h : /\ fhs' = Without(fhs, h) /\ opened' = Without(opened, h)
              /\ UNCHANGED <<inoTable, next_fh, known>>
    \/ \E path, kind : Enter(path, kind) /\ AllocFh(path, Ino(path), kind)

-------------------------------------------------------------------------------
\* Every step of the agent, of the kernel and of the host is a table step.
LEMMA NextIsTableStep ==
    ASSUME Next
    PROVE  TableStep
<1>1. ASSUME NEW i \in DOMAIN known, NEW n \in Name, Lookup(i, n) PROVE TableStep
  BY <1>1 DEF Lookup, TableStep
<1>2. ASSUME NEW i \in DOMAIN known, NEW n \in Name, CreateFile(i, n) PROVE TableStep
  <2>1. PICK o \in Rpc(Create(fs, Below(i, n))) :
           IF Is(o, "Ok")
           THEN /\ Enter(Below(i, n), "file")
                /\ AllocFh(Below(i, n), Ino(Below(i, n)), "file")
           ELSE UNCHANGED <<inoTable, fhTable, known, opened>>
    BY <1>2 DEF CreateFile
  <2> QED BY <2>1 DEF TableStep
<1>3. ASSUME NEW i \in DOMAIN known, NEW n \in Name, MakeDir(i, n) PROVE TableStep
  BY <1>3 DEF MakeDir, TableStep
<1>4. ASSUME NEW i \in DOMAIN known, NEW n \in Name, Unlink(i, n) \/ RemoveDir(i, n)
      PROVE  TableStep
  BY <1>4 DEF Unlink, RemoveDir, TableStep
<1>5. ASSUME NEW i \in DOMAIN known, NEW n \in Name, NEW j \in DOMAIN known, NEW m \in Name,
             RenameEntry(i, n, j, m)
      PROVE  TableStep
  BY <1>5 DEF RenameEntry, TableStep
<1>6. ASSUME NEW i \in DOMAIN known, Getattr(i) PROVE TableStep
  BY <1>6 DEF Getattr, TableStep
<1>7. ASSUME NEW i \in DOMAIN known, Opendir(i) \/ Open(i) PROVE TableStep
  BY <1>7 DEF Opendir, Open, TableStep
<1>8. ASSUME NEW i \in DOMAIN known, NEW size \in 0..MaxSize \union {None}, Setattr(i, size)
      PROVE  TableStep
  BY <1>8 DEF Setattr, TableStep
<1>9. ASSUME NEW h \in DOMAIN opened, Releasedir(h) \/ Release(h) PROVE TableStep
  BY <1>9 DEF Releasedir, Release, TableStep
<1>10. ASSUME NEW h \in DOMAIN opened, NEW at \in 0..(MaxSize - 1),
              ReadData(h, at) \/ \E b \in Block : WriteData(h, at, b)
       PROVE  TableStep
  BY <1>10 DEF ReadData, WriteData, TableStep
<1>11. ASSUME SetattrStat \/ Readdir \/ ReaddirEnd \/ Reconnect PROVE TableStep
  BY <1>11 DEF SetattrStat, Readdir, ReaddirEnd, Reconnect, TableStep
<1>12. ASSUME ReaddirEntry PROVE TableStep
  <2>1. \/ UNCHANGED inoTable
        \/ Intern(Below(pend.ino, Head(pend.rest)))
    BY <1>12 DEF ReaddirEntry
  <2>2. UNCHANGED <<fhTable, known, opened>>
    BY <1>12 DEF ReaddirEntry
  <2> QED BY <2>1, <2>2 DEF TableStep
<1>13. ASSUME NEW p, Land(p) \/ HostEdit(p) PROVE TableStep
  BY <1>13 DEF Land, HostEdit, TableStep
<1> QED
  BY <1>1, <1>2, <1>3, <1>4, <1>5, <1>6, <1>7, <1>8, <1>9, <1>10, <1>11, <1>12, <1>13
     DEF Next

\* intern keeps the tables inverse, adds at most one number, and gives the path
\* the number the caller answers with (imp.rs:165-177).
LEMMA InternFacts ==
    ASSUME NumbersOK, TablesInverse, NEW path, Intern(path)
    PROVE  /\ next_ino' \in Nat /\ next_ino' > 1
           /\ \A i \in DOMAIN inodes' : i \in Nat /\ i < next_ino'
           /\ TablesInverse'
           /\ \A i \in DOMAIN inodes : i \in DOMAIN inodes' /\ inodes'[i] = inodes[i]
           /\ \A p \in DOMAIN rev : p \in DOMAIN rev' /\ rev'[p] = rev[p]
           /\ Ino(path) \in {1} \union DOMAIN inodes'
           /\ IF Ino(path) = 1 THEN path = Root ELSE inodes'[Ino(path)] = path
<1>1. CASE path = Root \/ path \in DOMAIN rev
  <2>1. UNCHANGED inoTable
    BY <1>1 DEF Intern
  <2>2. TablesInverse'
    BY <2>1 DEF TablesInverse, inoTable
  <2>3. inodes' = inodes /\ rev' = rev /\ next_ino' = next_ino
    BY <2>1 DEF inoTable
  <2>4. /\ Ino(path) \in {1} \union DOMAIN inodes
        /\ IF Ino(path) = 1 THEN path = Root ELSE inodes[Ino(path)] = path
    BY <1>1 DEF Ino, TablesInverse
  <2> QED BY <2>2, <2>3, <2>4 DEF NumbersOK
<1>2. CASE path # Root /\ path \notin DOMAIN rev
  <2>1. /\ inodes' = Put(inodes, next_ino, path)
        /\ rev' = Put(rev, path, next_ino)
        /\ next_ino' = next_ino + 1
    BY <1>2 DEF Intern
  <2>2. next_ino \notin DOMAIN inodes /\ next_ino \in Nat /\ next_ino # 1
    BY DEF NumbersOK
  <2>3. /\ DOMAIN inodes' = DOMAIN inodes \union {next_ino}
        /\ inodes'[next_ino] = path
        /\ \A i \in DOMAIN inodes : inodes'[i] = inodes[i]
    BY <2>1, <2>2 DEF Put
  <2>4. /\ DOMAIN rev' = DOMAIN rev \union {path}
        /\ rev'[path] = next_ino
        /\ \A p \in DOMAIN rev : rev'[p] = rev[p]
    BY <1>2, <2>1 DEF Put
  <2>5. TablesInverse'
    BY <1>2, <2>2, <2>3, <2>4 DEF TablesInverse
  <2>6. Ino(path) = next_ino
    BY <1>2 DEF Ino
  <2>7. Ino(path) # 1 /\ inodes'[Ino(path)] = path
    BY <2>2, <2>3, <2>6
  <2> QED BY <2>1, <2>2, <2>3, <2>4, <2>5, <2>6, <2>7 DEF NumbersOK
<1> QED BY <1>1, <1>2

\* What is left of the tables when nothing is interned.
LEMMA KeepInodes ==
    ASSUME IInv, UNCHANGED inoTable
    PROVE  /\ next_ino' \in Nat /\ next_ino' > 1
           /\ \A i \in DOMAIN inodes' : i \in Nat /\ i < next_ino'
           /\ TablesInverse'
           /\ \A i \in DOMAIN inodes : i \in DOMAIN inodes' /\ inodes'[i] = inodes[i]
           /\ \A p \in DOMAIN rev : p \in DOMAIN rev' /\ rev'[p] = rev[p]
BY DEF IInv, NumbersOK, TablesInverse, inoTable

\* A table step keeps the invariant and changes no number's meaning.
LEMMA TableStepFacts ==
    ASSUME IInv, TableStep
    PROVE  IInv' /\ NumbersStable
<1> DEFINE Inodes == /\ next_ino' \in Nat /\ next_ino' > 1
                     /\ \A i \in DOMAIN inodes' : i \in Nat /\ i < next_ino'
                     /\ TablesInverse'
                     /\ \A i \in DOMAIN inodes : i \in DOMAIN inodes' /\ inodes'[i] = inodes[i]
                     /\ \A p \in DOMAIN rev : p \in DOMAIN rev' /\ rev'[p] = rev[p]
           Handles == /\ next_fh' \in Nat
                      /\ \A h \in DOMAIN fhs' : h \in Nat /\ h < next_fh'
                      /\ DOMAIN fhs' = DOMAIN opened'
                      /\ \A h \in DOMAIN fhs \intersect DOMAIN fhs' : fhs'[h] = fhs[h]
           Known == DOMAIN known \subseteq DOMAIN known' /\ DOMAIN known' \subseteq {1} \union DOMAIN inodes'
           Named(h) == /\ opened'[h].ino \in DOMAIN known'
                       /\ fhs'[h] = IF opened'[h].ino = 1 THEN Root ELSE inodes'[opened'[h].ino]
<1>a. DOMAIN known \subseteq {1} \union DOMAIN inodes
  BY DEF IInv, KernelView
<1>b. \A h \in DOMAIN opened :
         /\ h \in DOMAIN fhs
         /\ opened[h].ino \in DOMAIN known
         /\ fhs[h] = IF opened[h].ino = 1 THEN Root ELSE inodes[opened[h].ino]
  BY DEF IInv, KernelView, PathFor
<1>c. next_fh \in Nat /\ DOMAIN fhs = DOMAIN opened /\ \A h \in DOMAIN fhs : h \in Nat /\ h < next_fh
  BY DEF IInv, NumbersOK, KernelView
<1>d. \A p \in DOMAIN rev : p # Root
  BY DEF IInv, TablesInverse
<1>e. 1 \notin DOMAIN inodes
  BY DEF IInv, TablesInverse
<1> HIDE DEF Inodes, Handles, Known, Named
<1>0. SUFFICES Inodes /\ Handles /\ Known /\ \A h \in DOMAIN opened' : Named(h)
  BY DEF Inodes, Handles, Known, Named, IInv, NumbersOK, KernelView, NumbersStable, PathFor
<1>same. ASSUME Inodes, Known, UNCHANGED <<fhTable, opened>>
         PROVE  Handles /\ \A h \in DOMAIN opened' : Named(h)
  <2>1. fhs' = fhs /\ next_fh' = next_fh /\ opened' = opened
    BY <1>same DEF fhTable
  <2> QED BY <2>1, <1>same, <1>a, <1>b, <1>c DEF Inodes, Known, Handles, Named
<1>entered. ASSUME NEW path, NEW kind, Enter(path, kind)
            PROVE  /\ Inodes /\ Known /\ Ino(path) \in DOMAIN known'
                   /\ IF Ino(path) = 1 THEN path = Root ELSE inodes'[Ino(path)] = path
  <2>1. Intern(path) /\ known' = Put(known, Ino(path), kind)
    BY <1>entered DEF Enter
  <2>2. /\ Inodes /\ Ino(path) \in {1} \union DOMAIN inodes'
        /\ IF Ino(path) = 1 THEN path = Root ELSE inodes'[Ino(path)] = path
    BY <2>1, InternFacts DEF IInv, Inodes
  <2>3. DOMAIN known' = DOMAIN known \union {Ino(path)}
    BY <2>1 DEF Put
  <2> QED BY <2>2, <2>3, <1>a DEF Inodes, Known
<1>opened. ASSUME Inodes, Known, NEW path, NEW ino \in DOMAIN known', NEW kind,
                  path = IF ino = 1 THEN Root ELSE inodes'[ino],
                  AllocFh(path, ino, kind)
           PROVE  Handles /\ \A h \in DOMAIN opened' : Named(h)
  <2>1. /\ fhs' = Put(fhs, next_fh, path) /\ next_fh' = next_fh + 1
        /\ opened' = Put(opened, next_fh, [ino |-> ino, kind |-> kind])
    BY <1>opened DEF AllocFh
  <2>2. /\ DOMAIN fhs' = DOMAIN fhs \union {next_fh} /\ fhs'[next_fh] = path
        /\ \A h \in DOMAIN fhs : h # next_fh => fhs'[h] = fhs[h]
    BY <2>1 DEF Put
  <2>3. /\ DOMAIN opened' = DOMAIN opened \union {next_fh}
        /\ opened'[next_fh] = [ino |-> ino, kind |-> kind]
        /\ \A h \in DOMAIN opened : h # next_fh => opened'[h] = opened[h]
    BY <2>1 DEF Put
  <2>4. \A h \in DOMAIN fhs : h # next_fh
    BY <1>c
  <2>5. Handles
    BY <2>1, <2>2, <2>3, <2>4, <1>c DEF Handles
  <2>6. Named(next_fh)
    BY <2>2, <2>3, <1>opened DEF Named
  <2>7. ASSUME NEW h \in DOMAIN opened PROVE Named(h)
    BY <2>2, <2>3, <2>4, <1>a, <1>b, <1>c, <1>opened DEF Named, Known, Inodes
  <2> QED BY <2>3, <2>5, <2>6, <2>7
<1>1. CASE UNCHANGED <<inoTable, fhTable, known, opened>>
  <2>1. Inodes
    BY <1>1, KeepInodes DEF Inodes
  <2>2. Known
    BY <1>1, <1>a DEF Known, inoTable
  <2> QED BY <1>1, <2>1, <2>2, <1>same
<1>2. ASSUME NEW path, NEW kind, Enter(path, kind), UNCHANGED <<fhTable, opened>>
      PROVE  Inodes /\ Handles /\ Known /\ \A h \in DOMAIN opened' : Named(h)
  BY <1>2, <1>entered, <1>same
<1>3. ASSUME NEW path, Intern(path), UNCHANGED <<fhTable, known, opened>>
      PROVE  Inodes /\ Handles /\ Known /\ \A h \in DOMAIN opened' : Named(h)
  <2>1. Inodes
    BY <1>3, InternFacts DEF Inodes, IInv
  <2>2. Known
    BY <1>3, <2>1, <1>a DEF Known, Inodes
  <2> QED BY <1>3, <2>1, <2>2, <1>same
<1>4. ASSUME NEW i \in DOMAIN known, NEW kind,
             AllocFh(PathFor(i), i, kind), UNCHANGED <<inoTable, known>>
      PROVE  Inodes /\ Handles /\ Known /\ \A h \in DOMAIN opened' : Named(h)
  <2>1. Inodes
    BY <1>4, KeepInodes DEF Inodes
  <2>2. known' = known /\ inodes' = inodes
    BY <1>4 DEF inoTable
  <2>3. Known
    BY <2>2, <1>a DEF Known
  <2>4. PathFor(i) = IF i = 1 THEN Root ELSE inodes'[i]
    BY <2>2 DEF PathFor
  <2> QED BY <1>4, <2>1, <2>2, <2>3, <2>4, <1>opened
<1>5. ASSUME NEW h, fhs' = Without(fhs, h), opened' = Without(opened, h),
             UNCHANGED <<inoTable, next_fh, known>>
      PROVE  Inodes /\ Handles /\ Known /\ \A g \in DOMAIN opened' : Named(g)
  <2>1. Inodes
    BY <1>5, KeepInodes DEF Inodes
  <2>2. known' = known /\ inodes' = inodes /\ next_fh' = next_fh
    BY <1>5 DEF inoTable
  <2>3. /\ DOMAIN fhs' = DOMAIN fhs \ {h} /\ DOMAIN opened' = DOMAIN opened \ {h}
        /\ \A g \in DOMAIN fhs : g # h => fhs'[g] = fhs[g]
        /\ \A g \in DOMAIN opened : g # h => opened'[g] = opened[g]
    BY <1>5 DEF Without
  <2>4. Handles
    BY <2>2, <2>3, <1>c DEF Handles
  <2> QED BY <2>1, <2>2, <2>3, <2>4, <1>a, <1>b, <1>c DEF Known, Named
<1>6. ASSUME NEW path, NEW kind, Enter(path, kind), AllocFh(path, Ino(path), kind)
      PROVE  Inodes /\ Handles /\ Known /\ \A h \in DOMAIN opened' : Named(h)
  <2>1. /\ Inodes /\ Known /\ Ino(path) \in DOMAIN known'
        /\ path = IF Ino(path) = 1 THEN Root ELSE inodes'[Ino(path)]
    BY <1>6, <1>entered
  <2> QED BY <1>6, <2>1, <1>opened
<1> QED
  BY <1>1, <1>2, <1>3, <1>4, <1>5, <1>6 DEF TableStep

-------------------------------------------------------------------------------
LEMMA InitTables == Init => IInv
BY DEF Init, IInv, NumbersOK, TablesInverse, KernelView, PathFor, Nothing, Root

LEMMA StepTables == IInv /\ [Next]_vars => IInv' /\ NumbersStable
<1> SUFFICES ASSUME IInv, [Next]_vars PROVE IInv' /\ NumbersStable
  OBVIOUS
<1>1. TableStep
  <2>1. CASE Next
    BY <2>1, NextIsTableStep
  <2>2. CASE UNCHANGED vars
    BY <2>2 DEF vars, TableStep
  <2> QED BY <2>1, <2>2
<1> QED BY <1>1, TableStepFacts

\* The two directions of the inode table are inverse to each other, for any
\* number of inodes, names and host edits (imp.rs:165-177).
THEOREM TablesInverseCorrect == Spec => []TablesInverse
<1>1. IInv => TablesInverse
  BY DEF IInv
<1> QED BY <1>1, InitTables, StepTables, PTL DEF Spec

\* The agent knows every number the kernel may ask about: its ENOENT and EBADF
\* answers for unknown numbers are never given (imp.rs:157-184, 406-456).
THEOREM KernelViewCorrect == Spec => []KernelView
<1>1. IInv => KernelView
  BY DEF IInv
<1> QED BY <1>1, InitTables, StepTables, PTL DEF Spec

\* No number and no path ever changes its meaning (imp.rs:165-184).
THEOREM NumbersStableCorrect == Spec => NumbersStableAlways
<1>1. IInv /\ [Next]_vars => [NumbersStable]_vars
  BY StepTables
<1> QED BY <1>1, InitTables, StepTables, PTL DEF Spec, NumbersStableAlways
-------------------------------------------------------------------------------
\* Errors.

\* While a request takes more steps the last answer is not an error.
Answering == ~Idle => reply.tag = "pending"

\* Every step answers with an error only when it leaves the tables alone.
LEMMA StepTraces ==
    ASSUME Answering, [Next]_vars
    PROVE  Answering' /\ FailureLeavesNoTrace
<1> USE DEF Answering, FailureLeavesNoTrace, Answer, Settle, Is, Idle, Done, Unanswered, Failed
<1>1. ASSUME NEW i \in DOMAIN known, NEW n \in Name, Lookup(i, n)
      PROVE  Answering' /\ FailureLeavesNoTrace
  BY <1>1 DEF Lookup, fhTable
<1>2. ASSUME NEW i \in DOMAIN known, NEW n \in Name, CreateFile(i, n)
      PROVE  Answering' /\ FailureLeavesNoTrace
  BY <1>2 DEF CreateFile
<1>3. ASSUME NEW i \in DOMAIN known, NEW n \in Name, MakeDir(i, n)
      PROVE  Answering' /\ FailureLeavesNoTrace
  BY <1>3 DEF MakeDir, fhTable
<1>4. ASSUME NEW i \in DOMAIN known, NEW n \in Name, Unlink(i, n) \/ RemoveDir(i, n)
      PROVE  Answering' /\ FailureLeavesNoTrace
  BY <1>4 DEF Unlink, RemoveDir
<1>5. ASSUME NEW i \in DOMAIN known, NEW n \in Name, NEW j \in DOMAIN known, NEW m \in Name,
             RenameEntry(i, n, j, m)
      PROVE  Answering' /\ FailureLeavesNoTrace
  BY <1>5 DEF RenameEntry
<1>6. ASSUME NEW i \in DOMAIN known, Getattr(i)
      PROVE  Answering' /\ FailureLeavesNoTrace
  BY <1>6 DEF Getattr
<1>7. ASSUME NEW i \in DOMAIN known, Opendir(i) \/ Open(i)
      PROVE  Answering' /\ FailureLeavesNoTrace
  BY <1>7 DEF Opendir, Open
<1>8. ASSUME NEW i \in DOMAIN known, NEW size \in 0..MaxSize \union {None}, Setattr(i, size)
      PROVE  Answering' /\ FailureLeavesNoTrace
  BY <1>8 DEF Setattr
<1>9. ASSUME NEW h \in DOMAIN opened, Releasedir(h) \/ Release(h)
      PROVE  Answering' /\ FailureLeavesNoTrace
  BY <1>9 DEF Releasedir, Release
<1>10. ASSUME NEW h \in DOMAIN opened, NEW at \in 0..(MaxSize - 1),
              ReadData(h, at) \/ \E b \in Block : WriteData(h, at, b)
       PROVE  Answering' /\ FailureLeavesNoTrace
  BY <1>10 DEF ReadData, WriteData
<1>11. ASSUME SetattrStat \/ Readdir \/ ReaddirEnd \/ Reconnect
       PROVE  Answering' /\ FailureLeavesNoTrace
  BY <1>11 DEF SetattrStat, Readdir, ReaddirEnd, Reconnect
<1>12. ASSUME ReaddirEntry
       PROVE  Answering' /\ FailureLeavesNoTrace
  BY <1>12 DEF ReaddirEntry
<1>13. ASSUME NEW p, Land(p) \/ HostEdit(p)
       PROVE  Answering' /\ FailureLeavesNoTrace
  BY <1>13 DEF Land, HostEdit, Noticed
<1>14. ASSUME UNCHANGED vars
       PROVE  Answering' /\ FailureLeavesNoTrace
  BY <1>14 DEF vars
<1> QED
  BY <1>1, <1>2, <1>3, <1>4, <1>5, <1>6, <1>7, <1>8, <1>9, <1>10, <1>11, <1>12, <1>13, <1>14
     DEF Next

\* A request that fails, for the host's reasons or the link's, gives out no number
\* and closes no handle (imp.rs:231-572).
THEOREM FailureLeavesNoTraceCorrect == Spec => FailureLeavesNoTraceAlways
<1>1. Init => Answering
  BY DEF Init, Answering, Idle
<1>2. Answering /\ [Next]_vars => Answering' /\ [FailureLeavesNoTrace]_vars
  BY StepTraces
<1> QED BY <1>1, <1>2, PTL DEF Spec, FailureLeavesNoTraceAlways
-------------------------------------------------------------------------------
\* A read-only mount.

\* No write is in flight.
Quiet == \A p \in DOMAIN fs : fs[p] # Dir => fs[p].flight = {}

\* A method that only looks leaves the directory alone (core lib.rs:180-225).
LEMMA LookingKeeps ==
    ASSUME NEW f, NEW p
    PROVE  Stat(f, p).fs = f /\ List(f, p).fs = f
<1>1. \A found, otherwise : Checked(f, p, found, otherwise).fs = f
  BY DEF Checked, Refused, Result
<1>2. OnExisting(f, p).fs = f
  BY <1>1 DEF OnExisting
<1> QED BY <1>2 DEF Stat, List, Result, Refused

LEMMA ReadingKeeps ==
    ASSUME NEW f, NEW p, NEW at
    PROVE  Read(f, p, at).fs = f
<1>1. OnExisting(f, p).fs = f
  BY DEF OnExisting, Checked, Refused, Result
<1> QED BY <1>1 DEF Read, Result, Refused

\* So does, on a read-only mount, one that would change it (core lib.rs:226-286).
LEMMA ReadOnlyKeeps ==
    ASSUME ReadOnly, NEW f, NEW p
    PROVE  /\ Create(f, p).fs = f /\ Mkdir(f, p).fs = f
           /\ Remove(f, p).fs = f /\ Rmdir(f, p).fs = f
<1>1. \A o : Writable(f, o).fs = f
  BY DEF Writable, Refused, Result
<1> QED BY <1>1 DEF Create, Mkdir, Remove, Rmdir

LEMMA ReadOnlyKeepsData ==
    ASSUME ReadOnly, NEW f, NEW p, NEW x, NEW b
    PROVE  /\ Rename(f, p, x).fs = f
           /\ Truncate(f, p, x).fs = f
           /\ Write(f, p, x, b).fs = f
<1>1. \A o : Writable(f, o).fs = f
  BY DEF Writable, Refused, Result
<1> QED BY <1>1 DEF Rename, Truncate, Write

\* A call that changes nothing changes nothing when it is lost either.
LEMMA CallKeeps ==
    ASSUME NEW o, o.fs = fs, NEW r \in Rpc(o)
    PROVE  r.fs = fs
BY DEF Rpc

\* A step of the agent leaves a read-only directory alone, one of the host
\* starts no write.
LEMMA StepReadOnly ==
    ASSUME ReadOnly, Quiet, [Next]_vars
    PROVE  Quiet' /\ (UNCHANGED fs \/ \E p \in Path : HostEdit(p))
<1>1. UNCHANGED fs => Quiet'
  BY DEF Quiet
<1>2. ASSUME NEW i \in DOMAIN known, NEW n \in Name,
             Lookup(i, n) \/ CreateFile(i, n) \/ MakeDir(i, n) \/ Unlink(i, n) \/ RemoveDir(i, n)
      PROVE  UNCHANGED fs
  BY <1>2, LookingKeeps, ReadOnlyKeeps, CallKeeps
     DEF Lookup, CreateFile, MakeDir, Unlink, RemoveDir, Answer, Settle
<1>3. ASSUME NEW i \in DOMAIN known, NEW n \in Name, NEW j \in DOMAIN known, NEW m \in Name,
             RenameEntry(i, n, j, m)
      PROVE  UNCHANGED fs
  <2> DEFINE r == Rename(fs, Below(i, n), Below(j, m))
  <2>1. PICK o \in Rpc(r) : fs' = o.fs
    BY <1>3 DEF RenameEntry, Answer, Settle
  <2>2. r.fs = fs
    BY ReadOnlyKeepsData
  <2> HIDE DEF r
  <2> QED BY <2>1, <2>2, CallKeeps
<1>4. ASSUME NEW i \in DOMAIN known, Getattr(i) PROVE UNCHANGED fs
  BY <1>4, LookingKeeps, CallKeeps DEF Getattr, Answer, Settle
<1>5. ASSUME NEW i \in DOMAIN known, Opendir(i) \/ Open(i) PROVE UNCHANGED fs
  BY <1>5 DEF Opendir, Open
<1>6. ASSUME NEW i \in DOMAIN known, NEW size \in 0..MaxSize \union {None}, Setattr(i, size)
      PROVE  UNCHANGED fs
  <2> DEFINE call == Truncate(fs, PathFor(i), size)
             outcomes == IF size = None THEN {[res |-> Done, fs |-> fs, link |-> link]}
                         ELSE Rpc(call)
  <2>1. PICK o \in outcomes :
           IF Is(o, "Ok")
           THEN /\ Settle(o)
                /\ pend' = [op |-> "setattr", ino |-> i, size |-> size, quiet |-> TRUE]
                /\ reply' = Unanswered
           ELSE Answer(o) /\ UNCHANGED pend
    BY <1>6 DEF Setattr
  <2>2. fs' = o.fs
    BY <2>1 DEF Answer, Settle
  <2>3. call.fs = fs
    BY ReadOnlyKeepsData
  <2> HIDE DEF call
  <2>4. o.fs = fs
    BY <2>3, CallKeeps
  <2> QED BY <2>2, <2>4
<1>7. ASSUME NEW h \in DOMAIN opened, Releasedir(h) \/ Release(h) PROVE UNCHANGED fs
  BY <1>7 DEF Releasedir, Release
<1>8. ASSUME NEW h \in DOMAIN opened, NEW at \in 0..(MaxSize - 1),
             ReadData(h, at) \/ \E b \in Block : WriteData(h, at, b)
      PROVE  UNCHANGED fs
  <2>1. CASE ReadData(h, at)
    <3> DEFINE call == Read(fs, fhs[h], at)
    <3>1. PICK o \in Rpc(call) : fs' = o.fs
      BY <2>1 DEF ReadData, Answer, Settle
    <3>2. call.fs = fs
      BY ReadingKeeps
    <3> HIDE DEF call
    <3> QED BY <3>1, <3>2, CallKeeps
  <2>2. ASSUME NEW b \in Block, WriteData(h, at, b) PROVE UNCHANGED fs
    <3> DEFINE call == Write(fs, fhs[h], at, b)
    <3>1. PICK o \in Rpc(call) : fs' = o.fs
      BY <2>2 DEF WriteData, Answer, Settle
    <3>2. call.fs = fs
      BY ReadOnlyKeepsData
    <3> HIDE DEF call
    <3> QED BY <3>1, <3>2, CallKeeps
  <2> QED BY <1>8, <2>1, <2>2
<1>9. ASSUME SetattrStat \/ Readdir PROVE UNCHANGED fs
  BY <1>9, LookingKeeps, CallKeeps DEF SetattrStat, Readdir, Answer, Settle
<1>10. ASSUME ReaddirEntry \/ ReaddirEnd \/ Reconnect PROVE UNCHANGED fs
  BY <1>10 DEF ReaddirEntry, ReaddirEnd, Reconnect
<1>11. ASSUME NEW p \in DOMAIN fs PROVE ~Land(p)
  BY <1>11 DEF Land, Quiet, IsFile
<1>12. ASSUME NEW p \in Path, HostEdit(p) PROVE Quiet'
  <2>1. CASE fs' = Cut(fs, p)
    BY <2>1 DEF Quiet, Cut
  <2>2. CASE fs' = Put(fs, p, Dir)
    BY <2>2 DEF Quiet, Put
  <2>3. ASSUME NEW d, ~IsDir(fs, p),
               fs' = Put(fs, p, File(d, IF p \in DOMAIN fs THEN fs[p].flight ELSE {}))
        PROVE  Quiet'
    <3>1. p \in DOMAIN fs => fs[p].flight = {}
      BY <2>3 DEF Quiet, IsDir
    <3>2. fs' = Put(fs, p, File(d, {}))
      BY <2>3, <3>1
    <3> QED BY <3>2 DEF Quiet, Put, File
  <2> QED BY <1>12, <2>1, <2>2, <2>3 DEF HostEdit
<1>13. ASSUME UNCHANGED vars PROVE UNCHANGED fs
  BY <1>13 DEF vars
<1> QED
  BY <1>1, <1>2, <1>3, <1>4, <1>5, <1>6, <1>7, <1>8, <1>9, <1>10, <1>11, <1>12, <1>13 DEF Next

\* Whatever the guest asks, and whatever is lost on the way, a read-only mount that
\* starts without writes in flight is changed by the host alone (core lib.rs:169-175).
THEOREM ReadOnlyCorrect ==
    ReadOnly /\ (\A p \in DOMAIN InitFs : InitFs[p] # Dir => InitFs[p].flight = {}) =>
       (Spec => [][UNCHANGED fs \/ \E p \in Path : HostEdit(p)]_vars)
<1> SUFFICES ASSUME ReadOnly, \A p \in DOMAIN InitFs : InitFs[p] # Dir => InitFs[p].flight = {}
    PROVE  Spec => [][UNCHANGED fs \/ \E p \in Path : HostEdit(p)]_vars
  OBVIOUS
<1>1. Init => Quiet
  BY DEF Init, Quiet
<1>2. Quiet /\ [Next]_vars => Quiet' /\ [UNCHANGED fs \/ \E p \in Path : HostEdit(p)]_vars
  BY StepReadOnly
<1> QED BY <1>1, <1>2, PTL DEF Spec
-------------------------------------------------------------------------------
\* Types.

Kind == {"dir", "file"}

InodesTyped ==
    /\ next_ino \in 2..(MaxIno + 1) /\ DOMAIN inodes = 2..(next_ino - 1)
    /\ Ran(inodes) \subseteq Path /\ Ran(rev) \subseteq 2..(next_ino - 1)

HandlesTyped ==
    /\ next_fh \in 1..(MaxFh + 1) /\ DOMAIN fhs \subseteq 1..(next_fh - 1)
    /\ Ran(fhs) \subseteq Path

TablesTyped == InodesTyped /\ HandlesTyped /\ Ran(known) \subseteq Kind

ScanTyped  == scan \in Scan \union {None} /\ (scan # None => Holds(scan.fh, "dir"))
PendTyped  == pend \in Setting \union Reading \union {None}
ReplyTyped == reply.tag \in Tag \union (IF Idle THEN {} ELSE {"pending"})
HostTyped  == Tree(fs) /\ link \in {"up", "down"}

LEMMA TypeParts == TypeOK <=> TablesTyped /\ ScanTyped /\ PendTyped /\ ReplyTyped /\ HostTyped
BY DEF TypeOK, TablesTyped, InodesTyped, HandlesTyped, ScanTyped, PendTyped, ReplyTyped,
       HostTyped, Kind, Tag

\* A table step for paths within the bounds.
TypedStep ==
    \/ UNCHANGED <<inoTable, fhTable, known>>
    \/ \E path \in Path, kind \in Kind : Enter(path, kind) /\ UNCHANGED fhTable
    \/ \E path \in Path : Intern(path) /\ UNCHANGED <<fhTable, known>>
    \/ \E path \in Path : \E i, kind : AllocFh(path, i, kind) /\ UNCHANGED <<inoTable, known>>
    \/ \E h : fhs' = Without(fhs, h) /\ UNCHANGED <<inoTable, next_fh, known>>
    \/ \E path \in Path, kind \in Kind : Enter(path, kind) /\ \E i : AllocFh(path, i, kind)

LEMMA InternTyped ==
    ASSUME InodesTyped, NEW path \in Path, Intern(path)
    PROVE  InodesTyped'
<1>1. CASE UNCHANGED inoTable
  BY <1>1 DEF InodesTyped, inoTable, Ran
<1>2. CASE /\ next_ino <= MaxIno
           /\ inodes' = Put(inodes, next_ino, path)
           /\ rev' = Put(rev, path, next_ino)
           /\ next_ino' = next_ino + 1
  <2>1. /\ MaxIno \in Nat /\ next_ino \in 2..(MaxIno + 1) /\ DOMAIN inodes = 2..(next_ino - 1)
        /\ \A i \in DOMAIN inodes : inodes[i] \in Path
        /\ \A p \in DOMAIN rev : rev[p] \in 2..(next_ino - 1)
    BY AgentAssumption DEF InodesTyped, Ran
  <2>2. /\ DOMAIN inodes' = DOMAIN inodes \union {next_ino}
        /\ \A i \in DOMAIN inodes' : inodes'[i] = IF i = next_ino THEN path ELSE inodes[i]
    BY <1>2 DEF Put
  <2>3. \A p \in DOMAIN rev' : rev'[p] = next_ino \/ (p \in DOMAIN rev /\ rev'[p] = rev[p])
    BY <1>2 DEF Put
  <2>4. next_ino' \in 2..(MaxIno + 1) /\ DOMAIN inodes' = 2..(next_ino' - 1)
    BY <1>2, <2>1, <2>2
  <2>5. \A i \in DOMAIN inodes' : inodes'[i] \in Path
    BY <2>1, <2>2
  <2>6. \A p \in DOMAIN rev' : rev'[p] \in 2..(next_ino' - 1)
    BY <1>2, <2>1, <2>3
  <2> QED BY <2>4, <2>5, <2>6 DEF InodesTyped, Ran
<1> QED BY <1>1, <1>2 DEF Intern

LEMMA AllocTyped ==
    ASSUME HandlesTyped, NEW path \in Path, NEW i, NEW kind, AllocFh(path, i, kind)
    PROVE  HandlesTyped'
<1>1. /\ next_fh <= MaxFh /\ fhs' = Put(fhs, next_fh, path) /\ next_fh' = next_fh + 1
  BY DEF AllocFh
<1>2. /\ MaxFh \in Nat /\ next_fh \in 1..(MaxFh + 1) /\ DOMAIN fhs \subseteq 1..(next_fh - 1)
      /\ \A h \in DOMAIN fhs : fhs[h] \in Path
  BY AgentAssumption DEF HandlesTyped, Ran
<1>3. /\ DOMAIN fhs' = DOMAIN fhs \union {next_fh}
      /\ \A h \in DOMAIN fhs' : fhs'[h] = IF h = next_fh THEN path ELSE fhs[h]
  BY <1>1 DEF Put
<1>4. next_fh' \in 1..(MaxFh + 1) /\ DOMAIN fhs' \subseteq 1..(next_fh' - 1)
  BY <1>1, <1>2, <1>3
<1>5. \A h \in DOMAIN fhs' : fhs'[h] \in Path
  BY <1>2, <1>3
<1> QED BY <1>4, <1>5 DEF HandlesTyped, Ran

LEMMA TypedStepFacts ==
    ASSUME TablesTyped, TypedStep
    PROVE  TablesTyped'
<1>1. UNCHANGED inoTable => InodesTyped'
  BY DEF TablesTyped, InodesTyped, inoTable, Ran
<1>2. UNCHANGED fhTable => HandlesTyped'
  BY DEF TablesTyped, HandlesTyped, fhTable, Ran
<1>3. UNCHANGED known => (Ran(known) \subseteq Kind)'
  BY DEF TablesTyped, Ran
<1>4. ASSUME NEW path \in Path, NEW kind \in Kind, Enter(path, kind)
      PROVE  InodesTyped' /\ (Ran(known) \subseteq Kind)'
  <2>1. \A j \in DOMAIN known' : known'[j] = kind \/ (j \in DOMAIN known /\ known'[j] = known[j])
    BY <1>4 DEF Enter, Put
  <2>2. \A j \in DOMAIN known : known[j] \in Kind
    BY DEF TablesTyped, Ran
  <2>3. \A j \in DOMAIN known' : known'[j] \in Kind
    BY <2>1, <2>2
  <2> QED BY <1>4, <2>3, InternTyped DEF Enter, TablesTyped, Ran
<1>5. ASSUME NEW h, fhs' = Without(fhs, h), UNCHANGED next_fh
      PROVE  HandlesTyped'
  <2>1. DOMAIN fhs' \subseteq DOMAIN fhs /\ \A g \in DOMAIN fhs' : fhs'[g] = fhs[g]
    BY <1>5 DEF Without
  <2> QED BY <1>5, <2>1 DEF TablesTyped, HandlesTyped, Ran
<1>6. ASSUME NEW path \in Path, Intern(path) PROVE InodesTyped'
  BY <1>6, InternTyped DEF TablesTyped
<1>7. ASSUME NEW path \in Path, NEW i, NEW kind, AllocFh(path, i, kind) PROVE HandlesTyped'
  BY <1>7, AllocTyped DEF TablesTyped
<1> QED BY <1>1, <1>2, <1>3, <1>4, <1>5, <1>6, <1>7 DEF TypedStep, TablesTyped

-------------------------------------------------------------------------------
\* Reading a directory, and the two calls of setattr.

\* What the agent would list now for the handle the kernel reads, and the names
\* that make paths within the bounds there.
Everything == <<".", "..">> \o Listed(fs, fhs[scan.fh])
Fit == {".", ".."} \union {n \in Name : Append(fhs[scan.fh], n) \in Path}

\* Between requests the kernel has read what comes before its offset.
ScanOK ==
    scan # None /\ scan.quiet =>
       /\ scan.offset <= Len(Everything)
       /\ scan.got = SubSeq(Everything, 1, scan.offset)
       /\ scan.eof => scan.offset = Len(Everything)

\* Within one the agent has what comes after it to hand over.
ReadOK ==
    ~Idle /\ pend.op = "readdir" =>
       /\ scan # None /\ pend.ino = opened[scan.fh].ino /\ pend.rest \in Seq(Fit)
       /\ scan.quiet => /\ ~scan.eof
                        /\ pend.rest = SubSeq(Everything, scan.offset + 1, Len(Everything))

\* Between the calls of setattr the file has the size that was asked for.
SetOK ==
    ~Idle /\ pend.op = "setattr" =>
       /\ pend.ino \in DOMAIN known
       /\ pend.size # None /\ pend.quiet =>
             /\ IsFile(fs, PathFor(pend.ino))
             /\ Len(fs[PathFor(pend.ino)].data) = pend.size

Rest == ScanTyped /\ PendTyped /\ ReplyTyped /\ HostTyped /\ ScanOK /\ ReadOK /\ SetOK
Inv  == IInv /\ TablesTyped /\ Rest

LEMMA ListingTyped ==
    ASSUME NEW f, Tree(f), NEW p
    PROVE  LET all == <<".", "..">> \o Listed(f, p)
               fit == {".", ".."} \union {n \in Name : Append(p, n) \in Path}
           IN  all \in Seq(fit) /\ Len(all) \in Nat /\ fit \subseteq Entry
<1> DEFINE dots == <<".", "..">>
           fit == {".", ".."} \union {n \in Name : Append(p, n) \in Path}
<1>1. Listed(f, p) \in Seq(Name \intersect Entries(f, p))
  BY InOrderFacts DEF Listed
<1>2. Name \intersect Entries(f, p) \subseteq fit
  BY DEF Entries, Tree
<1>3. Listed(f, p) \in Seq(fit)
  BY <1>1, <1>2
<1>4. dots \in Seq(fit)
  OBVIOUS
<1>5. fit \subseteq Entry
  BY DEF Entry
<1> HIDE DEF dots, fit
<1>6. dots \o Listed(f, p) \in Seq(fit)
  BY <1>3, <1>4, ConcatProperties
<1> QED BY <1>5, <1>6 DEF dots, fit

LEMMA EverythingTyped ==
    ASSUME Tree(fs)
    PROVE  Everything \in Seq(Fit) /\ Len(Everything) \in Nat /\ Fit \subseteq Entry
BY ListingTyped DEF Everything, Fit

\* Reading on by one element.
LEMMA ReadOn ==
    ASSUME NEW S, NEW s \in Seq(S), NEW k \in Nat
    PROVE  /\ SubSeq(s, k + 1, Len(s)) \in Seq(S)
           /\ k <= Len(s) => /\ SubSeq(s, 1, k) \in Seq(S) /\ Len(SubSeq(s, 1, k)) = k
           /\ SubSeq(s, k + 1, Len(s)) = <<>> => k >= Len(s)
           /\ SubSeq(s, k + 1, Len(s)) # <<>> =>
                 /\ k + 1 <= Len(s)
                 /\ Tail(SubSeq(s, k + 1, Len(s))) = SubSeq(s, (k + 1) + 1, Len(s))
                 /\ Append(SubSeq(s, 1, k), Head(SubSeq(s, k + 1, Len(s)))) = SubSeq(s, 1, k + 1)
<1> DEFINE r == SubSeq(s, k + 1, Len(s))
           t == SubSeq(s, (k + 1) + 1, Len(s))
           a == SubSeq(s, 1, k)
           b == SubSeq(s, 1, k + 1)
<1>1. Len(s) \in Nat /\ \A i \in 1..Len(s) : s[i] \in S
  OBVIOUS
<1>2. /\ r \in Seq(S)
      /\ Len(r) = IF k + 1 <= Len(s) THEN Len(s) - (k + 1) + 1 ELSE 0
      /\ \A i \in 1..(Len(s) - (k + 1) + 1) : r[i] = s[(k + 1) + i - 1]
  BY <1>1, SubSeqProperties
<1>3. /\ t \in Seq(S)
      /\ Len(t) = IF (k + 1) + 1 <= Len(s) THEN Len(s) - ((k + 1) + 1) + 1 ELSE 0
      /\ \A i \in 1..(Len(s) - ((k + 1) + 1) + 1) : t[i] = s[((k + 1) + 1) + i - 1]
  BY <1>1, SubSeqProperties
<1>4. ASSUME k <= Len(s)
      PROVE  a \in Seq(S) /\ Len(a) = k /\ \A i \in 1..k : a[i] = s[i]
  <2>1. \A i \in 1..k : s[i] \in S
    BY <1>1, <1>4
  <2>2. /\ a \in Seq(S) /\ Len(a) = IF 1 <= k THEN k - 1 + 1 ELSE 0
        /\ \A i \in 1..(k - 1 + 1) : a[i] = s[1 + i - 1]
    BY <2>1, SubSeqProperties
  <2> QED BY <2>2
<1>5. ASSUME k + 1 <= Len(s)
      PROVE  b \in Seq(S) /\ Len(b) = k + 1 /\ \A i \in 1..(k + 1) : b[i] = s[i]
  <2>1. \A i \in 1..(k + 1) : s[i] \in S
    BY <1>1, <1>5
  <2>2. /\ b \in Seq(S) /\ Len(b) = IF 1 <= k + 1 THEN (k + 1) - 1 + 1 ELSE 0
        /\ \A i \in 1..((k + 1) - 1 + 1) : b[i] = s[1 + i - 1]
    BY <2>1, SubSeqProperties
  <2> QED BY <2>2
<1> HIDE DEF r, t, a, b
<1>6. ASSUME r = <<>> PROVE k >= Len(s)
  BY <1>1, <1>2, <1>6
<1>7. ASSUME r # <<>> PROVE k + 1 <= Len(s) /\ Tail(r) = t /\ Append(a, Head(r)) = b
  <2>1. Len(r) # 0
    BY <1>2, <1>7
  <2>2. k + 1 <= Len(s) /\ k <= Len(s) /\ Len(r) = Len(s) - k
    BY <1>1, <1>2, <2>1
  <2>3. \A i \in 1..(Len(s) - k) : r[i] = s[k + i]
    BY <1>1, <1>2, <2>2
  <2>4. /\ Head(r) = s[k + 1] /\ Head(r) \in S
        /\ Tail(r) \in Seq(S) /\ Len(Tail(r)) = Len(r) - 1
        /\ \A i \in 1..(Len(r) - 1) : Tail(r)[i] = r[i + 1]
    BY <1>1, <1>2, <1>7, <2>2, <2>3, HeadTailProperties
  <2>5. Len(t) = Len(s) - (k + 1) /\ \A i \in 1..(Len(s) - (k + 1)) : t[i] = s[(k + 1) + i]
    BY <1>1, <1>3, <2>2
  <2>6. ASSUME NEW i \in 1..(Len(s) - (k + 1)) PROVE Tail(r)[i] = t[i]
    <3>1. i \in 1..(Len(r) - 1) /\ i + 1 \in 1..(Len(s) - k) /\ k + (i + 1) = (k + 1) + i
      BY <1>1, <2>2
    <3> QED BY <3>1, <2>3, <2>4, <2>5
  <2>7. Len(Tail(r)) = Len(t)
    BY <1>1, <2>2, <2>4, <2>5
  <2>8. Tail(r) = t
    BY <1>3, <2>4, <2>5, <2>6, <2>7, SeqEqual
  <2>9. /\ Append(a, Head(r)) \in Seq(S) /\ Len(Append(a, Head(r))) = k + 1
        /\ \A i \in 1..k : Append(a, Head(r))[i] = a[i]
        /\ Append(a, Head(r))[k + 1] = s[k + 1]
    BY <1>4, <2>2, <2>4, AppendProperties
  <2>10. \A i \in 1..(k + 1) : Append(a, Head(r))[i] = b[i]
    BY <1>4, <1>5, <2>2, <2>9
  <2>11. Append(a, Head(r)) = b
    BY <1>5, <2>2, <2>9, <2>10, SeqEqual
  <2> QED BY <2>2, <2>8, <2>11
<1> QED BY <1>2, <1>4, <1>6, <1>7 DEF r, t, a, b

\* What the invariant says of the numbers that are in use.
LEMMA InUse ==
    ASSUME Inv
    PROVE  /\ \A i \in DOMAIN known : i \in Nat /\ PathFor(i) \in Path /\ known[i] \in Kind
           /\ \A h \in DOMAIN opened :
                 /\ h \in Nat /\ h < next_fh /\ fhs[h] \in Path
                 /\ fhs[h] = PathFor(opened[h].ino) /\ opened[h].ino \in DOMAIN known
           /\ Tree(fs)
           /\ scan # None =>
                 scan \in Scan /\ scan.fh \in DOMAIN opened /\ opened[scan.fh].kind = "dir"
           /\ next_fh \in Nat
<1>1. ASSUME NEW i \in DOMAIN known PROVE i \in Nat /\ PathFor(i) \in Path /\ known[i] \in Kind
  <2>1. i = 1 \/ (i \in DOMAIN inodes /\ inodes[i] \in Path /\ i \in Nat)
    BY DEF Inv, IInv, NumbersOK, KernelView, TablesTyped, InodesTyped, Ran
  <2>2. Root \in Path
    BY RootUnderNothing, EmptySeq
  <2> QED BY <2>1, <2>2 DEF PathFor, Inv, TablesTyped, Ran
<1>2. ASSUME NEW h \in DOMAIN opened
      PROVE  /\ h \in Nat /\ h < next_fh /\ fhs[h] \in Path
             /\ fhs[h] = PathFor(opened[h].ino) /\ opened[h].ino \in DOMAIN known
  BY DEF Inv, IInv, NumbersOK, KernelView, TablesTyped, HandlesTyped, Ran
<1>3. /\ Tree(fs)
      /\ scan # None =>
            scan \in Scan /\ scan.fh \in DOMAIN opened /\ opened[scan.fh].kind = "dir"
      /\ next_fh \in Nat
  BY DEF Inv, IInv, NumbersOK, Rest, HostTyped, ScanTyped, Holds
<1> QED BY <1>1, <1>2, <1>3

\* The handles that are open stay as they are.
HandlesKept ==
    \A h \in DOMAIN opened : h \in DOMAIN opened' /\ opened'[h] = opened[h] /\ fhs'[h] = fhs[h]

\* What a change of the directory does to a scan: nothing, or it is noticed.
LEMMA ScanKept ==
    ASSUME Inv, Tree(fs)', HandlesKept, Watch \/ UNCHANGED <<scan, fs>>
    PROVE  /\ ScanTyped' /\ ScanOK' /\ (scan' # None <=> scan # None)
           /\ scan # None =>
                 /\ scan'.fh = scan.fh /\ scan'.offset = scan.offset /\ scan'.eof = scan.eof
                 /\ opened'[scan'.fh] = opened[scan.fh] /\ Fit' = Fit
                 /\ scan'.quiet => scan.quiet /\ Everything' = Everything
<1>1. CASE scan = None
  BY <1>1 DEF Watch, ScanTyped, ScanOK
<1>2. CASE scan # None
  <2> DEFINE h == scan.fh
             p == fhs[h]
  <2>1. scan \in Scan /\ h \in DOMAIN opened /\ opened[h].kind = "dir" /\ p \in Path /\ Tree(fs)
    BY <1>2, InUse
  <2>2. h \in DOMAIN opened' /\ opened'[h] = opened[h] /\ fhs'[h] = p
    BY <2>1 DEF HandlesKept
  <2>3. /\ scan' \in Scan /\ scan'.fh = h /\ scan'.offset = scan.offset
        /\ scan'.got = scan.got /\ scan'.eof = scan.eof
        /\ scan'.quiet => scan.quiet /\ Children(fs', p) = Children(fs, p)
    <3>1. CASE Watch
      <4> DEFINE same == Children(fs', p) = Children(fs, p)
      <4>1. scan' = [scan EXCEPT !.quiet = @ /\ same]
        BY <1>2, <3>1 DEF Watch
      <4>2. same \in BOOLEAN
        OBVIOUS
      <4> HIDE DEF same, h
      <4>3. /\ scan' \in Scan /\ scan'.fh = scan.fh /\ scan'.offset = scan.offset
            /\ scan'.got = scan.got /\ scan'.eof = scan.eof /\ scan'.quiet = (scan.quiet /\ same)
        BY <2>1, <4>1, <4>2 DEF Scan
      <4> QED BY <4>3 DEF same, h
    <3>2. CASE UNCHANGED <<scan, fs>>
      BY <3>2, <2>1
    <3> QED BY <3>1, <3>2
  <2>4. scan' # None
    BY <2>3, AgentAssumption
  <2>5. ASSUME scan'.quiet PROVE scan.quiet /\ Everything' = Everything
    <3>1. Listed(fs', p) = Listed(fs, p)
      BY <2>1, <2>3, <2>5, SameListed
    <3> QED BY <2>2, <2>3, <2>5, <3>1 DEF Everything
  <2>6. Fit' = Fit
    BY <2>2, <2>3 DEF Fit
  <2>7. ScanTyped'
    BY <2>1, <2>2, <2>3 DEF ScanTyped, Holds
  <2>8. ScanOK'
    BY <1>2, <2>3, <2>5 DEF Inv, Rest, ScanOK
  <2> QED BY <1>2, <2>2, <2>3, <2>4, <2>5, <2>6, <2>7, <2>8
<1> QED BY <1>1, <1>2

\* A call is answered as its method says, or with Io and the link lost.
LEMMA RpcFacts ==
    ASSUME Tree(fs), link \in {"up", "down"}, NEW o, Sound(o), NEW r \in Rpc(o)
    PROVE  /\ r.res.tag \in Tag /\ Tree(r.fs) /\ r.link \in {"up", "down"}
           /\ Is(r, "Ok") => r.res = o.res /\ r.fs = o.fs /\ Is(o, "Ok")
<1> DEFINE lost(f) == [res |-> Failed("Io"), fs |-> f, link |-> "down"]
<1>1. r = [res |-> o.res, fs |-> o.fs, link |-> "up"] \/ r = lost(fs) \/ r = lost(o.fs)
  BY DEF Rpc
<1>2. Failed("Io").tag = "Io"
  BY DEF Failed
<1> QED BY <1>1, <1>2 DEF Sound, Tag, Is

\* A request that is one call, whatever it does to the tables.
LEMMA CallStep ==
    ASSUME Inv, Idle, NEW o, Sound(o), NEW r \in Rpc(o), Answer(r), UNCHANGED pend, HandlesKept
    PROVE  Rest'
<1>1. /\ r.res.tag \in Tag /\ Tree(r.fs) /\ r.link \in {"up", "down"}
  BY RpcFacts DEF Inv, Rest, HostTyped
<1>2. fs' = r.fs /\ link' = r.link /\ reply' = r.res /\ Watch
  BY DEF Answer, Settle
<1>3. ScanTyped' /\ ScanOK'
  BY <1>1, <1>2, ScanKept
<1>4. PendTyped' /\ ReadOK' /\ SetOK'
  BY DEF Idle, PendTyped, ReadOK, SetOK
<1> QED BY <1>1, <1>2, <1>3, <1>4 DEF Rest, ReplyTyped, HostTyped

LEMMA BelowPath ==
    ASSUME Inv, NEW i \in DOMAIN known, NEW n \in Name, May(Below(i, n))
    PROVE  Below(i, n) \in Path /\ Below(i, n) # Root
BY InUse, AppendPath DEF May, Below

LEMMA SameHandles ==
    ASSUME UNCHANGED <<fhs, opened>>
    PROVE  HandlesKept
BY DEF HandlesKept

LEMMA AllocKeeps ==
    ASSUME Inv, NEW path, NEW i, NEW kind, AllocFh(path, i, kind)
    PROVE  HandlesKept
<1>1. \A h \in DOMAIN opened : h # next_fh /\ h \in DOMAIN fhs
  BY InUse DEF Inv, IInv, KernelView
<1> QED BY <1>1 DEF AllocFh, Put, HandlesKept

\* Requests that are one call and leave the tables alone.
LEMMA PlainCall ==
    ASSUME Inv, Idle, NEW o, Sound(o), \E r \in Rpc(o) : Answer(r),
           UNCHANGED <<inoTable, fhTable, known, opened, pend>>
    PROVE  TypedStep /\ Rest'
<1>1. HandlesKept
  BY SameHandles DEF fhTable
<1> QED BY <1>1, CallStep DEF TypedStep

LEMMA PlainSteps ==
    ASSUME Inv
    PROVE  /\ \A i \in DOMAIN known : Getattr(i) => TypedStep /\ Rest'
           /\ \A i \in DOMAIN known, n \in Name :
                 Unlink(i, n) \/ RemoveDir(i, n) => TypedStep /\ Rest'
           /\ \A h \in DOMAIN opened, at \in 0..(MaxSize - 1) :
                 /\ ReadData(h, at) => TypedStep /\ Rest'
                 /\ \A b \in Block : WriteData(h, at, b) => TypedStep /\ Rest'
<1>0. Tree(fs)
  BY InUse
<1>1. ASSUME NEW i \in DOMAIN known, Getattr(i) PROVE TypedStep /\ Rest'
  <2>1. Sound(Stat(fs, PathFor(i)))
    BY <1>0, StatSound
  <2> QED BY <1>1, <2>1, PlainCall DEF Getattr
<1>2. ASSUME NEW i \in DOMAIN known, NEW n \in Name, Unlink(i, n) PROVE TypedStep /\ Rest'
  <2>1. Sound(Remove(fs, Below(i, n)))
    BY <1>0, <1>2, BelowPath, RemoveSound DEF Unlink
  <2> QED BY <1>2, <2>1, PlainCall DEF Unlink
<1>3. ASSUME NEW i \in DOMAIN known, NEW n \in Name, RemoveDir(i, n) PROVE TypedStep /\ Rest'
  <2>1. Sound(Rmdir(fs, Below(i, n)))
    BY <1>0, <1>3, BelowPath, RemoveSound DEF RemoveDir
  <2> QED BY <1>3, <2>1, PlainCall DEF RemoveDir
<1>4. ASSUME NEW h \in DOMAIN opened, NEW at \in 0..(MaxSize - 1), ReadData(h, at)
      PROVE  TypedStep /\ Rest'
  <2>1. Sound(Read(fs, fhs[h], at))
    BY <1>0, ReadSound
  <2> QED BY <1>4, <2>1, PlainCall DEF ReadData
<1>5. ASSUME NEW h \in DOMAIN opened, NEW at \in 0..(MaxSize - 1), NEW b \in Block,
             WriteData(h, at, b)
      PROVE  TypedStep /\ Rest'
  <2>1. Sound(Write(fs, fhs[h], at, b))
    BY <1>0, InUse, WriteSound
  <2> QED BY <1>5, <2>1, PlainCall DEF WriteData
<1> QED BY <1>1, <1>2, <1>3, <1>4, <1>5

\* A rename beyond the bounded depth is left out, unless it was lost before the host did it.
LEMMA RenameStep ==
    ASSUME Inv, NEW i \in DOMAIN known, NEW n \in Name, NEW j \in DOMAIN known, NEW m \in Name,
           RenameEntry(i, n, j, m)
    PROVE  TypedStep /\ Rest'
<1> DEFINE o == Rename(fs, Below(i, n), Below(j, m))
<1>1. /\ Idle /\ UNCHANGED <<inoTable, fhTable, known, opened, pend>>
      /\ May(Below(i, n)) /\ May(Below(j, m))
  BY DEF RenameEntry
<1>2. PICK r \in Rpc(o) : Answer(r) /\ DOMAIN r.fs \subseteq Path
  BY DEF RenameEntry
<1>3. CASE DOMAIN o.fs \subseteq Path
  <2>1. Sound(o)
    BY <1>1, <1>3, InUse, BelowPath, RenameSound
  <2> QED BY <1>1, <1>2, <2>1, PlainCall
<1>4. CASE ~(DOMAIN o.fs \subseteq Path)
  <2> DEFINE lost == [res |-> Failed("Io"), fs |-> fs, link |-> "down"]
             e == Refused("Io", fs)
  <2>1. r.fs # o.fs
    BY <1>2, <1>4
  <2>2. r = lost
    BY <1>2, <2>1 DEF Rpc
  <2>3. lost \in Rpc(e)
    BY DEF Rpc
  <2>4. Sound(e)
    BY InUse, ResultFacts DEF Sound, Tag
  <2> HIDE DEF e, lost
  <2> QED BY <1>1, <1>2, <2>2, <2>3, <2>4, PlainCall
<1> QED BY <1>3, <1>4

\* Requests that are one call and, if it is answered with Ok, enter the path.
LEMMA EnteringSteps ==
    ASSUME Inv, NEW i \in DOMAIN known, NEW n \in Name
    PROVE  Lookup(i, n) \/ CreateFile(i, n) \/ MakeDir(i, n) => TypedStep /\ Rest'
<1> DEFINE p == Below(i, n)
<1>0. Tree(fs) /\ link \in {"up", "down"}
  BY DEF Inv, Rest, HostTyped
<1>1. ASSUME Lookup(i, n) PROVE TypedStep /\ Rest'
  <2> DEFINE c == Stat(fs, p)
  <2>1. Idle /\ p \in Path /\ UNCHANGED <<fhTable, opened, pend>>
    BY <1>1, BelowPath DEF Lookup
  <2>2. PICK o \in Rpc(c) :
           Answer(o) /\ IF Is(o, "Ok") THEN Enter(p, o.res.val.kind)
                                       ELSE UNCHANGED <<inoTable, known>>
    BY <1>1 DEF Lookup
  <2>3. Sound(c) /\ (Is(c, "Ok") => c.res.val.kind \in Kind)
    BY <1>0, StatSound DEF Kind
  <2> HIDE DEF c, p
  <2>4. HandlesKept
    BY <2>1, SameHandles DEF fhTable
  <2>5. Rest'
    BY <2>1, <2>2, <2>3, <2>4, CallStep
  <2>6. Is(o, "Ok") => o.res.val.kind \in Kind
    BY <1>0, <2>2, <2>3, RpcFacts
  <2> QED BY <2>1, <2>2, <2>5, <2>6 DEF TypedStep
<1>2. ASSUME MakeDir(i, n) PROVE TypedStep /\ Rest'
  <2> DEFINE c == Mkdir(fs, p)
  <2>1. Idle /\ p \in Path /\ p # Root /\ UNCHANGED <<fhTable, opened, pend>>
    BY <1>2, BelowPath DEF MakeDir
  <2>2. PICK o \in Rpc(c) :
           Answer(o) /\ IF Is(o, "Ok") THEN Enter(p, "dir") ELSE UNCHANGED <<inoTable, known>>
    BY <1>2 DEF MakeDir
  <2>3. Sound(c)
    BY <1>0, <2>1, MkdirSound
  <2> HIDE DEF c, p
  <2>4. HandlesKept
    BY <2>1, SameHandles DEF fhTable
  <2>5. Rest'
    BY <2>1, <2>2, <2>3, <2>4, CallStep
  <2> QED BY <2>1, <2>2, <2>5 DEF TypedStep, Kind
<1>3. ASSUME CreateFile(i, n) PROVE TypedStep /\ Rest'
  <2> DEFINE c == Create(fs, p)
  <2>1. Idle /\ p \in Path /\ UNCHANGED pend
    BY <1>3, BelowPath DEF CreateFile
  <2>2. PICK o \in Rpc(c) :
           /\ Answer(o)
           /\ IF Is(o, "Ok") THEN Enter(p, "file") /\ AllocFh(p, Ino(p), "file")
                             ELSE UNCHANGED <<inoTable, fhTable, known, opened>>
    BY <1>3 DEF CreateFile
  <2>3. Sound(c)
    BY <1>0, <2>1, CreateSound
  <2> HIDE DEF c, p
  <2>4. HandlesKept
    BY <2>2, SameHandles, AllocKeeps DEF fhTable
  <2>5. Rest'
    BY <2>1, <2>2, <2>3, <2>4, CallStep
  <2> QED BY <2>1, <2>2, <2>5 DEF TypedStep, Kind
<1> QED BY <1>1, <1>2, <1>3

\* Requests that open and close, without a call.
LEMMA OpeningSteps ==
    ASSUME Inv, NEW i \in DOMAIN known
    PROVE  Opendir(i) \/ Open(i) => TypedStep /\ Rest'
<1>0. Tree(fs) /\ PathFor(i) \in Path /\ next_fh \in Nat
  BY InUse
<1>1. ASSUME Idle, AllocFh(PathFor(i), i, "dir") \/ AllocFh(PathFor(i), i, "file"),
             reply' = Done, UNCHANGED <<inoTable, known, pend, fs, link>>
      PROVE  /\ TypedStep /\ HandlesKept
             /\ PendTyped' /\ ReplyTyped' /\ HostTyped' /\ ReadOK' /\ SetOK'
  <2>1. TypedStep /\ HandlesKept
    BY <1>0, <1>1, AllocKeeps DEF TypedStep
  <2>2. PendTyped' /\ ReadOK' /\ SetOK'
    BY <1>1 DEF Idle, PendTyped, ReadOK, SetOK
  <2>3. ReplyTyped' /\ HostTyped'
    BY <1>1, ResultFacts DEF ReplyTyped, HostTyped, Inv, Rest, Tag
  <2> QED BY <2>1, <2>2, <2>3
<1>2. ASSUME HandlesKept, UNCHANGED <<scan, fs>> PROVE ScanTyped' /\ ScanOK'
  BY <1>0, <1>2, ScanKept
<1>3. ASSUME Open(i) PROVE TypedStep /\ Rest'
  BY <1>1, <1>2, <1>3 DEF Open, Rest
<1>4. ASSUME Opendir(i), scan # None PROVE TypedStep /\ Rest'
  BY <1>1, <1>2, <1>4 DEF Opendir, Rest
<1>5. ASSUME Opendir(i), scan = None PROVE TypedStep /\ Rest'
  <2> DEFINE new == [fh |-> next_fh, offset |-> 0, got |-> <<>>, eof |-> FALSE, quiet |-> TRUE]
  <2>1. scan' = new /\ opened' = Put(opened, next_fh, [ino |-> i, kind |-> "dir"]) /\ UNCHANGED fs
    BY <1>5 DEF Opendir, AllocFh
  <2>2. new \in Scan /\ new # None
    <3>1. <<>> \in Seq(Entry)
      BY EmptySeq
    <3>2. new \in Scan
      BY <1>0, <3>1 DEF Scan
    <3> QED BY <3>2, AgentAssumption
  <2>3. ScanTyped'
    BY <2>1, <2>2 DEF ScanTyped, Holds, Put
  <2>4. Everything' \in Seq(Fit') /\ Len(Everything') \in Nat
    BY <1>0, <2>1, ListingTyped DEF Everything, Fit
  <2>5. SubSeq(Everything', 1, 0) = <<>>
    BY <2>4
  <2>6. ScanOK'
    BY <2>1, <2>4, <2>5 DEF ScanOK
  <2> QED BY <1>1, <1>5, <2>3, <2>6 DEF Opendir, Rest
<1> QED BY <1>3, <1>4, <1>5

LEMMA ClosingSteps ==
    ASSUME Inv, NEW h \in DOMAIN opened
    PROVE  Releasedir(h) \/ Release(h) => TypedStep /\ Rest'
<1> SUFFICES ASSUME Releasedir(h) \/ Release(h) PROVE TypedStep /\ Rest'
  OBVIOUS
<1>1. /\ Idle /\ fhs' = Without(fhs, h) /\ opened' = Without(opened, h) /\ reply' = Done
      /\ UNCHANGED <<inoTable, next_fh, known, pend, fs, link>>
  BY DEF Releasedir, Release
<1>2. TypedStep
  BY <1>1 DEF TypedStep
<1>3. PendTyped' /\ ReadOK' /\ SetOK'
  BY <1>1 DEF Idle, PendTyped, ReadOK, SetOK
<1>4. ReplyTyped' /\ HostTyped'
  BY <1>1, ResultFacts DEF ReplyTyped, HostTyped, Inv, Rest, Tag
<1>5. CASE scan' = None
  BY <1>2, <1>3, <1>4, <1>5 DEF Rest, ScanTyped, ScanOK
<1>6. CASE scan' # None
  <2>1. scan' = scan /\ scan.fh # h
    BY <1>6, InUse DEF Releasedir, Release, Holds
  <2>2. scan \in Scan /\ scan.fh \in DOMAIN opened /\ opened[scan.fh].kind = "dir"
    BY <1>6, <2>1, InUse
  <2>3. scan.fh \in DOMAIN fhs
    BY <2>2 DEF Inv, IInv, KernelView
  <2>4. /\ scan.fh \in DOMAIN opened' /\ opened'[scan.fh] = opened[scan.fh]
        /\ fhs'[scan.fh] = fhs[scan.fh]
    BY <1>1, <2>1, <2>2, <2>3 DEF Without
  <2>5. ScanTyped'
    BY <2>1, <2>2, <2>4 DEF ScanTyped, Holds
  <2>6. Everything' = Everything
    BY <1>1, <2>1, <2>4 DEF Everything
  <2>7. ScanOK'
    BY <2>1, <2>6 DEF ScanOK, Inv, Rest
  <2> QED BY <1>2, <1>3, <1>4, <2>5, <2>7 DEF Rest
<1> QED BY <1>5, <1>6

\* The first call of setattr and of readdir.
LEMMA SetattrStep ==
    ASSUME Inv, NEW i \in DOMAIN known, NEW size \in 0..MaxSize \union {None}, Setattr(i, size)
    PROVE  TypedStep /\ Rest'
<1> DEFINE p == PathFor(i)
           c == Truncate(fs, p, size)
           set == [op |-> "setattr", ino |-> i, size |-> size, quiet |-> TRUE]
<1>0. /\ Tree(fs) /\ link \in {"up", "down"} /\ p \in Path /\ i \in Nat
      /\ Idle /\ UNCHANGED <<inoTable, fhTable, known, opened>>
  BY InUse DEF Inv, Rest, HostTyped, Setattr
<1>1. TypedStep /\ HandlesKept /\ PathFor(i)' = p
  BY <1>0, SameHandles DEF TypedStep, fhTable, inoTable, PathFor
<1>2. PICK o \in (IF size = None THEN {[res |-> Done, fs |-> fs, link |-> link]} ELSE Rpc(c)) :
         IF Is(o, "Ok") THEN Settle(o) /\ pend' = set /\ reply' = Unanswered
                        ELSE Answer(o) /\ UNCHANGED pend
  BY DEF Setattr
<1>3. size # None => /\ Sound(c)
                     /\ Is(c, "Ok") => IsFile(c.fs, p) /\ Len(c.fs[p].data) = size
  BY <1>0, TruncateSound
<1> HIDE DEF c, p
<1>4. CASE ~Is(o, "Ok")
  <2>1. size # None
    BY <1>2, <1>4, ResultFacts DEF Is
  <2> QED BY <1>0, <1>1, <1>2, <1>3, <1>4, <2>1, CallStep
<1>5. CASE Is(o, "Ok")
  <2>1. fs' = o.fs /\ link' = o.link /\ Watch
    BY <1>2, <1>5 DEF Settle
  <2>2. /\ Tree(o.fs) /\ o.link \in {"up", "down"}
        /\ size # None => IsFile(o.fs, p) /\ Len(o.fs[p].data) = size
    <3>1. CASE size = None
      BY <3>1, <1>0, <1>2
    <3>2. CASE size # None
      <4>1. o.fs = c.fs /\ Is(c, "Ok") /\ o.link \in {"up", "down"} /\ Tree(o.fs)
        BY <1>0, <1>2, <1>3, <1>5, <3>2, RpcFacts
      <4> QED BY <4>1, <1>3, <3>2
    <3> QED BY <3>1, <3>2
  <2>3. ScanTyped' /\ ScanOK'
    BY <1>1, <2>1, <2>2, ScanKept
  <2>4. set \in Setting
    BY <1>0, HostFsAssumption DEF Setting
  <2>5. pend' = set /\ ~Idle' /\ set.op = "setattr" /\ set.ino = i /\ set.size = size
    BY <1>2, <1>5, <2>4, AgentAssumption DEF Idle
  <2>6. PendTyped' /\ ReadOK'
    BY <2>4, <2>5 DEF PendTyped, ReadOK
  <2>7. SetOK'
    BY <1>0, <1>1, <2>1, <2>2, <2>5 DEF SetOK
  <2>8. ReplyTyped' /\ HostTyped'
    BY <1>2, <1>5, <2>1, <2>2, <2>5 DEF ReplyTyped, HostTyped, Unanswered, Failed
  <2> QED BY <1>1, <2>3, <2>6, <2>7, <2>8 DEF Rest
<1> QED BY <1>4, <1>5

LEMMA ReaddirStep ==
    ASSUME Inv, Readdir
    PROVE  TypedStep /\ Rest'
<1> DEFINE ino == opened[scan.fh].ino
           p == fhs[scan.fh]
           c == List(fs, p)
           rest == SubSeq(Everything, scan.offset + 1, Len(Everything))
           reading == [op |-> "readdir", ino |-> ino, added |-> 0, rest |-> rest]
<1>0. /\ Tree(fs) /\ link \in {"up", "down"} /\ scan \in Scan /\ scan # None /\ ~scan.eof /\ Idle
      /\ p = PathFor(ino) /\ ino \in Nat
      /\ UNCHANGED <<inoTable, fhTable, known, opened>>
  BY InUse DEF Inv, Rest, HostTyped, Readdir
<1>1. TypedStep /\ HandlesKept
  BY <1>0, SameHandles DEF TypedStep, fhTable
<1>2. PICK o \in Rpc(c) :
         IF Is(o, "Ok")
         THEN LET all == <<".", "..">> \o o.res.val.names
              IN  /\ Settle(o)
                  /\ pend' = [op |-> "readdir", ino |-> ino, added |-> 0,
                              rest |-> SubSeq(all, scan.offset + 1, Len(all))]
                  /\ reply' = Unanswered
         ELSE Answer(o) /\ UNCHANGED pend
  BY <1>0 DEF Readdir
<1>3. Sound(c) /\ c.fs = fs /\ (Is(c, "Ok") => c.res.val.names = Listed(fs, p))
  BY <1>0, ListSound
<1> HIDE DEF c
<1>4. CASE ~Is(o, "Ok")
  BY <1>0, <1>1, <1>2, <1>3, <1>4, CallStep
<1>5. CASE Is(o, "Ok")
  <2>1. /\ o.fs = fs /\ o.res.val.names = Listed(fs, p) /\ o.link \in {"up", "down"}
    BY <1>0, <1>2, <1>3, <1>5, RpcFacts
  <2>2. /\ fs' = fs /\ link' = o.link /\ Watch /\ pend' = reading /\ reply' = Unanswered
    BY <1>2, <1>5, <2>1 DEF Settle, Everything
  <2>3. /\ ScanTyped' /\ ScanOK' /\ scan' # None
        /\ scan'.fh = scan.fh /\ scan'.offset = scan.offset /\ scan'.eof = scan.eof
        /\ opened'[scan'.fh] = opened[scan.fh] /\ Fit' = Fit
        /\ scan'.quiet => scan.quiet /\ Everything' = Everything
    BY <1>0, <1>1, <2>2, ScanKept
  <2>4. scan.offset \in Nat /\ Everything \in Seq(Fit) /\ Fit \subseteq Entry
    BY <1>0, EverythingTyped DEF Scan
  <2>5. rest \in Seq(Fit)
    BY <2>4, ReadOn
  <2>6. rest \in Seq(Entry)
    BY <2>4, <2>5
  <2> HIDE DEF rest, ino
  <2>7. reading \in Reading
    BY <1>0, <2>6 DEF Reading
  <2>8. /\ ~Idle' /\ pend'.op = "readdir" /\ pend'.ino = ino /\ pend'.rest = rest
    BY <2>2, <2>7, AgentAssumption DEF Idle
  <2>9. PendTyped' /\ SetOK'
    BY <2>2, <2>7, <2>8 DEF PendTyped, SetOK
  <2>10. ReadOK'
    BY <1>0, <2>3, <2>5, <2>8 DEF ReadOK, rest, ino
  <2>11. ReplyTyped' /\ HostTyped'
    BY <1>0, <2>1, <2>2, <2>8 DEF ReplyTyped, HostTyped, Unanswered, Failed
  <2> QED BY <1>1, <2>3, <2>9, <2>10, <2>11 DEF Rest
<1> QED BY <1>4, <1>5

\* The second call of setattr.
LEMMA SetattrStatStep ==
    ASSUME Inv, SetattrStat
    PROVE  TypedStep /\ Rest' /\ SetattrReports
<1> DEFINE p == PathFor(pend.ino)
           c == Stat(fs, p)
<1>0. /\ Tree(fs) /\ link \in {"up", "down"} /\ ~Idle /\ pend.op = "setattr" /\ pend' = None
      /\ UNCHANGED <<inoTable, fhTable, known, opened>>
  BY InUse DEF Inv, Rest, HostTyped, SetattrStat
<1>1. TypedStep /\ HandlesKept
  BY <1>0, SameHandles DEF TypedStep, fhTable
<1>2. PICK o \in Rpc(c) : fs' = o.fs /\ link' = o.link /\ Watch /\ reply' = o.res
  BY DEF SetattrStat, Answer, Settle
<1>3. Sound(c) /\ (Is(c, "Ok") => c.res.val = Attr(fs[p]))
  BY <1>0, StatSound
<1> HIDE DEF c
<1>4. /\ o.res.tag \in Tag /\ Tree(o.fs) /\ o.link \in {"up", "down"}
      /\ Is(o, "Ok") => o.res = c.res /\ Is(c, "Ok")
  BY <1>0, <1>2, <1>3, RpcFacts
<1>5. ScanTyped' /\ ScanOK'
  BY <1>1, <1>2, <1>4, ScanKept
<1>6. PendTyped' /\ ReadOK' /\ SetOK'
  BY <1>0 DEF PendTyped, ReadOK, SetOK, Idle
<1>7. ReplyTyped' /\ HostTyped'
  BY <1>2, <1>4 DEF ReplyTyped, HostTyped
<1>8. ASSUME pend.size # None, pend.quiet, reply'.tag = "Ok" PROVE reply'.val.size = pend.size
  <2>1. fs[p] # Dir /\ Len(fs[p].data) = pend.size
    BY <1>0, <1>8 DEF Inv, Rest, SetOK, IsFile
  <2>2. reply'.val = Attr(fs[p])
    BY <1>2, <1>3, <1>4, <1>8 DEF Is
  <2> QED BY <2>1, <2>2 DEF Attr
<1> QED BY <1>1, <1>5, <1>6, <1>7, <1>8 DEF Rest, SetattrReports

\* A readdir that is under way, as the invariant has it.
LEMMA UnderWay ==
    ASSUME Inv, ~Idle, pend.op = "readdir"
    PROVE  /\ pend \in Reading /\ scan \in Scan /\ scan # None
           /\ scan.fh \in DOMAIN opened /\ opened[scan.fh].kind = "dir"
           /\ fhs[scan.fh] = PathFor(pend.ino)
           /\ pend.rest \in Seq(Fit) /\ Everything \in Seq(Fit) /\ Fit \subseteq Entry
           /\ scan.quiet => /\ ~scan.eof /\ scan.offset <= Len(Everything)
                            /\ scan.got = SubSeq(Everything, 1, scan.offset)
                            /\ pend.rest = SubSeq(Everything, scan.offset + 1, Len(Everything))
<1>1. pend \in Reading
  BY DEF Inv, Rest, PendTyped, Idle, Setting
<1>2. /\ scan # None /\ pend.ino = opened[scan.fh].ino /\ pend.rest \in Seq(Fit)
      /\ scan.quiet => /\ ~scan.eof
                       /\ pend.rest = SubSeq(Everything, scan.offset + 1, Len(Everything))
  BY DEF Inv, Rest, ReadOK
<1>3. /\ scan \in Scan /\ scan.fh \in DOMAIN opened /\ opened[scan.fh].kind = "dir"
      /\ fhs[scan.fh] = PathFor(pend.ino)
  BY <1>2, InUse
<1>4. Everything \in Seq(Fit) /\ Fit \subseteq Entry
  BY InUse, EverythingTyped
<1>5. scan.quiet => /\ scan.offset <= Len(Everything)
                    /\ scan.got = SubSeq(Everything, 1, scan.offset)
  BY <1>2 DEF Inv, Rest, ScanOK
<1> QED BY <1>1, <1>2, <1>3, <1>4, <1>5

\* What stays when neither the directory nor the handles change.
LEMMA NothingMoves ==
    ASSUME Inv, UNCHANGED <<fhs, opened, fs, link>>, scan' \in Scan, scan # None, scan'.fh = scan.fh
    PROVE  /\ ScanTyped' /\ HostTyped' /\ scan' # None
           /\ Everything' = Everything /\ Fit' = Fit
<1>1. scan' # None
  BY AgentAssumption
<1>2. ScanTyped'
  BY InUse DEF ScanTyped, Holds
<1> QED BY <1>1, <1>2 DEF HostTyped, Inv, Rest, Everything, Fit

LEMMA ReaddirEntryStep ==
    ASSUME Inv, ReaddirEntry
    PROVE  TypedStep /\ Rest'
<1> DEFINE n == Head(pend.rest)
           k == scan.offset
<1>0. /\ ~Idle /\ pend.op = "readdir" /\ pend.rest # <<>>
      /\ UNCHANGED <<fhTable, known, opened, fs, link>>
  BY DEF ReaddirEntry
<1>1. /\ pend \in Reading /\ scan \in Scan /\ scan # None
      /\ fhs[scan.fh] = PathFor(pend.ino)
      /\ pend.rest \in Seq(Fit) /\ Everything \in Seq(Fit) /\ Fit \subseteq Entry
      /\ scan.quiet => /\ ~scan.eof /\ k <= Len(Everything)
                       /\ scan.got = SubSeq(Everything, 1, k)
                       /\ pend.rest = SubSeq(Everything, k + 1, Len(Everything))
  BY <1>0, UnderWay
<1>2. n \in Fit /\ Tail(pend.rest) \in Seq(Fit)
  BY <1>0, <1>1, HeadTailProperties
<1>3. UNCHANGED inoTable \/ (Intern(Below(pend.ino, n)) /\ Below(pend.ino, n) \in Path)
  <2>1. n \notin {".", ".."} => Below(pend.ino, n) \in Path
    BY <1>1, <1>2 DEF Fit, Below
  <2>2. IF n \in {".", ".."} THEN UNCHANGED inoTable ELSE Intern(Below(pend.ino, n))
    BY DEF ReaddirEntry
  <2> HIDE DEF n
  <2>3. CASE n \in {".", ".."}
    BY <2>2, <2>3
  <2>4. CASE n \notin {".", ".."}
    BY <2>1, <2>2, <2>4
  <2> QED BY <2>3, <2>4
<1>4. TypedStep
  BY <1>0, <1>3 DEF TypedStep
<1> HIDE DEF n, k
<1>5. CASE /\ scan' = [scan EXCEPT !.offset = @ + 1, !.got = Append(@, n)]
           /\ pend' = [pend EXCEPT !.rest = Tail(@), !.added = @ + 1]
           /\ UNCHANGED reply
  <2>1. /\ scan.got \in Seq(Entry) /\ n \in Entry /\ k \in Nat /\ pend.added \in Nat
        /\ Tail(pend.rest) \in Seq(Entry)
    BY <1>1, <1>2 DEF Scan, Reading, k
  <2>2. Append(scan.got, n) \in Seq(Entry)
    BY <2>1, AppendProperties
  <2>3. /\ scan' \in Scan /\ scan'.fh = scan.fh /\ scan'.offset = k + 1
        /\ scan'.got = Append(scan.got, n) /\ scan'.quiet = scan.quiet /\ scan'.eof = scan.eof
    <3> DEFINE got == Append(scan.got, n)
               at == k + 1
    <3>1. scan' = [scan EXCEPT !.offset = at, !.got = got]
      BY <1>1, <1>5 DEF Scan, k
    <3>2. at \in Nat /\ got \in Seq(Entry)
      BY <2>1, <2>2
    <3> HIDE DEF got, at
    <3>3. /\ scan' \in Scan /\ scan'.fh = scan.fh /\ scan'.offset = at /\ scan'.got = got
          /\ scan'.quiet = scan.quiet /\ scan'.eof = scan.eof
      BY <1>1, <3>1, <3>2 DEF Scan
    <3> QED BY <3>3 DEF got, at
  <2>4. /\ pend' \in Reading /\ pend'.op = "readdir" /\ pend'.ino = pend.ino
        /\ pend'.rest = Tail(pend.rest)
    <3> DEFINE rest == Tail(pend.rest)
               added == pend.added + 1
    <3>1. pend' = [pend EXCEPT !.rest = rest, !.added = added]
      BY <1>1, <1>5 DEF Reading
    <3>2. added \in Nat /\ rest \in Seq(Entry)
      BY <2>1
    <3> HIDE DEF rest, added
    <3>3. pend' \in Reading /\ pend'.op = pend.op /\ pend'.ino = pend.ino /\ pend'.rest = rest
      BY <1>1, <3>1, <3>2 DEF Reading
    <3> QED BY <1>0, <3>3 DEF rest
  <2>5. /\ ScanTyped' /\ HostTyped' /\ scan' # None
        /\ Everything' = Everything /\ Fit' = Fit /\ opened' = opened
    BY <1>0, <1>1, <2>3, NothingMoves DEF fhTable
  <2>6. scan.quiet => /\ k + 1 <= Len(Everything)
                      /\ Tail(pend.rest) = SubSeq(Everything, (k + 1) + 1, Len(Everything))
                      /\ Append(scan.got, n) = SubSeq(Everything, 1, k + 1)
    BY <1>0, <1>1, <2>1, ReadOn DEF n
  <2>7. ScanOK'
    BY <1>1, <2>3, <2>5, <2>6 DEF ScanOK
  <2>8. ReadOK'
    BY <1>0, <1>1, <1>2, <2>3, <2>4, <2>5, <2>6 DEF ReadOK, Inv, Rest
  <2>9. PendTyped' /\ SetOK' /\ ~Idle'
    BY <2>4, AgentAssumption DEF PendTyped, SetOK, Idle
  <2>10. ReplyTyped'
    BY <1>0, <1>5, <2>9 DEF ReplyTyped, Inv, Rest
  <2> QED BY <1>4, <2>5, <2>7, <2>8, <2>9, <2>10 DEF Rest
<1>6. CASE pend' = None /\ reply' = Done /\ UNCHANGED scan
  <2>1. /\ ScanTyped' /\ HostTyped' /\ Everything' = Everything
    BY <1>0, <1>1, <1>6, NothingMoves DEF fhTable
  <2>2. ScanOK'
    BY <1>6, <2>1 DEF ScanOK, Inv, Rest
  <2>3. PendTyped' /\ ReadOK' /\ SetOK' /\ ReplyTyped'
    BY <1>6, ResultFacts DEF PendTyped, ReadOK, SetOK, Idle, ReplyTyped, Tag
  <2> QED BY <1>4, <2>1, <2>2, <2>3 DEF Rest
<1> QED BY <1>5, <1>6 DEF ReaddirEntry, n

LEMMA ReaddirEndStep ==
    ASSUME Inv, ReaddirEnd
    PROVE  TypedStep /\ Rest'
<1> DEFINE k == scan.offset
<1>0. /\ ~Idle /\ pend.op = "readdir" /\ pend.rest = <<>>
      /\ scan' = [scan EXCEPT !.eof = pend.added = 0] /\ pend' = None /\ reply' = Done
      /\ UNCHANGED <<inoTable, fhTable, known, opened, fs, link>>
  BY DEF ReaddirEnd
<1>1. /\ pend \in Reading /\ scan \in Scan /\ scan # None /\ Everything \in Seq(Fit)
      /\ scan.quiet => /\ k <= Len(Everything)
                       /\ scan.got = SubSeq(Everything, 1, k)
                       /\ pend.rest = SubSeq(Everything, k + 1, Len(Everything))
  BY <1>0, UnderWay
<1>2. /\ scan' \in Scan /\ scan'.fh = scan.fh /\ scan'.offset = k /\ scan'.got = scan.got
      /\ scan'.quiet = scan.quiet /\ k \in Nat
  <2> DEFINE all == pend.added = 0
  <2>1. all \in BOOLEAN /\ scan' = [scan EXCEPT !.eof = all]
    BY <1>0
  <2> HIDE DEF all
  <2> QED BY <1>1, <2>1 DEF Scan
<1>3. ScanTyped' /\ HostTyped' /\ Everything' = Everything
  BY <1>0, <1>1, <1>2, NothingMoves DEF fhTable
<1>4. scan.quiet => k = Len(Everything)
  <2>1. ASSUME scan.quiet PROVE k >= Len(Everything)
    <3>1. SubSeq(Everything, k + 1, Len(Everything)) = <<>>
      BY <1>0, <1>1, <2>1
    <3> HIDE DEF k
    <3> QED BY <1>1, <1>2, <3>1, ReadOn
  <2>2. Len(Everything) \in Nat
    BY <1>1
  <2> QED BY <1>1, <1>2, <2>1, <2>2
<1>5. ScanOK'
  BY <1>1, <1>2, <1>3, <1>4 DEF ScanOK
<1>6. PendTyped' /\ ReadOK' /\ SetOK' /\ ReplyTyped'
  BY <1>0, ResultFacts DEF PendTyped, ReadOK, SetOK, Idle, ReplyTyped, Tag
<1> QED BY <1>0, <1>3, <1>5, <1>6 DEF Rest, TypedStep

\* The host's own steps: what is under way notices.
LEMMA HostStep ==
    ASSUME Inv, Tree(fs)', Watch, Noticed,
           UNCHANGED <<inoTable, fhTable, known, opened, reply, link>>
    PROVE  TypedStep /\ Rest'
<1>1. TypedStep /\ HandlesKept
  BY SameHandles DEF TypedStep, fhTable
<1>2. /\ ScanTyped' /\ ScanOK' /\ (scan' # None <=> scan # None)
      /\ scan # None =>
            /\ scan'.fh = scan.fh /\ scan'.offset = scan.offset /\ scan'.eof = scan.eof
            /\ opened'[scan'.fh] = opened[scan.fh] /\ Fit' = Fit
            /\ scan'.quiet => scan.quiet /\ Everything' = Everything
  BY <1>1, ScanKept
<1>3. HostTyped'
  BY DEF HostTyped, Inv, Rest
<1>4. CASE Idle \/ pend.op # "setattr"
  <2>1. pend' = pend
    BY <1>4 DEF Noticed
  <2>2. PendTyped' /\ ReplyTyped' /\ SetOK'
    BY <1>4, <2>1 DEF Inv, Rest, PendTyped, ReplyTyped, SetOK, Idle
  <2>3. ReadOK'
    BY <1>2, <2>1 DEF Inv, Rest, ReadOK, Idle
  <2> QED BY <1>1, <1>2, <1>3, <2>2, <2>3 DEF Rest
<1>5. CASE ~Idle /\ pend.op = "setattr"
  <2> DEFINE p == PathFor(pend.ino)
             same == p \in DOMAIN fs \intersect DOMAIN fs' /\ fs'[p] = fs[p]
  <2>1. pend' = [pend EXCEPT !.quiet = @ /\ same]
    BY <1>5 DEF Noticed
  <2>2. pend \in Setting
    BY <1>5 DEF Inv, Rest, PendTyped, Idle, Reading
  <2>3. same \in BOOLEAN /\ PathFor(pend.ino)' = PathFor(pend'.ino)
    BY DEF PathFor, inoTable
  <2> HIDE DEF same
  <2>4. /\ pend' \in Setting /\ pend'.op = "setattr" /\ pend'.ino = pend.ino
        /\ pend'.size = pend.size /\ pend'.quiet = (pend.quiet /\ same)
    BY <2>1, <2>2, <2>3 DEF Setting
  <2>5. ~Idle' /\ PendTyped' /\ ReplyTyped' /\ ReadOK'
    BY <1>5, <2>4, AgentAssumption DEF Idle, PendTyped, ReplyTyped, ReadOK, Inv, Rest
  <2>6. PathFor(pend.ino)' = p
    BY <2>4 DEF PathFor, inoTable
  <2> HIDE DEF p
  <2>7. SetOK'
    BY <1>5, <2>4, <2>6 DEF SetOK, Inv, Rest, IsFile, same, p
  <2> QED BY <1>1, <1>2, <1>3, <2>5, <2>7 DEF Rest
<1> QED BY <1>4, <1>5

LEMMA EditStep ==
    ASSUME Inv, NEW p \in Path, HostEdit(p)
    PROVE  TypedStep /\ Rest'
<1>0. /\ p # Root /\ Watch /\ Noticed /\ Tree(fs)
      /\ UNCHANGED <<inoTable, fhTable, known, opened, reply, link>>
  BY InUse DEF HostEdit
<1>1. CASE fs' = Cut(fs, p)
  BY <1>0, <1>1, CutTree, HostStep
<1>2. CASE IsDir(fs, Parent(p)) /\ fs' = Put(fs, p, Dir)
  <2>1. Dir \in Node
    BY DEF Node
  <2>2. Tree(Put(fs, p, Dir))
    BY <1>0, <1>2, <2>1, PutTree
  <2> QED BY <1>0, <1>2, <2>2, HostStep
<1>3. ASSUME IsDir(fs, Parent(p)), ~IsDir(fs, p), NEW d \in Data,
             fs' = Put(fs, p, File(d, IF p \in DOMAIN fs THEN fs[p].flight ELSE {}))
      PROVE  TypedStep /\ Rest'
  <2> DEFINE w == IF p \in DOMAIN fs THEN fs[p].flight ELSE {}
  <2>1. w \in SUBSET Pending
    BY <1>0, <1>3, TreeFacts, NodeFacts DEF IsDir
  <2> HIDE DEF w
  <2>2. File(d, w) \in Node
    BY <2>1 DEF Node
  <2>3. Tree(Put(fs, p, File(d, w)))
    BY <1>0, <1>3, <2>2, PutTree
  <2> QED BY <1>0, <1>3, <2>3, HostStep DEF w
<1> QED BY <1>1, <1>2, <1>3 DEF HostEdit

LEMMA LandStep ==
    ASSUME Inv, NEW p \in DOMAIN fs, Land(p)
    PROVE  TypedStep /\ Rest'
<1>1. PICK w \in fs[p].flight : fs' \in Landed(fs, p, w)
  BY DEF Land
<1>2. IsFile(fs, p) /\ Tree(fs)
  BY InUse DEF Land
<1>3. Tree(fs')
  BY <1>1, <1>2, LandedTree
<1> QED BY <1>3, HostStep DEF Land

\* A new stream changes nothing the invariant is about.
LEMMA ReconnectStep ==
    ASSUME Inv, Reconnect
    PROVE  TypedStep /\ Rest' /\ SetattrReports
<1>1. link' = "up" /\ UNCHANGED <<inoTable, fhTable, known, opened, scan, pend, reply, fs>>
  BY DEF Reconnect
<1>2. TypedStep
  BY <1>1 DEF TypedStep
<1>3. Rest'
  BY <1>1 DEF inoTable, fhTable, Inv, Rest, ScanTyped, Holds, PendTyped, ReplyTyped,
              HostTyped, ScanOK, ReadOK, SetOK, Idle, Everything, Fit, PathFor
<1>4. SetattrReports
  BY <1>1 DEF SetattrReports, Idle
<1> QED BY <1>2, <1>3, <1>4

-------------------------------------------------------------------------------
\* The invariant.

LEMMA NextStep ==
    ASSUME Inv, Next
    PROVE  TypedStep /\ Rest' /\ SetattrReports
<1>1. ASSUME NEW i \in DOMAIN known, NEW n \in Name,
             \/ Lookup(i, n) \/ CreateFile(i, n) \/ MakeDir(i, n)
             \/ Unlink(i, n) \/ RemoveDir(i, n)
      PROVE  TypedStep /\ Rest' /\ Idle
  BY <1>1, EnteringSteps, PlainSteps DEF Lookup, CreateFile, MakeDir, Unlink, RemoveDir
<1>2. ASSUME NEW i \in DOMAIN known, NEW n \in Name, NEW j \in DOMAIN known, NEW m \in Name,
             RenameEntry(i, n, j, m)
      PROVE  TypedStep /\ Rest' /\ Idle
  BY <1>2, RenameStep DEF RenameEntry
<1>3. ASSUME NEW i \in DOMAIN known, Getattr(i) \/ Opendir(i) \/ Open(i)
      PROVE  TypedStep /\ Rest' /\ Idle
  BY <1>3, PlainSteps, OpeningSteps DEF Getattr, Opendir, Open
<1>4. ASSUME NEW i \in DOMAIN known, NEW size \in 0..MaxSize \union {None}, Setattr(i, size)
      PROVE  TypedStep /\ Rest' /\ Idle
  BY <1>4, SetattrStep DEF Setattr
<1>5. ASSUME NEW h \in DOMAIN opened, Releasedir(h) \/ Release(h)
      PROVE  TypedStep /\ Rest' /\ Idle
  BY <1>5, ClosingSteps DEF Releasedir, Release
<1>6. ASSUME NEW h \in DOMAIN opened, NEW at \in 0..(MaxSize - 1),
             ReadData(h, at) \/ \E b \in Block : WriteData(h, at, b)
      PROVE  TypedStep /\ Rest' /\ Idle
  BY <1>6, PlainSteps DEF ReadData, WriteData
<1>7. ASSUME Readdir PROVE TypedStep /\ Rest' /\ Idle
  BY <1>7, ReaddirStep DEF Readdir
<1>8. ASSUME SetattrStat PROVE TypedStep /\ Rest' /\ SetattrReports
  BY <1>8, SetattrStatStep
<1>9. ASSUME ReaddirEntry \/ ReaddirEnd PROVE TypedStep /\ Rest' /\ pend.op = "readdir"
  BY <1>9, ReaddirEntryStep, ReaddirEndStep DEF ReaddirEntry, ReaddirEnd
<1>10. ASSUME NEW p, (p \in DOMAIN fs /\ Land(p)) \/ (p \in Path /\ HostEdit(p))
       PROVE  TypedStep /\ Rest' /\ (Idle \/ pend.op # "setattr" \/ pend' # None)
  <2>1. TypedStep /\ Rest'
    BY <1>10, LandStep, EditStep
  <2>2. ASSUME ~Idle, pend.op = "setattr" PROVE pend' # None
    <3> DEFINE q == PathFor(pend.ino)
               same == q \in DOMAIN fs \intersect DOMAIN fs' /\ fs'[q] = fs[q]
    <3>1. pend' = [pend EXCEPT !.quiet = @ /\ same]
      BY <1>10, <2>2 DEF Land, HostEdit, Noticed
    <3>2. pend \in Setting
      BY <2>2 DEF Inv, Rest, PendTyped, Idle, Reading
    <3>3. same \in BOOLEAN
      OBVIOUS
    <3> HIDE DEF same
    <3>4. pend' \in Setting
      BY <3>1, <3>2, <3>3 DEF Setting
    <3> QED BY <3>4, AgentAssumption
  <2> QED BY <2>1, <2>2
<1>11. Idle \/ pend.op # "setattr" \/ pend' # None => SetattrReports
  BY DEF SetattrReports
<1>12. pend.op = "readdir" => pend.op # "setattr"
  OBVIOUS
<1>13. ASSUME Reconnect PROVE TypedStep /\ Rest' /\ SetattrReports
  BY <1>13, ReconnectStep
<1> QED
  BY <1>1, <1>2, <1>3, <1>4, <1>5, <1>6, <1>7, <1>8, <1>9, <1>10, <1>11, <1>12, <1>13 DEF Next

LEMMA InitInv == Init => Inv
<1> SUFFICES ASSUME Init PROVE Inv
  OBVIOUS
<1>1. IInv
  BY InitTables
<1>2. TablesTyped
  <2>1. MaxIno \in Nat \ {0} /\ MaxFh \in Nat
    BY AgentAssumption
  <2>2. /\ next_ino = 2 /\ DOMAIN inodes = {} /\ DOMAIN rev = {}
        /\ next_fh = 1 /\ DOMAIN fhs = {} /\ \A i \in DOMAIN known : known[i] = "dir"
    BY DEF Init, Nothing
  <2>3. 2..(next_ino - 1) = {} /\ next_fh \in 1..(MaxFh + 1)
    BY <2>1, <2>2
  <2>4. next_ino \in 2..(MaxIno + 1)
    BY <2>1, <2>2
  <2> QED BY <2>2, <2>3, <2>4 DEF TablesTyped, InodesTyped, HandlesTyped, Ran, Kind
<1>3. Rest
  BY AgentAssumption, ResultFacts
     DEF Init, Rest, ScanTyped, PendTyped, ReplyTyped, HostTyped, ScanOK, ReadOK, SetOK, Idle, Tag
<1> QED BY <1>1, <1>2, <1>3 DEF Inv

LEMMA StepInv == Inv /\ [Next]_vars => Inv' /\ [SetattrReports]_vars
<1> SUFFICES ASSUME Inv, [Next]_vars PROVE Inv' /\ [SetattrReports]_vars
  OBVIOUS
<1>1. IInv'
  BY StepTables DEF Inv
<1>2. CASE Next
  <2>1. TypedStep /\ Rest' /\ SetattrReports
    BY <1>2, NextStep
  <2>2. TablesTyped'
    BY <2>1, TypedStepFacts DEF Inv
  <2> QED BY <1>1, <2>1, <2>2 DEF Inv
<1>3. CASE UNCHANGED vars
  <2>1. TypedStep
    BY <1>3 DEF vars, TypedStep
  <2>2. TablesTyped'
    BY <2>1, TypedStepFacts DEF Inv
  <2>3. Rest'
    BY <1>3 DEF vars, inoTable, fhTable, Inv, Rest, ScanTyped, Holds, PendTyped, ReplyTyped,
                HostTyped, ScanOK, ReadOK, SetOK, Idle, Everything, Fit, PathFor
  <2> QED BY <1>1, <1>3, <2>2, <2>3 DEF Inv
<1> QED BY <1>2, <1>3

\* Whatever the kernel asks and the host does, the agent's variables have their types and the
\* directory stays a tree, renames and writes that land late included.
THEOREM TypeOKCorrect == Spec => []TypeOK
<1>1. Inv => TypeOK
  BY TypeParts DEF Inv, Rest
<1> QED BY <1>1, InitInv, StepInv, PTL DEF Spec

\* However many requests it takes to read a directory, and whatever else happens in between,
\* the kernel gets every entry once while none comes or goes (imp.rs:330-381).
THEOREM ScanExactCorrect == Spec => []ScanExact
<1>1. ASSUME Inv PROVE ScanExact
  <2> SUFFICES ASSUME scan # None, scan.quiet
      PROVE  /\ scan.got = SubSeq(Everything, 1, scan.offset)
             /\ scan.eof => scan.got = Everything
    BY DEF ScanExact, Everything
  <2>1. /\ scan.got = SubSeq(Everything, 1, scan.offset)
        /\ scan.eof => scan.offset = Len(Everything)
    BY <1>1 DEF Inv, Rest, ScanOK
  <2>2. Everything \in Seq(Fit)
    BY <1>1, InUse, EverythingTyped
  <2>3. SubSeq(Everything, 1, Len(Everything)) = Everything
    BY <2>2
  <2> QED BY <2>1, <2>3
<1> QED BY <1>1, InitInv, StepInv, PTL DEF Spec

\* setattr reports the size it was asked for, unless somebody else changed the file between
\* its two calls (imp.rs:266-307).
THEOREM SetattrReportsCorrect == Spec => SetattrReportsAlways
<1> QED BY InitInv, StepInv, PTL DEF Spec, SetattrReportsAlways
-------------------------------------------------------------------------------
\* The jail.

\* A method denies nothing but what the jail denies, or everything that changes something.
LEMMA DeniedBy ==
    ASSUME NEW f, NEW p
    PROVE  /\ Is(Stat(f, p), "PermissionDenied") => Denied(f, p)
           /\ Is(List(f, p), "PermissionDenied") => Denied(f, p)
           /\ \A at : Is(Read(f, p, at), "PermissionDenied") => Denied(f, p)
           /\ \A at, b : Is(Write(f, p, at, b), "PermissionDenied") => ReadOnly \/ Denied(f, p)
           /\ Is(Create(f, p), "PermissionDenied") => ReadOnly \/ Denied(f, p)
           /\ Is(Mkdir(f, p), "PermissionDenied") => ReadOnly \/ Denied(f, p)
           /\ Is(Remove(f, p), "PermissionDenied") => ReadOnly \/ Denied(f, p)
           /\ Is(Rmdir(f, p), "PermissionDenied") => ReadOnly \/ Denied(f, p)
           /\ \A q : Is(Rename(f, p, q), "PermissionDenied") =>
                        ReadOnly \/ Denied(f, p) \/ Denied(f, q)
           /\ \A n : Is(Truncate(f, p, n), "PermissionDenied") => ReadOnly \/ Denied(f, p)
<1>1. \A q : Unreachable(f, q) \in {"Io", "NotFound"}
  BY DEF Unreachable
<1>2. /\ Is(OnExisting(f, p), "PermissionDenied") => Denied(f, p)
      /\ Is(OnNewEntry(f, p), "PermissionDenied") => Denied(f, p)
  BY <1>1, ResultFacts DEF OnExisting, OnNewEntry, Checked, Is
<1>3. ASSUME NEW o PROVE Is(Writable(f, o), "PermissionDenied") => ReadOnly \/ Is(o, "PermissionDenied")
  BY DEF Writable
<1>4. /\ Is(Stat(f, p), "PermissionDenied") => Denied(f, p)
      /\ Is(List(f, p), "PermissionDenied") => Denied(f, p)
      /\ \A at : Is(Read(f, p, at), "PermissionDenied") => Denied(f, p)
  BY <1>2, ResultFacts DEF Stat, List, Read, Is
<1>5. Is(Emptied(f, p), "PermissionDenied") => Denied(f, p)
  BY <1>2, ResultFacts DEF Emptied, Is
<1>6. \A at, b : Is(Written(f, p, at, b), "PermissionDenied") => Denied(f, p)
  BY <1>5, ResultFacts DEF Written, Is
<1>7. \A at, b : Is(Write(f, p, at, b), "PermissionDenied") => ReadOnly \/ Denied(f, p)
  BY <1>3, <1>6 DEF Write
<1>8. Is(Create(f, p), "PermissionDenied") => ReadOnly \/ Denied(f, p)
  BY <1>5, ResultFacts DEF Create, Writable, Is
<1>9. Is(Mkdir(f, p), "PermissionDenied") => ReadOnly \/ Denied(f, p)
  BY <1>2, ResultFacts DEF Mkdir, Writable, Is
<1>10. /\ Is(Remove(f, p), "PermissionDenied") => ReadOnly \/ Denied(f, p)
       /\ Is(Rmdir(f, p), "PermissionDenied") => ReadOnly \/ Denied(f, p)
  BY <1>2, ResultFacts DEF Remove, Rmdir, Writable, Is
<1>11. \A q : Is(Rename(f, p, q), "PermissionDenied") => ReadOnly \/ Denied(f, p) \/ Denied(f, q)
  BY <1>1, ResultFacts DEF Rename, Writable, Is
<1>12. \A n : Is(Truncate(f, p, n), "PermissionDenied") => ReadOnly \/ Denied(f, p)
  BY <1>2, ResultFacts DEF Truncate, Writable, Is
<1> QED BY <1>4, <1>7, <1>8, <1>9, <1>10, <1>11, <1>12

\* Nothing but the root has its number, and it is never opened as a file.
RootIsDir ==
    /\ 1 \in DOMAIN known /\ known[1] = "dir"
    /\ \A h \in DOMAIN opened : opened[h].kind = "file" => opened[h].ino # 1

LEMMA StepRootIsDir ==
    ASSUME Inv, RootIsDir, [Next]_vars
    PROVE  RootIsDir'
<1>1. ASSUME UNCHANGED <<known, opened>> PROVE RootIsDir'
  BY <1>1 DEF RootIsDir
<1>2. ASSUME NEW path \in Path, path # Root PROVE Ino(path) # 1
  <2>1. path \in DOMAIN rev => rev[path] \in DOMAIN inodes /\ 1 \notin DOMAIN inodes
    BY DEF Inv, IInv, TablesInverse
  <2>2. next_ino # 1
    BY DEF Inv, TablesTyped, InodesTyped
  <2> QED BY <1>2, <2>1, <2>2 DEF Ino
<1>3. ASSUME NEW path \in Path, path # Root, NEW kind, known' = Put(known, Ino(path), kind)
      PROVE  1 \in DOMAIN known' /\ known'[1] = "dir"
  BY <1>2, <1>3 DEF Put, RootIsDir
<1>4. ASSUME NEW path, NEW i, NEW kind, AllocFh(path, i, kind), kind = "file" => i # 1
      PROVE  \A h \in DOMAIN opened' : opened'[h].kind = "file" => opened'[h].ino # 1
  BY <1>4 DEF AllocFh, Put, RootIsDir
<1>5. ASSUME NEW i \in DOMAIN known, NEW n \in Name, Lookup(i, n) \/ MakeDir(i, n) \/ CreateFile(i, n)
      PROVE  RootIsDir'
  <2>1. Below(i, n) \in Path /\ Below(i, n) # Root
    BY <1>5, BelowPath DEF Lookup, MakeDir, CreateFile
  <2>2. CASE Lookup(i, n) \/ MakeDir(i, n)
    BY <1>3, <2>1, <2>2 DEF Lookup, MakeDir, Enter, RootIsDir
  <2>3. CASE CreateFile(i, n)
    BY <1>2, <1>3, <1>4, <2>1, <2>3 DEF CreateFile, Enter, RootIsDir
  <2> QED BY <1>5, <2>2, <2>3
<1>6. ASSUME NEW i \in DOMAIN known, Opendir(i) \/ Open(i) PROVE RootIsDir'
  <2>1. CASE Opendir(i)
    BY <1>4, <2>1 DEF Opendir, RootIsDir
  <2>2. CASE Open(i)
    <3>1. i # 1
      BY <2>2 DEF Open, Knows, RootIsDir
    <3> QED BY <1>4, <2>2, <3>1 DEF Open, RootIsDir
  <2> QED BY <1>6, <2>1, <2>2
<1>7. ASSUME NEW h \in DOMAIN opened, Releasedir(h) \/ Release(h) PROVE RootIsDir'
  BY <1>7 DEF Releasedir, Release, Without, RootIsDir
<1>8. CASE UNCHANGED vars
  BY <1>1, <1>8 DEF vars
<1> QED
  BY <1>1, <1>5, <1>6, <1>7, <1>8
     DEF Next, Unlink, RemoveDir, RenameEntry, Getattr, Setattr, ReadData, WriteData, SetattrStat,
         Readdir, ReaddirEntry, ReaddirEnd, Reconnect, Land, HostEdit

\* The requests that are about the root itself.
AboutRoot ==
    \/ Getattr(1)
    \/ SetattrStat /\ pend.ino = 1
    \/ Readdir /\ opened[scan.fh].ino = 1

\* What answers nothing.
NoRequest == Reconnect \/ (\E p \in DOMAIN fs : Land(p)) \/ (\E p \in Path : HostEdit(p))

\* No request is denied but one about the root.
RootOnlyDenied ==
    reply'.tag = "PermissionDenied" => ReadOnly \/ AboutRoot \/ NoRequest

LEMMA StepDenied ==
    ASSUME CanonicalRoot, ~ReadOnly, Inv, RootIsDir, Answering, Next,
           reply'.tag = "PermissionDenied"
    PROVE  \/ ~RootAdmitted /\ AboutRoot
           \/ NoRequest /\ reply' = reply
<1>1. \A p : Denied(fs, p) => p = Root /\ ~RootAdmitted
  BY DEF Denied
<1>2. ASSUME NEW o, NEW r \in Rpc(o), Answer(r) PROVE Is(o, "PermissionDenied")
  BY <1>2 DEF Rpc, Answer, Settle, Is, Failed
<1>3. \A i \in DOMAIN known : PathFor(i) = Root => i = 1
  BY DEF PathFor, Inv, IInv, TablesInverse, KernelView
<1>4. \A h \in DOMAIN opened : fhs[h] = Root => opened[h].ino = 1
  BY <1>3, InUse
<1>5. \A i \in DOMAIN known, n \in Name : May(Below(i, n)) => ~Denied(fs, Below(i, n))
  BY <1>1, BelowPath
<1>6. ASSUME NEW i \in DOMAIN known, NEW n \in Name,
             \/ Lookup(i, n) \/ CreateFile(i, n) \/ MakeDir(i, n)
             \/ Unlink(i, n) \/ RemoveDir(i, n)
      PROVE  FALSE
  BY <1>2, <1>5, <1>6, DeniedBy DEF Lookup, CreateFile, MakeDir, Unlink, RemoveDir
<1>7. ASSUME NEW i \in DOMAIN known, NEW n \in Name, NEW j \in DOMAIN known, NEW m \in Name,
             RenameEntry(i, n, j, m)
      PROVE  FALSE
  BY <1>2, <1>5, <1>7, DeniedBy DEF RenameEntry
<1>8. ASSUME NEW i \in DOMAIN known, Getattr(i) PROVE ~RootAdmitted /\ AboutRoot
  <2>1. Denied(fs, PathFor(i))
    BY <1>2, <1>8, DeniedBy DEF Getattr
  <2> QED BY <1>1, <1>3, <1>8, <2>1 DEF AboutRoot
<1>9. ASSUME NEW i \in DOMAIN known, NEW size \in 0..MaxSize \union {None}, Setattr(i, size)
      PROVE  FALSE
  <2>1. size # None /\ known[i] = "file" /\ Is(Truncate(fs, PathFor(i), size), "PermissionDenied")
    BY <1>2, <1>9 DEF Setattr, Is, Done, Unanswered, Failed, Answer
  <2>2. i = 1
    <3>1. Denied(fs, PathFor(i))
      BY <2>1, DeniedBy
    <3> QED BY <1>1, <1>3, <3>1
  <2> QED BY <2>1, <2>2 DEF RootIsDir
<1>10. ASSUME SetattrStat PROVE ~RootAdmitted /\ AboutRoot
  <2>1. Denied(fs, PathFor(pend.ino))
    BY <1>2, <1>10, DeniedBy DEF SetattrStat
  <2>2. pend.ino \in DOMAIN known
    BY <1>10 DEF SetattrStat, Inv, Rest, SetOK, Idle
  <2> QED BY <1>1, <1>3, <1>10, <2>1, <2>2 DEF AboutRoot
<1>11. ASSUME Readdir PROVE ~RootAdmitted /\ AboutRoot
  <2> DEFINE ino == opened[scan.fh].ino
  <2>1. Denied(fs, PathFor(ino))
    BY <1>2, <1>11, DeniedBy DEF Readdir, Unanswered, Failed
  <2>2. ino \in DOMAIN known
    BY <1>11, InUse DEF Readdir
  <2> QED BY <1>1, <1>3, <1>11, <2>1, <2>2 DEF AboutRoot
<1>12. ASSUME NEW h \in DOMAIN opened, NEW at \in 0..(MaxSize - 1),
              ReadData(h, at) \/ \E b \in Block : WriteData(h, at, b)
       PROVE  FALSE
  <2>1. Holds(h, "file") /\ Denied(fs, fhs[h])
    BY <1>2, <1>12, DeniedBy DEF ReadData, WriteData
  <2>2. opened[h].ino = 1
    BY <1>1, <1>4, <2>1
  <2> QED BY <2>1, <2>2 DEF Holds, RootIsDir
<1>13. ASSUME NEW i \in DOMAIN known, Opendir(i) \/ Open(i) PROVE FALSE
  BY <1>13 DEF Opendir, Open, Done
<1>14. ASSUME NEW h \in DOMAIN opened, Releasedir(h) \/ Release(h) PROVE FALSE
  BY <1>14 DEF Releasedir, Release, Done
<1>15. ASSUME ReaddirEntry \/ ReaddirEnd PROVE FALSE
  BY <1>15 DEF ReaddirEntry, ReaddirEnd, Answering, Done
<1>16. NoRequest => reply' = reply
  BY DEF NoRequest, Reconnect, Land, HostEdit
<1> QED
  BY <1>6, <1>7, <1>8, <1>9, <1>10, <1>11, <1>12, <1>13, <1>14, <1>15, <1>16
     DEF Next, NoRequest

LEMMA JailInv == Spec => []Inv /\ []RootIsDir /\ []Answering
<1>1. Init => RootIsDir /\ Answering
  BY DEF Init, RootIsDir, Answering, Idle, Nothing
<1>2. Answering /\ [Next]_vars => Answering'
  BY StepTraces
<1> QED BY <1>1, <1>2, InitInv, StepInv, StepRootIsDir, PTL DEF Spec

\* On a writable mount whose root was given as a canonical path the jail denies
\* nothing but the root itself (core lib.rs:96-110), whatever the names and the tree.
THEOREM RootOnlyDeniedCorrect == CanonicalRoot => (Spec => [][RootOnlyDenied]_vars)
<1> SUFFICES ASSUME CanonicalRoot PROVE Spec => [][RootOnlyDenied]_vars
  OBVIOUS
<1>1. Inv /\ RootIsDir /\ Answering /\ [Next]_vars => [RootOnlyDenied]_vars
  BY StepDenied DEF RootOnlyDenied
<1> QED BY <1>1, JailInv, PTL DEF Spec

\* And nothing at all where the parent of the root is under it, as it is for "/".
THEOREM OwnPathsAdmittedCorrect ==
    CanonicalRoot /\ RootAdmitted => (Spec => OwnPathsAdmitted)
<1> SUFFICES ASSUME CanonicalRoot, RootAdmitted PROVE Spec => OwnPathsAdmitted
  OBVIOUS
<1> DEFINE Clean == reply.tag = "PermissionDenied" => ReadOnly
<1>1. Init => Clean
  BY DEF Init, Done
<1>2. Inv /\ RootIsDir /\ Answering /\ Clean /\ [Next]_vars => Clean'
  BY StepDenied DEF vars
<1>3. Clean' <=> (reply'.tag = "PermissionDenied" => ReadOnly)
  OBVIOUS
<1> QED BY <1>1, <1>2, <1>3, JailInv, PTL DEF Spec, OwnPathsAdmitted
===============================================================================
