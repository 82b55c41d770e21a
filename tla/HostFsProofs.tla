----------------------------- MODULE HostFsProofs -----------------------------
(* HostFs for every set of names, depth and order of listing: each method     *)
(* leaves a directory tree a tree, and a listing names each entry once.       *)
EXTENDS HostFs, SequenceTheorems, WellFoundedInduction, TLAPS

-------------------------------------------------------------------------------
\* Paths.

LEMMA PathFacts ==
    ASSUME NEW p
    PROVE  p \in Path <=> p \in Seq(Name) /\ Len(p) <= MaxDepth
<1>1. ASSUME p \in Path PROVE p \in Seq(Name) /\ Len(p) <= MaxDepth
  <2>1. PICK n \in 0..MaxDepth : p \in [1..n -> Name]
    BY <1>1 DEF Path
  <2>2. n \in Nat /\ p \in Seq(Name)
    BY <2>1, HostFsAssumption
  <2>3. Len(p) = n
    BY <2>1, <2>2
  <2> QED BY <2>1, <2>2, <2>3, HostFsAssumption
<1>2. ASSUME p \in Seq(Name), Len(p) <= MaxDepth PROVE p \in Path
  <2>1. Len(p) \in 0..MaxDepth /\ p \in [1..Len(p) -> Name]
    BY <1>2, HostFsAssumption
  <2> QED BY <2>1 DEF Path
<1> QED BY <1>1, <1>2

LEMMA ParentFacts ==
    ASSUME NEW p \in Seq(Name), p # Root
    PROVE  /\ Parent(p) \in Seq(Name)
           /\ Len(Parent(p)) = Len(p) - 1
           /\ \A i \in 1..(Len(p) - 1) : Parent(p)[i] = p[i]
<1>1. Len(p) \in Nat \ {0}
  BY DEF Root
<1> DEFINE k == Len(p) - 1
<1>2. k \in Nat /\ \A i \in 1..k : p[i] \in Name
  BY <1>1
<1> HIDE DEF k
<1>3. /\ SubSeq(p, 1, k) \in Seq(Name)
      /\ Len(SubSeq(p, 1, k)) = IF 1 <= k THEN k - 1 + 1 ELSE 0
      /\ \A i \in 1..(k - 1 + 1) : SubSeq(p, 1, k)[i] = p[1 + i - 1]
  BY <1>2, SubSeqProperties
<1>4. Len(SubSeq(p, 1, k)) = k /\ \A i \in 1..k : SubSeq(p, 1, k)[i] = p[i]
  BY <1>2, <1>3
<1> QED BY <1>3, <1>4 DEF Parent, k

LEMMA UnderFacts ==
    ASSUME NEW p \in Seq(Name), NEW q \in Seq(Name)
    PROVE  Under(p, q) <=> Len(q) < Len(p) /\ \A i \in 1..Len(q) : p[i] = q[i]
<1>1. Len(p) \in Nat /\ Len(q) \in Nat
  OBVIOUS
<1> SUFFICES ASSUME Len(q) < Len(p)
    PROVE  SubSeq(p, 1, Len(q)) = q <=> \A i \in 1..Len(q) : p[i] = q[i]
  BY DEF Under
<1>2. \A i \in 1..Len(q) : p[i] \in Name
  BY <1>1
<1>3. /\ SubSeq(p, 1, Len(q)) \in Seq(Name)
      /\ Len(SubSeq(p, 1, Len(q))) = IF 1 <= Len(q) THEN Len(q) - 1 + 1 ELSE 0
      /\ \A i \in 1..(Len(q) - 1 + 1) : SubSeq(p, 1, Len(q))[i] = p[1 + i - 1]
  BY <1>1, <1>2, SubSeqProperties
<1>4. Len(SubSeq(p, 1, Len(q))) = Len(q) /\ \A i \in 1..Len(q) : SubSeq(p, 1, Len(q))[i] = p[i]
  BY <1>1, <1>3
<1>5. ASSUME \A i \in 1..Len(q) : p[i] = q[i] PROVE SubSeq(p, 1, Len(q)) = q
  BY <1>3, <1>4, <1>5, SeqEqual
<1> QED BY <1>4, <1>5

\* What lies under a path is below it or below something that does.
LEMMA UnderParent ==
    ASSUME NEW r \in Seq(Name), NEW p \in Seq(Name), r # Root
    PROVE  Under(r, p) <=> Parent(r) = p \/ Under(Parent(r), p)
<1>1. /\ Parent(r) \in Seq(Name) /\ Len(Parent(r)) = Len(r) - 1
      /\ \A i \in 1..(Len(r) - 1) : Parent(r)[i] = r[i]
  BY ParentFacts
<1>2. Len(r) \in Nat \ {0} /\ Len(p) \in Nat
  BY DEF Root
<1>3. ASSUME Under(r, p), Parent(r) # p PROVE Under(Parent(r), p)
  <2>1. Len(p) < Len(r) /\ \A i \in 1..Len(p) : r[i] = p[i]
    BY <1>3, UnderFacts
  <2>2. \A i \in 1..Len(p) : Parent(r)[i] = p[i]
    BY <2>1, <1>1, <1>2
  <2>3. Len(p) # Len(Parent(r))
    BY <2>2, <1>1, <1>3, SeqEqual
  <2>4. Len(p) < Len(Parent(r))
    BY <2>1, <2>3, <1>1, <1>2
  <2> QED BY <2>2, <2>4, <1>1, UnderFacts
<1>4. ASSUME Parent(r) = p PROVE Under(r, p)
  BY <1>1, <1>2, <1>4, UnderFacts
<1>5. ASSUME Under(Parent(r), p) PROVE Under(r, p)
  <2>1. Len(p) < Len(Parent(r)) /\ \A i \in 1..Len(p) : Parent(r)[i] = p[i]
    BY <1>1, <1>5, UnderFacts
  <2>2. Len(p) < Len(r) /\ \A i \in 1..Len(p) : r[i] = p[i]
    BY <2>1, <1>1, <1>2
  <2> QED BY <2>2, UnderFacts
<1> QED BY <1>3, <1>4, <1>5

\* A path is neither its own parent nor above it, and the root is under nothing.
LEMMA ParentAbove ==
    ASSUME NEW p \in Seq(Name), p # Root
    PROVE  Parent(p) # p /\ ~Under(Parent(p), p)
<1>1. Parent(p) \in Seq(Name) /\ Len(Parent(p)) = Len(p) - 1
  BY ParentFacts
<1>2. Len(p) \in Nat
  OBVIOUS
<1> QED BY <1>1, <1>2 DEF Under

LEMMA RootUnderNothing ==
    ASSUME NEW p \in Seq(Name)
    PROVE  Root \in Seq(Name) /\ Root \in Path /\ ~Under(Root, p)
<1>1. Root \in Seq(Name) /\ Len(Root) = 0 /\ Len(p) \in Nat
  BY DEF Root
<1>2. Root \in Path
  <2>1. Len(Root) <= MaxDepth
    BY <1>1, HostFsAssumption
  <2> QED BY <1>1, <2>1, PathFacts
<1>3. ~Under(Root, p)
  BY <1>1 DEF Under
<1> QED BY <1>1, <1>2, <1>3

LEMMA ParentPath ==
    ASSUME NEW p \in Path, p # Root
    PROVE  Parent(p) \in Path
<1>1. p \in Seq(Name) /\ Len(p) <= MaxDepth
  BY PathFacts
<1>2. Parent(p) \in Seq(Name) /\ Len(Parent(p)) = Len(p) - 1
  BY <1>1, ParentFacts
<1> QED BY <1>1, <1>2, PathFacts, HostFsAssumption

LEMMA AppendPath ==
    ASSUME NEW p \in Path, NEW n \in Name
    PROVE  /\ Append(p, n) \in Seq(Name) /\ Append(p, n) # Root
           /\ Parent(Append(p, n)) = p
           /\ Len(Append(p, n)) <= MaxDepth => Append(p, n) \in Path
<1>1. p \in Seq(Name) /\ Len(p) \in Nat
  BY PathFacts
<1>2. /\ Append(p, n) \in Seq(Name) /\ Append(p, n) # Root
      /\ Len(Append(p, n)) = Len(p) + 1
      /\ \A i \in 1..Len(p) : Append(p, n)[i] = p[i]
  BY <1>1, AppendProperties DEF Root
<1>3. /\ Parent(Append(p, n)) \in Seq(Name)
      /\ Len(Parent(Append(p, n))) = Len(p)
      /\ \A i \in 1..Len(p) : Parent(Append(p, n))[i] = p[i]
  <2> DEFINE q == Append(p, n)
  <2>1. q \in Seq(Name) /\ q # Root /\ Len(q) = Len(p) + 1 /\ \A i \in 1..Len(p) : q[i] = p[i]
    BY <1>2
  <2> HIDE DEF q
  <2>2. /\ Parent(q) \in Seq(Name) /\ Len(Parent(q)) = Len(q) - 1
        /\ \A i \in 1..(Len(q) - 1) : Parent(q)[i] = q[i]
    BY <2>1, ParentFacts
  <2>3. Len(q) - 1 = Len(p)
    BY <1>1, <2>1
  <2>4. Len(Parent(q)) = Len(p) /\ \A i \in 1..Len(p) : Parent(q)[i] = p[i]
    BY <2>1, <2>2, <2>3
  <2> QED BY <2>2, <2>4 DEF q
<1>4. Parent(Append(p, n)) = p
  BY <1>1, <1>3, SeqEqual
<1> QED BY <1>2, <1>4, PathFacts

-------------------------------------------------------------------------------
\* The changes a directory tree goes through.

LEMMA TreeFacts ==
    ASSUME NEW f, Tree(f)
    PROVE  /\ \A p \in DOMAIN f : p \in Path /\ p \in Seq(Name) /\ f[p] \in Node
           /\ Root \in DOMAIN f /\ f[Root] = Dir
           /\ \A p \in DOMAIN f : p # Root => Parent(p) \in DOMAIN f /\ f[Parent(p)] = Dir
BY PathFacts DEF Tree, IsDir

LEMMA TreeOf ==
    ASSUME NEW f,
           \A p \in DOMAIN f : p \in Path /\ f[p] \in Node,
           Root \in DOMAIN f, f[Root] = Dir,
           \A p \in DOMAIN f : p # Root => Parent(p) \in DOMAIN f /\ f[Parent(p)] = Dir
    PROVE  Tree(f)
BY DEF Tree, IsDir

\* A new entry, or a new content for a file.
LEMMA PutTree ==
    ASSUME NEW f, Tree(f), NEW p \in Path, p # Root, NEW n \in Node,
           IsDir(f, Parent(p)), n = Dir \/ ~IsDir(f, p)
    PROVE  Tree(Put(f, p, n))
<1> DEFINE g == Put(f, p, n)
<1>1. /\ DOMAIN g = DOMAIN f \union {p} /\ g[p] = n
      /\ \A q \in DOMAIN f : q # p => g[q] = f[q]
  BY DEF Put
<1> HIDE DEF g
<1>2. \A q \in DOMAIN g : q \in Path /\ g[q] \in Node
  BY <1>1, TreeFacts
<1>3. Root \in DOMAIN g /\ g[Root] = Dir
  BY <1>1, TreeFacts
<1>4. ASSUME NEW q \in DOMAIN g, q # Root PROVE Parent(q) \in DOMAIN g /\ g[Parent(q)] = Dir
  <2>1. Parent(q) \in DOMAIN f /\ f[Parent(q)] = Dir
    BY <1>1, <1>4, TreeFacts DEF IsDir
  <2>2. CASE Parent(q) = p
    BY <2>1, <2>2, <1>1 DEF IsDir
  <2>3. CASE Parent(q) # p
    BY <2>1, <2>3, <1>1
  <2> QED BY <2>2, <2>3
<1> QED BY <1>2, <1>3, <1>4, TreeOf DEF g

\* An entry goes with everything under it.
LEMMA CutTree ==
    ASSUME NEW f, Tree(f), NEW p \in Path, p # Root
    PROVE  Tree(Cut(f, p))
<1> DEFINE g == Cut(f, p)
<1>1. /\ \A q : q \in DOMAIN g <=> q \in DOMAIN f /\ q # p /\ ~Under(q, p)
      /\ \A q \in DOMAIN g : g[q] = f[q]
  BY DEF Cut
<1> HIDE DEF g
<1>2. p \in Seq(Name)
  BY PathFacts
<1>3. \A q \in DOMAIN g : q \in Path /\ g[q] \in Node
  BY <1>1, TreeFacts
<1>4. Root \in DOMAIN g /\ g[Root] = Dir
  BY <1>1, <1>2, TreeFacts, RootUnderNothing
<1>5. ASSUME NEW q \in DOMAIN g, q # Root PROVE Parent(q) \in DOMAIN g /\ g[Parent(q)] = Dir
  <2>1. q \in DOMAIN f /\ q \in Seq(Name) /\ Parent(q) \in DOMAIN f /\ f[Parent(q)] = Dir
    BY <1>1, <1>5, TreeFacts
  <2>2. Parent(q) # p /\ ~Under(Parent(q), p)
    BY <2>1, <1>1, <1>2, <1>5, UnderParent
  <2> QED BY <2>1, <2>2, <1>1
<1> QED BY <1>3, <1>4, <1>5, TreeOf DEF g

LEMMA CarriedFacts ==
    ASSUME NEW p \in Seq(Name), NEW q \in Seq(Name), NEW r \in Seq(Name),
           r = p \/ Under(r, p)
    PROVE  /\ Carried(r, p, q) \in Seq(Name)
           /\ Len(Carried(r, p, q)) = Len(q) + (Len(r) - Len(p))
           /\ \A i \in 1..Len(q) : Carried(r, p, q)[i] = q[i]
           /\ \A i \in 1..(Len(r) - Len(p)) : Carried(r, p, q)[Len(q) + i] = r[Len(p) + i]
<1> DEFINE s == SubSeq(r, Len(p) + 1, Len(r))
           k == Len(r) - Len(p)
<1>1. Len(p) \in Nat /\ Len(q) \in Nat /\ Len(r) \in Nat /\ k \in Nat
  BY UnderFacts
<1>2. \A i \in (Len(p) + 1)..Len(r) : r[i] \in Name
  BY <1>1
<1>3. /\ s \in Seq(Name)
      /\ Len(s) = IF Len(p) + 1 <= Len(r) THEN Len(r) - (Len(p) + 1) + 1 ELSE 0
      /\ \A i \in 1..(Len(r) - (Len(p) + 1) + 1) : s[i] = r[(Len(p) + 1) + i - 1]
  BY <1>1, <1>2, SubSeqProperties
<1>4. Len(s) = k /\ \A i \in 1..k : s[i] = r[Len(p) + i]
  BY <1>1, <1>3
<1> HIDE DEF s, k
<1>5. /\ q \o s \in Seq(Name) /\ Len(q \o s) = Len(q) + k
      /\ \A i \in 1..(Len(q) + k) : (q \o s)[i] = IF i <= Len(q) THEN q[i] ELSE s[i - Len(q)]
  BY <1>3, <1>4, ConcatProperties
<1>6. \A i \in 1..Len(q) : (q \o s)[i] = q[i]
  BY <1>1, <1>5
<1>7. ASSUME NEW i \in 1..k PROVE (q \o s)[Len(q) + i] = r[Len(p) + i]
  <2>1. Len(q) + i \in 1..(Len(q) + k) /\ ~(Len(q) + i <= Len(q)) /\ (Len(q) + i) - Len(q) = i
    BY <1>1
  <2> QED BY <2>1, <1>4, <1>5
<1> QED BY <1>5, <1>6, <1>7 DEF Carried, s, k

\* It ends up at q or under it, can be carried back, and its parent goes along.
LEMMA CarriedUnder ==
    ASSUME NEW p \in Seq(Name), NEW q \in Seq(Name), NEW r \in Seq(Name),
           r = p \/ Under(r, p)
    PROVE  /\ Carried(r, p, q) = q \/ Under(Carried(r, p, q), q)
           /\ Carried(Carried(r, p, q), q, p) = r
           /\ r = p => Carried(r, p, q) = q
<1> DEFINE t == Carried(r, p, q)
           k == Len(r) - Len(p)
<1>1. Len(p) \in Nat /\ Len(q) \in Nat /\ Len(r) \in Nat /\ k \in Nat /\ (r = p => k = 0)
  BY UnderFacts
<1>2. /\ t \in Seq(Name) /\ Len(t) = Len(q) + k
      /\ \A i \in 1..Len(q) : t[i] = q[i]
      /\ \A i \in 1..k : t[Len(q) + i] = r[Len(p) + i]
  BY CarriedFacts
<1>3. /\ \A i \in 1..Len(p) : r[i] = p[i]
      /\ Len(r) = Len(p) + k
  BY <1>1, UnderFacts
<1> HIDE DEF t, k
<1>4. ASSUME k = 0 PROVE t = q
  BY <1>1, <1>2, <1>4, SeqEqual
<1>5. ASSUME k # 0 PROVE Under(t, q)
  BY <1>1, <1>2, <1>5, UnderFacts
<1>6. t = q \/ Under(t, q)
  BY <1>4, <1>5
<1>7. /\ Carried(t, q, p) \in Seq(Name) /\ Len(Carried(t, q, p)) = Len(p) + (Len(t) - Len(q))
      /\ \A i \in 1..Len(p) : Carried(t, q, p)[i] = p[i]
      /\ \A i \in 1..(Len(t) - Len(q)) : Carried(t, q, p)[Len(p) + i] = t[Len(q) + i]
  BY <1>2, <1>6, CarriedFacts
<1>8. Len(t) - Len(q) = k
  BY <1>1, <1>2
<1>9. \A i \in 1..Len(r) : Carried(t, q, p)[i] = r[i]
  <2> SUFFICES ASSUME NEW i \in 1..Len(r) PROVE Carried(t, q, p)[i] = r[i]
    OBVIOUS
  <2>1. CASE i <= Len(p)
    BY <2>1, <1>1, <1>3, <1>7
  <2>2. CASE ~(i <= Len(p))
    <3> DEFINE j == i - Len(p)
    <3>1. j \in 1..k /\ i = Len(p) + j
      BY <2>2, <1>1, <1>3
    <3> HIDE DEF j
    <3> QED BY <3>1, <1>2, <1>7, <1>8
  <2> QED BY <2>1, <2>2
<1>10. Carried(t, q, p) = r
  BY <1>3, <1>7, <1>8, <1>9, SeqEqual
<1> QED BY <1>1, <1>4, <1>6, <1>10 DEF t

LEMMA CarriedParent ==
    ASSUME NEW p \in Seq(Name), NEW q \in Seq(Name), NEW r \in Seq(Name), Under(r, p)
    PROVE  /\ r # Root /\ (Parent(r) = p \/ Under(Parent(r), p))
           /\ Parent(Carried(r, p, q)) = Carried(Parent(r), p, q)
<1> DEFINE t == Carried(r, p, q)
           u == Carried(Parent(r), p, q)
           k == Len(r) - Len(p)
<1>1. r # Root
  BY RootUnderNothing
<1>2. /\ Parent(r) \in Seq(Name) /\ Len(Parent(r)) = Len(r) - 1
      /\ \A i \in 1..(Len(r) - 1) : Parent(r)[i] = r[i]
  BY <1>1, ParentFacts
<1>3. Parent(r) = p \/ Under(Parent(r), p)
  BY <1>1, UnderParent
<1>4. Len(p) \in Nat /\ Len(q) \in Nat /\ Len(r) \in Nat /\ k \in Nat \ {0} /\ Len(r) = Len(p) + k
  BY UnderFacts
<1>5. /\ t \in Seq(Name) /\ Len(t) = Len(q) + k
      /\ \A i \in 1..Len(q) : t[i] = q[i]
      /\ \A i \in 1..k : t[Len(q) + i] = r[Len(p) + i]
  BY CarriedFacts
<1>6. /\ u \in Seq(Name) /\ Len(u) = Len(q) + (Len(Parent(r)) - Len(p))
      /\ \A i \in 1..Len(q) : u[i] = q[i]
      /\ \A i \in 1..(Len(Parent(r)) - Len(p)) : u[Len(q) + i] = Parent(r)[Len(p) + i]
  BY <1>2, <1>3, CarriedFacts
<1> HIDE DEF t, u, k
<1>7. Len(Parent(r)) - Len(p) = k - 1
  BY <1>2, <1>4
<1>8. t # Root /\ Len(t) - 1 = Len(q) + (k - 1)
  BY <1>4, <1>5 DEF Root
<1>9. /\ Parent(t) \in Seq(Name) /\ Len(Parent(t)) = Len(q) + (k - 1)
      /\ \A i \in 1..(Len(q) + (k - 1)) : Parent(t)[i] = t[i]
  BY <1>5, <1>8, ParentFacts
<1>10. ASSUME NEW i \in 1..(Len(q) + (k - 1)) PROVE Parent(t)[i] = u[i]
  <2>1. CASE i <= Len(q)
    BY <2>1, <1>4, <1>5, <1>6, <1>9
  <2>2. CASE ~(i <= Len(q))
    <3> DEFINE j == i - Len(q)
    <3>1. j \in 1..(k - 1) /\ j \in 1..k /\ i = Len(q) + j /\ Len(p) + j \in 1..(Len(r) - 1)
      BY <2>2, <1>4
    <3> HIDE DEF j
    <3>2. t[i] = r[Len(p) + j]
      BY <3>1, <1>5
    <3>3. u[i] = Parent(r)[Len(p) + j]
      BY <3>1, <1>6, <1>7
    <3> QED BY <3>1, <3>2, <3>3, <1>2, <1>9
  <2> QED BY <2>1, <2>2
<1>11. Parent(t) = u
  BY <1>4, <1>6, <1>7, <1>9, <1>10, SeqEqual
<1> QED BY <1>1, <1>3, <1>11 DEF t, u

\* A rename within the bounds, with everything under the entry, over what was
\* at its new name (core lib.rs:271-276).
LEMMA MovedTree ==
    ASSUME NEW f, Tree(f), NEW p \in Path, NEW q \in Path, p # Root, q # Root,
           p \in DOMAIN f, IsDir(f, Parent(q)), p # q, ~Under(q, p),
           DOMAIN Moved(f, p, q) \subseteq Path
    PROVE  Tree(Moved(f, p, q))
<1> DEFINE g == Moved(f, p, q)
           rest == Cut(Cut(f, p), q)
           from == {s \in DOMAIN f : s = p \/ Under(s, p)}
           sub == {Carried(r, p, q) : r \in from}
<1>1. p \in Seq(Name) /\ q \in Seq(Name) /\ p \in from
  BY PathFacts
<1>2. Tree(rest)
  BY CutTree
<1>3. /\ \A r : r \in DOMAIN rest <=> /\ r \in DOMAIN f /\ r # p /\ ~Under(r, p)
                                      /\ r # q /\ ~Under(r, q)
      /\ \A r \in DOMAIN rest : rest[r] = f[r]
  BY DEF Cut
<1>4. /\ DOMAIN g = DOMAIN rest \union sub
      /\ \A r \in DOMAIN g : g[r] = IF r \in sub THEN f[Carried(r, q, p)] ELSE rest[r]
  BY DEF Moved
<1>5. \A r \in from : r \in DOMAIN f /\ r \in Seq(Name) /\ (r = p \/ Under(r, p))
  BY TreeFacts
<1>6. \A r \in from : Carried(r, p, q) \in sub
  OBVIOUS
<1>7. \A t \in sub : \E r \in from : t = Carried(r, p, q)
  OBVIOUS
<1>8. \A r : r \in DOMAIN f /\ (r = p \/ Under(r, p)) => r \in from
  OBVIOUS
<1> HIDE DEF g, rest, from, sub
<1>9. ASSUME NEW t \in sub
      PROVE  \E r \in from : t = Carried(r, p, q) /\ Carried(t, q, p) = r /\ (t = q \/ Under(t, q))
  BY <1>1, <1>5, <1>7, CarriedUnder
<1>10. \A t \in sub : t \notin DOMAIN rest
  BY <1>3, <1>9
<1>11. \A t \in DOMAIN rest : t \in DOMAIN g /\ g[t] = f[t]
  BY <1>3, <1>4, <1>10
<1>12. ASSUME NEW r \in from PROVE Carried(r, p, q) \in DOMAIN g /\ g[Carried(r, p, q)] = f[r]
  BY <1>1, <1>4, <1>5, <1>6, CarriedUnder
<1>13. \A t \in DOMAIN g : t \in Path /\ g[t] \in Node
  <2> SUFFICES ASSUME NEW t \in DOMAIN g PROVE g[t] \in Node
    BY DEF g
  <2>1. CASE t \in DOMAIN rest
    BY <2>1, <1>3, <1>11, TreeFacts
  <2>2. CASE t \in sub
    BY <2>2, <1>5, <1>7, <1>12, TreeFacts
  <2> QED BY <2>1, <2>2, <1>4
<1>14. Root \in DOMAIN g /\ g[Root] = Dir
  BY <1>2, <1>3, <1>11, TreeFacts
<1>15. Parent(q) \in DOMAIN rest
  <2>1. Parent(q) # q /\ ~Under(Parent(q), q) /\ Parent(q) # p /\ ~Under(Parent(q), p)
    BY <1>1, ParentAbove, UnderParent
  <2> QED BY <2>1, <1>3 DEF IsDir
<1>16. ASSUME NEW t \in DOMAIN g, t # Root PROVE Parent(t) \in DOMAIN g /\ g[Parent(t)] = Dir
  <2>1. CASE t \in DOMAIN rest
    <3>1. Parent(t) \in DOMAIN rest /\ rest[Parent(t)] = Dir
      BY <2>1, <1>2, <1>16, TreeFacts
    <3> QED BY <3>1, <1>3, <1>11
  <2>2. CASE t \in sub
    <3>1. PICK r \in from : t = Carried(r, p, q)
      BY <2>2, <1>7
    <3>2. CASE r = p
      <4>1. t = q
        BY <3>1, <3>2, <1>1, CarriedUnder
      <4> QED BY <4>1, <1>11, <1>15 DEF IsDir
    <3>3. CASE r # p
      <4>1. /\ r # Root /\ (Parent(r) = p \/ Under(Parent(r), p))
            /\ Parent(t) = Carried(Parent(r), p, q)
        BY <3>1, <3>3, <1>1, <1>5, CarriedParent
      <4>2. Parent(r) \in DOMAIN f /\ f[Parent(r)] = Dir
        BY <4>1, <1>5, TreeFacts
      <4> QED BY <4>1, <4>2, <1>8, <1>12
    <3> QED BY <3>2, <3>3
  <2> QED BY <2>1, <2>2, <1>4
<1> QED BY <1>13, <1>14, <1>16, TreeOf DEF g

-------------------------------------------------------------------------------
\* What is in a tree.

LEMMA NodeFacts ==
    /\ Dir \in Node /\ Dir.kind = "dir"
    /\ \A d, w : File(d, w) # Dir /\ File(d, w).data = d /\ File(d, w).flight = w
    /\ \A d \in Data, w \in SUBSET Pending : File(d, w) \in Node
    /\ \A n \in Node : n # Dir => n.kind = "file" /\ n.data \in Data /\ n.flight \subseteq Pending
<1>1. Dir \in Node /\ Dir.kind = "dir"
  BY DEF Node, Dir
<1>2. \A d, w : /\ File(d, w) # Dir /\ File(d, w).kind = "file"
                /\ File(d, w).data = d /\ File(d, w).flight = w
  BY DEF File, Dir
<1>3. \A d \in Data, w \in SUBSET Pending : File(d, w) \in Node
  BY DEF Node
<1>4. ASSUME NEW n \in Node, n # Dir
      PROVE  n.kind = "file" /\ n.data \in Data /\ n.flight \subseteq Pending
  <2>1. PICK d \in Data, w \in SUBSET Pending : n = File(d, w)
    BY <1>4 DEF Node
  <2> QED BY <2>1, <1>2
<1> QED BY <1>1, <1>2, <1>3, <1>4

LEMMA DataFacts ==
    ASSUME NEW d
    PROVE  d \in Data <=> d \in Seq(Block \union {0}) /\ Len(d) <= MaxSize
<1> DEFINE B == Block \union {0}
<1>1. ASSUME d \in Data PROVE d \in Seq(B) /\ Len(d) <= MaxSize
  <2>1. PICK n \in 0..MaxSize : d \in [1..n -> B]
    BY <1>1 DEF Data
  <2> HIDE DEF B
  <2>2. n \in Nat /\ d \in Seq(B)
    BY <2>1, HostFsAssumption
  <2>3. Len(d) = n
    BY <2>1, <2>2
  <2> QED BY <2>1, <2>2, <2>3, HostFsAssumption
<1>2. ASSUME d \in Seq(B), Len(d) <= MaxSize PROVE d \in Data
  <2>1. Len(d) \in 0..MaxSize /\ d \in [1..Len(d) -> B]
    BY <1>2, HostFsAssumption
  <2> QED BY <2>1 DEF Data
<1> QED BY <1>1, <1>2

LEMMA EmptyData == <<>> \in Data
<1>1. <<>> \in Seq(Block \union {0}) /\ Len(<<>>) = 0
  BY EmptySeq
<1>2. Len(<<>>) <= MaxSize
  BY <1>1, HostFsAssumption
<1> QED BY <1>1, <1>2, DataFacts

\* set_len, and a write that goes beyond the end of the file.
LEMMA ResizedData ==
    ASSUME NEW d \in Data, NEW n \in 0..MaxSize
    PROVE  Resized(d, n) \in Data /\ Len(Resized(d, n)) = n
<1>1. d \in Seq(Block \union {0}) /\ n \in Nat /\ n <= MaxSize
  BY DataFacts, HostFsAssumption
<1>2. Resized(d, n) \in [1..n -> Block \union {0}]
  BY <1>1 DEF Resized
<1>3. Resized(d, n) \in Seq(Block \union {0}) /\ Len(Resized(d, n)) = n
  BY <1>1, <1>2
<1> QED BY <1>1, <1>3, DataFacts

LEMMA OverlaidData ==
    ASSUME NEW d \in Data, NEW w \in Pending
    PROVE  Overlaid(d, w) \in Data
<1> DEFINE n == IF w.at < Len(d) THEN Len(d) ELSE w.at + 1
           e == Resized(d, n)
           B == Block \union {0}
<1>1. d \in Seq(B) /\ Len(d) \in 0..MaxSize
  BY DataFacts, HostFsAssumption
<1>2. w.at \in Nat /\ w.at + 1 <= MaxSize /\ w.block \in B
  BY HostFsAssumption DEF Pending
<1>3. n \in 0..MaxSize
  BY <1>1, <1>2, HostFsAssumption
<1>9. w.at + 1 \in 1..n
  BY <1>1, <1>2
<1> HIDE DEF n
<1>4. e \in Data /\ Len(e) = n
  BY <1>3, ResizedData
<1>5. Overlaid(d, w) = [e EXCEPT ![w.at + 1] = w.block]
  BY DEF Overlaid, n
<1> HIDE DEF e, B
<1>6. e \in Seq(B)
  BY <1>4, DataFacts DEF B
<1>7. [e EXCEPT ![w.at + 1] = w.block] \in Seq(B) /\ Len([e EXCEPT ![w.at + 1] = w.block]) = n
  BY <1>2, <1>9, <1>4, <1>6, ExceptSeq
<1>8. Len(Overlaid(d, w)) <= MaxSize
  BY <1>3, <1>5, <1>7, HostFsAssumption
<1> QED BY <1>5, <1>7, <1>8, DataFacts DEF B

-------------------------------------------------------------------------------
\* The methods.

Tag == {"Ok", "Io", "NotFound", "PermissionDenied", "AlreadyExists"}

\* A result that a caller can make sense of, and a tree.
Sound(o) == o.res.tag \in Tag /\ Tree(o.fs)

LEMMA ResultFacts ==
    ASSUME NEW f
    PROVE  /\ \A e : Refused(e, f).fs = f /\ Refused(e, f).res.tag = e
           /\ \A r : Result(r, f).fs = f /\ Result(r, f).res = r
           /\ \A v : Value(v).tag = "Ok" /\ Value(v).val = v
           /\ Done.tag = "Ok"
BY DEF Refused, Result, Failed, Value, Done

LEMMA CheckedFacts ==
    ASSUME NEW f, NEW p
    PROVE  /\ OnExisting(f, p).fs = f /\ OnExisting(f, p).res.tag \in Tag
           /\ Is(OnExisting(f, p), "Ok") => p \in DOMAIN f
           /\ OnNewEntry(f, p).fs = f /\ OnNewEntry(f, p).res.tag \in Tag
           /\ Is(OnNewEntry(f, p), "Ok") => p = Root \/ IsDir(f, Parent(p))
<1>1. Unreachable(f, p) \in {"Io", "NotFound"}
  BY DEF Unreachable
<1>2. /\ OnExisting(f, p).fs = f /\ OnExisting(f, p).res.tag \in Tag
      /\ Is(OnExisting(f, p), "Ok") => p \in DOMAIN f
  BY <1>1, ResultFacts DEF OnExisting, Checked, Is, Tag
<1>3. /\ OnNewEntry(f, p).fs = f /\ OnNewEntry(f, p).res.tag \in Tag
      /\ Is(OnNewEntry(f, p), "Ok") => p = Root \/ IsDir(f, Parent(p))
  BY <1>1, ResultFacts DEF OnNewEntry, Checked, Is, Tag
<1> QED BY <1>2, <1>3

LEMMA StatSound ==
    ASSUME NEW f, Tree(f), NEW p
    PROVE  /\ Sound(Stat(f, p)) /\ Stat(f, p).fs = f
           /\ Is(Stat(f, p), "Ok") => /\ p \in DOMAIN f
                                      /\ Stat(f, p).res.val = Attr(f[p])
                                      /\ Stat(f, p).res.val.kind \in {"dir", "file"}
<1>1. CASE Is(OnExisting(f, p), "Ok")
  <2>1. Stat(f, p) = Result(Value(Attr(f[p])), f)
    BY <1>1 DEF Stat
  <2>2. p \in DOMAIN f /\ f[p] \in Node
    BY <1>1, CheckedFacts, TreeFacts
  <2>3. Attr(f[p]).kind \in {"dir", "file"}
    BY <2>2, NodeFacts DEF Attr
  <2> QED BY <2>1, <2>2, <2>3, ResultFacts DEF Sound, Tag
<1>2. CASE ~Is(OnExisting(f, p), "Ok")
  <2>1. Stat(f, p) = OnExisting(f, p)
    BY <1>2 DEF Stat
  <2> QED BY <1>2, <2>1, CheckedFacts DEF Sound
<1> QED BY <1>1, <1>2

LEMMA ListSound ==
    ASSUME NEW f, Tree(f), NEW p
    PROVE  /\ Sound(List(f, p)) /\ List(f, p).fs = f
           /\ Is(List(f, p), "Ok") => List(f, p).res.val.names = Listed(f, p)
<1>1. CASE Is(OnExisting(f, p), "Ok") /\ ~IsFile(f, p)
  <2>1. List(f, p) = Result(Value([names |-> Listed(f, p)]), f)
    BY <1>1 DEF List
  <2> QED BY <2>1, ResultFacts DEF Sound, Tag
<1>2. CASE Is(OnExisting(f, p), "Ok") /\ IsFile(f, p)
  <2>1. List(f, p) = Refused("Io", f)
    BY <1>2 DEF List
  <2> QED BY <2>1, ResultFacts DEF Sound, Tag, Is
<1>3. CASE ~Is(OnExisting(f, p), "Ok")
  <2>1. List(f, p) = OnExisting(f, p)
    BY <1>3 DEF List
  <2> QED BY <1>3, <2>1, CheckedFacts DEF Sound
<1> QED BY <1>1, <1>2, <1>3

LEMMA ReadSound ==
    ASSUME NEW f, Tree(f), NEW p, NEW at
    PROVE  Sound(Read(f, p, at)) /\ Read(f, p, at).fs = f
BY CheckedFacts, ResultFacts DEF Read, Sound, Tag

\* A method refused on a read-only mount is as sound as what it would do.
LEMMA WritableSound ==
    ASSUME NEW f, Tree(f), NEW o, Sound(o)
    PROVE  /\ Sound(Writable(f, o))
           /\ Is(Writable(f, o), "Ok") => Writable(f, o) = o
BY ResultFacts DEF Writable, Sound, Tag, Is

\* Opening with create and truncate leaves an empty file with what is in flight to it.
LEMMA EmptiedSound ==
    ASSUME NEW f, Tree(f), NEW p \in Path
    PROVE  /\ Sound(Emptied(f, p))
           /\ Is(Emptied(f, p), "Ok") =>
                 /\ p # Root /\ IsDir(f, Parent(p)) /\ ~IsDir(f, p)
                 /\ \E w \in SUBSET Pending : Emptied(f, p).fs = Put(f, p, File(<<>>, w))
<1>1. CASE ~Is(OnNewEntry(f, p), "Ok")
  <2>1. Emptied(f, p) = OnNewEntry(f, p)
    BY <1>1 DEF Emptied
  <2> QED BY <1>1, <2>1, CheckedFacts DEF Sound
<1>2. CASE Is(OnNewEntry(f, p), "Ok") /\ IsDir(f, p)
  <2>1. Emptied(f, p) = Refused("Io", f)
    BY <1>2 DEF Emptied
  <2> QED BY <2>1, ResultFacts DEF Sound, Tag, Is
<1>3. CASE Is(OnNewEntry(f, p), "Ok") /\ ~IsDir(f, p)
  <2> DEFINE w == IF p \in DOMAIN f THEN f[p].flight ELSE {}
  <2>1. Emptied(f, p) = Result(Done, Put(f, p, File(<<>>, w)))
    BY <1>3 DEF Emptied
  <2>2. p # Root /\ IsDir(f, Parent(p))
    BY <1>3, CheckedFacts DEF Tree
  <2>3. w \in SUBSET Pending
    BY <1>3, TreeFacts, NodeFacts DEF IsDir
  <2> HIDE DEF w
  <2>4. File(<<>>, w) \in Node
    BY <2>3, EmptyData, NodeFacts
  <2>5. Tree(Put(f, p, File(<<>>, w)))
    BY <1>3, <2>2, <2>4, PutTree
  <2> QED BY <1>3, <2>1, <2>2, <2>3, <2>5, ResultFacts DEF Sound, Tag
<1> QED BY <1>1, <1>2, <1>3

LEMMA WriteSound ==
    ASSUME NEW f, Tree(f), NEW p \in Path,
           NEW at \in 0..(MaxSize - 1), NEW b \in Block
    PROVE  Sound(Write(f, p, at, b))
<1> DEFINE e == Emptied(f, p)
           v == [at |-> at, block |-> b]
<1>1. Sound(Written(f, p, at, b))
  <2>1. CASE ~Is(e, "Ok")
    <3>1. Written(f, p, at, b) = e
      BY <2>1 DEF Written
    <3> QED BY <3>1, EmptiedSound
  <2>2. CASE Is(e, "Ok")
    <3>1. PICK w \in SUBSET Pending :
             /\ p # Root /\ IsDir(f, Parent(p)) /\ ~IsDir(f, p)
             /\ e.fs = Put(f, p, File(<<>>, w))
      BY <2>2, EmptiedSound
    <3> DEFINE n == File(<<>>, e.fs[p].flight \union {v})
    <3>2. Written(f, p, at, b) = Result(Value([written |-> 1]), Put(e.fs, p, n))
      BY <2>2 DEF Written
    <3> HIDE DEF e
    <3>3. e.fs[p] = File(<<>>, w)
      BY <3>1 DEF Put
    <3>4. e.fs[p].flight = w /\ v \in Pending
      BY <3>3, NodeFacts DEF Pending
    <3>5. n \in Node
      BY <3>4, EmptyData, NodeFacts
    <3> HIDE DEF n, v
    <3>6. Put(e.fs, p, n) = Put(f, p, n)
      BY <3>1 DEF Put
    <3>7. Tree(Put(f, p, n))
      BY <3>1, <3>5, PutTree
    <3> QED BY <3>2, <3>6, <3>7, ResultFacts DEF Sound, Tag
  <2> QED BY <2>1, <2>2
<1> QED BY <1>1, WritableSound DEF Write

LEMMA CreateSound ==
    ASSUME NEW f, Tree(f), NEW p \in Path
    PROVE  Sound(Create(f, p))
<1> DEFINE e == Emptied(f, p)
           o == IF Is(e, "Ok") THEN Result(Value(Attr(e.fs[p])), e.fs) ELSE e
<1>1. Sound(e)
  BY EmptiedSound
<1> HIDE DEF e
<1>2. Sound(o)
  BY <1>1, ResultFacts DEF Sound, Tag
<1>3. Create(f, p) = Writable(f, o)
  BY DEF Create, e
<1> QED BY <1>2, <1>3, WritableSound

LEMMA MkdirSound ==
    ASSUME NEW f, Tree(f), NEW p \in Path, p # Root
    PROVE  Sound(Mkdir(f, p))
<1> DEFINE e == OnNewEntry(f, p)
           o == IF ~Is(e, "Ok") THEN e
                ELSE IF p \in DOMAIN f THEN Refused("AlreadyExists", f)
                ELSE Result(Value(Attr(Dir)), Put(f, p, Dir))
<1>1. e.fs = f /\ e.res.tag \in Tag /\ (Is(e, "Ok") => IsDir(f, Parent(p)))
  BY CheckedFacts
<1>2. Mkdir(f, p) = Writable(f, o)
  BY DEF Mkdir
<1> HIDE DEF e
<1>3. IsDir(f, Parent(p)) => Tree(Put(f, p, Dir))
  BY PutTree, NodeFacts
<1>4. Sound(o)
  BY <1>1, <1>3, ResultFacts DEF Sound, Tag
<1> QED BY <1>2, <1>4, WritableSound

LEMMA RemoveSound ==
    ASSUME NEW f, Tree(f), NEW p \in Path, p # Root
    PROVE  Sound(Remove(f, p)) /\ Sound(Rmdir(f, p))
<1> DEFINE e == OnExisting(f, p)
           o == IF ~Is(e, "Ok") THEN e
                ELSE IF IsDir(f, p) THEN Refused("Io", f) ELSE Result(Done, Cut(f, p))
           d == IF ~Is(e, "Ok") THEN e
                ELSE IF IsFile(f, p) \/ Children(f, p) # {} THEN Refused("Io", f)
                ELSE Result(Done, Cut(f, p))
<1>1. e.fs = f /\ e.res.tag \in Tag
  BY CheckedFacts
<1>2. Remove(f, p) = Writable(f, o) /\ Rmdir(f, p) = Writable(f, d)
  BY DEF Remove, Rmdir
<1>3. Tree(Cut(f, p))
  BY CutTree
<1> HIDE DEF e
<1>4. Sound(o)
  BY <1>1, <1>3, ResultFacts DEF Sound, Tag
<1>5. Sound(d)
  <2>1. CASE ~Is(e, "Ok")
    BY <2>1, <1>1 DEF Sound
  <2>2. CASE Is(e, "Ok")
    <3>1. d = Refused("Io", f) \/ d = Result(Done, Cut(f, p))
      BY <2>2
    <3> QED BY <3>1, <1>3, ResultFacts DEF Sound, Tag
  <2> QED BY <2>1, <2>2
<1> QED BY <1>2, <1>4, <1>5, WritableSound

\* A rename as long as what is moved fits in the bounded depth.
LEMMA RenameSound ==
    ASSUME NEW f, Tree(f), NEW p \in Path, NEW q \in Path, p # Root, q # Root,
           DOMAIN Rename(f, p, q).fs \subseteq Path
    PROVE  Sound(Rename(f, p, q))
<1> DEFINE o == Rename(f, p, q)
<1>1. CASE o.fs = f /\ o.res.tag \in Tag
  BY <1>1 DEF Sound
<1>2. CASE /\ ~ReadOnly /\ o = Result(Done, Moved(f, p, q))
           /\ IsDir(f, Parent(q)) /\ p \in DOMAIN f /\ p # q /\ ~Under(q, p)
  <2>1. o.fs = Moved(f, p, q) /\ o.res.tag = "Ok"
    BY <1>2, ResultFacts
  <2>2. Tree(Moved(f, p, q))
    BY <1>2, <2>1, MovedTree
  <2> QED BY <2>1, <2>2 DEF Sound, Tag
<1>3. \/ o = Refused("PermissionDenied", f) \/ o = Refused("NotFound", f)
      \/ o = Refused("Io", f) \/ o = Result(Done, f)
      \/ /\ ~ReadOnly /\ o = Result(Done, Moved(f, p, q))
         /\ IsDir(f, Parent(q)) /\ p \in DOMAIN f /\ p # q /\ ~Under(q, p)
  BY Zenon DEF Rename, Writable, Unreachable
<1>4. CASE o = Refused("PermissionDenied", f) \/ o = Refused("NotFound", f)
           \/ o = Refused("Io", f) \/ o = Result(Done, f)
  <2>1. o.fs = f /\ o.res.tag \in Tag
    BY <1>4, ResultFacts DEF Tag
  <2> QED BY <2>1, <1>1
<1> QED BY <1>2, <1>3, <1>4

LEMMA TruncateSound ==
    ASSUME NEW f, Tree(f), NEW p \in Path, NEW n \in 0..MaxSize
    PROVE  /\ Sound(Truncate(f, p, n))
           /\ Is(Truncate(f, p, n), "Ok") =>
                 /\ IsFile(Truncate(f, p, n).fs, p)
                 /\ Len(Truncate(f, p, n).fs[p].data) = n
<1> DEFINE e == OnExisting(f, p)
           m == File(Resized(f[p].data, n), f[p].flight)
           o == IF ~Is(e, "Ok") THEN e
                ELSE IF IsDir(f, p) THEN Refused("Io", f) ELSE Result(Done, Put(f, p, m))
<1>1. e.fs = f /\ e.res.tag \in Tag /\ (Is(e, "Ok") => p \in DOMAIN f)
  BY CheckedFacts
<1>2. Truncate(f, p, n) = Writable(f, o)
  BY DEF Truncate
<1> HIDE DEF e
<1>3. CASE ~Is(e, "Ok")
  <2>1. Sound(o) /\ ~Is(o, "Ok")
    BY <1>1, <1>3 DEF Sound
  <2> QED BY <1>2, <2>1, WritableSound
<1>4. CASE Is(e, "Ok") /\ IsDir(f, p)
  <2>1. o = Refused("Io", f)
    BY <1>4
  <2>2. Sound(o) /\ ~Is(o, "Ok")
    BY <2>1, ResultFacts DEF Sound, Tag, Is
  <2> HIDE DEF o
  <2> QED BY <1>2, <2>2, WritableSound
<1>5. CASE Is(e, "Ok") /\ ~IsDir(f, p)
  <2>1. p \in DOMAIN f /\ f[p] # Dir /\ p # Root
    BY <1>1, <1>5, TreeFacts DEF IsDir
  <2>2. f[p].data \in Data /\ f[p].flight \subseteq Pending
    BY <2>1, TreeFacts, NodeFacts
  <2>3. Resized(f[p].data, n) \in Data /\ Len(Resized(f[p].data, n)) = n
    BY <2>2, ResizedData
  <2>4. m \in Node /\ m # Dir /\ m.data = Resized(f[p].data, n)
    BY <2>2, <2>3, NodeFacts
  <2>5. o = Result(Done, Put(f, p, m))
    BY <1>5
  <2> HIDE DEF m, o
  <2>6. IsDir(f, Parent(p))
    BY <2>1, TreeFacts DEF IsDir
  <2>7. Tree(Put(f, p, m))
    BY <1>5, <2>1, <2>4, <2>6, PutTree
  <2>8. Put(f, p, m)[p] = m /\ p \in DOMAIN Put(f, p, m)
    BY DEF Put
  <2>9. Sound(o) /\ o.fs = Put(f, p, m)
    BY <2>5, <2>7, ResultFacts DEF Sound, Tag
  <2> QED BY <1>2, <2>3, <2>4, <2>8, <2>9, WritableSound DEF IsFile
<1> QED BY <1>3, <1>4, <1>5

\* A write in flight that lands or fails.
LEMMA LandedTree ==
    ASSUME NEW f, Tree(f), NEW p, IsFile(f, p), NEW w \in f[p].flight, NEW g \in Landed(f, p, w)
    PROVE  Tree(g)
<1>1. p \in DOMAIN f /\ f[p] # Dir /\ p \in Path /\ p # Root
  BY TreeFacts DEF IsFile
<1>2. f[p].data \in Data /\ f[p].flight \subseteq Pending /\ w \in Pending
  BY <1>1, TreeFacts, NodeFacts
<1>3. IsDir(f, Parent(p)) /\ ~IsDir(f, p)
  BY <1>1, TreeFacts DEF IsDir
<1>4. Overlaid(f[p].data, w) \in Data
  BY <1>2, OverlaidData
<1>5. ASSUME NEW d \in Data PROVE Tree(Put(f, p, File(d, f[p].flight \ {w})))
  <2>1. File(d, f[p].flight \ {w}) \in Node
    BY <1>2, NodeFacts
  <2> QED BY <2>1, <1>1, <1>3, PutTree
<1> QED BY <1>2, <1>4, <1>5 DEF Landed

-------------------------------------------------------------------------------
\* Induction over the numbers, for the sets of numbers with a property.

LEMMA Least ==
    ASSUME NEW T, T \subseteq Nat, T # {}
    PROVE  \E x \in T : \A y \in T : x <= y
<1> DEFINE R == {ss \in Nat \X Nat : ss[1] < ss[2]}
<1>1. IsWellFoundedOn(R, Nat)
  BY NatLessThanWellFounded DEF OpToRel
<1>2. \A x, y \in Nat : x < y => <<x, y>> \in R
  OBVIOUS
<1> HIDE DEF R
<1>3. PICK x \in T : \A y \in T : <<y, x>> \notin R
  BY <1>1, WFMin
<1>4. ASSUME NEW y \in T PROVE x <= y
  <2>1. x \in Nat /\ y \in Nat /\ ~(y < x)
    BY <1>2, <1>3
  <2> QED BY <2>1
<1> QED BY <1>4

LEMMA SetInduction ==
    ASSUME NEW S, 0 \in S, \A n \in Nat : n \in S => n + 1 \in S
    PROVE  \A n \in Nat : n \in S
<1> SUFFICES ASSUME Nat \ S # {} PROVE FALSE
  OBVIOUS
<1>1. PICK x \in Nat \ S : \A y \in Nat \ S : x <= y
  BY Least
<1>2. x # 0 /\ x - 1 \in Nat /\ x - 1 \in S
  BY <1>1
<1> QED BY <1>1, <1>2

-------------------------------------------------------------------------------
\* Listings.

\* What InOrder computes one name at a time.
Next1(u, k, S) == IF Listing[k] \in S THEN Append(u, Listing[k]) ELSE u
IsUpto(u, m, S) == u = [k \in 0..m |-> IF k = 0 THEN <<>> ELSE Next1(u[k - 1], k, S)]

LEMMA UptoExists ==
    ASSUME NEW S, NEW m \in Nat
    PROVE  \E u : IsUpto(u, m, S)
<1> DEFINE Good == {k \in Nat : \E u : IsUpto(u, k, S)}
<1>1. 0 \in Good
  <2>1. IsUpto([k \in 0..0 |-> <<>>], 0, S)
    BY DEF IsUpto
  <2> QED BY <2>1
<1>2. ASSUME NEW n \in Nat, n \in Good PROVE n + 1 \in Good
  <2>1. PICK u : IsUpto(u, n, S)
    BY <1>2
  <2> DEFINE v == [k \in 0..(n + 1) |-> IF k = n + 1 THEN Next1(u[n], n + 1, S) ELSE u[k]]
  <2>2. /\ \A k \in 0..n : v[k] = u[k]
        /\ v[n + 1] = Next1(u[n], n + 1, S)
        /\ v = [k \in 0..(n + 1) |-> v[k]]
    OBVIOUS
  <2> HIDE DEF v
  <2>3. ASSUME NEW k \in 0..(n + 1)
        PROVE  v[k] = IF k = 0 THEN <<>> ELSE Next1(v[k - 1], k, S)
    <3>1. CASE k = n + 1
      <4>1. k # 0 /\ k - 1 = n /\ n \in 0..n
        BY <3>1
      <4> QED BY <3>1, <4>1, <2>2
    <3>2. CASE k \in 0..n
      <4>1. u[k] = IF k = 0 THEN <<>> ELSE Next1(u[k - 1], k, S)
        BY <2>1, <3>2 DEF IsUpto
      <4>2. k # 0 => k - 1 \in 0..n
        BY <3>2
      <4> QED BY <4>1, <4>2, <2>2, <3>2
    <3> QED BY <3>1, <3>2
  <2>4. IsUpto(v, n + 1, S)
    BY <2>2, <2>3 DEF IsUpto
  <2> QED BY <2>4
<1> HIDE DEF Good
<1>3. m \in Good
  BY <1>1, <1>2, SetInduction
<1> QED BY <1>3 DEF Good

LEMMA InOrderUpto ==
    ASSUME NEW S
    PROVE  \E u : /\ InOrder(S) = u[Len(Listing)]
                  /\ u[0] = <<>>
                  /\ \A k \in Nat : k + 1 <= Len(Listing) => u[k + 1] = Next1(u[k], k + 1, S)
<1> DEFINE L == Len(Listing)
           u == CHOOSE f : IsUpto(f, L, S)
<1>1. L \in Nat
  BY HostFsAssumption
<1> HIDE DEF L
<1>2. IsUpto(u, L, S)
  BY <1>1, UptoExists
<1>3. InOrder(S) = u[L]
  BY DEF InOrder, IsUpto, Next1, L
<1> HIDE DEF u
<1>4. u[0] = <<>>
  BY <1>1, <1>2 DEF IsUpto
<1>5. ASSUME NEW k \in Nat, k + 1 <= L PROVE u[k + 1] = Next1(u[k], k + 1, S)
  <2>1. k + 1 \in 0..L /\ k + 1 # 0 /\ (k + 1) - 1 = k
    BY <1>1, <1>5
  <2> QED BY <1>2, <2>1 DEF IsUpto
<1> QED BY <1>3, <1>4, <1>5 DEF L

\* Whatever is asked for is listed, and nothing else; once, if the host lists
\* every name once.
Once(s) == \A i, j \in 1..Len(s) : s[i] = s[j] => i = j

LEMMA InOrderFacts ==
    ASSUME NEW S
    PROVE  /\ InOrder(S) \in Seq(Name \intersect S)
           /\ \A k \in 1..Len(Listing) :
                 Listing[k] \in S => \E i \in 1..Len(InOrder(S)) : InOrder(S)[i] = Listing[k]
           /\ Once(Listing) => Once(InOrder(S))
<1> DEFINE L == Len(Listing)
           T == Name \intersect S
           Of(u, k) == \A i \in 1..Len(u) : \E j \in 1..k : u[i] = Listing[j]
           All(u, k) == \A j \in 1..k : Listing[j] \in S => \E i \in 1..Len(u) : u[i] = Listing[j]
<1>1. L \in Nat /\ \A k \in 1..L : Listing[k] \in Name
  BY HostFsAssumption
<1>2. PICK u : /\ InOrder(S) = u[L] /\ u[0] = <<>>
               /\ \A k \in Nat : k + 1 <= L => u[k + 1] = Next1(u[k], k + 1, S)
  BY InOrderUpto
<1> HIDE DEF L
<1> DEFINE Good == {k \in Nat : k <= L => /\ u[k] \in Seq(T) /\ Of(u[k], k) /\ All(u[k], k)
                                          /\ Once(Listing) => Once(u[k])}
<1>3. 0 \in Good
  <2>1. u[0] \in Seq(T) /\ Len(u[0]) = 0
    BY <1>2, EmptySeq
  <2> QED BY <2>1 DEF Once
<1>4. ASSUME NEW k \in Nat, k \in Good PROVE k + 1 \in Good
  <2> SUFFICES ASSUME k + 1 <= L
               PROVE  /\ u[k + 1] \in Seq(T) /\ Of(u[k + 1], k + 1) /\ All(u[k + 1], k + 1)
                      /\ Once(Listing) => Once(u[k + 1])
    OBVIOUS
  <2>1. /\ u[k] \in Seq(T) /\ Of(u[k], k) /\ All(u[k], k)
        /\ Once(Listing) => Once(u[k])
    BY <1>1, <1>4
  <2>2. k + 1 \in 1..L /\ Listing[k + 1] \in Name
    BY <1>1
  <2>3. CASE Listing[k + 1] \notin S
    <3>1. u[k + 1] = u[k]
      BY <1>2, <2>3 DEF Next1
    <3>2. Of(u[k], k + 1)
      BY <2>1
    <3>3. All(u[k], k + 1)
      BY <2>1, <2>3
    <3> HIDE DEF Of, All
    <3> QED BY <3>1, <3>2, <3>3, <2>1
  <2>4. CASE Listing[k + 1] \in S
    <3> DEFINE e == Listing[k + 1]
               v == u[k]
               w == u[k + 1]
    <3>1. w = Append(v, e)
      BY <1>2, <2>4 DEF Next1
    <3>2. v \in Seq(T) /\ e \in T /\ Len(v) \in Nat
      BY <2>1, <2>2, <2>4
    <3> HIDE DEF v, w, e
    <3>3. /\ w \in Seq(T) /\ Len(w) = Len(v) + 1
          /\ \A i \in 1..Len(v) : w[i] = v[i]
          /\ w[Len(v) + 1] = e
      BY <3>1, <3>2, AppendProperties
    <3>4. Of(w, k + 1)
      <4> SUFFICES ASSUME NEW i \in 1..Len(w) PROVE \E j \in 1..(k + 1) : w[i] = Listing[j]
        OBVIOUS
      <4>1. CASE i \in 1..Len(v)
        BY <4>1, <2>1, <3>3 DEF v
      <4>2. CASE i = Len(v) + 1
        BY <4>2, <3>3 DEF e
      <4> QED BY <4>1, <4>2, <3>2, <3>3
    <3>5. All(w, k + 1)
      <4> SUFFICES ASSUME NEW j \in 1..(k + 1), Listing[j] \in S
                   PROVE  \E i \in 1..Len(w) : w[i] = Listing[j]
        OBVIOUS
      <4>1. CASE j \in 1..k
        <5>1. PICK i \in 1..Len(v) : v[i] = Listing[j]
          BY <4>1, <2>1 DEF v
        <5> QED BY <5>1, <3>2, <3>3
      <4>2. CASE j = k + 1
        BY <4>2, <3>2, <3>3 DEF e
      <4> QED BY <4>1, <4>2
    <3>6. ASSUME Once(Listing) PROVE Once(w)
      <4>1. Once(v)
        BY <2>1, <3>6 DEF v
      <4>2. ASSUME NEW i \in 1..Len(v) PROVE w[i] # e
        <5>1. PICK j \in 1..k : v[i] = Listing[j]
          BY <2>1, <4>2 DEF v
        <5>2. j \in 1..L /\ j # k + 1
          BY <5>1, <2>2, <1>1
        <5> QED BY <5>1, <5>2, <3>3, <3>6, <2>2 DEF Once, e, L
      <4> QED BY <4>1, <4>2, <3>2, <3>3 DEF Once
    <3> QED BY <3>3, <3>4, <3>5, <3>6 DEF w
  <2> QED BY <2>3, <2>4
<1> HIDE DEF Good
<1>5. L \in Good
  BY <1>1, <1>3, <1>4, SetInduction
<1> QED BY <1>1, <1>2, <1>5 DEF Good, L

\* The entries of a directory are its children, by name.
LEMMA EntriesFacts ==
    ASSUME NEW f, Tree(f), NEW p \in Path
    PROVE  /\ Entries(f, p) = {n \in Name : Append(p, n) \in Children(f, p)}
           /\ \A q \in Children(f, p) : \E n \in Entries(f, p) : q = Append(p, n)
<1>1. Entries(f, p) = {n \in Name : Append(p, n) \in Children(f, p)}
  BY AppendPath DEF Entries, Children
<1>2. ASSUME NEW q \in Children(f, p) PROVE \E n \in Entries(f, p) : q = Append(p, n)
  <2>1. q \in DOMAIN f /\ q \in Seq(Name) /\ q # Root /\ Parent(q) = p
    BY TreeFacts DEF Children
  <2> DEFINE n == q[Len(q)]
  <2>2. Len(q) \in Nat \ {0} /\ n \in Name
    BY <2>1 DEF Root
  <2> HIDE DEF n
  <2>3. /\ p \in Seq(Name) /\ Len(p) = Len(q) - 1 /\ \A i \in 1..(Len(q) - 1) : p[i] = q[i]
    BY <2>1, ParentFacts
  <2>4. /\ Append(p, n) \in Seq(Name) /\ Len(Append(p, n)) = Len(q)
        /\ \A i \in 1..(Len(q) - 1) : Append(p, n)[i] = q[i]
        /\ Append(p, n)[Len(q)] = n
    BY <2>2, <2>3, AppendProperties
  <2>5. \A i \in 1..Len(q) : Append(p, n)[i] = q[i]
    BY <2>2, <2>4 DEF n
  <2>6. Append(p, n) = q
    BY <2>1, <2>4, <2>5, SeqEqual
  <2> QED BY <2>1, <2>2, <2>6 DEF Entries
<1> QED BY <1>1, <1>2

\* A directory whose children stay the same is listed the same.
LEMMA SameListed ==
    ASSUME NEW f, NEW g, Tree(f), Tree(g), NEW p \in Path, Children(f, p) = Children(g, p)
    PROVE  Listed(f, p) = Listed(g, p)
<1> DEFINE named(c) == {n \in Name : Append(p, n) \in c}
<1>1. Entries(f, p) = named(Children(f, p)) /\ Entries(g, p) = named(Children(g, p))
  BY EntriesFacts
<1> HIDE DEF named
<1>2. Entries(f, p) = Entries(g, p)
  BY <1>1
<1> QED BY <1>2 DEF Listed

-------------------------------------------------------------------------------
\* list gives the name of every entry of the directory, no other and none twice, when the
\* host's own listing is like that (core lib.rs:188-204).
THEOREM ListedExact ==
    ASSUME NEW f, Tree(f), NEW p \in Path,
           Once(Listing), \A n \in Name : \E k \in 1..Len(Listing) : Listing[k] = n
    PROVE  /\ Once(Listed(f, p))
           /\ Children(f, p) = {Append(p, Listed(f, p)[i]) : i \in 1..Len(Listed(f, p))}
<1> DEFINE l == Listed(f, p)
           S == Entries(f, p)
<1>1. /\ l \in Seq(Name \intersect S) /\ Once(l)
      /\ \A k \in 1..Len(Listing) : Listing[k] \in S => \E i \in 1..Len(l) : l[i] = Listing[k]
  BY InOrderFacts DEF Listed
<1> HIDE DEF l
<1>2. ASSUME NEW i \in 1..Len(l) PROVE Append(p, l[i]) \in Children(f, p)
  <2>1. l[i] \in S
    BY <1>1
  <2> QED BY <2>1, EntriesFacts
<1>3. ASSUME NEW q \in Children(f, p) PROVE \E i \in 1..Len(l) : q = Append(p, l[i])
  <2>1. PICK n \in S : q = Append(p, n)
    BY EntriesFacts
  <2>2. n \in Name
    BY DEF Entries
  <2>3. PICK i \in 1..Len(l) : l[i] = n
    BY <1>1, <2>2
  <2> QED BY <2>1, <2>3
<1> QED BY <1>1, <1>2, <1>3 DEF l

\* Every method leaves a tree behind, whatever the path names and however it ends
\* (core lib.rs:169-286).
THEOREM MethodsKeepTree ==
    ASSUME NEW f, Tree(f), NEW p \in Path, p # Root
    PROVE  /\ Sound(Stat(f, p)) /\ Sound(List(f, p)) /\ \A at : Sound(Read(f, p, at))
           /\ Sound(Create(f, p)) /\ Sound(Mkdir(f, p))
           /\ Sound(Remove(f, p)) /\ Sound(Rmdir(f, p))
           /\ \A at \in 0..(MaxSize - 1), b \in Block : Sound(Write(f, p, at, b))
           /\ \A n \in 0..MaxSize : Sound(Truncate(f, p, n))
           /\ \A q \in Path \ {Root} :
                 DOMAIN Rename(f, p, q).fs \subseteq Path => Sound(Rename(f, p, q))
<1>1. Sound(Stat(f, p)) /\ Sound(List(f, p)) /\ \A at : Sound(Read(f, p, at))
  BY StatSound, ListSound, ReadSound
<1>2. Sound(Create(f, p)) /\ Sound(Mkdir(f, p)) /\ Sound(Remove(f, p)) /\ Sound(Rmdir(f, p))
  BY CreateSound, MkdirSound, RemoveSound
<1>3. \A at \in 0..(MaxSize - 1), b \in Block : Sound(Write(f, p, at, b))
  BY WriteSound
<1>4. \A n \in 0..MaxSize : Sound(Truncate(f, p, n))
  BY TruncateSound
<1>5. \A q \in Path \ {Root} :
         DOMAIN Rename(f, p, q).fs \subseteq Path => Sound(Rename(f, p, q))
  BY RenameSound
<1> QED BY <1>1, <1>2, <1>3, <1>4, <1>5
===============================================================================
