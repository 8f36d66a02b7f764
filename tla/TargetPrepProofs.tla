--------------------------- MODULE TargetPrepProofs ---------------------------
(***************************************************************************)
(* Theorems about TargetPrep, for every workspace, every number of         *)
(* cargo-cage processes and any changes other programs make to the tree.   *)
(***************************************************************************)
EXTENDS TargetPrepInv, FiniteSetTheorems, SequenceTheorems, WellFoundedInduction, TLAPS

-----------------------------------------------------------------------------
(* Numbers *)

Below == OpToRel(<, Nat)

\* A set of numbers has a least one; with it what a recursive function does is
\* proved by the least argument where it would do something else.
LEMMA Least ==
  ASSUME NEW T, T \subseteq Nat, T # {}
  PROVE  \E m \in T : \A k \in T : m <= k
<1>1. \A x, y \in Nat : x < y => <<x, y>> \in Below
  BY DEF Below, OpToRel
<1>2. \E x \in T : \A y \in T : ~(<<y, x>> \in Below)
  <2>1. IsWellFoundedOn(Below, Nat)
    BY NatLessThanWellFounded DEF Below
  <2> QED BY <2>1, WFMin, Zenon
<1>3. PICK m \in T : \A y \in T : ~(<<y, m>> \in Below)
  BY <1>2
<1>4. ASSUME NEW k \in T PROVE m <= k
  <2>1. ~(k < m)
    BY <1>1, <1>3
  <2> QED BY <2>1
<1> QED BY <1>4

LEMMA Greatest ==
  ASSUME NEW T, NEW n \in Nat, T \subseteq 0..n, T # {}
  PROVE  \E m \in T : \A k \in T : k <= m
<1> DEFINE R == {n - k : k \in T}
<1>1. PICK r \in R : \A s \in R : r <= s
  <2>1. \A k \in T : n - k \in Nat
    OBVIOUS
  <2>2. R \subseteq Nat /\ R # {}
    BY <2>1
  <2> HIDE DEF R
  <2> QED BY <2>2, Least
<1>2. PICK m \in T : r = n - m
  OBVIOUS
<1>3. ASSUME NEW k \in T PROVE k <= m
  <2>1. r <= n - k
    BY <1>1
  <2> QED BY <2>1, <1>2
<1> QED BY <1>3

-----------------------------------------------------------------------------
(* Paths *)

LEMMA Fixed ==
  /\ Workspace \in Seq(Names)
  /\ {"..", "Cargo.lock", BuildName, CageName, RunsName} \subseteq Names
  /\ Root \in Seq(Names) /\ None \in Seq(Names)
  /\ Lockfile \in Seq(Names)
<1>1. /\ Workspace \in Seq(Names)
      /\ {"..", "Cargo.lock", BuildName, CageName, RunsName} \subseteq Names
  BY PrepAssumption
<1> QED BY <1>1 DEF Root, None, Lockfile

LEMMA PrefixType ==
  ASSUME NEW p \in Seq(Names), NEW i \in 0..Len(p)
  PROVE  Prefix(p, i) \in Seq(Names) /\ Len(Prefix(p, i)) = i
BY DEF Prefix

LEMMA ParentType ==
  ASSUME NEW p \in Seq(Names)
  PROVE  Parent(p) \in Seq(Names)
<1>1. CASE p = << >>
  BY <1>1 DEF Parent, Prefix
<1>2. CASE p # << >>
  BY <1>2 DEF Parent, Prefix
<1> QED BY <1>1, <1>2

\* Below what is inside the workspace everything is.
LEMMA InsideFurther ==
  ASSUME NEW p \in Seq(Names), NEW q \in Seq(Names), StartsWith(p, Workspace),
         q # << >>
  PROVE  p \o q \in Seq(Names) /\ Inside(p \o q)
<1> DEFINE c == p \o q
<1>1. Workspace \in Seq(Names)
  BY Fixed
<1>2. /\ c \in Seq(Names) /\ Len(c) = Len(p) + Len(q)
      /\ \A i \in 1..Len(p) : c[i] = p[i]
  OBVIOUS
<1>3. Len(Workspace) <= Len(p) /\ SubSeq(p, 1, Len(Workspace)) = Workspace
  BY DEF StartsWith
<1>7. Len(q) \in Nat \ {0}
  OBVIOUS
<1> HIDE DEF c
<1>4. SubSeq(c, 1, Len(Workspace)) = SubSeq(p, 1, Len(Workspace))
  BY <1>1, <1>2, <1>3
<1>5. StartsWith(c, Workspace) /\ Len(c) # Len(Workspace)
  <2>1. Len(Workspace) \in Nat /\ Len(p) \in Nat /\ Len(c) \in Nat
    BY <1>1, <1>2
  <2>2. Len(Workspace) < Len(c)
    BY <1>2, <1>3, <1>7, <2>1
  <2>3. SubSeq(c, 1, Len(Workspace)) = Workspace
    BY <1>3, <1>4
  <2> QED BY <2>1, <2>2, <2>3 DEF StartsWith
<1>6. Inside(c)
  BY <1>5 DEF Inside
<1> QED BY <1>2, <1>6 DEF c

LEMMA InsideBelow ==
  ASSUME NEW p \in Seq(Names), NEW x \in Names, StartsWith(p, Workspace)
  PROVE  Append(p, x) \in Seq(Names) /\ Inside(Append(p, x))
<1>1. <<x>> \in Seq(Names) /\ <<x>> # << >> /\ Append(p, x) = p \o <<x>>
  OBVIOUS
<1> QED BY <1>1, InsideFurther

LEMMA LockfileInside == Inside(Lockfile)
<1>1. StartsWith(Workspace, Workspace)
  BY Fixed DEF StartsWith
<1> QED BY <1>1, Fixed, InsideBelow DEF Lockfile

-----------------------------------------------------------------------------
(* Resolution *)

LEMMA TreeTypes ==
  ASSUME TreeInv
  PROVE  /\ \A q \in DOMAIN tree : tree[q] \in EntriesBy(Procs \cup {Host})
         /\ \A q \in DOMAIN tree : tree[q].to \in Seq(Names)
         /\ \A q \in DOMAIN tree : tree[q].kind \in {"dir", "file", "link"}
<1>1. \A q \in DOMAIN tree : tree[q] \in EntriesBy(Procs \cup {Host})
  BY DEF TreeInv
<1> QED BY <1>1 DEF EntriesBy

\* What Follow computes on the way: where the first i names of p lead.
LandStep(p, f, i) ==
  IF i = 0 THEN Root
  ELSE LET q == Append(f[i - 1], p[i]) IN IF IsA(q, "link") THEN tree[q].to ELSE q
Land(p) == CHOOSE f : f = [i \in 0..Len(p) |-> LandStep(p, f, i)]

\* Following a path leads, at each of its names, to a path with names of its own
\* and of the links' targets.
LEMMA Lands ==
  ASSUME NEW S, \A q \in Links : tree[q].to \in Seq(S), NEW p \in Seq(S)
  PROVE  /\ Land(p) = [i \in 0..Len(p) |-> LandStep(p, Land(p), i)]
         /\ Follow(p) = Land(p)[Len(p)] /\ \A i \in 0..Len(p) : Land(p)[i] \in Seq(S)
<1> DEFINE Step(f, i) == LandStep(p, f, i)
<1> DEFINE land == Land(p)
<1> USE DEF LandStep
<1>1. ASSUME NEW r \in Seq(S), NEW i \in 1..Len(p)
      PROVE  LET q == Append(r, p[i])
             IN  (IF IsA(q, "link") THEN tree[q].to ELSE q) \in Seq(S)
  <2>1. Append(r, p[i]) \in Seq(S)
    OBVIOUS
  <2> QED BY <2>1 DEF IsA, Exists, Links
<1>2. ASSUME NEW n \in 0..Len(p)
      PROVE  \E f \in [0..n -> Seq(S)] : \A i \in 0..n : f[i] = Step(f, i)
  <2> DEFINE Has(m) == \E f \in [0..m -> Seq(S)] : \A i \in 0..m : f[i] = Step(f, i)
  <2> DEFINE T == {m \in 0..Len(p) : ~Has(m)}
  <2>1. SUFFICES ASSUME T # {} PROVE FALSE
    OBVIOUS
  <2>2. PICK m \in T : \A k \in T : m <= k
    <3>1. T \subseteq Nat
      OBVIOUS
    <3> HIDE DEF T
    <3> QED BY <2>1, <3>1, Least
  <2>3. m \in 0..Len(p) /\ ~Has(m)
    OBVIOUS
  <2>4. CASE m = 0
    <3> DEFINE f == [i \in 0..0 |-> Root]
    <3>1. f \in [0..0 -> Seq(S)]
      BY DEF Root
    <3>2. \A i \in 0..0 : f[i] = Step(f, i)
      OBVIOUS
    <3>3. Has(0)
      <4> HIDE DEF f, Step
      <4> QED BY <3>1, <3>2
    <3> QED BY <2>3, <2>4, <3>3
  <2>5. CASE m # 0
    <3>1. m - 1 \in 0..Len(p) /\ m \in 1..Len(p)
      BY <2>3, <2>5
    <3>2. Has(m - 1)
      <4>1. m - 1 \notin T
        <5> HIDE DEF T
        <5> QED BY <2>2, <2>3, <2>5
      <4> HIDE DEF Has
      <4> QED BY <3>1, <4>1
    <3>3. PICK f \in [0..(m - 1) -> Seq(S)] : \A i \in 0..(m - 1) : f[i] = Step(f, i)
      <4> HIDE DEF Step
      <4> QED BY <3>2
    <3> DEFINE g == [i \in 0..m |-> IF i = m THEN Step(f, m) ELSE f[i]]
    <3>4. Step(f, m) \in Seq(S)
      <4>1. f[m - 1] \in Seq(S)
        BY <3>1
      <4> QED BY <1>1, <2>5, <3>1, <4>1
    <3>5. g \in [0..m -> Seq(S)]
      <4>1. ASSUME NEW i \in 0..m, i # m PROVE i \in 0..(m - 1)
        BY <3>1, <4>1
      <4>2. \A i \in 0..m : g[i] \in Seq(S)
        <5> HIDE DEF Step
        <5> QED BY <3>4, <4>1
      <4> HIDE DEF Step
      <4> QED BY <4>2
    <3>6. ASSUME NEW i \in 0..m PROVE g[i] = Step(g, i)
      <4>1. CASE i = 0
        <5>1. g[0] = f[0] /\ f[0] = Step(f, 0)
          <6> HIDE DEF Step
          <6> QED BY <2>5, <3>1, <3>3
        <5> QED BY <4>1, <5>1
      <4>2. CASE i # 0
        <5>1. g[i - 1] = f[i - 1]
          <6> HIDE DEF Step
          <6> QED BY <3>1, <4>2
        <5>2. Step(g, i) = Step(f, i)
          <6> HIDE DEF g
          <6> QED BY <4>2, <5>1
        <5>3. g[i] = Step(f, i)
          <6> HIDE DEF Step
          <6>1. CASE i = m
            BY <6>1
          <6>2. CASE i # m
            <7>1. i \in 0..(m - 1) /\ g[i] = f[i]
              BY <3>1, <6>2
            <7> QED BY <3>3, <7>1
          <6> QED BY <6>1, <6>2
        <5> QED BY <5>2, <5>3
      <4> QED BY <4>1, <4>2
    <3>7. Has(m)
      <4> HIDE DEF g, Step
      <4> QED BY <3>5, <3>6
    <3> QED BY <2>3, <3>7
  <2> QED BY <2>4, <2>5
<1>3. land = [i \in 0..Len(p) |-> Step(land, i)]
  <2>1. PICK f \in [0..Len(p) -> Seq(S)] : \A i \in 0..Len(p) : f[i] = Step(f, i)
    <3>1. Len(p) \in 0..Len(p)
      OBVIOUS
    <3> HIDE DEF Step
    <3> QED BY <1>2, <3>1
  <2>2. f = [i \in 0..Len(p) |-> Step(f, i)]
    <3> HIDE DEF Step
    <3> QED BY <2>1
  <2> HIDE DEF LandStep
  <2> QED BY <2>2 DEF Land
<1>4. ASSUME NEW n \in 0..Len(p) PROVE land[n] \in Seq(S)
  <2> HIDE DEF land
  <2> DEFINE T == {j \in 0..Len(p) : land[j] \notin Seq(S)}
  <2>1. SUFFICES ASSUME T # {} PROVE FALSE
    OBVIOUS
  <2>2. PICK m \in T : \A k \in T : m <= k
    <3>1. T \subseteq Nat
      OBVIOUS
    <3> HIDE DEF T
    <3> QED BY <2>1, <3>1, Least
  <2>3. land[m] = Step(land, m) /\ m \in 0..Len(p)
    <3> HIDE DEF Step
    <3> QED BY <1>3
  <2>4. m # 0
    <3>1. Root \in Seq(S)
      BY DEF Root
    <3> QED BY <2>2, <2>3, <3>1
  <2>5. m - 1 \in 0..Len(p) /\ land[m - 1] \in Seq(S)
    BY <2>2, <2>4
  <2>6. m \in 1..Len(p)
    BY <2>3, <2>4
  <2>7. Step(land, m) \in Seq(S)
    BY <1>1, <2>4, <2>5, <2>6
  <2>8. land[m] \notin Seq(S)
    BY <2>2
  <2> HIDE DEF Step
  <2> QED BY <2>3, <2>7, <2>8
<1>5. Follow(p) = land[Len(p)]
  BY DEF Follow, Land
<1> HIDE DEF land, Step, LandStep
<1>6. Land(p) = [i \in 0..Len(p) |-> LandStep(p, Land(p), i)]
  <2> USE DEF land, Step
  <2> QED BY <1>3
<1>7. Follow(p) = Land(p)[Len(p)] /\ \A i \in 0..Len(p) : Land(p)[i] \in Seq(S)
  BY <1>4, <1>5 DEF land
<1> QED BY <1>6, <1>7

LEMMA FollowIn ==
  ASSUME NEW S, \A q \in Links : tree[q].to \in Seq(S), NEW p \in Seq(S)
  PROVE  Follow(p) \in Seq(S)
<1>1. Follow(p) = Land(p)[Len(p)] /\ \A i \in 0..Len(p) : Land(p)[i] \in Seq(S)
  BY Lands
<1>2. Len(p) \in 0..Len(p)
  OBVIOUS
<1> QED BY <1>1, <1>2

LEMMA FollowType ==
  ASSUME TreeInv, NEW p \in Seq(Names)
  PROVE  Follow(p) \in Seq(Names)
<1>1. \A q \in Links : tree[q].to \in Seq(Names)
  BY TreeTypes DEF Links
<1> QED BY <1>1, FollowIn

\* A path without a symbolic link leads to itself.
LEMMA PlainFollows ==
  ASSUME NEW p \in Seq(Names), \A i \in 1..Len(p) : ~IsA(Prefix(p, i), "link")
  PROVE  Follow(p) = p
<1> DEFINE Step(f, i) ==
      IF i = 0 THEN Root
      ELSE LET q == Append(f[i - 1], p[i])
           IN  IF IsA(q, "link") THEN tree[q].to ELSE q
<1> DEFINE pre == [i \in 0..Len(p) |-> Prefix(p, i)]
<1> DEFINE land == CHOOSE f : f = [i \in 0..Len(p) |-> Step(f, i)]
<1>0. ASSUME NEW i \in 1..Len(p) PROVE Prefix(p, i) = Append(Prefix(p, i - 1), p[i])
  BY DEF Prefix
<1>1. pre = [i \in 0..Len(p) |-> Step(pre, i)]
  <2>1. Prefix(p, 0) = Root
    BY DEF Prefix, Root
  <2>2. ASSUME NEW i \in 0..Len(p) PROVE pre[i] = Step(pre, i)
    <3>1. CASE i = 0
      BY <3>1, <2>1
    <3>2. CASE i # 0
      <4>1. i \in 1..Len(p) /\ i - 1 \in 0..Len(p)
        BY <3>2
      <4>2. pre[i - 1] = Prefix(p, i - 1)
        BY <4>1
      <4>3. Append(pre[i - 1], p[i]) = Prefix(p, i) /\ ~IsA(Prefix(p, i), "link")
        BY <1>0, <4>1, <4>2
      <4>4. pre[i] = Prefix(p, i)
        OBVIOUS
      <4> HIDE DEF pre
      <4> QED BY <3>2, <4>3, <4>4
    <3> QED BY <3>1, <3>2
  <2> QED BY <2>2
<1>2. land = [i \in 0..Len(p) |-> Step(land, i)]
  <2> HIDE DEF pre
  <2>1. \E f : f = [i \in 0..Len(p) |-> Step(f, i)]
    BY <1>1
  <2> QED BY <2>1
<1>3. ASSUME NEW i \in 0..Len(p) PROVE land[i] = Prefix(p, i)
  <2> HIDE DEF land
  <2> DEFINE T == {j \in 0..Len(p) : land[j] # Prefix(p, j)}
  <2>1. SUFFICES ASSUME T # {} PROVE FALSE
    OBVIOUS
  <2>2. PICK m \in T : \A k \in T : m <= k
    <3>1. T \subseteq Nat
      OBVIOUS
    <3> HIDE DEF T
    <3> QED BY <2>1, <3>1, Least
  <2>3. m # 0
    <3>1. Prefix(p, 0) = Root
      BY DEF Prefix, Root
    <3> QED BY <1>2, <2>2, <3>1
  <2>4. land[m - 1] = Prefix(p, m - 1) /\ m \in 1..Len(p)
    BY <2>2, <2>3
  <2>5. land[m] = Step(land, m)
    <3> HIDE DEF Step
    <3> QED BY <1>2
  <2> QED BY <1>0, <2>3, <2>4, <2>5
<1>4. Follow(p) = land[Len(p)]
  BY DEF Follow
<1>5. Prefix(p, Len(p)) = p
  BY DEF Prefix
<1> HIDE DEF land
<1> QED BY <1>3, <1>4, <1>5

\* What openat2 opens without following a symbolic link is at that very path.
LEMMA RealIsPlain ==
  ASSUME NEW p \in Seq(Names), Real(p)
  PROVE  \A i \in 1..Len(p) : ~IsA(Prefix(p, i), "link")
<1> DEFINE T == {i \in 1..Len(p) : IsA(Prefix(p, i), "link")}
<1>1. SUFFICES ASSUME T # {} PROVE FALSE
  OBVIOUS
<1>2. PICK m \in T : \A k \in T : m <= k
  <2>1. T \subseteq Nat
    OBVIOUS
  <2> HIDE DEF T
  <2> QED BY <1>1, <2>1, Least
<1>3. m \in 1..Len(p) /\ IsA(Prefix(p, m), "link")
  OBVIOUS
<1> DEFINE q == Prefix(p, m)
<1> DEFINE r == Prefix(p, m - 1)
<1>4. q \in Seq(Names) /\ Len(q) = m /\ r \in Seq(Names) /\ Len(r) = m - 1
      /\ q # Root /\ Parent(q) = r /\ q = Append(r, q[Len(q)])
  <2>1. q \in Seq(Names) /\ Len(q) = m /\ r \in Seq(Names) /\ Len(r) = m - 1
    BY <1>3, PrefixType
  <2>2. q # Root
    BY <1>3, <2>1 DEF Root
  <2>3. Parent(q) = r
    BY <1>3, <2>1 DEF Parent, Prefix
  <2>4. q = Append(r, q[Len(q)])
    BY <1>3 DEF Prefix
  <2> QED BY <2>1, <2>2, <2>3, <2>4
<1>5. Follow(r) = r
  <2>1. ASSUME NEW i \in 1..Len(r) PROVE ~IsA(Prefix(r, i), "link")
    <3>1. i \in 1..Len(p) /\ i < m /\ Prefix(r, i) = Prefix(p, i)
      BY <1>3, <1>4 DEF Prefix
    <3>2. i \notin T
      BY <1>2, <3>1
    <3> QED BY <3>1, <3>2
  <2> HIDE DEF r
  <2> QED BY <1>4, <2>1, PlainFollows
<1>6. Entry(q) = q
  <2> HIDE DEF q, r
  <2> QED BY <1>4, <1>5 DEF Entry
<1>7. Lstat(q) \in {"dir", "file"}
  <2>1. CASE m = Len(p)
    <3>1. q = p
      BY <2>1 DEF Prefix
    <3> HIDE DEF q
    <3> QED BY <3>1 DEF Real
  <2>2. CASE m # Len(p)
    <3>1. m \in 1..(Len(p) - 1)
      BY <1>3, <2>2
    <3> QED BY <3>1 DEF Real
  <2> QED BY <2>1, <2>2
<1>8. Exists(q) /\ tree[q].kind = "link"
  BY <1>3 DEF IsA
<1>9. Lstat(q) \in {"notdir", "link"}
  <2> HIDE DEF q
  <2> QED BY <1>6, <1>8 DEF Lstat
<1> QED BY <1>7, <1>9

LEMMA RealIsItself ==
  ASSUME NEW p \in Seq(Names), Real(p)
  PROVE  Follow(p) = p /\ (p # Root => Entry(p) = p)
<1>1. Follow(p) = p
  BY RealIsPlain, PlainFollows
<1>2. ASSUME p # Root PROVE Entry(p) = p
  <2> DEFINE r == Parent(p)
  <2>1. /\ r \in Seq(Names) /\ Len(r) = Len(p) - 1 /\ p = Append(r, p[Len(p)])
        /\ \A i \in 1..Len(r) : i \in 1..Len(p) /\ Prefix(r, i) = Prefix(p, i)
    <3>1. r \in Seq(Names) /\ Len(r) = Len(p) - 1 /\ Len(p) \in Nat \ {0}
      <4>1. Len(p) \in Nat \ {0}
        BY <1>2 DEF Root
      <4>2. Len(p) - 1 \in 0..Len(p) /\ r = Prefix(p, Len(p) - 1)
        BY <4>1 DEF Parent
      <4> HIDE DEF r
      <4> QED BY <4>1, <4>2, PrefixType
    <3>2. p = Append(r, p[Len(p)])
      BY <1>2 DEF Parent, Prefix, Root
    <3>3. ASSUME NEW i \in 1..Len(r) PROVE i \in 1..Len(p) /\ Prefix(r, i) = Prefix(p, i)
      BY <3>1 DEF Parent, Prefix
    <3> QED BY <3>1, <3>2, <3>3
  <2>2. \A i \in 1..Len(r) : ~IsA(Prefix(r, i), "link")
    BY <2>1, RealIsPlain
  <2>3. Follow(r) = r
    <3> HIDE DEF r
    <3> QED BY <2>1, <2>2, PlainFollows
  <2> QED BY <1>2, <2>1, <2>3 DEF Entry
<1> QED BY <1>1, <1>2

LEMMA DeepestIn ==
  ASSUME TreeInv, NEW p \in Seq(Names)
  PROVE  Deepest(p) \in 0..Len(p)
<1> DEFINE T == {i \in 0..Len(p) : Lstat(Prefix(p, i)) # "absent"}
<1>1. 0 \in T
  <2>1. Prefix(p, 0) = Root
    BY DEF Prefix, Root
  <2>2. Lstat(Root) \in {"notdir", "dir", "file", "link"}
    BY TreeTypes DEF TreeInv, Lstat, Entry, Exists
  <2> QED BY <2>1, <2>2
<1>2. PICK m \in T : \A k \in T : k <= m
  <2>1. T \subseteq 0..Len(p) /\ T # {} /\ Len(p) \in Nat
    BY <1>1
  <2> HIDE DEF T
  <2> QED BY <2>1, Greatest
<1>3. \A j \in (m + 1)..Len(p) : Lstat(Prefix(p, j)) = "absent"
  <2>1. ASSUME NEW j \in (m + 1)..Len(p) PROVE j \notin T /\ j \in 0..Len(p)
    BY <1>2
  <2> QED BY <2>1
<1>4. \E i \in 0..Len(p) : /\ Lstat(Prefix(p, i)) # "absent"
                          /\ \A j \in (i + 1)..Len(p) : Lstat(Prefix(p, j)) = "absent"
  BY <1>3
<1> QED BY <1>4 DEF Deepest

\* validate_target_dir gives a path inside the workspace.
LEMMA AcceptedInside ==
  ASSUME TreeInv, NEW p \in Seq(Names), Accepts(p)
  PROVE  Canonical(p) \in Seq(Names) /\ Inside(Canonical(p))
<1>1. Deepest(p) \in 0..Len(p)
  BY DeepestIn
<1>2. Existing(p) \in Seq(Names)
  BY <1>1, PrefixType DEF Existing
<1>3. SubSeq(p, Deepest(p) + 1, Len(p)) \in Seq(Names)
  BY <1>1
<1>4. Canonical(p) \in Seq(Names)
  BY <1>2, <1>3, FollowType DEF Canonical
<1> QED BY <1>4 DEF Accepts, Placed

-----------------------------------------------------------------------------
(* What a step of cargo-cage does *)

Keeps == \A q \in DOMAIN tree : q \in DOMAIN tree' /\ tree'[q] = tree[q]

LEMMA Same ==
  ASSUME TreeInv, UNCHANGED tree, DOMAIN proc' = DOMAIN proc
  PROVE  TreeInv' /\ Keeps
BY DEF TreeInv, Keeps, Procs

\* Making an entry where there is none.
LEMMA Made ==
  ASSUME TreeInv, NEW q, NEW e \in EntriesBy(Procs \cup {Host}), Put(q, e),
         ~Exists(q), DOMAIN proc' = DOMAIN proc
  PROVE  TreeInv' /\ Keeps
<1>1. /\ tree' = [x \in DOMAIN tree \cup {q} |-> IF x = q THEN e ELSE tree[x]]
      /\ q \notin DOMAIN tree
  BY DEF Put, Exists
<1>2. Procs' = Procs
  BY DEF Procs
<1>3. Keeps
  BY <1>1 DEF Keeps
<1>4. \A x \in DOMAIN tree : tree[x] \in EntriesBy(Procs \cup {Host})
  BY TreeTypes
<1> QED BY <1>1, <1>2, <1>3, <1>4 DEF TreeInv

LEMMA EntryTypes ==
  ASSUME NEW p \in Procs \cup {Host}
  PROVE  /\ Dir(p) \in EntriesBy(Procs \cup {Host})
         /\ \A n \in Nat : File(n, p) \in EntriesBy(Procs \cup {Host})
         /\ \A t \in Seq(Names) : Link(t, p) \in EntriesBy(Procs \cup {Host})
BY Fixed DEF Dir, File, Link, EntriesBy

\* A step of one process: its locals alone change.
LEMMA Goes ==
  ASSUME PrepInv, NEW p \in Procs, NEW l, LocalInv(l), Go(p, l)
  PROVE  /\ DOMAIN proc' = DOMAIN proc /\ Procs' = Procs
         /\ proc' = [q \in Procs' |-> proc'[q]]
         /\ \A q \in Procs' : LocalInv(proc'[q])
<1>1. proc' = [proc EXCEPT ![p] = l] /\ p \in DOMAIN proc
  BY DEF Go, Procs
<1>2. proc = [q \in Procs |-> proc[q]]
  BY DEF PrepInv
<1>3. DOMAIN proc' = DOMAIN proc /\ Procs' = Procs
  BY <1>1 DEF Procs
<1>4. \A q \in Procs : proc'[q] = IF q = p THEN l ELSE proc[q]
  BY <1>1, <1>2 DEF Procs
<1>5. \A q \in Procs : LocalInv(proc'[q])
  BY <1>4 DEF PrepInv
<1>6. proc' = [q \in Procs' |-> proc'[q]]
  BY <1>1, <1>3 DEF Procs
<1> QED BY <1>3, <1>5, <1>6

\* What a step of process p establishes.
Fine == PrepInv' /\ Keeps

LEMMA StepFine ==
  ASSUME PrepInv, NEW p \in Procs, NEW l, LocalInv(l), Go(p, l),
         UNCHANGED <<opened, others>>, TreeInv', Keeps
  PROVE  Fine
<1>1. /\ Procs' = Procs /\ proc' = [q \in Procs' |-> proc'[q]]
      /\ \A q \in Procs' : LocalInv(proc'[q])
  BY Goes
<1>2. MountsStayInside'
  BY <1>1 DEF PrepInv, MountsStayInside
<1>3. opened' = [q \in Procs' |-> opened'[q]]
  BY <1>1 DEF PrepInv
<1> QED BY <1>1, <1>2, <1>3 DEF PrepInv, Fine

\* A step that only reads.
LEMMA ReadFine ==
  ASSUME PrepInv, NEW p \in Procs, NEW l, LocalInv(l), Go(p, l), Reads
  PROVE  Fine
<1>1. DOMAIN proc' = DOMAIN proc
  BY Goes
<1>2. TreeInv' /\ Keeps
  BY <1>1, Same DEF PrepInv, Reads
<1> QED BY <1>2, StepFine DEF Reads

\* A step that makes something new.
LEMMA MakeFine ==
  ASSUME PrepInv, NEW p \in Procs, NEW l, LocalInv(l), Go(p, l), Quietly,
         NEW q, NEW e \in EntriesBy(Procs \cup {Host}), Put(q, e), ~Exists(q)
  PROVE  Fine
<1>1. DOMAIN proc' = DOMAIN proc
  BY Goes
<1>2. TreeInv' /\ Keeps
  BY <1>1, Made DEF PrepInv
<1> QED BY <1>2, StepFine DEF Quietly

LEMMA QuietFine ==
  ASSUME PrepInv, NEW p \in Procs, NEW l, LocalInv(l), Go(p, l), Quietly, UNCHANGED tree
  PROVE  Fine
BY ReadFine DEF Quietly, Reads

-----------------------------------------------------------------------------
(* The places a process goes to *)

LEMMA LocalFacts ==
  ASSUME NEW l, LocalInv(l)
  PROVE  /\ l \in Locals /\ l.attempt \in DOMAIN RunNames[l.key]
         /\ l.key \in DOMAIN RunNames /\ l.goal \in Seq(Names) /\ l.run \in Seq(Names)
         /\ l.depth \in Nat /\ l.attempt \in Nat /\ l.request \in Seq(Names)
         /\ l.reuse \in BOOLEAN /\ l.base \in Seq(Names)
         /\ l.stage \in Stages /\ l.pc \in Places
         /\ (l.run = None \/ Inside(l.run))
BY DEF LocalInv, Locals

\* Elsewhere in the program, with nothing else changed.
LEMMA Elsewhere ==
  ASSUME NEW l, LocalInv(l), NEW pc \in Places,
         pc \in {"inspect", "make", "confirm", "claim", "check"} => Inside(l.goal)
  PROVE  LocalInv([l EXCEPT !.pc = pc])
BY LocalFacts DEF LocalInv, Locals

LEMMA Creates ==
  ASSUME NEW l, LocalInv(l), NEW stage \in Stages, NEW goal \in Seq(Names), Inside(goal)
  PROVE  LocalInv(Creating(l, stage, goal))
BY LocalFacts DEF LocalInv, Locals, Creating, Places

LEMMA Validates ==
  ASSUME NEW l, LocalInv(l), NEW stage \in Stages, NEW goal \in Seq(Names)
  PROVE  LocalInv(Validating(l, stage, goal))
BY LocalFacts DEF LocalInv, Locals, Validating, Places

LEMMA FailFine ==
  ASSUME PrepInv, NEW p \in Procs, Fail(p), Quietly, UNCHANGED tree
  PROVE  Fine
<1>1. LocalInv([proc[p] EXCEPT !.pc = "failed"])
  BY Elsewhere DEF PrepInv, Places
<1> QED BY <1>1, QuietFine DEF Fail, Goto

-----------------------------------------------------------------------------
(* The actions of cargo-cage *)

LEMMA ValidateFine ==
  ASSUME PrepInv, NEW p \in Procs, Validate(p)
  PROVE  Fine
<1> DEFINE l == proc[p]
<1>1. LocalInv(l) /\ TreeInv
  BY DEF PrepInv
<1>2. Reads
  BY DEF Validate
<1>3. CASE Accepts(l.goal) /\ Go(p, Creating(l, l.stage, Canonical(l.goal)))
  <2>1. LocalInv(Creating(l, l.stage, Canonical(l.goal)))
    <3> HIDE DEF l
    <3> QED BY <1>1, <1>3, LocalFacts, AcceptedInside, Creates
  <2> QED BY <1>2, <1>3, <2>1, ReadFine
<1>4. CASE Fail(p)
  BY <1>2, <1>4, FailFine DEF Reads, Quietly
<1> QED BY <1>3, <1>4 DEF Validate

LEMMA GoesDeeper ==
  ASSUME NEW l, LocalInv(l), Inside(l.goal)
  PROVE  LocalInv(Deeper(l))
<1>1. CASE l.depth < Len(l.goal)
  <2>1. Deeper(l) = [l EXCEPT !.pc = "inspect", !.depth = @ + 1]
    BY <1>1 DEF Deeper
  <2>2. l.depth + 1 \in Nat
    BY LocalFacts
  <2>3. [l EXCEPT !.pc = "inspect", !.depth = @ + 1] \in Locals
    <3>1. PICK d \in Nat : d = l.depth + 1
      BY <2>2
    <3>2. l \in Locals /\ "inspect" \in Places
      BY LocalFacts DEF Places
    <3>3. [l EXCEPT !.pc = "inspect", !.depth = d] \in Locals
      BY <3>2 DEF Locals
    <3> QED BY <3>1, <3>3
  <2> QED BY <2>1, <2>3, LocalFacts DEF LocalInv, Locals
<1>2. CASE ~(l.depth < Len(l.goal)) /\ l.stage \in {"base", "build"}
  <2>1. Deeper(l) = [l EXCEPT !.pc = "confirm"]
    BY <1>2 DEF Deeper
  <2> QED BY <2>1, Elsewhere DEF Places
<1>3. CASE ~(l.depth < Len(l.goal)) /\ l.stage = "fresh"
  <2> DEFINE runs == l.goal \o <<CageName, RunsName>>
  <2>1. Deeper(l) = Creating(l, "runs", runs)
    BY <1>3 DEF Deeper
  <2>2. runs \in Seq(Names) /\ Inside(runs)
    <3>1. <<CageName, RunsName>> \in Seq(Names) /\ <<CageName, RunsName>> # << >>
      BY Fixed
    <3>2. l.goal \in Seq(Names) /\ StartsWith(l.goal, Workspace)
      BY LocalFacts DEF Inside
    <3> QED BY <3>1, <3>2, InsideFurther
  <2>3. "runs" \in Stages
    BY DEF Stages
  <2> HIDE DEF runs
  <2> QED BY <2>1, <2>2, <2>3, Creates
<1>4. CASE ~(l.depth < Len(l.goal)) /\ l.stage = "runs"
  <2>1. Deeper(l) = [l EXCEPT !.pc = "claim"]
    BY <1>4 DEF Deeper
  <2> QED BY <2>1, Elsewhere DEF Places
<1> QED BY <1>1, <1>2, <1>3, <1>4, LocalFacts DEF Stages

LEMMA InspectFine ==
  ASSUME PrepInv, NEW p \in Procs, InspectComponent(p)
  PROVE  Fine
<1> DEFINE l == proc[p]
<1>1. LocalInv(l) /\ Inside(l.goal) /\ Reads
  BY DEF PrepInv, LocalInv, InspectComponent, At
<1>2. CASE Go(p, Deeper(l))
  <2>1. LocalInv(Deeper(l))
    <3> HIDE DEF l
    <3> QED BY <1>1, GoesDeeper
  <2> QED BY <1>1, <1>2, <2>1, ReadFine
<1>3. CASE Goto(p, "make")
  <2>1. LocalInv([l EXCEPT !.pc = "make"])
    <3> HIDE DEF l
    <3> QED BY <1>1, Elsewhere DEF Places
  <2> QED BY <1>1, <1>3, <2>1, ReadFine DEF Goto
<1>4. CASE Fail(p)
  BY <1>1, <1>4, FailFine DEF Reads, Quietly
<1> QED BY <1>2, <1>3, <1>4 DEF InspectComponent

LEMMA MakeComponentFine ==
  ASSUME PrepInv, NEW p \in Procs, MakeComponent(p)
  PROVE  Fine
<1> DEFINE l == proc[p]
<1> DEFINE q == Prefix(l.goal, l.depth)
<1>1. LocalInv(l) /\ Inside(l.goal) /\ Quietly
  BY DEF PrepInv, LocalInv, MakeComponent, At
<1>2. CASE CanMake(q) /\ Put(Entry(q), Dir(p)) /\ Go(p, Deeper(l))
  <2>1. LocalInv(Deeper(l))
    <3> HIDE DEF l
    <3> QED BY <1>1, GoesDeeper
  <2>2. ~Exists(Entry(q)) /\ Dir(p) \in EntriesBy(Procs \cup {Host})
    BY <1>2, EntryTypes DEF CanMake
  <2> HIDE DEF q
  <2> QED BY <1>1, <1>2, <2>1, <2>2, MakeFine
<1>3. CASE Fail(p) /\ UNCHANGED tree
  BY <1>1, <1>3, FailFine
<1> QED BY <1>2, <1>3 DEF MakeComponent

LEMMA ConfirmFine ==
  ASSUME PrepInv, NEW p \in Procs, Confirm(p)
  PROVE  Fine
<1> DEFINE l == proc[p]
<1> DEFINE target == Follow(l.goal)
<1>1. LocalInv(l) /\ Reads /\ TreeInv
  BY DEF PrepInv, Confirm
<1>2. target \in Seq(Names)
  <2> HIDE DEF l
  <2> QED BY <1>1, LocalFacts, FollowType
<1>3. CASE Fail(p)
  BY <1>1, <1>3, FailFine DEF Reads, Quietly
<1>4. CASE Goto(p, "lock")
  <2>1. LocalInv([l EXCEPT !.pc = "lock"])
    <3> HIDE DEF l
    <3> QED BY <1>1, Elsewhere DEF Places
  <2> QED BY <1>1, <1>4, <2>1, ReadFine DEF Goto
<1>5. CASE Go(p, Validating([l EXCEPT !.base = target], "fresh", target))
  <2>1. LocalInv([l EXCEPT !.base = target])
    <3> HIDE DEF l, target
    <3> QED BY <1>1, <1>2, LocalFacts DEF LocalInv, Locals
  <2>2. LocalInv(Validating([l EXCEPT !.base = target], "fresh", target))
    <3>1. PICK k : k = [l EXCEPT !.base = target]
      OBVIOUS
    <3> HIDE DEF l, target
    <3> QED BY <1>2, <2>1, <3>1, Validates DEF Stages
  <2> QED BY <1>1, <1>5, <2>2, ReadFine
<1>6. CASE /\ Inside(target)
           /\ Go(p, Validating([l EXCEPT !.base = target, !.run = target], "build",
                               Append(target, BuildName)))
  <2>1. LocalInv([l EXCEPT !.base = target, !.run = target])
    <3> HIDE DEF l, target
    <3> QED BY <1>1, <1>2, <1>6, LocalFacts DEF LocalInv, Locals
  <2>2. LocalInv(Validating([l EXCEPT !.base = target, !.run = target], "build",
                            Append(target, BuildName)))
    <3>1. PICK k : k = [l EXCEPT !.base = target, !.run = target]
      OBVIOUS
    <3>2. Append(target, BuildName) \in Seq(Names)
      BY <1>2, Fixed
    <3> HIDE DEF l, target
    <3> QED BY <2>1, <3>1, <3>2, Validates DEF Stages
  <2> QED BY <1>1, <1>6, <2>2, ReadFine
<1> QED BY <1>3, <1>4, <1>5, <1>6 DEF Confirm

\* A candidate for a run is below the directory of the runs.
LEMMA CandidateInside ==
  ASSUME NEW l, LocalInv(l), Inside(l.goal)
  PROVE  Candidate(l) \in Seq(Names) /\ Inside(Candidate(l))
<1>1. RunNames[l.key] \in Seq(Names)
  BY LocalFacts, PrepAssumption
<1>2. RunNames[l.key][l.attempt] \in Names
  BY <1>1, LocalFacts
<1>3. l.goal \in Seq(Names) /\ StartsWith(l.goal, Workspace)
  BY LocalFacts DEF Inside
<1> QED BY <1>2, <1>3, InsideBelow DEF Candidate

LEMMA ClaimFine ==
  ASSUME PrepInv, NEW p \in Procs, ClaimRun(p)
  PROVE  Fine
<1> DEFINE l == proc[p]
<1>1. LocalInv(l) /\ Inside(l.goal) /\ Quietly
  BY DEF PrepInv, LocalInv, ClaimRun, At
<1>2. CASE /\ CanMake(Candidate(l)) /\ Put(Entry(Candidate(l)), Dir(p))
           /\ Go(p, [l EXCEPT !.pc = "check"])
  <2>1. LocalInv([l EXCEPT !.pc = "check"])
    <3> HIDE DEF l
    <3> QED BY <1>1, Elsewhere DEF Places
  <2>2. ~Exists(Entry(Candidate(l))) /\ Dir(p) \in EntriesBy(Procs \cup {Host})
    BY <1>2, EntryTypes DEF CanMake
  <2> QED BY <1>1, <1>2, <2>1, <2>2, MakeFine
<1>3. CASE /\ l.attempt < Len(RunNames[l.key])
           /\ Go(p, [l EXCEPT !.attempt = @ + 1]) /\ UNCHANGED tree
  <2>1. l.attempt + 1 \in DOMAIN RunNames[l.key] /\ l.attempt + 1 \in Nat
    <3>1. RunNames[l.key] \in Seq(Names)
      BY <1>1, LocalFacts, PrepAssumption
    <3> HIDE DEF l
    <3> QED BY <1>1, <1>3, <3>1, LocalFacts
  <2>2. LocalInv([l EXCEPT !.attempt = @ + 1])
    <3> HIDE DEF l
    <3> QED BY <1>1, <2>1, LocalFacts DEF LocalInv, Locals
  <2> QED BY <1>1, <1>3, <2>2, QuietFine
<1>4. CASE Fail(p) /\ UNCHANGED tree
  BY <1>1, <1>4, FailFine
<1> QED BY <1>2, <1>3, <1>4 DEF ClaimRun

LEMMA CheckRunFine ==
  ASSUME PrepInv, NEW p \in Procs, CheckRun(p)
  PROVE  Fine
<1> DEFINE l == proc[p]
<1> DEFINE run == Candidate(l)
<1>1. LocalInv(l) /\ Inside(l.goal) /\ Reads
  BY DEF PrepInv, LocalInv, CheckRun, At
<1>2. run \in Seq(Names) /\ Inside(run)
  <2> HIDE DEF l
  <2> QED BY <1>1, CandidateInside
<1>3. CASE Go(p, Validating([l EXCEPT !.run = run], "build", Append(run, BuildName)))
  <2>1. LocalInv([l EXCEPT !.run = run])
    <3> HIDE DEF l, run
    <3> QED BY <1>1, <1>2, LocalFacts DEF LocalInv, Locals
  <2>2. LocalInv(Validating([l EXCEPT !.run = run], "build", Append(run, BuildName)))
    <3>1. PICK k : k = [l EXCEPT !.run = run]
      OBVIOUS
    <3>2. Append(run, BuildName) \in Seq(Names)
      BY <1>2, Fixed
    <3> HIDE DEF l, run
    <3> QED BY <2>1, <3>1, <3>2, Validates DEF Stages
  <2> QED BY <1>1, <1>3, <2>2, ReadFine
<1>4. CASE Fail(p)
  BY <1>1, <1>4, FailFine DEF Reads, Quietly
<1> QED BY <1>3, <1>4 DEF CheckRun

\* The steps from one fixed place to another.
LEMMA OnwardFine ==
  ASSUME PrepInv, NEW p \in Procs, Reads,
         NEW pc \in {"vet", "newLock", "openRun"}, Goto(p, pc)
  PROVE  Fine
<1>1. LocalInv([proc[p] EXCEPT !.pc = pc])
  BY Elsewhere DEF PrepInv, Places
<1> QED BY <1>1, ReadFine DEF Goto

LEMMA ReadingFine ==
  ASSUME PrepInv, NEW p \in Procs,
         InspectLockfile(p) \/ ReinspectLockfile(p) \/ VetWritable(p)
  PROVE  Fine
<1>1. Reads
  BY DEF InspectLockfile, ReinspectLockfile, VetWritable
<1>2. Goto(p, "vet") \/ Goto(p, "newLock") \/ Goto(p, "openRun") \/ Fail(p)
  BY DEF InspectLockfile, ReinspectLockfile, VetWritable
<1>3. CASE Fail(p)
  BY <1>1, <1>3, FailFine DEF Reads, Quietly
<1> QED BY <1>1, <1>2, <1>3, OnwardFine

LEMMA CreateLockfileFine ==
  ASSUME PrepInv, NEW p \in Procs, CreateLockfile(p)
  PROVE  Fine
<1>1. Quietly
  BY DEF CreateLockfile
<1>2. CASE CanMake(Lockfile) /\ Put(Entry(Lockfile), File(1, p)) /\ Goto(p, "relock")
  <2>1. LocalInv([proc[p] EXCEPT !.pc = "relock"])
    BY Elsewhere DEF PrepInv, Places
  <2>2. ~Exists(Entry(Lockfile)) /\ File(1, p) \in EntriesBy(Procs \cup {Host})
    BY <1>2, EntryTypes DEF CanMake
  <2> QED BY <1>1, <1>2, <2>1, <2>2, MakeFine DEF Goto
<1>3. CASE Fail(p) /\ UNCHANGED tree
  BY <1>1, <1>3, FailFine
<1> QED BY <1>2, <1>3 DEF CreateLockfile

\* What is opened is at the path itself, with the one name it was looked up by.
LEMMA OpenFine ==
  ASSUME PrepInv, NEW p \in Procs, NEW q \in Seq(Names), q = None \/ Inside(q),
         NEW from, NEW to \in {"openLock", "mounted"}, Open(p, q, from, to)
  PROVE  Fine
<1>1. UNCHANGED <<tree, others, moves>>
  BY DEF Open
<1>2. CASE Fail(p) /\ UNCHANGED opened
  BY <1>1, <1>2, FailFine DEF Quietly
<1> DEFINE m == [place |-> Follow(q), names |-> tree[Follow(q)].names,
                 kind |-> tree[Follow(q)].kind]
<1>3. CASE Opens(q) /\ Goto(p, to) /\ opened' = [opened EXCEPT ![p] = @ \cup {m}]
  <2>1. Real(q) /\ Inside(q)
    BY <1>3 DEF Opens, Real
  <2>2. q # Root
    <3>1. q = Root => Len(Workspace) <= 0
      BY <2>1 DEF Root, Inside, StartsWith
    <3>2. q = Root => Workspace = << >>
      BY <3>1, Fixed
    <3> QED BY <2>1, <3>2 DEF Inside, Root
  <2>3. Follow(q) = q /\ Entry(q) = q
    BY <2>1, <2>2, RealIsItself
  <2>4. m.kind = "file" => m.names = 1
    <3>1. tree[q].kind = "file" => tree[q].names = 1
      <4>1. Lstat(q) \in {"dir", "file"}
        BY <2>1 DEF Real
      <4>2. Lstat(q) = tree[q].kind
        BY <2>3, <4>1 DEF Lstat
      <4> QED BY <1>3, <4>2 DEF Opens
    <3> QED BY <2>3, <3>1
  <2>5. LocalInv([proc[p] EXCEPT !.pc = to])
    BY Elsewhere DEF PrepInv, Places
  <2>6. /\ DOMAIN proc' = DOMAIN proc /\ Procs' = Procs
        /\ proc' = [r \in Procs' |-> proc'[r]] /\ \A r \in Procs' : LocalInv(proc'[r])
    BY <1>3, <2>5, Goes DEF Goto
  <2>7. TreeInv' /\ Keeps
    BY <1>1, <2>6, Same DEF PrepInv
  <2>8. opened = [r \in Procs |-> opened[r]] /\ MountsStayInside
    BY DEF PrepInv
  <2>9. \A r \in Procs : opened'[r] = IF r = p THEN opened[p] \cup {m} ELSE opened[r]
    <3> HIDE DEF m
    <3> QED BY <1>3, <2>8
  <2>10. Inside(m.place)
    BY <2>1, <2>3
  <2>11. MountsStayInside'
    <3> HIDE DEF m
    <3> QED BY <2>4, <2>6, <2>8, <2>9, <2>10 DEF MountsStayInside
  <2>12. opened' = [r \in Procs' |-> opened'[r]]
    <3> HIDE DEF m
    <3> QED BY <1>3, <2>6, <2>8
  <2> QED BY <1>1, <2>6, <2>7, <2>11, <2>12 DEF PrepInv, Fine
<1> QED BY <1>2, <1>3 DEF Open

LEMMA PrepareFine ==
  ASSUME PrepInv, NEW p \in Procs, Prepare(p)
  PROVE  Fine
<1>1. CASE OpenRun(p)
  <2>1. proc[p].run \in Seq(Names) /\ (proc[p].run = None \/ Inside(proc[p].run))
    BY LocalFacts DEF PrepInv
  <2> QED BY <1>1, <2>1, OpenFine DEF OpenRun
<1>2. CASE OpenLock(p)
  BY <1>2, Fixed, LockfileInside, OpenFine DEF OpenLock
<1> QED BY <1>1, <1>2, ValidateFine, InspectFine, MakeComponentFine, ConfirmFine, ClaimFine,
           CheckRunFine, ReadingFine, CreateLockfileFine DEF Prepare

-----------------------------------------------------------------------------
(* Other programs *)

LEMMA DisturbKeeps ==
  ASSUME PrepInv, Disturb
  PROVE  PrepInv' /\ UNCHANGED proc
<1>1. UNCHANGED <<proc, opened, others>>
  BY DEF Disturb, RemoveTree, CreateEntry, AddName, MakeLink, OtherMoves
<1>2. Procs' = Procs /\ DOMAIN proc' = DOMAIN proc /\ TreeInv
  BY <1>1 DEF Procs, PrepInv
<1>3. TreeInv'
  <2>1. PICK q \in others.places :
          \/ RemoveTree(q) \/ CreateEntry(q) \/ AddName(q)
          \/ \E t \in others.targets : MakeLink(q, t)
    BY DEF Disturb
  <2>2. q \in Seq(Names) \ {Root}
    BY <2>1 DEF PrepInv
  <2>3. \A x \in DOMAIN tree : tree[x] \in EntriesBy(Procs \cup {Host})
    BY <1>2, TreeTypes
  <2>4. CASE RemoveTree(q)
    <3>1. tree' = [x \in {y \in DOMAIN tree : ~StartsWith(y, q)} |-> tree[x]]
      BY <2>4 DEF RemoveTree
    <3>2. ~StartsWith(Root, q)
      BY <2>2 DEF StartsWith, Root
    <3> QED BY <1>2, <2>3, <3>1, <3>2 DEF TreeInv
  <2>5. CASE CreateEntry(q)
    <3>1. PICK e \in {Dir(Host), File(1, Host)} : Put(q, e)
      BY <2>5 DEF CreateEntry
    <3>2. e \in EntriesBy(Procs \cup {Host}) /\ ~Exists(q)
      BY <2>5, <3>1, EntryTypes DEF CreateEntry
    <3> QED BY <1>2, <3>1, <3>2, Made
  <2>6. CASE AddName(q)
    <3>1. tree' = [tree EXCEPT ![q].names = 2] /\ q \in DOMAIN tree
      BY <2>6 DEF AddName, IsA, Exists
    <3>2. [tree[q] EXCEPT !.names = 2] \in EntriesBy(Procs \cup {Host})
      BY <2>3, <3>1 DEF EntriesBy
    <3>3. tree \in [DOMAIN tree -> EntriesBy(Procs \cup {Host})] /\ Root \in DOMAIN tree
      BY <1>2 DEF TreeInv
    <3>4. tree' = [tree EXCEPT ![q] = [tree[q] EXCEPT !.names = 2]]
      BY <3>1
    <3>5. tree' \in [DOMAIN tree -> EntriesBy(Procs \cup {Host})] /\ DOMAIN tree' = DOMAIN tree
      BY <3>1, <3>2, <3>3, <3>4
    <3> QED BY <1>2, <3>3, <3>5 DEF TreeInv
  <2>7. ASSUME NEW t \in others.targets, MakeLink(q, t) PROVE TreeInv'
    <3>1. t \in Seq(Names) /\ Put(q, Link(t, Host)) /\ ~Exists(q)
      BY <2>7 DEF MakeLink, PrepInv
    <3>2. Link(t, Host) \in EntriesBy(Procs \cup {Host})
      BY <3>1, EntryTypes
    <3> QED BY <1>2, <3>1, <3>2, Made
  <2> QED BY <2>1, <2>4, <2>5, <2>6, <2>7
<1>4. /\ proc' = [r \in Procs' |-> proc'[r]] /\ \A r \in Procs' : LocalInv(proc'[r])
      /\ opened' = [r \in Procs' |-> opened'[r]] /\ MountsStayInside'
      /\ others'.targets \subseteq Seq(Names)
      /\ others'.places \subseteq Seq(Names) \ {Root}
  <2>1. MountsStayInside'
    BY <1>1, <1>2 DEF PrepInv, MountsStayInside
  <2> QED BY <1>1, <1>2, <2>1 DEF PrepInv
<1> QED BY <1>1, <1>3, <1>4 DEF PrepInv

-----------------------------------------------------------------------------
(* Creating inside the workspace *)

\* Below what is passed without a link a name stands for itself.
LEMMA PassedEntry ==
  ASSUME TreeInv, NEW g \in Seq(Names), NEW n \in 1..Len(g), PassesNone(Links, g, n - 1)
  PROVE  Entry(Prefix(g, n)) = Prefix(g, n)
<1> DEFINE q == Prefix(g, n)
<1> DEFINE r == Prefix(g, n - 1)
<1>1. q \in Seq(Names) /\ Len(q) = n /\ r \in Seq(Names) /\ Len(r) = n - 1
  BY PrefixType
<1>2. q # Root /\ Parent(q) = r /\ q = Append(r, q[Len(q)])
  BY <1>1 DEF Root, Parent, Prefix
<1>3. Follow(r) = r
  <2>1. ASSUME NEW i \in 1..Len(r) PROVE ~IsA(Prefix(r, i), "link")
    <3>1. i \in 1..(n - 1) /\ Prefix(r, i) = Prefix(g, i)
      BY <1>1 DEF Prefix
    <3> QED BY <3>1 DEF PassesNone, Links, IsA, Exists
  <2> HIDE DEF r
  <2> QED BY <1>1, <2>1, PlainFollows
<1> HIDE DEF q, r
<1> QED BY <1>2, <1>3 DEF Entry, q

\* An entry that stands for itself and is there is what lstat says, or the way
\* to it leads through a file.
LEMMA Seen ==
  ASSUME TreeInv, NEW q, Entry(q) = q
  PROVE  /\ Lstat(q) = "dir" => q \notin Links
         /\ Lstat(q) = "absent" => q \notin DOMAIN tree
<1>1. \A x \in DOMAIN tree : tree[x].kind \in {"dir", "file", "link"}
  BY TreeTypes
<1> QED BY <1>1 DEF Lstat, Exists, Links

LEMMA PrefixInside ==
  ASSUME NEW g \in Seq(Names), Inside(g), NEW n \in 0..Len(g)
  PROVE  /\ n <= Len(Workspace) => Prefix(g, n) = Prefix(Workspace, n)
         /\ Len(Workspace) < n => Inside(Prefix(g, n))
<1>1. Len(Workspace) \in Nat /\ Len(Workspace) <= Len(g)
      /\ SubSeq(g, 1, Len(Workspace)) = Workspace
  BY Fixed DEF Inside, StartsWith
<1>2. ASSUME n <= Len(Workspace) PROVE Prefix(g, n) = Prefix(Workspace, n)
  <2>1. PICK w \in Seq(Names) : w = SubSeq(g, 1, Len(Workspace))
    BY <1>1
  <2>2. Prefix(g, n) = Prefix(w, n)
    BY <1>1, <1>2, <2>1 DEF Prefix
  <2> QED BY <1>1, <2>1, <2>2
<1>3. ASSUME Len(Workspace) < n PROVE Inside(Prefix(g, n))
  <2> DEFINE q == Prefix(g, n)
  <2>1. q \in Seq(Names) /\ Len(q) = n
    BY PrefixType
  <2>2. SubSeq(q, 1, Len(Workspace)) = SubSeq(g, 1, Len(Workspace))
    BY <1>1, <1>3 DEF Prefix
  <2> HIDE DEF q
  <2>3. q # Workspace /\ StartsWith(q, Workspace)
    BY <1>1, <1>3, <2>1, <2>2 DEF StartsWith
  <2> QED BY <2>3 DEF Inside, q
<1> QED BY <1>2, <1>3

\* What a calm step makes is inside, and is no symbolic link.
Within ==
  Links' \subseteq Links /\ \A q \in DOMAIN tree' \ DOMAIN tree : Inside(q)

LEMMA NothingMade ==
  ASSUME UNCHANGED tree
  PROVE  Links' = Links /\ Within
BY DEF Links, Within

LEMMA MadeWithin ==
  ASSUME NEW q, NEW e, Put(q, e), e.kind # "link", ~Exists(q), Inside(q)
  PROVE  Links' = Links /\ Within
BY DEF Put, Links, Within, Exists

\* Where the way of a process does not matter.
LEMMA OffTheWay ==
  ASSUME NEW links, NEW l, l.pc \notin {"inspect", "make", "claim"}
  PROVE  WayInv(links, l)
BY DEF WayInv

LEMMA LeavesTheWay ==
  ASSUME NEW l, LocalInv(l), NEW pc \in Places \ {"inspect", "make", "claim"}
  PROVE  \A links : WayInv(links, [l EXCEPT !.pc = pc])
<1>1. [l EXCEPT !.pc = pc].pc = pc
  BY LocalFacts DEF Locals
<1> QED BY <1>1, OffTheWay

LEMMA ValidatesOffTheWay ==
  ASSUME NEW l, LocalInv(l), NEW stage, NEW goal
  PROVE  \A links : WayInv(links, Validating(l, stage, goal))
<1>1. Validating(l, stage, goal).pc = "validate"
  BY LocalFacts DEF Locals, Validating
<1> QED BY <1>1, OffTheWay

LEMMA BeginsTheWay ==
  ASSUME NEW l, LocalInv(l), NEW stage, NEW goal \in Seq(Names), Inside(goal)
  PROVE  \A links : WayInv(links, Creating(l, stage, goal))
<1> DEFINE k == Creating(l, stage, goal)
<1>1. k.pc = "inspect" /\ k.goal = goal /\ k.depth = 1
  BY LocalFacts DEF Locals, Creating
<1>2. goal # << >>
  <2>1. goal = << >> => Workspace = << >>
    BY Fixed DEF Inside, StartsWith
  <2> QED BY <2>1 DEF Inside
<1>3. 1 \in 1..Len(goal)
  BY <1>2
<1> HIDE DEF k
<1>4. ASSUME NEW links PROVE WayInv(links, k)
  <2>1. PassesNone(links, goal, 1 - 1)
    BY DEF PassesNone
  <2> QED BY <1>1, <1>3, <2>1 DEF WayInv
<1> QED BY <1>4 DEF k

\* One component further.
LEMMA FurtherOnTheWay ==
  ASSUME NEW l, LocalInv(l), Inside(l.goal), NEW links, l.depth \in 1..Len(l.goal),
         PassesNone(links, l.goal, l.depth)
  PROVE  WayInv(links, Deeper(l))
<1>0. l \in Locals /\ l.goal \in Seq(Names) /\ l.depth \in Nat
  BY LocalFacts
<1>1. CASE l.depth < Len(l.goal)
  <2>1. PICK k : k = [l EXCEPT !.pc = "inspect", !.depth = @ + 1]
    OBVIOUS
  <2>2. k = Deeper(l)
    BY <1>1, <2>1 DEF Deeper
  <2>3. k.pc = "inspect" /\ k.depth = l.depth + 1 /\ k.goal = l.goal
    BY <1>0, <2>1 DEF Locals
  <2>4. k.depth \in 1..Len(k.goal) /\ k.depth - 1 = l.depth
    BY <1>0, <1>1, <2>3
  <2> QED BY <2>2, <2>3, <2>4 DEF WayInv
<1>2. CASE ~(l.depth < Len(l.goal)) /\ l.stage \in {"base", "build"}
  <2>1. Deeper(l) = [l EXCEPT !.pc = "confirm"]
    BY <1>2 DEF Deeper
  <2>2. "confirm" \in Places \ {"inspect", "make", "claim"}
    BY DEF Places
  <2>3. \A x : WayInv(x, [l EXCEPT !.pc = "confirm"])
    BY <2>2, LeavesTheWay
  <2> QED BY <2>1, <2>3
<1>3. CASE ~(l.depth < Len(l.goal)) /\ l.stage = "fresh"
  <2> DEFINE runs == l.goal \o <<CageName, RunsName>>
  <2>1. Deeper(l) = Creating(l, "runs", runs)
    BY <1>3 DEF Deeper
  <2>2. runs \in Seq(Names) /\ Inside(runs)
    <3>1. <<CageName, RunsName>> \in Seq(Names) /\ <<CageName, RunsName>> # << >>
      BY Fixed
    <3>2. StartsWith(l.goal, Workspace)
      BY DEF Inside
    <3> QED BY <1>0, <3>1, <3>2, InsideFurther
  <2> HIDE DEF runs
  <2> QED BY <2>1, <2>2, BeginsTheWay
<1>4. CASE ~(l.depth < Len(l.goal)) /\ l.stage = "runs"
  <2>1. PICK k : k = [l EXCEPT !.pc = "claim"]
    OBVIOUS
  <2>2. k = Deeper(l)
    BY <1>4, <2>1 DEF Deeper
  <2>3. k.pc = "claim" /\ k.goal = l.goal
    BY <1>0, <2>1 DEF Locals
  <2>4. l.depth = Len(l.goal)
    BY <1>0, <1>4
  <2> QED BY <2>2, <2>3, <2>4 DEF WayInv
<1> QED BY <1>1, <1>2, <1>3, <1>4, LocalFacts DEF Stages

\* What a step of process p does to its way.
OnWay(p) == Within /\ \E l : Go(p, l) /\ WayInv(Links', l)

LEMMA FailOnWay ==
  ASSUME PrepInv, NEW p \in Procs, Fail(p), UNCHANGED tree
  PROVE  OnWay(p)
<1>1. WayInv(Links', [proc[p] EXCEPT !.pc = "failed"])
  BY LeavesTheWay DEF PrepInv, Places
<1> QED BY <1>1, NothingMade DEF OnWay, Fail, Goto

LEMMA ValidateOnWay ==
  ASSUME PrepInv, NEW p \in Procs, Validate(p)
  PROVE  OnWay(p)
<1> DEFINE l == proc[p]
<1>1. LocalInv(l) /\ TreeInv /\ UNCHANGED tree
  BY DEF PrepInv, Validate, Reads
<1>2. CASE Accepts(l.goal) /\ Go(p, Creating(l, l.stage, Canonical(l.goal)))
  <2>1. WayInv(Links', Creating(l, l.stage, Canonical(l.goal)))
    <3> HIDE DEF l
    <3>1. Canonical(l.goal) \in Seq(Names) /\ Inside(Canonical(l.goal))
      BY <1>1, <1>2, LocalFacts, AcceptedInside
    <3> QED BY <1>1, <3>1, BeginsTheWay
  <2> QED BY <1>1, <1>2, <2>1, NothingMade DEF OnWay
<1>3. CASE Fail(p)
  BY <1>1, <1>3, FailOnWay
<1> QED BY <1>2, <1>3 DEF Validate

LEMMA InspectOnWay ==
  ASSUME PrepInv, CalmInv, Calm, NEW p \in Procs, InspectComponent(p)
  PROVE  OnWay(p)
<1> DEFINE l == proc[p]
<1>1. LocalInv(l) /\ Inside(l.goal) /\ TreeInv /\ UNCHANGED tree /\ l.pc = "inspect"
  BY DEF PrepInv, LocalInv, InspectComponent, At, Reads
<1>2. WayInv(Links, l)
  BY DEF CalmInv
<1>3. PICK k : k = l
  OBVIOUS
<1>4. k \in Locals /\ k.goal \in Seq(Names) /\ k.depth \in 1..Len(k.goal)
      /\ PassesNone(Links, k.goal, k.depth - 1)
  <2> HIDE DEF l
  <2> QED BY <1>1, <1>2, <1>3, LocalFacts DEF WayInv
<1> DEFINE q == Prefix(k.goal, k.depth)
<1>5. Entry(q) = q
  BY <1>1, <1>4, PassedEntry
<1>6. Lstat(q) = "dir" => q \notin Links
  <2> HIDE DEF q
  <2> QED BY <1>1, <1>5, Seen
<1>7. Lstat(q) = "absent" => q \notin DOMAIN tree
  <2> HIDE DEF q
  <2> QED BY <1>1, <1>5, Seen
<1>8. CASE Lstat(q) = "dir" /\ Go(p, Deeper(l))
  <2>1. PassesNone(Links, k.goal, k.depth)
    <3>1. ASSUME NEW i \in 1..k.depth PROVE Prefix(k.goal, i) \notin Links
      <4>1. CASE i = k.depth
        BY <1>6, <1>8, <4>1
      <4>2. CASE i # k.depth
        <5>1. i \in 1..(k.depth - 1)
          BY <1>4, <4>2
        <5> QED BY <1>4, <5>1 DEF PassesNone
      <4> QED BY <4>1, <4>2
    <3> QED BY <3>1 DEF PassesNone
  <2>2. WayInv(Links, Deeper(k))
    <3>1. LocalInv(k) /\ Inside(k.goal)
      BY <1>1, <1>3
    <3> QED BY <1>4, <2>1, <3>1, FurtherOnTheWay
  <2> QED BY <1>1, <1>3, <1>8, <2>2, NothingMade DEF OnWay
<1>9. CASE Lstat(q) = "absent" /\ Goto(p, "make")
  <2>1. Len(Workspace) < k.depth
    <3>1. SUFFICES ASSUME ~(Len(Workspace) < k.depth) PROVE FALSE
      OBVIOUS
    <3>2. Len(Workspace) \in Nat /\ k.depth \in 0..Len(k.goal) /\ k.depth <= Len(Workspace)
      BY <1>4, <3>1, Fixed
    <3>3. Inside(k.goal)
      BY <1>1, <1>3
    <3>4. q = Prefix(Workspace, k.depth)
      BY <1>4, <3>2, <3>3, PrefixInside
    <3>5. k.depth \in 0..Len(Workspace)
      BY <1>4, <3>2
    <3>6. IsA(Prefix(Workspace, k.depth), "dir")
      BY <3>5 DEF CalmInv, WorkspaceInv
    <3> HIDE DEF q
    <3> QED BY <1>7, <1>9, <3>4, <3>6 DEF IsA, Exists
  <2>2. PICK m : m = [k EXCEPT !.pc = "make"]
    OBVIOUS
  <2>3. m.pc = "make" /\ m.depth = k.depth /\ m.goal = k.goal
    BY <1>4, <2>2 DEF Locals
  <2>4. WayInv(Links, m)
    BY <1>4, <2>1, <2>3 DEF WayInv
  <2> QED BY <1>1, <1>3, <1>9, <2>2, <2>4, NothingMade DEF OnWay, Goto
<1>10. CASE Fail(p)
  BY <1>1, <1>10, FailOnWay
<1> QED BY <1>3, <1>8, <1>9, <1>10 DEF InspectComponent

LEMMA MakeOnWay ==
  ASSUME PrepInv, CalmInv, Calm, NEW p \in Procs, MakeComponent(p)
  PROVE  OnWay(p)
<1> DEFINE l == proc[p]
<1>1. LocalInv(l) /\ Inside(l.goal) /\ TreeInv /\ l.pc = "make"
  BY DEF PrepInv, LocalInv, MakeComponent, At
<1>2. WayInv(Links, l)
  BY DEF CalmInv
<1>3. PICK k : k = l
  OBVIOUS
<1>4. k \in Locals /\ k.goal \in Seq(Names) /\ k.depth \in 1..Len(k.goal)
      /\ PassesNone(Links, k.goal, k.depth - 1) /\ Len(Workspace) < k.depth
      /\ LocalInv(k) /\ Inside(k.goal)
  <2> HIDE DEF l
  <2> QED BY <1>1, <1>2, <1>3, LocalFacts DEF WayInv
<1> DEFINE q == Prefix(k.goal, k.depth)
<1>5. Entry(q) = q
  BY <1>1, <1>4, PassedEntry
<1>6. CASE CanMake(q) /\ Put(Entry(q), Dir(p)) /\ Go(p, Deeper(l))
  <2>1. Inside(q)
    BY <1>4, PrefixInside
  <2>2. ~Exists(q) /\ Put(q, Dir(p))
    <3> HIDE DEF q
    <3> QED BY <1>5, <1>6 DEF CanMake
  <2>3. Links' = Links /\ Within
    <3>1. Dir(p).kind # "link"
      BY DEF Dir
    <3> HIDE DEF q
    <3> QED BY <2>1, <2>2, <3>1, MadeWithin
  <2>4. q \notin Links
    BY <2>2 DEF Exists, Links
  <2>5. PassesNone(Links, k.goal, k.depth)
    <3>1. ASSUME NEW i \in 1..k.depth PROVE Prefix(k.goal, i) \notin Links
      <4>1. CASE i = k.depth
        BY <2>4, <4>1
      <4>2. CASE i # k.depth
        <5>1. i \in 1..(k.depth - 1)
          BY <1>4, <4>2
        <5> QED BY <1>4, <5>1 DEF PassesNone
      <4> QED BY <4>1, <4>2
    <3> QED BY <3>1 DEF PassesNone
  <2>6. WayInv(Links, Deeper(k))
    BY <1>4, <2>5, FurtherOnTheWay
  <2> QED BY <1>3, <1>6, <2>3, <2>6 DEF OnWay
<1>7. CASE Fail(p) /\ UNCHANGED tree
  BY <1>7, FailOnWay
<1> QED BY <1>3, <1>6, <1>7 DEF MakeComponent

LEMMA ConfirmOnWay ==
  ASSUME PrepInv, NEW p \in Procs, Confirm(p)
  PROVE  OnWay(p)
<1> DEFINE l == proc[p]
<1> DEFINE target == Follow(l.goal)
<1>1. LocalInv(l) /\ TreeInv /\ UNCHANGED tree
  BY DEF PrepInv, Confirm, Reads
<1>2. target \in Seq(Names)
  <2> HIDE DEF l
  <2> QED BY <1>1, LocalFacts, FollowType
<1>3. CASE Fail(p)
  BY <1>1, <1>3, FailOnWay
<1>4. CASE Goto(p, "lock")
  <2>1. WayInv(Links', [l EXCEPT !.pc = "lock"])
    <3> HIDE DEF l
    <3> QED BY <1>1, LeavesTheWay DEF Places
  <2> QED BY <1>1, <1>4, <2>1, NothingMade DEF OnWay, Goto
<1>5. CASE Go(p, Validating([l EXCEPT !.base = target], "fresh", target))
  <2>1. PICK k : k = [l EXCEPT !.base = target]
    OBVIOUS
  <2>2. LocalInv(k)
    <3> HIDE DEF l, target
    <3> QED BY <1>1, <1>2, <2>1, LocalFacts DEF LocalInv, Locals
  <2>3. WayInv(Links', Validating(k, "fresh", target))
    <3> HIDE DEF target
    <3> QED BY <2>2, ValidatesOffTheWay
  <2> QED BY <1>1, <1>5, <2>1, <2>3, NothingMade DEF OnWay
<1>6. CASE /\ Inside(target)
           /\ Go(p, Validating([l EXCEPT !.base = target, !.run = target], "build",
                               Append(target, BuildName)))
  <2>1. PICK k : k = [l EXCEPT !.base = target, !.run = target]
    OBVIOUS
  <2>2. LocalInv(k)
    <3> HIDE DEF l, target
    <3> QED BY <1>1, <1>2, <1>6, <2>1, LocalFacts DEF LocalInv, Locals
  <2>3. WayInv(Links', Validating(k, "build", Append(target, BuildName)))
    <3> HIDE DEF target
    <3> QED BY <2>2, ValidatesOffTheWay
  <2> QED BY <1>1, <1>6, <2>1, <2>3, NothingMade DEF OnWay
<1> QED BY <1>3, <1>4, <1>5, <1>6 DEF Confirm

LEMMA CandidateEntry ==
  ASSUME TreeInv, NEW l, LocalInv(l), Inside(l.goal), PassesNone(Links, l.goal, Len(l.goal))
  PROVE  Entry(Candidate(l)) = Candidate(l)
<1>1. RunNames[l.key] \in Seq(Names)
  BY LocalFacts, PrepAssumption
<1>2. PICK x \in Names : x = RunNames[l.key][l.attempt]
  BY <1>1, LocalFacts
<1>3. PICK g \in Seq(Names) : g = l.goal
  BY LocalFacts
<1>4. Append(g, x) \in Seq(Names)
  OBVIOUS
<1>5. PICK c \in Seq(Names) : c = Append(g, x)
  BY <1>4
<1>6. c = Candidate(l)
  BY <1>2, <1>3, <1>5 DEF Candidate
<1>7. Len(c) = Len(l.goal) + 1 /\ Prefix(c, Len(c)) = c
      /\ \A i \in 1..Len(l.goal) : Prefix(c, i) = Prefix(l.goal, i)
  <2>1. Len(c) = Len(g) + 1 /\ Prefix(c, Len(c)) = c
    BY <1>5 DEF Prefix
  <2>2. \A i \in 1..Len(g) : Prefix(c, i) = Prefix(g, i)
    BY <1>5 DEF Prefix
  <2> QED BY <1>3, <2>1, <2>2
<1>8. PassesNone(Links, c, Len(c) - 1) /\ Len(c) \in 1..Len(c)
  BY <1>6, <1>7 DEF PassesNone
<1>9. Entry(Prefix(c, Len(c))) = Prefix(c, Len(c))
  BY <1>6, <1>8, PassedEntry
<1> QED BY <1>6, <1>7, <1>9

LEMMA ClaimOnWay ==
  ASSUME PrepInv, CalmInv, Calm, NEW p \in Procs, ClaimRun(p)
  PROVE  OnWay(p)
<1> DEFINE l == proc[p]
<1>1. LocalInv(l) /\ Inside(l.goal) /\ TreeInv /\ l.pc = "claim"
  BY DEF PrepInv, LocalInv, ClaimRun, At
<1>2. WayInv(Links, l)
  BY DEF CalmInv
<1>3. PICK k : k = l
  OBVIOUS
<1>4. k \in Locals /\ k.goal \in Seq(Names) /\ LocalInv(k) /\ Inside(k.goal)
      /\ k.pc = "claim" /\ PassesNone(Links, k.goal, Len(k.goal))
  <2> HIDE DEF l
  <2> QED BY <1>1, <1>2, <1>3, LocalFacts DEF WayInv
<1>5. PICK c : c = Candidate(k)
  OBVIOUS
<1>6. c \in Seq(Names) /\ Inside(c)
  BY <1>4, <1>5, CandidateInside
<1>7. Entry(c) = c
  BY <1>1, <1>4, <1>5, CandidateEntry
<1>8. CASE CanMake(c) /\ Put(Entry(c), Dir(p)) /\ Go(p, [l EXCEPT !.pc = "check"])
  <2>1. Links' = Links /\ Within
    <3>1. Dir(p).kind # "link"
      BY DEF Dir
    <3> QED BY <1>6, <1>7, <1>8, <3>1, MadeWithin DEF CanMake
  <2>2. WayInv(Links', [k EXCEPT !.pc = "check"])
    BY <1>4, LeavesTheWay DEF Places
  <2> QED BY <1>3, <1>8, <2>1, <2>2 DEF OnWay
<1>9. CASE Go(p, [l EXCEPT !.attempt = @ + 1]) /\ UNCHANGED tree
  <2>1. PICK m : m = [k EXCEPT !.attempt = @ + 1]
    OBVIOUS
  <2>2. m.pc = "claim" /\ m.goal = k.goal
    BY <1>4, <2>1 DEF Locals
  <2>3. WayInv(Links, m)
    BY <1>4, <2>2 DEF WayInv
  <2> QED BY <1>3, <1>9, <2>1, <2>3, NothingMade DEF OnWay
<1>10. CASE Fail(p) /\ UNCHANGED tree
  BY <1>10, FailOnWay
<1> QED BY <1>3, <1>5, <1>8, <1>9, <1>10 DEF ClaimRun

LEMMA CheckRunOnWay ==
  ASSUME PrepInv, NEW p \in Procs, CheckRun(p)
  PROVE  OnWay(p)
<1> DEFINE l == proc[p]
<1>1. LocalInv(l) /\ Inside(l.goal) /\ UNCHANGED tree
  BY DEF PrepInv, LocalInv, CheckRun, At, Reads
<1>2. PICK run : run = Candidate(l)
  OBVIOUS
<1>3. run \in Seq(Names) /\ Inside(run)
  <2> HIDE DEF l
  <2> QED BY <1>1, <1>2, CandidateInside
<1>4. CASE Go(p, Validating([l EXCEPT !.run = run], "build", Append(run, BuildName)))
  <2>1. PICK k : k = [l EXCEPT !.run = run]
    OBVIOUS
  <2>2. LocalInv(k)
    <3> HIDE DEF l
    <3> QED BY <1>1, <1>3, <2>1, LocalFacts DEF LocalInv, Locals
  <2>3. WayInv(Links', Validating(k, "build", Append(run, BuildName)))
    BY <2>2, ValidatesOffTheWay
  <2> QED BY <1>1, <1>4, <2>1, <2>3, NothingMade DEF OnWay
<1>5. CASE Fail(p)
  BY <1>1, <1>5, FailOnWay
<1> QED BY <1>2, <1>4, <1>5 DEF CheckRun

LEMMA LockfileEntry ==
  ASSUME TreeInv, CalmInv
  PROVE  Entry(Lockfile) = Lockfile
<1>1. Workspace \in Seq(Names) /\ Len(Lockfile) = Len(Workspace) + 1
      /\ Prefix(Lockfile, Len(Lockfile)) = Lockfile
      /\ \A i \in 1..Len(Workspace) : Prefix(Lockfile, i) = Prefix(Workspace, i)
  BY Fixed DEF Prefix, Lockfile
<1>2. \A i \in 1..Len(Workspace) : Prefix(Workspace, i) \notin Links
  BY <1>1 DEF CalmInv, WorkspaceInv, IsA, Exists, Links
<1>3. PassesNone(Links, Lockfile, Len(Lockfile) - 1) /\ Len(Lockfile) \in 1..Len(Lockfile)
  BY <1>1, <1>2 DEF PassesNone
<1>4. Entry(Prefix(Lockfile, Len(Lockfile))) = Prefix(Lockfile, Len(Lockfile))
  BY <1>3, Fixed, PassedEntry
<1> QED BY <1>1, <1>4

LEMMA CreateLockfileOnWay ==
  ASSUME PrepInv, CalmInv, NEW p \in Procs, CreateLockfile(p)
  PROVE  OnWay(p)
<1>1. TreeInv /\ LocalInv(proc[p])
  BY DEF PrepInv
<1>2. Entry(Lockfile) = Lockfile
  BY <1>1, LockfileEntry
<1>3. CASE CanMake(Lockfile) /\ Put(Entry(Lockfile), File(1, p)) /\ Goto(p, "relock")
  <2>1. Links' = Links /\ Within
    <3>1. File(1, p).kind # "link"
      BY DEF File
    <3> QED BY <1>2, <1>3, <3>1, LockfileInside, MadeWithin DEF CanMake
  <2>2. WayInv(Links', [proc[p] EXCEPT !.pc = "relock"])
    BY <1>1, LeavesTheWay DEF Places
  <2> QED BY <1>3, <2>1, <2>2 DEF OnWay, Goto
<1>4. CASE Fail(p) /\ UNCHANGED tree
  BY <1>4, FailOnWay
<1> QED BY <1>3, <1>4 DEF CreateLockfile

\* The steps that look at the lockfile, validate and open.
LEMMA LaterOnWay ==
  ASSUME PrepInv, NEW p \in Procs,
         \/ InspectLockfile(p) \/ ReinspectLockfile(p) \/ VetWritable(p)
         \/ OpenRun(p) \/ OpenLock(p)
  PROVE  OnWay(p)
<1>1. UNCHANGED tree
  BY DEF InspectLockfile, ReinspectLockfile, VetWritable, OpenRun, OpenLock, Open, Reads
<1>2. \E pc \in {"vet", "newLock", "openRun", "openLock", "mounted", "failed"} : Goto(p, pc)
  BY DEF InspectLockfile, ReinspectLockfile, VetWritable, OpenRun, OpenLock, Open, Fail
<1>3. PICK pc \in {"vet", "newLock", "openRun", "openLock", "mounted", "failed"} : Goto(p, pc)
  BY <1>2
<1>4. WayInv(Links', [proc[p] EXCEPT !.pc = pc])
  BY LeavesTheWay DEF PrepInv, Places
<1> QED BY <1>1, <1>3, <1>4, NothingMade DEF OnWay, Goto

LEMMA PrepareOnWay ==
  ASSUME PrepInv, CalmInv, Calm, NEW p \in Procs, Prepare(p)
  PROVE  OnWay(p)
BY ValidateOnWay, InspectOnWay, MakeOnWay, ConfirmOnWay, ClaimOnWay, CheckRunOnWay,
   CreateLockfileOnWay, LaterOnWay DEF Prepare

\* A step of cargo-cage is none of the others'.
LEMMA OthersStay ==
  ASSUME NEW p \in Procs, Prepare(p)
  PROVE  UNCHANGED <<others, moves>>
BY DEF Prepare, Validate, InspectComponent, MakeComponent, Confirm, ClaimRun, CheckRun,
       InspectLockfile, CreateLockfile, ReinspectLockfile, VetWritable, OpenRun, OpenLock,
       Open, Reads, Quietly

LEMMA OthersMove ==
  ASSUME Disturb
  PROVE  UNCHANGED <<proc, opened, others>> /\ moves' = moves + 1
BY DEF Disturb, RemoveTree, CreateEntry, AddName, MakeLink, OtherMoves

\* The workspace stays, whoever moves.
LEMMA WorkspaceStays ==
  ASSUME PrepInv, CalmInv, Next
  PROVE  WorkspaceInv' /\ moves' \in Nat /\ UNCHANGED others
<1>1. moves' \in Nat /\ UNCHANGED others
  BY OthersStay, OthersMove DEF Next, CalmInv
<1>2. ASSUME NEW i \in 0..Len(Workspace) PROVE IsA(Prefix(Workspace, i), "dir")'
  <2>1. PICK w : w = Prefix(Workspace, i)
    OBVIOUS
  <2>2. w \in DOMAIN tree /\ tree[w].kind = "dir"
    BY <2>1 DEF CalmInv, WorkspaceInv, IsA, Exists
  <2>3. SUFFICES w \in DOMAIN tree' /\ tree'[w].kind = "dir"
    BY <2>1 DEF IsA, Exists
  <2>4. CASE \E p \in Procs : Prepare(p)
    BY <2>2, <2>4, PrepareFine DEF Fine, Keeps
  <2>5. CASE Disturb
    <3>1. PICK q \in others.places :
            \/ RemoveTree(q) \/ CreateEntry(q) \/ AddName(q)
            \/ \E t \in others.targets : MakeLink(q, t)
      BY <2>5 DEF Disturb
    <3>2. CASE RemoveTree(q)
      <4>1. ~StartsWith(w, q)
        <5>1. q \in Seq(Names) /\ ~StartsWith(Workspace, q)
          BY DEF PrepInv, CalmInv, WorkspaceInv
        <5>2. Workspace \in Seq(Names) /\ w \in Seq(Names) /\ Len(w) = i
          BY <2>1, Fixed, PrefixType
        <5>3. ASSUME Len(q) <= Len(w) PROVE SubSeq(w, 1, Len(q)) = SubSeq(Workspace, 1, Len(q))
          BY <2>1, <5>1, <5>2, <5>3 DEF Prefix
        <5> QED BY <5>1, <5>2, <5>3 DEF StartsWith
      <4> QED BY <2>2, <3>2, <4>1 DEF RemoveTree
    <3>3. CASE CreateEntry(q)
      BY <2>2, <3>3 DEF CreateEntry, Put, Exists
    <3>4. CASE AddName(q)
      BY <2>2, <3>4 DEF AddName, IsA, Exists
    <3>5. CASE \E t \in others.targets : MakeLink(q, t)
      BY <2>2, <3>5 DEF MakeLink, Put, Exists
    <3> QED BY <3>1, <3>2, <3>3, <3>4, <3>5
  <2> QED BY <2>4, <2>5 DEF Next
<1>3. \A q \in others'.places : ~StartsWith(Workspace, q)
  BY <1>1 DEF CalmInv, WorkspaceInv
<1> QED BY <1>1, <1>2, <1>3 DEF WorkspaceInv

\* As long as it is calm, others make no symbolic links, and nothing of theirs
\* becomes cargo-cage's.
LEMMA CalmDisturb ==
  ASSUME PrepInv, CalmInv, Disturb, Calm'
  PROVE  /\ Calm /\ Links' \subseteq Links
         /\ \A x \in DOMAIN tree' : tree'[x].by = Host \/ (x \in DOMAIN tree /\ tree'[x].by = tree[x].by)
<1>1. moves' = moves + 1 /\ UNCHANGED others /\ moves \in Nat
  BY OthersMove DEF CalmInv
<1>2. "link" \notin others.deeds /\ Calm
  BY <1>1 DEF Calm
<1>3. PICK q \in others.places : RemoveTree(q) \/ CreateEntry(q) \/ AddName(q)
  BY <1>2 DEF Disturb, MakeLink, OtherMoves
<1>4. CASE RemoveTree(q)
  BY <1>2, <1>4 DEF RemoveTree, Links
<1>5. CASE CreateEntry(q)
  <2>1. PICK e \in {Dir(Host), File(1, Host)} : Put(q, e)
    BY <1>5 DEF CreateEntry
  <2>2. e.kind # "link" /\ e.by = Host
    BY DEF Dir, File
  <2> QED BY <1>2, <2>1, <2>2 DEF Put, Links
<1>6. CASE AddName(q)
  <2>1. q \in DOMAIN tree /\ tree' = [tree EXCEPT ![q].names = 2] /\ TreeInv
    BY <1>6 DEF AddName, IsA, Exists, PrepInv
  <2>2. tree[q] \in EntriesBy(Procs \cup {Host}) /\ tree = [x \in DOMAIN tree |-> tree[x]]
    BY <2>1, TreeTypes DEF TreeInv
  <2>3. tree'[q].kind = tree[q].kind /\ tree'[q].by = tree[q].by
    BY <2>1, <2>2 DEF EntriesBy
  <2>4. DOMAIN tree' = DOMAIN tree /\ \A x \in DOMAIN tree : x # q => tree'[x] = tree[x]
    BY <2>1, <2>2
  <2> QED BY <1>2, <2>3, <2>4 DEF Links
<1> QED BY <1>3, <1>4, <1>5, <1>6

LEMMA CalmStep ==
  ASSUME PrepInv, CalmInv, Next
  PROVE  CalmInv'
<1>1. WorkspaceInv' /\ moves' \in Nat /\ UNCHANGED others
  BY WorkspaceStays
<1>6. Procs' = Procs
  <2>1. CASE \E p \in Procs : Prepare(p)
    <3>1. PICK p \in Procs : Prepare(p)
      BY <2>1
    <3>2. \E l : Go(p, l)
      BY <3>1 DEF Prepare, Validate, InspectComponent, MakeComponent, Confirm, ClaimRun,
         CheckRun, InspectLockfile, CreateLockfile, ReinspectLockfile, VetWritable, OpenRun,
         OpenLock, Open, Fail, Goto
    <3> QED BY <3>2 DEF Go, Procs
  <2>2. CASE Disturb
    BY <2>2, DisturbKeeps DEF Procs
  <2> QED BY <2>1, <2>2 DEF Next
<1>2. SUFFICES ASSUME Calm'
               PROVE  (\A p \in Procs : WayInv(Links, proc[p]))' /\ CreatesOnlyInside'
  BY <1>1, <1>6 DEF CalmInv, CreatesOnlyInside, Calm
<1>3. ASSUME NEW l, WayInv(Links, l), Links' \subseteq Links PROVE WayInv(Links', l)
  BY <1>3 DEF WayInv, PassesNone
<1>4. CASE \E p \in Procs : Prepare(p)
  <2>1. PICK p \in Procs : Prepare(p)
    BY <1>4
  <2>2. UNCHANGED moves
    BY <2>1, OthersStay
  <2>3. Calm
    BY <1>1, <1>2, <2>2 DEF Calm
  <2>4. OnWay(p) /\ Keeps
    BY <2>1, <2>3, PrepareOnWay, PrepareFine DEF Fine
  <2>5. PICK l : Go(p, l) /\ WayInv(Links', l)
    BY <2>4 DEF OnWay
  <2>6. Within /\ Links' \subseteq Links
    BY <2>4 DEF OnWay, Within
  <2>7. \A r \in Procs : WayInv(Links, proc[r])
    BY <2>3 DEF CalmInv
  <2>8. Procs' = Procs /\ \A r \in Procs : proc'[r] = IF r = p THEN l ELSE proc[r]
    BY <2>5 DEF Go, Procs
  <2>9. \A r \in Procs' : WayInv(Links', proc'[r])
    <3>1. ASSUME NEW r \in Procs PROVE WayInv(Links', proc'[r])
      <4>1. CASE r = p
        BY <2>5, <2>8, <4>1
      <4>2. CASE r # p
        <5>1. PICK k : k = proc[r]
          OBVIOUS
        <5>2. WayInv(Links', k)
          BY <1>3, <2>6, <2>7, <5>1
        <5> QED BY <2>8, <4>2, <5>1, <5>2
      <4> QED BY <4>1, <4>2
    <3> QED BY <2>8, <3>1
  <2>10. ASSUME NEW q \in DOMAIN tree', tree'[q].by \in Procs PROVE Inside(q)
    <3>1. CASE q \in DOMAIN tree
      <4>1. tree[q].by \in Procs
        BY <2>4, <2>10, <3>1 DEF Keeps
      <4> QED BY <2>3, <3>1, <4>1 DEF CalmInv, CreatesOnlyInside, Calm
    <3>2. CASE q \notin DOMAIN tree
      BY <2>6, <3>2 DEF Within
    <3> QED BY <3>1, <3>2
  <2> QED BY <2>8, <2>9, <2>10 DEF CreatesOnlyInside
<1>5. CASE Disturb
  <2>1. Calm /\ Links' \subseteq Links
        /\ \A x \in DOMAIN tree' : tree'[x].by = Host \/ (x \in DOMAIN tree /\ tree'[x].by = tree[x].by)
    BY <1>2, <1>5, CalmDisturb
  <2>2. UNCHANGED proc /\ Procs' = Procs
    BY <1>5, DisturbKeeps DEF Procs
  <2>3. \A r \in Procs' : WayInv(Links', proc'[r])
    <3>1. ASSUME NEW r \in Procs PROVE WayInv(Links', proc[r])
      <4>1. PICK k : k = proc[r]
        OBVIOUS
      <4> QED BY <1>3, <2>1, <4>1 DEF CalmInv
    <3> QED BY <2>2, <3>1
  <2>4. Host \notin Procs
    BY DEF CalmInv
  <2>5. ASSUME NEW q \in DOMAIN tree', tree'[q].by \in Procs PROVE Inside(q)
    BY <2>1, <2>4, <2>5 DEF CalmInv, CreatesOnlyInside, Calm
  <2> QED BY <2>2, <2>3, <2>5 DEF CreatesOnlyInside
<1> QED BY <1>4, <1>5 DEF Next

-----------------------------------------------------------------------------
(* Names of runs *)

LEMMA AmongNone ==
  ASSUME NEW p \in Seq(Names), ~AmongRuns(p)
  PROVE  p \in Seq(Common)
<1>1. \A i \in 1..Len(p) : p[i] \in Common
  BY DEF AmongRuns, Common
<1>2. p = [i \in 1..Len(p) |-> p[i]] /\ Len(p) \in Nat
  OBVIOUS
<1> QED BY <1>1, <1>2

LEMMA CommonOnly ==
  ASSUME NEW p \in Seq(Common)
  PROVE  ~AmongRuns(p) /\ p \in Seq(Names)
BY DEF AmongRuns, Common

LEMMA NameFacts ==
  /\ {"Cargo.lock", BuildName, CageName, RunsName} \subseteq Common
  /\ Lockfile \in Seq(Common)
  /\ \A k \in DOMAIN RunNames :
       /\ Common \subseteq NamesFor(k) /\ RunNamesOf(k) \subseteq NamesFor(k)
       /\ RunNamesOf(k) \subseteq AllRunNames /\ NamesFor(k) \subseteq Names
<1>1. {"Cargo.lock", BuildName, CageName, RunsName} \subseteq Common
  BY Fixed, RunNameAssumption DEF Common
<1>2. Workspace \in Seq(Common)
  BY Fixed, RunNameAssumption, AmongNone
<1>3. Lockfile \in Seq(Common)
  BY <1>1, <1>2 DEF Lockfile
<1>4. ASSUME NEW k \in DOMAIN RunNames
      PROVE  /\ Common \subseteq NamesFor(k) /\ RunNamesOf(k) \subseteq NamesFor(k)
             /\ RunNamesOf(k) \subseteq AllRunNames /\ NamesFor(k) \subseteq Names
  <2>1. RunNames[k] \in Seq(Names)
    BY PrepAssumption
  <2>2. RunNamesOf(k) \subseteq Names
    BY <2>1 DEF RunNamesOf
  <2> QED BY <2>2 DEF NamesFor, Common, AllRunNames
<1> QED BY <1>1, <1>3, <1>4

LEMMA MoreNames ==
  ASSUME NEW S, NEW T, S \subseteq T
  PROVE  Seq(S) \subseteq Seq(T)
<1>1. ASSUME NEW p \in Seq(S) PROVE p \in Seq(T)
  OBVIOUS
<1> QED BY <1>1

LEMMA KeysApart ==
  ASSUME NEW k \in DOMAIN RunNames, NEW l \in DOMAIN RunNames,
         NEW n \in RunNamesOf(k), n \in NamesFor(l)
  PROVE  k = l
<1>1. n \in RunNamesOf(l)
  BY NameFacts DEF NamesFor, Common
<1>2. \A i \in DOMAIN RunNames[k], j \in DOMAIN RunNames[l] : RunNames[k][i] = RunNames[l][j] => k = l
  BY PrepAssumption
<1> QED BY <1>1, <1>2 DEF RunNamesOf

-----------------------------------------------------------------------------
(* Trees *)

\* What is there is in directories only.
LEMMA ClosedUp ==
  ASSUME ClosedInv, NEW q \in DOMAIN tree, NEW i \in 0..(Len(q) - 1)
  PROVE  IsA(Prefix(q, i), "dir")
<1> DEFINE T == {j \in 0..(Len(q) - 1) : ~IsA(Prefix(q, j), "dir")}
<1>1. SUFFICES ASSUME T # {} PROVE FALSE
  OBVIOUS
<1>2. q \in Seq(Names) /\ Len(q) \in Nat
  BY DEF ClosedInv
<1>3. PICK m \in T : \A k \in T : k <= m
  <2>1. T \subseteq 0..Len(q)
    BY <1>2
  <2> HIDE DEF T
  <2> QED BY <1>1, <1>2, <2>1, Greatest
<1>4. m \in 0..(Len(q) - 1) /\ ~IsA(Prefix(q, m), "dir")
  OBVIOUS
<1> DEFINE x == Prefix(q, m + 1)
<1>5. x \in DOMAIN tree
  <2>1. CASE m + 1 = Len(q)
    <3>1. x = q
      BY <1>2, <2>1 DEF Prefix
    <3> QED BY <3>1
  <2>2. CASE m + 1 # Len(q)
    <3>1. m + 1 \in 0..(Len(q) - 1)
      BY <1>2, <1>4, <2>2
    <3>2. m + 1 \notin T
      BY <1>3, <1>4
    <3> QED BY <3>1, <3>2 DEF IsA, Exists
  <2> QED BY <2>1, <2>2
<1>6. x # Root /\ Parent(x) = Prefix(q, m)
  BY <1>2, <1>4 DEF Root, Parent, Prefix
<1> HIDE DEF x
<1> QED BY <1>4, <1>5, <1>6 DEF ClosedInv

\* What is there stands for itself.
LEMMA ClosedEntry ==
  ASSUME ClosedInv, NEW q \in DOMAIN tree, q # Root
  PROVE  /\ Entry(q) = q /\ ~ThroughFile(q) /\ Lstat(q) = tree[q].kind
         /\ tree[q].kind # "link" => Follow(q) = q
<1>1. q \in Seq(Names) /\ Len(q) \in Nat \ {0}
  BY DEF ClosedInv, Root
<1>2. \A i \in 0..(Len(q) - 1) : IsA(Prefix(q, i), "dir")
  BY ClosedUp
<1>3. \A i \in 0..(Len(q) - 1) : Follow(Prefix(q, i)) = Prefix(q, i)
  <2>1. ASSUME NEW i \in 0..(Len(q) - 1) PROVE Follow(Prefix(q, i)) = Prefix(q, i)
    <3>1. PICK x : x = Prefix(q, i)
      OBVIOUS
    <3>2. x \in Seq(Names) /\ Len(x) = i
      BY <1>1, <3>1, PrefixType
    <3>3. ASSUME NEW j \in 1..Len(x) PROVE ~IsA(Prefix(x, j), "link")
      <4>1. Prefix(x, j) = Prefix(q, j) /\ j \in 0..(Len(q) - 1)
        BY <1>1, <3>1, <3>2 DEF Prefix
      <4> QED BY <1>2, <4>1 DEF IsA
    <3> QED BY <3>1, <3>2, <3>3, PlainFollows
  <2> QED BY <2>1
<1>4. Entry(q) = q
  <2>1. Parent(q) = Prefix(q, Len(q) - 1) /\ q = Append(Parent(q), q[Len(q)])
    BY <1>1 DEF Parent, Prefix
  <2>2. Follow(Parent(q)) = Parent(q)
    BY <1>1, <1>3, <2>1
  <2> QED BY <2>1, <2>2 DEF Entry
<1>5. ~ThroughFile(q)
  BY <1>2, <1>3 DEF ThroughFile, IsA
<1>6. Lstat(q) = tree[q].kind
  BY <1>4, <1>5 DEF Lstat, Exists
<1>7. ASSUME tree[q].kind # "link" PROVE Follow(q) = q
  <2>1. ASSUME NEW j \in 1..Len(q) PROVE ~IsA(Prefix(q, j), "link")
    <3>1. CASE j = Len(q)
      <4>1. Prefix(q, j) = q
        BY <1>1, <3>1 DEF Prefix
      <4> QED BY <1>7, <4>1 DEF IsA
    <3>2. CASE j # Len(q)
      BY <1>1, <1>2, <3>2 DEF IsA
    <3> QED BY <3>1, <3>2
  <2> QED BY <1>1, <2>1, PlainFollows
<1> QED BY <1>4, <1>5, <1>6, <1>7

\* Where create_dir can make something, there is nothing, and nothing below.
LEMMA NothingBelow ==
  ASSUME ClosedInv, NEW c \in Seq(Names) \ {Root}, ~Exists(Entry(c))
  PROVE  \A q \in DOMAIN tree : ~StartsWith(q, c)
<1>1. SUFFICES ASSUME NEW q \in DOMAIN tree, StartsWith(q, c) PROVE FALSE
  OBVIOUS
<1>2. q \in Seq(Names) /\ Len(c) \in 0..Len(q) /\ Prefix(q, Len(c)) = c
  BY <1>1 DEF ClosedInv, StartsWith, Prefix
<1>3. c \in DOMAIN tree
  <2>1. CASE Len(c) = Len(q)
    BY <1>2, <2>1 DEF Prefix
  <2>2. CASE Len(c) # Len(q)
    <3>1. Len(c) \in 0..(Len(q) - 1)
      BY <1>2, <2>2
    <3> QED BY <1>2, <3>1, ClosedUp DEF IsA, Exists
  <2> QED BY <2>1, <2>2
<1> QED BY <1>3, ClosedEntry DEF Exists

LEMMA StartsWithAppend ==
  ASSUME NEW p \in Seq(Names), NEW q \in Seq(Names), q # Root, StartsWith(p, q)
  PROVE  /\ Len(q) \in 1..Len(p) /\ p[Len(q)] = q[Len(q)]
         /\ Prefix(p, Len(q)) = q /\ Prefix(p, Len(q) - 1) = Parent(q)
<1>1. Len(q) \in 1..Len(p) /\ Prefix(p, Len(q)) = q
  BY DEF StartsWith, Prefix, Root
<1>2. p[Len(q)] = q[Len(q)]
  BY <1>1 DEF Prefix
<1>3. Prefix(p, Len(q) - 1) = Prefix(Prefix(p, Len(q)), Len(q) - 1)
  BY <1>1 DEF Prefix
<1> QED BY <1>1, <1>2, <1>3 DEF Parent

-----------------------------------------------------------------------------
(* What a process makes, and where *)

MadeAt(l) ==
  IF l.pc = "make" THEN Prefix(l.goal, l.depth)
  ELSE IF l.pc = "claim" THEN Candidate(l) ELSE Lockfile
MadeBy(p, q) ==
  CanMake(q) /\ \E e : Put(Entry(q), e) /\ e.by = p /\ e.kind # "link"

LEMMA Makes ==
  ASSUME NEW p \in Procs, Prepare(p)
  PROVE  \/ UNCHANGED tree
         \/ proc[p].pc \in {"make", "claim", "newLock"} /\ MadeBy(p, MadeAt(proc[p]))
<1>1. ASSUME MakeComponent(p), ~UNCHANGED tree
      PROVE  proc[p].pc = "make" /\ MadeBy(p, MadeAt(proc[p]))
  BY <1>1 DEF MakeComponent, At, MadeAt, MadeBy, Dir
<1>2. ASSUME ClaimRun(p), ~UNCHANGED tree
      PROVE  proc[p].pc = "claim" /\ MadeBy(p, MadeAt(proc[p]))
  BY <1>2 DEF ClaimRun, At, MadeAt, MadeBy, Dir
<1>3. ASSUME CreateLockfile(p), ~UNCHANGED tree
      PROVE  proc[p].pc = "newLock" /\ MadeBy(p, MadeAt(proc[p]))
  BY <1>3 DEF CreateLockfile, At, MadeAt, MadeBy, File
<1> QED BY <1>1, <1>2, <1>3 DEF Prepare, Validate, InspectComponent, Confirm, CheckRun,
     InspectLockfile, ReinspectLockfile, VetWritable, OpenRun, OpenLock, Open, Reads

LEMMA GoalNames ==
  ASSUME NEW l, LocalInv(l), NameInv(l)
  PROVE  /\ l.key \in DOMAIN RunNames /\ l.goal \in Seq(NamesFor(l.key)) /\ l.goal \in Seq(Names)
         /\ RunNames[l.key][l.attempt] \in RunNamesOf(l.key)
<1>1. l.key \in DOMAIN RunNames /\ l.attempt \in DOMAIN RunNames[l.key] /\ l.goal \in Seq(Names)
  BY LocalFacts
<1>2. Seq(Common) \subseteq Seq(NamesFor(l.key))
  BY <1>1, NameFacts, MoreNames
<1> QED BY <1>1, <1>2 DEF NameInv, RunNamesOf

\* What a process makes has names of its own runs only.
LEMMA MadeAtNames ==
  ASSUME NEW l, LocalInv(l), NameInv(l)
  PROVE  MadeAt(l) \in Seq(NamesFor(l.key)) \ {Root}
<1> DEFINE S == NamesFor(l.key)
<1>1. l.goal \in Seq(S) /\ RunNames[l.key][l.attempt] \in S /\ Lockfile \in Seq(S)
  <2>1. l.key \in DOMAIN RunNames
    BY GoalNames
  <2>2. RunNamesOf(l.key) \subseteq S /\ Seq(Common) \subseteq Seq(S)
    BY <2>1, NameFacts, MoreNames
  <2>3. l.goal \in Seq(S) /\ RunNames[l.key][l.attempt] \in RunNamesOf(l.key)
    BY GoalNames
  <2> QED BY <2>2, <2>3, NameFacts
<1> HIDE DEF S
<1>2. CASE l.pc = "make"
  <2>1. l.depth \in 1..Len(l.goal)
    BY <1>2 DEF NameInv
  <2>2. Prefix(l.goal, l.depth) \in Seq(S) /\ Len(Prefix(l.goal, l.depth)) = l.depth
    BY <1>1, <2>1 DEF Prefix
  <2> QED BY <1>2, <2>1, <2>2 DEF MadeAt, Root, S
<1>3. CASE l.pc = "claim"
  <2>1. Candidate(l) \in Seq(S) /\ Len(Candidate(l)) = Len(l.goal) + 1
    BY <1>1 DEF Candidate
  <2>2. Candidate(l) # Root
    BY <1>1, <2>1 DEF Root
  <2> QED BY <1>3, <2>1, <2>2 DEF MadeAt, S
<1>4. CASE l.pc \notin {"make", "claim"}
  <2>1. Lockfile # Root
    BY Fixed DEF Lockfile, Root
  <2> QED BY <1>1, <1>4, <2>1 DEF MadeAt, S
<1> QED BY <1>2, <1>3, <1>4

\* So has the entry it is made at, which is in a directory.
LEMMA MadeEntry ==
  ASSUME NEW S, \A q \in Links : tree[q].to \in Seq(S), NEW q \in Seq(S) \ {Root}
  PROVE  Entry(q) \in Seq(S) /\ Entry(q) # Root /\ Parent(Entry(q)) = Follow(Parent(q))
<1>1. Parent(q) \in Seq(S) /\ q[Len(q)] \in S
  BY DEF Parent, Prefix, Root
<1>2. PICK f \in Seq(S) : f = Follow(Parent(q))
  BY <1>1, FollowIn
<1>3. Entry(q) = Append(f, q[Len(q)])
  BY <1>2 DEF Entry
<1>4. Append(f, q[Len(q)]) \in Seq(S) /\ Append(f, q[Len(q)]) # Root
      /\ Parent(Append(f, q[Len(q)])) = f
  BY <1>1, <1>2 DEF Root, Parent, Prefix
<1> QED BY <1>2, <1>3, <1>4

LEMMA TreeApart ==
  ASSUME PrepInv, ApartInv, NEW p \in Procs, Prepare(p)
  PROVE  /\ ClosedInv' /\ \A q \in Links' : tree'[q].to \in Seq(Common)
         /\ \A q \in DOMAIN tree', r \in Procs :
              tree'[q].by = r => q \in Seq(NamesFor(proc[r].key))
<1>1. CASE UNCHANGED tree
  BY <1>1 DEF ApartInv, ClosedInv, IsA, Exists, Links
<1>2. CASE MadeBy(p, MadeAt(proc[p]))
  <2>1. PICK q : q = MadeAt(proc[p])
    OBVIOUS
  <2>2. PICK S : S = NamesFor(proc[p].key)
    OBVIOUS
  <2>3. PICK e : Put(Entry(q), e) /\ e.by = p /\ e.kind # "link"
    BY <1>2, <2>1 DEF MadeBy
  <2>4. q \in Seq(S) \ {Root} /\ Common \subseteq S /\ S \subseteq Names
    <3>1. LocalInv(proc[p]) /\ NameInv(proc[p])
      BY DEF PrepInv, ApartInv
    <3>2. PICK l : l = proc[p]
      OBVIOUS
    <3>3. MadeAt(l) \in Seq(NamesFor(l.key)) \ {Root} /\ l.key \in DOMAIN RunNames
      BY <3>1, <3>2, MadeAtNames, GoalNames
    <3> QED BY <2>1, <2>2, <3>2, <3>3, NameFacts
  <2>5. \A x \in Links : tree[x].to \in Seq(S)
    <3>1. Seq(Common) \subseteq Seq(S)
      BY <2>4, MoreNames
    <3> QED BY <3>1 DEF ApartInv
  <2>6. PICK E : E = Entry(q)
    OBVIOUS
  <2>7. E \in Seq(S) /\ E # Root /\ Parent(E) = Follow(Parent(q)) /\ E \in Seq(Names)
    <3>1. Seq(S) \subseteq Seq(Names)
      BY <2>4, MoreNames
    <3> QED BY <2>4, <2>5, <2>6, <3>1, MadeEntry
  <2>8. IsA(Parent(E), "dir") /\ E \notin DOMAIN tree
    BY <1>2, <2>1, <2>6, <2>7 DEF MadeBy, CanMake, Exists
  <2>9. tree' = [x \in DOMAIN tree \cup {E} |-> IF x = E THEN e ELSE tree[x]]
    BY <2>3, <2>6 DEF Put
  <2>10. ClosedInv'
    <3>1. DOMAIN tree' \subseteq Seq(Names)
      BY <2>7, <2>9 DEF ApartInv, ClosedInv
    <3>2. ASSUME NEW x \in DOMAIN tree' \ {Root} PROVE IsA(Parent(x), "dir")'
      <4>1. PICK y : y = Parent(x)
        OBVIOUS
      <4>2. IsA(y, "dir")
        BY <2>8, <2>9, <4>1 DEF ApartInv, ClosedInv
      <4>3. y \in DOMAIN tree' /\ tree'[y].kind = "dir"
        BY <2>8, <2>9, <4>2 DEF IsA, Exists
      <4> QED BY <4>1, <4>3 DEF IsA, Exists
    <3> QED BY <3>1, <3>2 DEF ClosedInv
  <2>11. \A x \in Links' : tree'[x].to \in Seq(Common)
    BY <2>3, <2>9 DEF ApartInv, Links
  <2>12. ASSUME NEW x \in DOMAIN tree', NEW r \in Procs, tree'[x].by = r
         PROVE  x \in Seq(NamesFor(proc[r].key))
    <3>1. CASE x = E
      <4>1. r = p
        BY <2>3, <2>9, <2>12, <3>1
      <4> QED BY <2>2, <2>7, <3>1, <4>1
    <3>2. CASE x # E
      BY <2>9, <2>12, <3>2 DEF ApartInv
    <3> QED BY <3>1, <3>2
  <2> QED BY <2>10, <2>11, <2>12
<1> QED BY <1>1, <1>2, Makes

-----------------------------------------------------------------------------
(* Where a process works, by name *)

LEMMA SameRun ==
  ASSUME NEW k, NEW l, k.pc # "check", l.pc # "check", k.run = l.run, k.reuse = l.reuse
  PROVE  (Claimed(l) => Claimed(k)) /\ RunOf(l) = RunOf(k)
BY DEF Claimed, RunOf

LEMMA HasItsRun ==
  ASSUME NEW l, LocalInv(l), NameInv(l), IsolatedBuild(l)
  PROVE  Claimed(l) /\ RunOf(l) = l.run /\ l.run \in Seq(Names) /\ l.run # Root
<1>1. FreshRun(l.key, l.run) /\ l.pc # "check" /\ l.key \in DOMAIN RunNames
  BY LocalFacts DEF NameInv, IsolatedBuild
<1>2. ".." \notin AllRunNames
  BY RunNameAssumption
<1>3. l.run # None
  <2>1. l.run[Len(l.run)] \in AllRunNames
    BY <1>1, NameFacts DEF FreshRun
  <2>2. None[Len(None)] = ".."
    BY DEF None
  <2> QED BY <1>2, <2>1, <2>2
<1> QED BY <1>1, <1>3, LocalFacts DEF Claimed, RunOf, IsolatedBuild, FreshRun

ClaimedHere(p, l) ==
  /\ proc[p].pc = "claim" /\ ~proc[p].reuse /\ RunOf(l) = Candidate(proc[p])
  /\ CanMake(Candidate(proc[p])) /\ Put(Entry(Candidate(proc[p])), Dir(p))
Turns(p, l) ==
  /\ Go(p, l) /\ NameInv(l) /\ l.key = proc[p].key
  /\ Claimed(l) => ClaimedHere(p, l) \/ (Claimed(proc[p]) /\ RunOf(l) = RunOf(proc[p]))
  /\ RunInv(p) /\ IsolatedBuild(l) /\ l.pc \in {"inspect", "make"} =>
       l.goal = Append(l.run, BuildName)
Turn(p) == \E l : Turns(p, l)

LEMMA GotoTurn ==
  ASSUME PrepInv, ApartInv, NEW p \in Procs,
         NEW pc \in Places \ {"validate", "inspect", "make", "claim", "check"}, Goto(p, pc),
         pc \in Late => proc[p].stage = "build"
  PROVE  Turn(p)
<1>1. PICK k : k = proc[p]
  OBVIOUS
<1>2. LocalInv(k) /\ NameInv(k) /\ k \in Locals
  BY <1>1, LocalFacts DEF PrepInv, ApartInv
<1>3. PICK l : l = [k EXCEPT !.pc = pc]
  OBVIOUS
<1>4. l.pc = pc /\ l.stage = k.stage /\ l.goal = k.goal /\ l.run = k.run /\ l.reuse = k.reuse
      /\ l.key = k.key /\ l.depth = k.depth
  BY <1>2, <1>3 DEF Locals
<1>5. NameInv(l)
  BY <1>1, <1>2, <1>4 DEF NameInv, IsolatedBuild
<1>6. Claimed(l) => Claimed(k) /\ RunOf(l) = RunOf(k)
  <2>1. CASE k.pc = "check"
    BY <1>2, <1>4, <2>1 DEF NameInv, Claimed
  <2>2. CASE k.pc # "check"
    BY <1>4, <2>2, SameRun
  <2> QED BY <2>1, <2>2
<1>7. Go(p, l)
  BY <1>1, <1>3 DEF Goto
<1> QED BY <1>1, <1>4, <1>5, <1>6, <1>7 DEF Turn, Turns

LEMMA FailTurn ==
  ASSUME PrepInv, ApartInv, NEW p \in Procs, Fail(p)
  PROVE  Turn(p)
BY GotoTurn DEF Fail, Places, Late

LEMMA Regrown ==
  ASSUME NEW r \in Seq(Names), NEW b \in Names, NEW g, g = Append(r, b)
  PROVE  r \o SubSeq(g, Len(r) + 1, Len(g)) = g
OBVIOUS

\* What the validation of a run's build directory gives is that directory.
LEMMA CanonicalBuild ==
  ASSUME ClosedInv, NEW r \in Seq(Names) \ {Root}, IsA(r, "dir"), Inside(r),
         Accepts(Append(r, BuildName))
  PROVE  Canonical(Append(r, BuildName)) = Append(r, BuildName)
<1>1. PICK g : g = Append(r, BuildName)
  OBVIOUS
<1>2. g \in Seq(Names) /\ Len(g) = Len(r) + 1 /\ Len(r) \in Nat /\ g[Len(g)] = BuildName
      /\ Prefix(g, Len(r)) = r /\ Prefix(g, Len(g)) = g /\ Parent(g) = r
  BY <1>1, Fixed DEF Prefix, Parent
<1>3. Lstat(r) = "dir" /\ Follow(r) = r
  BY ClosedEntry DEF IsA, Exists
<1>4. Deepest(g) \in {Len(r), Len(g)}
  <2> DEFINE T == {i \in 0..Len(g) : Lstat(Prefix(g, i)) # "absent"}
  <2>1. PICK m \in T : \A k \in T : k <= m
    <3>1. T \subseteq 0..Len(g) /\ Len(r) \in T
      BY <1>2, <1>3
    <3> HIDE DEF T
    <3> QED BY <1>2, <3>1, Greatest
  <2>2. \A j \in (m + 1)..Len(g) : Lstat(Prefix(g, j)) = "absent"
    <3>1. ASSUME NEW j \in (m + 1)..Len(g) PROVE j \notin T /\ j \in 0..Len(g)
      BY <2>1
    <3> QED BY <3>1
  <2>3. PICK d : d = Deepest(g)
    OBVIOUS
  <2>4. d \in 0..Len(g) /\ \A j \in (d + 1)..Len(g) : Lstat(Prefix(g, j)) = "absent"
    BY <2>2, <2>3 DEF Deepest
  <2>5. ~(d < Len(r))
    <3>1. d < Len(r) => Len(r) \in (d + 1)..Len(g)
      BY <1>2, <2>4
    <3> QED BY <1>2, <1>3, <2>4, <3>1
  <2> QED BY <1>2, <2>3, <2>4, <2>5
<1>5. CASE Deepest(g) = Len(r)
  <2>1. Existing(g) = r
    BY <1>2, <1>5 DEF Existing
  <2>2. Canonical(g) = r \o SubSeq(g, Len(r) + 1, Len(g))
    BY <1>3, <1>5, <2>1 DEF Canonical
  <2> QED BY <1>1, <2>2, Fixed, Regrown
<1>6. CASE Deepest(g) = Len(g)
  <2>1. Existing(g) = g /\ SubSeq(g, Len(g) + 1, Len(g)) = << >>
    BY <1>2, <1>6 DEF Existing
  <2>2. Canonical(g) = Follow(g) \o << >>
    BY <1>6, <2>1 DEF Canonical
  <2>3. Lstat(g) # "link"
    <3>1. Len(g) \in 1..Len(g)
      BY <1>2
    <3>2. Lstat(Prefix(g, Len(g))) = "link" =>
            ~StartsWith(Follow(Parent(Prefix(g, Len(g)))), Workspace)
      BY <1>1, <3>1 DEF Accepts, ComponentsAccepted
    <3> QED BY <1>2, <1>3, <3>2 DEF Inside
  <2>4. ASSUME NEW i \in 1..Len(g) PROVE ~IsA(Prefix(g, i), "link")
    <3>1. CASE i = Len(g)
      <4>1. SUFFICES ASSUME IsA(g, "link") PROVE FALSE
        BY <1>2, <3>1
      <4>2. g # Root
        BY <1>2 DEF Root
      <4> QED BY <2>3, <4>1, <4>2, ClosedEntry DEF IsA, Exists
    <3>2. CASE i = Len(r)
      BY <1>2, <3>2 DEF IsA
    <3>3. CASE i \in 1..(Len(r) - 1)
      <4>1. Prefix(g, i) = Prefix(r, i)
        BY <1>1, <1>2, <3>3, Fixed DEF Prefix
      <4>2. IsA(Prefix(r, i), "dir")
        BY <3>3, ClosedUp DEF IsA, Exists
      <4> QED BY <4>1, <4>2 DEF IsA
    <3> QED BY <1>2, <3>1, <3>2, <3>3
  <2>5. Follow(g) = g
    BY <1>2, <2>4, PlainFollows
  <2> QED BY <1>1, <1>2, <2>2, <2>5
<1> QED BY <1>4, <1>5, <1>6

LEMMA ValidateTurn ==
  ASSUME PrepInv, ApartInv, NEW p \in Procs, Validate(p)
  PROVE  Turn(p)
<1>1. PICK k : k = proc[p]
  OBVIOUS
<1>2. LocalInv(k) /\ NameInv(k) /\ k \in Locals /\ k.pc = "validate" /\ TreeInv /\ ClosedInv
      /\ k.goal \in Seq(Names) /\ k.key \in DOMAIN RunNames
  BY <1>1, LocalFacts DEF PrepInv, ApartInv, Validate, At
<1>3. CASE Fail(p)
  BY <1>3, FailTurn
<1>4. CASE Accepts(k.goal) /\ Go(p, Creating(k, k.stage, Canonical(k.goal)))
  <2>1. PICK c : c = Canonical(k.goal)
    OBVIOUS
  <2>2. c \in Seq(Names) /\ Inside(c)
    BY <1>2, <1>4, <2>1, AcceptedInside
  <2>3. PICK l : l = Creating(k, k.stage, c)
    OBVIOUS
  <2>4. /\ l.pc = "inspect" /\ l.stage = k.stage /\ l.goal = c /\ l.depth = 1
        /\ l.run = k.run /\ l.reuse = k.reuse /\ l.key = k.key
    BY <1>2, <2>3 DEF Locals, Creating
  <2>5. ASSUME NEW S, \A q \in Links : tree[q].to \in Seq(S), k.goal \in Seq(S)
        PROVE  c \in Seq(S)
    <3>1. Deepest(k.goal) \in 0..Len(k.goal)
      BY <1>2, DeepestIn
    <3>2. PICK d \in 0..Len(k.goal) : d = Deepest(k.goal)
      BY <3>1
    <3>3. Prefix(k.goal, d) \in Seq(S) /\ SubSeq(k.goal, d + 1, Len(k.goal)) \in Seq(S)
      BY <2>5, <3>2 DEF Prefix
    <3>4. Follow(Prefix(k.goal, d)) \in Seq(S)
      BY <2>5, <3>3, FollowIn
    <3> QED BY <2>1, <3>2, <3>3, <3>4 DEF Canonical, Existing
  <2>6. 1 \in 1..Len(c)
    <3>1. c = << >> => Workspace = << >>
      BY <2>2, Fixed DEF Inside, StartsWith
    <3>2. c # << >>
      BY <2>2, <3>1 DEF Inside
    <3> QED BY <2>2, <3>2
  <2>7. IF IsolatedBuild(k) THEN c \in Seq(NamesFor(k.key)) ELSE c \in Seq(Common)
    <3>1. \A q \in Links : tree[q].to \in Seq(Common)
      BY DEF ApartInv
    <3>2. Seq(Common) \subseteq Seq(NamesFor(k.key))
      BY <1>2, NameFacts, MoreNames
    <3> QED BY <1>2, <2>5, <3>1, <3>2 DEF NameInv
  <2>8. NameInv(l)
    BY <1>2, <2>4, <2>6, <2>7 DEF NameInv, IsolatedBuild, Late
  <2>9. Claimed(l) => Claimed(k) /\ RunOf(l) = RunOf(k)
    BY <1>2, <2>4, SameRun
  <2>10. ASSUME RunInv(p), IsolatedBuild(l) PROVE l.goal = Append(l.run, BuildName)
    <3>1. IsolatedBuild(k) /\ k.goal = Append(k.run, BuildName)
      BY <1>2, <2>4, <2>10 DEF IsolatedBuild, NameInv
    <3>2. Claimed(k) /\ RunOf(k) = k.run /\ k.run \in Seq(Names) \ {Root}
      BY <1>2, <3>1, HasItsRun
    <3>3. IsA(k.run, "dir")
      BY <1>1, <2>10, <3>2 DEF RunInv
    <3>4. Inside(k.run)
      BY <1>2, <3>2, LocalFacts DEF Claimed
    <3>5. Canonical(Append(k.run, BuildName)) = Append(k.run, BuildName)
      BY <1>2, <1>4, <3>1, <3>2, <3>3, <3>4, CanonicalBuild
    <3> QED BY <2>1, <2>4, <3>1, <3>5
  <2> QED BY <1>1, <1>4, <2>1, <2>3, <2>4, <2>8, <2>9, <2>10 DEF Turn, Turns
<1> QED BY <1>1, <1>3, <1>4 DEF Validate

LEMMA DeeperTurn ==
  ASSUME PrepInv, ApartInv, NEW p \in Procs, proc[p].pc \in {"inspect", "make"},
         Go(p, Deeper(proc[p]))
  PROVE  Turn(p)
<1>1. PICK k : k = proc[p]
  OBVIOUS
<1>2. /\ LocalInv(k) /\ NameInv(k) /\ k \in Locals /\ k.pc \in {"inspect", "make"}
      /\ k.depth \in 1..Len(k.goal) /\ k.goal \in Seq(Names) /\ k.stage \in Stages
  BY <1>1, LocalFacts DEF PrepInv, ApartInv, NameInv
<1>3. CASE k.depth < Len(k.goal)
  <2>1. PICK l : l = [k EXCEPT !.pc = "inspect", !.depth = @ + 1]
    OBVIOUS
  <2>2. l = Deeper(k)
    BY <1>3, <2>1 DEF Deeper
  <2>3. /\ l.pc = "inspect" /\ l.stage = k.stage /\ l.goal = k.goal /\ l.depth = k.depth + 1
        /\ l.run = k.run /\ l.reuse = k.reuse /\ l.key = k.key
    BY <1>2, <2>1 DEF Locals
  <2>4. l.depth \in 1..Len(l.goal)
    BY <1>2, <1>3, <2>3
  <2>5. NameInv(l)
    BY <1>2, <2>3, <2>4 DEF NameInv, IsolatedBuild, Late
  <2>6. Claimed(l) => Claimed(k) /\ RunOf(l) = RunOf(k)
    BY <1>2, <2>3, SameRun
  <2>7. RunInv(p) /\ IsolatedBuild(l) => l.goal = Append(l.run, BuildName)
    BY <1>1, <1>2, <2>3 DEF RunInv, IsolatedBuild
  <2> QED BY <1>1, <2>2, <2>3, <2>5, <2>6, <2>7 DEF Turn, Turns
<1>4. CASE ~(k.depth < Len(k.goal)) /\ k.stage \in {"base", "build"}
  <2>1. Goto(p, "confirm")
    BY <1>1, <1>4 DEF Deeper, Goto
  <2> QED BY <2>1, GotoTurn DEF Places, Late
<1>5. CASE ~(k.depth < Len(k.goal)) /\ k.stage = "fresh"
  <2>1. PICK g : g = k.goal \o <<CageName, RunsName>>
    OBVIOUS
  <2>2. PICK l : l = Creating(k, "runs", g)
    OBVIOUS
  <2>3. l = Deeper(k)
    BY <1>5, <2>1, <2>2 DEF Deeper
  <2>4. /\ l.pc = "inspect" /\ l.stage = "runs" /\ l.goal = g /\ l.depth = 1
        /\ l.run = k.run /\ l.reuse = k.reuse /\ l.key = k.key
    BY <1>2, <2>2 DEF Locals, Creating
  <2>5. g \in Seq(Common) /\ 1 \in 1..Len(g)
    <3>1. k.goal \in Seq(Common)
      BY <1>2, <1>5 DEF NameInv, IsolatedBuild
    <3>2. <<CageName, RunsName>> \in Seq(Common) /\ Len(<<CageName, RunsName>>) = 2
      BY NameFacts
    <3>3. g \in Seq(Common) /\ Len(g) = Len(k.goal) + Len(<<CageName, RunsName>>)
      BY <2>1, <3>1, <3>2
    <3> QED BY <1>2, <3>2, <3>3
  <2>6. NameInv(l)
    BY <1>2, <1>5, <2>4, <2>5 DEF NameInv, IsolatedBuild, Late
  <2>7. Claimed(l) => Claimed(k) /\ RunOf(l) = RunOf(k)
    BY <1>2, <2>4, SameRun
  <2>8. ~IsolatedBuild(l)
    BY <2>4 DEF IsolatedBuild
  <2> QED BY <1>1, <2>3, <2>4, <2>6, <2>7, <2>8 DEF Turn, Turns
<1>6. CASE ~(k.depth < Len(k.goal)) /\ k.stage = "runs"
  <2>1. PICK l : l = [k EXCEPT !.pc = "claim"]
    OBVIOUS
  <2>2. l = Deeper(k)
    BY <1>6, <2>1 DEF Deeper
  <2>3. /\ l.pc = "claim" /\ l.stage = k.stage /\ l.goal = k.goal
        /\ l.run = k.run /\ l.reuse = k.reuse /\ l.key = k.key
    BY <1>2, <2>1 DEF Locals
  <2>4. NameInv(l)
    BY <1>2, <1>6, <2>3 DEF NameInv, IsolatedBuild, Late
  <2>5. Claimed(l) => Claimed(k) /\ RunOf(l) = RunOf(k)
    BY <1>2, <2>3, SameRun
  <2> QED BY <1>1, <2>2, <2>3, <2>4, <2>5 DEF Turn, Turns
<1> QED BY <1>2, <1>3, <1>4, <1>5, <1>6 DEF Stages

LEMMA InspectTurn ==
  ASSUME PrepInv, ApartInv, NEW p \in Procs, InspectComponent(p)
  PROVE  Turn(p)
<1>1. PICK k : k = proc[p]
  OBVIOUS
<1>2. /\ LocalInv(k) /\ NameInv(k) /\ k \in Locals /\ k.pc = "inspect"
  BY <1>1, LocalFacts DEF PrepInv, ApartInv, InspectComponent, At
<1>3. CASE Goto(p, "make")
  <2>1. PICK l : l = [k EXCEPT !.pc = "make"]
    OBVIOUS
  <2>2. /\ l.pc = "make" /\ l.stage = k.stage /\ l.goal = k.goal /\ l.depth = k.depth
        /\ l.run = k.run /\ l.reuse = k.reuse /\ l.key = k.key
    BY <1>2, <2>1 DEF Locals
  <2>3. NameInv(l)
    BY <1>2, <2>2 DEF NameInv, IsolatedBuild, Late
  <2>4. Claimed(l) => Claimed(k) /\ RunOf(l) = RunOf(k)
    BY <1>2, <2>2, SameRun
  <2>5. RunInv(p) /\ IsolatedBuild(l) => l.goal = Append(l.run, BuildName)
    BY <1>1, <1>2, <2>2 DEF RunInv, IsolatedBuild
  <2>6. Go(p, l)
    BY <1>1, <1>3, <2>1 DEF Goto
  <2> QED BY <1>1, <2>2, <2>3, <2>4, <2>5, <2>6 DEF Turn, Turns
<1> QED BY <1>1, <1>2, <1>3, DeeperTurn, FailTurn DEF InspectComponent

LEMMA ConfirmTurn ==
  ASSUME PrepInv, ApartInv, NEW p \in Procs, Confirm(p)
  PROVE  Turn(p)
<1>1. PICK k : k = proc[p]
  OBVIOUS
<1>2. /\ LocalInv(k) /\ NameInv(k) /\ k \in Locals /\ k.pc = "confirm" /\ k.goal \in Seq(Names)
  BY <1>1, LocalFacts DEF PrepInv, ApartInv, Confirm, At
<1>3. PICK target : target = Follow(k.goal)
  OBVIOUS
<1>4. k.stage # "build" => target \in Seq(Common)
  <2>1. \A q \in Links : tree[q].to \in Seq(Common)
    BY DEF ApartInv
  <2>2. k.stage # "build" => k.goal \in Seq(Common)
    BY <1>2 DEF NameInv, IsolatedBuild
  <2> QED BY <1>3, <2>1, <2>2, FollowIn
<1>5. CASE Fail(p)
  BY <1>5, FailTurn
<1>6. CASE k.stage = "build" /\ Goto(p, "lock")
  BY <1>1, <1>6, GotoTurn DEF Places
<1>7. CASE /\ k.stage = "base" /\ ~k.reuse
           /\ Go(p, Validating([k EXCEPT !.base = target], "fresh", target))
  <2>1. PICK l : l = Validating([k EXCEPT !.base = target], "fresh", target)
    OBVIOUS
  <2>2. /\ l.pc = "validate" /\ l.stage = "fresh" /\ l.goal = target
        /\ l.run = k.run /\ l.reuse = k.reuse /\ l.key = k.key
    BY <1>2, <2>1 DEF Locals, Validating
  <2>3. NameInv(l)
    BY <1>2, <1>4, <1>7, <2>2 DEF NameInv, IsolatedBuild, Late
  <2>4. Claimed(l) => Claimed(k) /\ RunOf(l) = RunOf(k)
    BY <1>2, <2>2, SameRun
  <2> QED BY <1>1, <1>7, <2>1, <2>2, <2>3, <2>4 DEF Turn, Turns
<1>8. CASE /\ k.stage = "base" /\ k.reuse
           /\ Go(p, Validating([k EXCEPT !.base = target, !.run = target], "build",
                               Append(target, BuildName)))
  <2>1. PICK l : l = Validating([k EXCEPT !.base = target, !.run = target], "build",
                                Append(target, BuildName))
    OBVIOUS
  <2>2. /\ l.pc = "validate" /\ l.stage = "build" /\ l.goal = Append(target, BuildName)
        /\ l.reuse = k.reuse /\ l.key = k.key
    BY <1>2, <2>1 DEF Locals, Validating
  <2>3. Append(target, BuildName) \in Seq(Common)
    <3>1. target \in Seq(Common) /\ BuildName \in Common
      BY <1>4, <1>8, NameFacts
    <3> QED BY <3>1
  <2>4. NameInv(l)
    BY <1>8, <2>2, <2>3 DEF NameInv, IsolatedBuild, Late
  <2>5. ~Claimed(l)
    BY <1>8, <2>2 DEF Claimed
  <2> QED BY <1>1, <1>8, <2>1, <2>2, <2>4, <2>5 DEF Turn, Turns
<1> QED BY <1>1, <1>3, <1>5, <1>6, <1>7, <1>8 DEF Confirm

LEMMA ClaimTurn ==
  ASSUME PrepInv, ApartInv, NEW p \in Procs, ClaimRun(p)
  PROVE  Turn(p)
<1>1. PICK k : k = proc[p]
  OBVIOUS
<1>2. /\ LocalInv(k) /\ NameInv(k) /\ k \in Locals /\ k.pc = "claim" /\ k.stage = "runs"
      /\ ~k.reuse
  BY <1>1, LocalFacts DEF PrepInv, ApartInv, ClaimRun, At, NameInv
<1>3. CASE /\ CanMake(Candidate(k)) /\ Put(Entry(Candidate(k)), Dir(p))
           /\ Go(p, [k EXCEPT !.pc = "check"])
  <2>1. PICK l : l = [k EXCEPT !.pc = "check"]
    OBVIOUS
  <2>2. /\ l.pc = "check" /\ l.stage = k.stage /\ l.goal = k.goal /\ l.attempt = k.attempt
        /\ l.run = k.run /\ l.reuse = k.reuse /\ l.key = k.key
    BY <1>2, <2>1 DEF Locals
  <2>3. NameInv(l)
    BY <1>2, <2>2 DEF NameInv, IsolatedBuild, Late
  <2>4. RunOf(l) = Candidate(k)
    BY <2>2 DEF RunOf, Candidate
  <2>5. ClaimedHere(p, l)
    BY <1>1, <1>2, <1>3, <2>4 DEF ClaimedHere
  <2> QED BY <1>1, <1>3, <2>1, <2>2, <2>3, <2>5 DEF Turn, Turns
<1>4. CASE Go(p, [k EXCEPT !.attempt = @ + 1])
  <2>1. PICK l : l = [k EXCEPT !.attempt = @ + 1]
    OBVIOUS
  <2>2. /\ l.pc = "claim" /\ l.stage = k.stage /\ l.goal = k.goal
        /\ l.run = k.run /\ l.reuse = k.reuse /\ l.key = k.key
    BY <1>2, <2>1 DEF Locals
  <2>3. NameInv(l)
    BY <1>2, <2>2 DEF NameInv, IsolatedBuild, Late
  <2>4. Claimed(l) => Claimed(k) /\ RunOf(l) = RunOf(k)
    BY <1>2, <2>2, SameRun
  <2> QED BY <1>1, <1>4, <2>1, <2>2, <2>3, <2>4 DEF Turn, Turns
<1>5. CASE Fail(p)
  BY <1>5, FailTurn
<1> QED BY <1>1, <1>3, <1>4, <1>5 DEF ClaimRun

LEMMA CheckRunTurn ==
  ASSUME PrepInv, ApartInv, NEW p \in Procs, CheckRun(p)
  PROVE  Turn(p)
<1>1. PICK k : k = proc[p]
  OBVIOUS
<1>2. /\ LocalInv(k) /\ NameInv(k) /\ k \in Locals /\ k.pc = "check" /\ k.stage = "runs"
      /\ ~k.reuse /\ k.key \in DOMAIN RunNames
  BY <1>1, LocalFacts DEF PrepInv, ApartInv, CheckRun, At, NameInv
<1>3. CASE Fail(p)
  BY <1>3, FailTurn
<1>4. CASE Go(p, Validating([k EXCEPT !.run = Candidate(k)], "build",
                            Append(Candidate(k), BuildName)))
  <2>1. PICK run : run = Candidate(k)
    OBVIOUS
  <2>2. PICK l : l = Validating([k EXCEPT !.run = run], "build", Append(run, BuildName))
    OBVIOUS
  <2>3. /\ l.pc = "validate" /\ l.stage = "build" /\ l.goal = Append(run, BuildName)
        /\ l.run = run /\ l.reuse = k.reuse /\ l.key = k.key
    BY <1>2, <2>2 DEF Locals, Validating
  <2>4. PICK n : n = RunNames[k.key][k.attempt]
    OBVIOUS
  <2>5. n \in RunNamesOf(k.key) /\ k.goal \in Seq(Common) /\ run = Append(k.goal, n)
    BY <1>2, <2>1, <2>4, GoalNames DEF NameInv, IsolatedBuild, Candidate
  <2>6. PICK S : S = NamesFor(k.key)
    OBVIOUS
  <2>7. n \in S /\ k.goal \in Seq(S) /\ BuildName \in S
    <3>1. Seq(Common) \subseteq Seq(S)
      BY <1>2, <2>6, NameFacts, MoreNames
    <3> QED BY <1>2, <2>5, <2>6, <3>1, NameFacts
  <2>8. Append(run, BuildName) \in Seq(S)
    <3>1. run \in Seq(S)
      BY <2>5, <2>7
    <3> QED BY <2>7, <3>1
  <2>9. FreshRun(k.key, run)
    <3>1. run # Root /\ Parent(run) = k.goal /\ run[Len(run)] = n
      BY <2>5, <2>7 DEF Root, Parent, Prefix
    <3> QED BY <2>5, <3>1 DEF FreshRun
  <2>10. NameInv(l)
    BY <1>2, <2>3, <2>6, <2>8, <2>9 DEF NameInv, IsolatedBuild, Late
  <2>11. Claimed(k) /\ RunOf(l) = RunOf(k)
    BY <1>2, <2>1, <2>3 DEF Claimed, RunOf
  <2> QED BY <1>1, <1>4, <2>1, <2>2, <2>3, <2>10, <2>11 DEF Turn, Turns
<1> QED BY <1>1, <1>3, <1>4 DEF CheckRun

LEMMA PrepareTurn ==
  ASSUME PrepInv, ApartInv, NEW p \in Procs, Prepare(p)
  PROVE  Turn(p)
<1>1. NameInv(proc[p])
  BY DEF ApartInv
<1>2. CASE MakeComponent(p)
  BY <1>2, DeeperTurn, FailTurn DEF MakeComponent, At
<1>3. CASE InspectLockfile(p) \/ CreateLockfile(p) \/ ReinspectLockfile(p) \/ VetWritable(p)
           \/ OpenRun(p) \/ OpenLock(p)
  <2>1. proc[p].pc \in Late
    BY <1>3 DEF InspectLockfile, CreateLockfile, ReinspectLockfile, VetWritable, OpenRun,
      OpenLock, Open, At, Late
  <2>2. \E pc \in {"vet", "newLock", "relock", "openRun", "openLock", "mounted", "failed"} :
          Goto(p, pc)
    BY <1>3 DEF InspectLockfile, CreateLockfile, ReinspectLockfile, VetWritable, OpenRun,
      OpenLock, Open, Fail
  <2>3. PICK pc \in {"vet", "newLock", "relock", "openRun", "openLock", "mounted", "failed"} :
          Goto(p, pc)
    BY <2>2
  <2>4. proc[p].stage = "build"
    BY <1>1, <2>1 DEF NameInv
  <2> QED BY <2>3, <2>4, GotoTurn DEF Places
<1> QED BY <1>2, <1>3, ValidateTurn, InspectTurn, ConfirmTurn, ClaimTurn, CheckRunTurn DEF Prepare

-----------------------------------------------------------------------------
(* Nobody works in another's run *)

LEMMA RunOfName ==
  ASSUME NEW l, LocalInv(l), NameInv(l), Claimed(l)
  PROVE  RunOf(l) \in Seq(Names) \ {Root} /\ FreshRun(l.key, RunOf(l))
<1>0. l.key \in DOMAIN RunNames
  BY LocalFacts
<1>1. CASE l.pc = "check"
  <2>1. l.goal \in Seq(Common) /\ RunOf(l) = Candidate(l)
    BY <1>1 DEF NameInv, IsolatedBuild, RunOf
  <2>2. PICK n \in RunNamesOf(l.key) : n = RunNames[l.key][l.attempt]
    BY GoalNames
  <2>3. n \in Names /\ l.goal \in Seq(Names) /\ RunOf(l) = Append(l.goal, n)
    BY <1>0, <2>1, <2>2, NameFacts, LocalFacts DEF Candidate
  <2>4. PICK g \in Seq(Names) : g = l.goal
    BY <2>3
  <2>5. PICK x \in Names : x = n
    BY <2>3
  <2>6. Append(g, x) \in Seq(Names)
    OBVIOUS
  <2>7. PICK r \in Seq(Names) : r = Append(g, x)
    BY <2>6
  <2>8. r # Root /\ Parent(r) = g /\ r[Len(r)] = x
    BY <2>7 DEF Root, Parent, Prefix
  <2>9. r = Append(l.goal, n) /\ r # Root /\ Parent(r) = l.goal /\ r[Len(r)] = n
    BY <2>4, <2>5, <2>7, <2>8
  <2> QED BY <2>1, <2>3, <2>7, <2>9 DEF FreshRun
<1>2. CASE l.pc # "check"
  <2>1. IsolatedBuild(l)
    BY <1>2 DEF NameInv, Claimed, IsolatedBuild
  <2> QED BY <2>1, HasItsRun DEF NameInv
<1> QED BY <1>1, <1>2

\* The entry a step makes while it is calm is where its name says.
LEMMA CalmEntry ==
  ASSUME PrepInv, CalmInv, ApartInv, Calm, NEW p \in Procs,
         proc[p].pc \in {"make", "claim", "newLock"}
  PROVE  Entry(MadeAt(proc[p])) = MadeAt(proc[p])
<1>1. PICK k : k = proc[p]
  OBVIOUS
<1>2. LocalInv(k) /\ WayInv(Links, k) /\ TreeInv /\ k.goal \in Seq(Names)
      /\ k.pc \in {"make", "claim", "newLock"}
  BY <1>1, LocalFacts DEF PrepInv, CalmInv
<1>3. CASE k.pc = "make"
  <2>1. k.depth \in 1..Len(k.goal) /\ PassesNone(Links, k.goal, k.depth - 1)
    BY <1>2, <1>3 DEF WayInv
  <2>2. Entry(Prefix(k.goal, k.depth)) = Prefix(k.goal, k.depth)
    BY <1>2, <2>1, PassedEntry
  <2> QED BY <1>1, <1>3, <2>2 DEF MadeAt
<1>4. CASE k.pc = "claim"
  <2>1. PassesNone(Links, k.goal, Len(k.goal)) /\ Inside(k.goal)
    BY <1>2, <1>4 DEF WayInv, LocalInv
  <2>2. Entry(Candidate(k)) = Candidate(k)
    BY <1>2, <2>1, CandidateEntry
  <2> QED BY <1>1, <1>4, <2>2 DEF MadeAt
<1>5. CASE k.pc = "newLock"
  BY <1>1, <1>2, <1>5, LockfileEntry DEF MadeAt
<1> QED BY <1>2, <1>3, <1>4, <1>5

\* What a process makes in a run is in its own.
LEMMA TrunkOf ==
  ASSUME PrepInv, ApartInv, NEW p \in Procs, RunInv(p),
         NEW i \in 1..Len(MadeAt(proc[p])), Prefix(MadeAt(proc[p]), i - 1) \in Seq(Common),
         MadeAt(proc[p])[i] \in AllRunNames
  PROVE  \/ Prefix(MadeAt(proc[p]), i) = MadeAt(proc[p])
         \/ /\ Exists(Prefix(MadeAt(proc[p]), i))
            /\ tree[Prefix(MadeAt(proc[p]), i)].by = p
<1>1. PICK k : k = proc[p]
  OBVIOUS
<1>2. LocalInv(k) /\ NameInv(k) /\ k.key \in DOMAIN RunNames /\ k.goal \in Seq(Names)
  BY <1>1, LocalFacts DEF PrepInv, ApartInv
<1>3. PICK q : q = MadeAt(k)
  OBVIOUS
<1>4. q \in Seq(Names) /\ i \in 1..Len(q) /\ q[i] \in AllRunNames /\ q \notin Seq(Common)
  <2>1. q \in Seq(NamesFor(k.key)) /\ Seq(NamesFor(k.key)) \subseteq Seq(Names)
    BY <1>2, <1>3, MadeAtNames, NameFacts, MoreNames
  <2> QED BY <1>1, <1>3, <2>1, CommonOnly DEF AmongRuns
<1>5. CASE k.pc = "make"
  <2>1. q = Prefix(k.goal, k.depth) /\ k.depth \in 1..Len(k.goal)
    BY <1>2, <1>3, <1>5 DEF MadeAt, NameInv
  <2>2. k.goal \notin Seq(Common)
    BY <1>4, <2>1 DEF Prefix
  <2>3. IsolatedBuild(k)
    BY <1>2, <2>2 DEF NameInv
  <2>4. k.goal = Append(k.run, BuildName) /\ FreshRun(k.key, k.run)
        /\ k.run \in Seq(Names) \ {Root} /\ IsA(k.run, "dir") /\ tree[k.run].by = p
    BY <1>1, <1>2, <1>5, <2>3, HasItsRun DEF RunInv, NameInv
  <2>5. Len(k.run) \in Nat \ {0} /\ Len(k.goal) = Len(k.run) + 1 /\ k.goal[Len(k.goal)] = BuildName
        /\ \A j \in 1..Len(k.run) : k.goal[j] = k.run[j] /\ Prefix(k.goal, j) = Prefix(k.run, j)
    BY <2>4, Fixed DEF Root, Prefix
  <2>6. q[i] = k.goal[i] /\ i \in 1..Len(k.goal) /\ Prefix(q, i) = Prefix(k.goal, i)
    BY <1>2, <1>4, <2>1 DEF Prefix
  <2>7. i # Len(k.run) + 1
    BY <1>4, <2>5, <2>6, NameFacts DEF Common
  <2>8. ~(i < Len(k.run))
    <3>1. SUFFICES ASSUME i < Len(k.run) PROVE FALSE
      OBVIOUS
    <3>2. Parent(k.run) \in Seq(Common)
      BY <2>4 DEF FreshRun
    <3>3. i \in 1..Len(Parent(k.run)) /\ Parent(k.run)[i] = k.run[i]
      BY <1>4, <2>4, <2>5, <3>1 DEF Parent, Prefix
    <3>4. Parent(k.run)[i] \in Common
      BY <3>2, <3>3
    <3>5. q[i] = k.run[i]
      BY <2>5, <2>6, <3>1
    <3> QED BY <1>4, <3>3, <3>4, <3>5 DEF Common
  <2>9. i = Len(k.run)
    BY <2>5, <2>6, <2>7, <2>8
  <2>10. Prefix(q, i) = k.run
    <3>1. Prefix(k.run, Len(k.run)) = k.run
      BY <2>4 DEF Prefix
    <3> QED BY <2>5, <2>6, <2>9, <3>1
  <2> QED BY <1>1, <1>3, <2>4, <2>10 DEF IsA
<1>6. CASE k.pc = "claim"
  <2>1. k.goal \in Seq(Common) /\ q = Candidate(k)
    BY <1>2, <1>3, <1>6 DEF NameInv, IsolatedBuild, MadeAt
  <2>2. PICK n : n = RunNames[k.key][k.attempt]
    OBVIOUS
  <2>3. q = Append(k.goal, n)
    BY <2>1, <2>2 DEF Candidate
  <2>4. Len(q) = Len(k.goal) + 1 /\ \A j \in 1..Len(k.goal) : q[j] = k.goal[j]
    BY <1>2, <2>3
  <2>5. i \notin 1..Len(k.goal)
    BY <1>4, <2>1, <2>4 DEF Common
  <2>6. i = Len(q)
    BY <1>2, <1>4, <2>4, <2>5
  <2>7. Prefix(q, i) = q
    BY <1>4, <2>6 DEF Prefix
  <2> QED BY <1>1, <1>3, <2>7
<1>7. CASE k.pc \notin {"make", "claim"}
  BY <1>3, <1>4, <1>7, NameFacts DEF MadeAt
<1> QED BY <1>5, <1>6, <1>7

LEMMA PrepareApart ==
  ASSUME PrepInv, CalmInv, IsolationInv, NEW p \in Procs, Prepare(p)
  PROVE  IsolationInv'
<1>1. UNCHANGED <<others, moves>> /\ (Apart' <=> Apart)
  BY OthersStay DEF Apart
<1>2. SUFFICES ASSUME Apart PROVE ApartInv' /\ (moves' = 0 => TrunkInv' /\ \A r \in Procs' : RunInv(r)')
  BY <1>1 DEF IsolationInv
<1>3. ApartInv /\ (moves = 0 => TrunkInv /\ \A r \in Procs : RunInv(r))
  BY <1>2 DEF IsolationInv
<1>4. PICK l : Turns(p, l)
  BY <1>3, PrepareTurn DEF Turn
<1>5. /\ Procs' = Procs
      /\ \A r \in Procs : proc'[r] = (IF r = p THEN l ELSE proc[r]) /\ proc'[r].key = proc[r].key
  <2>1. Go(p, l) /\ l.key = proc[p].key
    BY <1>4 DEF Turns
  <2>2. proc' = [proc EXCEPT ![p] = l]
    BY <2>1 DEF Go
  <2>3. Procs' = Procs /\ \A r \in Procs : proc'[r] = IF r = p THEN l ELSE proc[r]
    BY <2>2 DEF Procs
  <2> QED BY <2>1, <2>3
<1>6. Keeps /\ Host \notin Procs
  BY PrepareFine DEF Fine, CalmInv
<1>7. \A q \in DOMAIN tree' \ DOMAIN tree : q = Entry(MadeAt(proc[p])) /\ tree'[q].by = p
      /\ proc[p].pc \in {"make", "claim", "newLock"}
  <2>1. CASE UNCHANGED tree
    BY <2>1
  <2>2. CASE proc[p].pc \in {"make", "claim", "newLock"} /\ MadeBy(p, MadeAt(proc[p]))
    <3>1. PICK e : Put(Entry(MadeAt(proc[p])), e) /\ e.by = p
      BY <2>2 DEF MadeBy
    <3>2. PICK q : q = Entry(MadeAt(proc[p]))
      OBVIOUS
    <3>3. tree' = [x \in DOMAIN tree \cup {q} |-> IF x = q THEN e ELSE tree[x]]
      BY <3>1, <3>2 DEF Put
    <3> QED BY <2>2, <3>1, <3>2, <3>3
  <2> QED BY <2>1, <2>2, Makes
<1>9. ASSUME NEW r \in Procs, Claimed(proc'[r])
      PROVE  \/ r = p /\ ClaimedHere(p, l)
             \/ Claimed(proc[r]) /\ RunOf(proc'[r]) = RunOf(proc[r])
  BY <1>4, <1>5, <1>9 DEF Turns
<1>10. ApartInv'
  <2>1. ClosedInv' /\ \A q \in Links' : tree'[q].to \in Seq(Common)
    BY <1>3, TreeApart
  <2>2. \A r \in Procs' : NameInv(proc'[r])
    BY <1>3, <1>4, <1>5 DEF ApartInv, Turns
  <2>3. \A q \in DOMAIN tree', r \in Procs' : tree'[q].by = r => q \in Seq(NamesFor(proc'[r].key))
    <3>1. \A q \in DOMAIN tree', r \in Procs : tree'[q].by = r => q \in Seq(NamesFor(proc[r].key))
      BY <1>3, TreeApart
    <3> QED BY <1>5, <3>1
  <2>4. ASSUME NEW r \in Procs', Claimed(proc'[r]),
               NEW q \in DOMAIN tree', StartsWith(q, RunOf(proc'[r]))
        PROVE  tree'[q].by # Host
    <3>1. CASE q \notin DOMAIN tree
      BY <1>6, <1>7, <3>1
    <3>2. CASE q \in DOMAIN tree /\ Claimed(proc[r]) /\ RunOf(proc'[r]) = RunOf(proc[r])
      <4>1. tree[q].by # Host
        BY <1>3, <1>5, <2>4, <3>2 DEF ApartInv
      <4> QED BY <1>6, <3>2, <4>1 DEF Keeps
    <3>3. CASE q \in DOMAIN tree /\ r = p /\ ClaimedHere(p, l)
      <4>1. PICK c : c = Candidate(proc[p])
        OBVIOUS
      <4>2. ~Exists(Entry(c)) /\ StartsWith(q, c)
        BY <1>5, <2>4, <3>3, <4>1 DEF ClaimedHere, CanMake
      <4>3. c \in Seq(Names) \ {Root}
        <5>1. LocalInv(proc[p]) /\ NameInv(proc[p])
          BY <1>3 DEF PrepInv, ApartInv
        <5>2. PICK k : k = proc[p]
          OBVIOUS
        <5>3. MadeAt(k) \in Seq(NamesFor(k.key)) \ {Root} /\ k.key \in DOMAIN RunNames
          BY <5>1, <5>2, MadeAtNames, GoalNames
        <5>4. MadeAt(k) = c
          BY <3>3, <4>1, <5>2 DEF ClaimedHere, MadeAt
        <5>5. Seq(NamesFor(k.key)) \subseteq Seq(Names)
          BY <5>3, NameFacts, MoreNames
        <5> QED BY <5>3, <5>4, <5>5
      <4> QED BY <1>3, <3>3, <4>2, <4>3, NothingBelow DEF ApartInv
    <3> QED BY <1>5, <1>9, <2>4, <3>1, <3>2, <3>3
  <2> QED BY <2>1, <2>2, <2>3, <2>4 DEF ApartInv
<1>11. ASSUME moves' = 0 PROVE TrunkInv' /\ \A r \in Procs' : RunInv(r)'
  <2>1. Calm /\ TrunkInv /\ \A r \in Procs : RunInv(r)
    BY <1>1, <1>3, <1>11 DEF Calm
  <2>2. \A q \in DOMAIN tree' \ DOMAIN tree : q = MadeAt(proc[p])
    BY <1>3, <1>7, <2>1, CalmEntry
  <2>3. ASSUME NEW q \in DOMAIN tree', NEW i \in 1..Len(q), tree'[q].by \in Procs',
               Prefix(q, i - 1) \in Seq(Common), q[i] \in AllRunNames
        PROVE  Prefix(q, i) \in DOMAIN tree' /\ tree'[Prefix(q, i)].by = tree'[q].by
    <3>1. CASE q \in DOMAIN tree
      <4>1. tree'[q] = tree[q]
        BY <1>6, <3>1 DEF Keeps
      <4>2. Exists(Prefix(q, i)) /\ tree[Prefix(q, i)].by = tree[q].by
        BY <1>5, <2>1, <2>3, <3>1, <4>1 DEF TrunkInv
      <4> QED BY <1>6, <4>1, <4>2 DEF Keeps, Exists
    <3>2. CASE q \notin DOMAIN tree
      <4>1. q = MadeAt(proc[p]) /\ tree'[q].by = p
        BY <1>7, <2>2, <3>2
      <4>2. Prefix(q, i) = q \/ (Exists(Prefix(q, i)) /\ tree[Prefix(q, i)].by = p)
        BY <1>3, <2>1, <2>3, <4>1, TrunkOf
      <4> QED BY <1>6, <4>1, <4>2 DEF Keeps, Exists
    <3> QED BY <3>1, <3>2
  <2>4. TrunkInv'
    BY <2>3 DEF TrunkInv, Exists
  <2>5. ASSUME NEW r \in Procs PROVE RunInv(r)'
    <3>1. ASSUME Claimed(proc'[r])
          PROVE  /\ RunOf(proc'[r]) \in DOMAIN tree' /\ tree'[RunOf(proc'[r])].kind = "dir"
                 /\ tree'[RunOf(proc'[r])].by = r
      <4>1. CASE Claimed(proc[r]) /\ RunOf(proc'[r]) = RunOf(proc[r])
        <5>1. IsA(RunOf(proc[r]), "dir") /\ tree[RunOf(proc[r])].by = r
          BY <2>1, <4>1 DEF RunInv
        <5> QED BY <1>6, <4>1, <5>1 DEF IsA, Exists, Keeps
      <4>2. CASE r = p /\ ClaimedHere(p, l)
        <5>1. PICK c : c = Candidate(proc[p])
          OBVIOUS
        <5>2. proc[p].pc = "claim" /\ c = MadeAt(proc[p])
          BY <4>2, <5>1 DEF ClaimedHere, MadeAt
        <5>3. Entry(c) = c
          BY <1>3, <2>1, <5>2, CalmEntry
        <5>4. RunOf(proc'[r]) = c /\ Put(c, Dir(p))
          BY <1>5, <4>2, <5>1, <5>3 DEF ClaimedHere
        <5> QED BY <4>2, <5>4 DEF Put, Dir
      <4> QED BY <1>9, <3>1, <4>1, <4>2
    <3>2. ASSUME IsolatedBuild(proc'[r]), proc'[r].pc \in {"inspect", "make"}
          PROVE  proc'[r].goal = Append(proc'[r].run, BuildName)
      <4>1. CASE r = p
        BY <1>4, <1>5, <2>1, <3>2, <4>1 DEF Turns
      <4>2. CASE r # p
        BY <1>5, <2>1, <3>2, <4>2 DEF RunInv
      <4> QED BY <4>1, <4>2
    <3> QED BY <3>1, <3>2 DEF RunInv, IsA, Exists
  <2> QED BY <1>5, <2>4, <2>5
<1> QED BY <1>10, <1>11

LEMMA DisturbApart ==
  ASSUME PrepInv, CalmInv, IsolationInv, Disturb
  PROVE  IsolationInv'
<1>1. UNCHANGED <<proc, opened, others>> /\ moves' = moves + 1 /\ moves \in Nat /\ Procs' = Procs
  BY OthersMove DEF CalmInv, Procs
<1>2. SUFFICES ASSUME Apart' PROVE ApartInv'
  BY <1>1 DEF IsolationInv
<1>3. \A q \in others.places \cup others.targets : ~AmongRuns(q)
  BY <1>1, <1>2 DEF Apart
<1>4. ApartInv /\ Host \notin Procs
  BY <1>3 DEF Apart, IsolationInv, CalmInv
<1>5. PICK q \in others.places :
        \/ RemoveTree(q) \/ CreateEntry(q) \/ AddName(q)
        \/ \E t \in others.targets : MakeLink(q, t)
  BY DEF Disturb
<1>6. q \in Seq(Names) \ {Root} /\ ~AmongRuns(q)
  BY <1>3 DEF PrepInv
<1>7. ASSUME NEW r \in Procs, Claimed(proc[r]) PROVE ~StartsWith(q, RunOf(proc[r]))
  <2>1. PICK k : k = proc[r]
    OBVIOUS
  <2>2. LocalInv(k) /\ NameInv(k) /\ Claimed(k) /\ k.key \in DOMAIN RunNames
    BY <1>4, <1>7, <2>1, LocalFacts DEF PrepInv, ApartInv
  <2>3. RunOf(k) \in Seq(Names) \ {Root} /\ FreshRun(k.key, RunOf(k))
    BY <2>2, RunOfName
  <2>4. RunOf(k)[Len(RunOf(k))] \in AllRunNames
    BY <2>2, <2>3, NameFacts DEF FreshRun
  <2>5. SUFFICES ASSUME StartsWith(q, RunOf(k)) PROVE FALSE
    BY <2>1
  <2>6. PICK x \in Seq(Names) \ {Root} : x = RunOf(k)
    BY <2>3
  <2>7. Len(x) \in 1..Len(q) /\ q[Len(x)] = x[Len(x)]
    BY <1>6, <2>5, <2>6, StartsWithAppend
  <2> QED BY <1>6, <2>4, <2>6, <2>7 DEF AmongRuns
<1>8. ASSUME NEW e, e.by = Host, e.kind = "link" => e.to \in Seq(Common), Put(q, e),
             IsA(Parent(q), "dir"), ~Exists(q)
      PROVE  ApartInv'
  <2>1. tree' = [x \in DOMAIN tree \cup {q} |-> IF x = q THEN e ELSE tree[x]] /\ q \notin DOMAIN tree
    BY <1>8 DEF Put, Exists
  <2>2. ClosedInv'
    <3>1. DOMAIN tree' \subseteq Seq(Names)
      BY <1>4, <1>6, <2>1 DEF ApartInv, ClosedInv
    <3>2. ASSUME NEW x \in DOMAIN tree' \ {Root} PROVE IsA(Parent(x), "dir")'
      <4>1. PICK y : y = Parent(x)
        OBVIOUS
      <4>2. IsA(y, "dir")
        BY <1>4, <1>8, <2>1, <4>1 DEF ApartInv, ClosedInv
      <4>3. y \in DOMAIN tree' /\ tree'[y].kind = "dir"
        BY <2>1, <4>2 DEF IsA, Exists
      <4> QED BY <4>1, <4>3 DEF IsA, Exists
    <3> QED BY <3>1, <3>2 DEF ClosedInv
  <2>3. \A x \in Links' : tree'[x].to \in Seq(Common)
    BY <1>4, <1>8, <2>1 DEF ApartInv, Links
  <2>4. \A x \in DOMAIN tree', r \in Procs : tree'[x].by = r => x \in Seq(NamesFor(proc[r].key))
    BY <1>4, <1>8, <2>1 DEF ApartInv
  <2>5. \A r \in Procs : Claimed(proc[r]) =>
          \A x \in DOMAIN tree' : StartsWith(x, RunOf(proc[r])) => tree'[x].by # Host
    BY <1>4, <1>7, <2>1 DEF ApartInv
  <2>6. \A r \in Procs : NameInv(proc[r])
    BY <1>4 DEF ApartInv
  <2> QED BY <1>1, <2>2, <2>3, <2>4, <2>5, <2>6 DEF ApartInv
<1>9. CASE CreateEntry(q)
  <2>1. PICK e \in {Dir(Host), File(1, Host)} : Put(q, e)
    BY <1>9 DEF CreateEntry
  <2>2. e.by = Host /\ e.kind # "link"
    BY DEF Dir, File
  <2> QED BY <1>8, <1>9, <2>1, <2>2 DEF CreateEntry
<1>10. ASSUME NEW t \in others.targets, MakeLink(q, t) PROVE ApartInv'
  <2>1. t \in Seq(Common)
    BY <1>3, AmongNone DEF PrepInv
  <2>2. Put(q, Link(t, Host)) /\ Link(t, Host).by = Host /\ Link(t, Host).to = t
    BY <1>10 DEF MakeLink, Link
  <2> QED BY <1>8, <1>10, <2>1, <2>2 DEF MakeLink
<1>11. ASSUME DOMAIN tree' \subseteq DOMAIN tree,
              \A x \in DOMAIN tree' : /\ tree'[x].kind = tree[x].kind /\ tree'[x].to = tree[x].to
                                      /\ tree'[x].by = tree[x].by,
              \A x \in DOMAIN tree' \ {Root} : Parent(x) \in DOMAIN tree'
       PROVE  ApartInv'
  <2>1. ClosedInv'
    <3>1. ASSUME NEW x \in DOMAIN tree' \ {Root} PROVE IsA(Parent(x), "dir")'
      <4>1. PICK y \in DOMAIN tree' : y = Parent(x)
        BY <1>11
      <4>2. IsA(y, "dir")
        BY <1>4, <1>11, <4>1 DEF ApartInv, ClosedInv
      <4> QED BY <1>11, <4>1, <4>2 DEF IsA, Exists
    <3> QED BY <1>4, <1>11, <3>1 DEF ClosedInv, ApartInv
  <2>2. \A x \in Links' : tree'[x].to \in Seq(Common)
    BY <1>4, <1>11 DEF ApartInv, Links
  <2>3. \A x \in DOMAIN tree', r \in Procs : tree'[x].by = r => x \in Seq(NamesFor(proc[r].key))
    BY <1>4, <1>11 DEF ApartInv
  <2>4. \A r \in Procs : Claimed(proc[r]) =>
          \A x \in DOMAIN tree' : StartsWith(x, RunOf(proc[r])) => tree'[x].by # Host
    BY <1>4, <1>11 DEF ApartInv
  <2>5. \A r \in Procs : NameInv(proc[r])
    BY <1>4 DEF ApartInv
  <2> QED BY <1>1, <2>1, <2>2, <2>3, <2>4, <2>5 DEF ApartInv
<1>12. CASE RemoveTree(q)
  <2>1. tree' = [x \in {y \in DOMAIN tree : ~StartsWith(y, q)} |-> tree[x]]
    BY <1>12 DEF RemoveTree
  <2>2. ASSUME NEW x \in DOMAIN tree' \ {Root} PROVE Parent(x) \in DOMAIN tree'
    <3>1. x \in DOMAIN tree \ {Root} /\ ~StartsWith(x, q)
      BY <2>1, <2>2
    <3>2. Parent(x) \in DOMAIN tree /\ x \in Seq(Names)
      BY <1>4, <3>1 DEF ApartInv, ClosedInv, IsA, Exists
    <3>3. ~StartsWith(Parent(x), q)
      <4>1. SUFFICES ASSUME StartsWith(Parent(x), q) PROVE StartsWith(x, q)
        BY <3>1
      <4>2. Len(x) \in Nat \ {0} /\ Len(q) \in Nat
        BY <1>6, <3>1, <3>2 DEF Root
      <4>3. Parent(x) \in Seq(Names) /\ Len(Parent(x)) = Len(x) - 1
        <5>1. Len(x) - 1 \in 0..Len(x)
          BY <4>2
        <5> QED BY <3>2, <5>1, PrefixType DEF Parent
      <4>4. Len(q) <= Len(x) - 1
        BY <4>1, <4>3 DEF StartsWith
      <4>5. SubSeq(x, 1, Len(q)) = SubSeq(Parent(x), 1, Len(q))
        BY <3>2, <4>2, <4>4 DEF Parent, Prefix
      <4> QED BY <4>1, <4>2, <4>4, <4>5 DEF StartsWith
    <3> QED BY <2>1, <3>2, <3>3
  <2> QED BY <1>11, <2>1, <2>2
<1>13. CASE AddName(q)
  <2>1. q \in DOMAIN tree /\ tree' = [tree EXCEPT ![q].names = 2] /\ TreeInv
    BY <1>13 DEF AddName, IsA, Exists, PrepInv
  <2>2. tree[q] \in EntriesBy(Procs \cup {Host}) /\ tree = [x \in DOMAIN tree |-> tree[x]]
    BY <2>1, TreeTypes DEF TreeInv
  <2>3. tree'[q].kind = tree[q].kind /\ tree'[q].by = tree[q].by /\ tree'[q].to = tree[q].to
    BY <2>1, <2>2 DEF EntriesBy
  <2>4. DOMAIN tree' = DOMAIN tree /\ \A x \in DOMAIN tree : x # q => tree'[x] = tree[x]
    BY <2>1, <2>2
  <2>5. \A x \in DOMAIN tree' \ {Root} : Parent(x) \in DOMAIN tree'
    BY <1>4, <2>4 DEF ApartInv, ClosedInv, IsA, Exists
  <2> QED BY <1>11, <2>3, <2>4, <2>5
<1> QED BY <1>5, <1>9, <1>10, <1>12, <1>13

\* The inductive invariant keeps a run for its process.
LEMMA RunsAreOwn ==
  ASSUME PrepInv, IsolationInv
  PROVE  IsolatedRunIsOwn
<1>1. SUFFICES ASSUME NEW p \in Procs, proc[p].pc \in {"openLock", "mounted"}, ~proc[p].reuse,
                      \/ moves = 0
                      \/ /\ \A q \in Procs \ {p} : proc[q].key # proc[p].key
                         /\ ~\E q \in others.places \cup others.targets : AmongRuns(q),
                      NEW x \in DOMAIN tree, StartsWith(x, proc[p].run)
               PROVE  tree[x].by = p
  BY DEF IsolatedRunIsOwn
<1>2. ApartInv /\ (moves = 0 => TrunkInv /\ \A r \in Procs : RunInv(r))
  BY <1>1 DEF IsolationInv, Apart
<1>3. PICK k : k = proc[p]
  OBVIOUS
<1>4. LocalInv(k) /\ NameInv(k) /\ k.key \in DOMAIN RunNames /\ IsolatedBuild(k)
  BY <1>1, <1>2, <1>3, LocalFacts DEF PrepInv, ApartInv, NameInv, Late, IsolatedBuild
<1>5. PICK r : r = k.run
  OBVIOUS
<1>6. Claimed(k) /\ RunOf(k) = r /\ r \in Seq(Names) \ {Root} /\ FreshRun(k.key, r)
  BY <1>4, <1>5, HasItsRun DEF NameInv
<1>7. x \in Seq(Names) /\ StartsWith(x, r)
  BY <1>1, <1>2, <1>3, <1>5 DEF ApartInv, ClosedInv
<1>8. /\ Len(r) \in 1..Len(x) /\ x[Len(r)] = r[Len(r)]
      /\ Prefix(x, Len(r)) = r /\ Prefix(x, Len(r) - 1) = Parent(r)
  BY <1>6, <1>7, StartsWithAppend
<1>9. tree[x].by # Host
  BY <1>2, <1>3, <1>6, <1>7 DEF ApartInv
<1>10. PICK q \in Procs : tree[x].by = q
  <2>1. tree[x] \in EntriesBy(Procs \cup {Host})
    BY TreeTypes DEF PrepInv
  <2> QED BY <1>9, <2>1 DEF EntriesBy
<1>11. r[Len(r)] \in RunNamesOf(k.key) /\ r[Len(r)] \in AllRunNames /\ Parent(r) \in Seq(Common)
  BY <1>4, <1>6, NameFacts DEF FreshRun
<1>12. CASE moves = 0
  <2>1. tree[r].by = p
    BY <1>2, <1>3, <1>6, <1>12 DEF RunInv
  <2>2. tree[r].by = q
    BY <1>2, <1>8, <1>10, <1>11, <1>12 DEF TrunkInv
  <2> QED BY <1>10, <2>1, <2>2
<1>13. CASE \A s \in Procs \ {p} : proc[s].key # proc[p].key
  <2>1. x \in Seq(NamesFor(proc[q].key)) /\ proc[q].key \in DOMAIN RunNames
    BY <1>2, <1>10, LocalFacts DEF ApartInv, PrepInv
  <2>2. x[Len(r)] \in NamesFor(proc[q].key)
    BY <1>8, <2>1
  <2>3. proc[q].key = k.key
    BY <1>4, <1>8, <1>11, <2>1, <2>2, KeysApart
  <2> QED BY <1>3, <1>10, <1>13, <2>3
<1> QED BY <1>1, <1>12, <1>13

LEMMA InitApart == Init => IsolationInv
<1>1. SUFFICES ASSUME Init PROVE ApartInv /\ TrunkInv /\ \A p \in Procs : RunInv(p)
  BY DEF IsolationInv
<1>2. PICK s \in Scenes :
        /\ tree \in s.trees
        /\ proc \in [s.procs -> {Start(r, u, k) : r \in s.requests, u \in s.reuse, k \in s.keys}]
  BY <1>1 DEF Init
<1>3. Procs = s.procs /\ Host \notin Procs
  <2>1. Host \notin s.procs
    BY PrepAssumption
  <2> QED BY <1>2, <2>1 DEF Procs
<1>4. \A q \in DOMAIN tree : tree[q].by = Host /\ tree[q].to \in Seq(Names)
  <2>1. \A t \in s.trees : t \in [DOMAIN t -> EntriesBy({Host})]
    BY PrepAssumption
  <2>2. tree \in [DOMAIN tree -> EntriesBy({Host})]
    <3>1. tree \in s.trees
      BY <1>2
    <3> QED BY <2>1, <3>1, Zenon
  <2>3. \A q \in DOMAIN tree : tree[q] \in EntriesBy({Host})
    BY <2>2
  <2> QED BY <2>3 DEF EntriesBy
<1>5. ClosedInv
  BY <1>2, WorkspaceAssumption DEF ClosedInv, IsA, Exists, IsDirectory
<1>6. \A q \in Links : tree[q].to \in Seq(Common)
  <2>1. \A t \in s.trees : \A q \in DOMAIN t : t[q].kind = "link" => ~AmongRuns(t[q].to)
    BY RunNameAssumption
  <2>2. \A q \in DOMAIN tree : tree[q].kind = "link" => ~AmongRuns(tree[q].to)
    BY <1>2, <2>1
  <2> QED BY <1>4, <2>2, AmongNone DEF Links
<1>7. ASSUME NEW p \in Procs
      PROVE  NameInv(proc[p]) /\ ~Claimed(proc[p]) /\ proc[p].pc = "validate"
  <2>1. PICK r \in s.requests, u \in s.reuse, k \in s.keys : proc[p] = Start(r, u, k)
    BY <1>2, <1>3
  <2>2. r \in Seq(Names) /\ ~AmongRuns(r)
    BY PrepAssumption, RunNameAssumption
  <2>3. r \in Seq(Common)
    BY <2>2, AmongNone
  <2> QED BY <2>1, <2>3 DEF Start, NameInv, IsolatedBuild, Claimed, Late
<1>8. ApartInv
  BY <1>3, <1>4, <1>5, <1>6, <1>7 DEF ApartInv
<1>9. TrunkInv
  BY <1>3, <1>4 DEF TrunkInv
<1> QED BY <1>7, <1>8, <1>9 DEF RunInv

-----------------------------------------------------------------------------
(* Where a path leads, name by name *)

\* A path leads where its parent's leads, and one step on.
LEMMA LandPrefix ==
  ASSUME NEW S, \A q \in Links : tree[q].to \in Seq(S), NEW p \in Seq(S),
         NEW n \in 0..Len(p)
  PROVE  Follow(Prefix(p, n)) = Land(p)[n]
<1>1. PICK r : r = Prefix(p, n)
  OBVIOUS
<1>2. r \in Seq(S) /\ Len(r) = n /\ \A i \in 1..n : r[i] = p[i]
  BY <1>1 DEF Prefix
<1>3. Land(r) = [i \in 0..n |-> LandStep(r, Land(r), i)] /\ Follow(r) = Land(r)[n]
  BY <1>2, Lands
<1>4. Land(p) = [i \in 0..Len(p) |-> LandStep(p, Land(p), i)]
  BY Lands
<1>5. PICK f : f = Land(r)
  OBVIOUS
<1>6. PICK g : g = Land(p)
  OBVIOUS
<1> DEFINE T == {i \in 0..n : f[i] # g[i]}
<1>7. SUFFICES ASSUME T # {} PROVE FALSE
  BY <1>1, <1>3, <1>5, <1>6
<1>8. PICK m \in T : \A k \in T : m <= k
  <2>1. T \subseteq Nat
    OBVIOUS
  <2> HIDE DEF T
  <2> QED BY <1>7, <2>1, Least
<1>9. m \in 0..n /\ m \in 0..Len(p) /\ f[m] # g[m]
  OBVIOUS
<1>10. f[m] = LandStep(r, f, m) /\ g[m] = LandStep(p, g, m)
  <2>1. f = [i \in 0..n |-> LandStep(r, f, i)]
    BY <1>3, <1>5
  <2>2. g = [i \in 0..Len(p) |-> LandStep(p, g, i)]
    BY <1>4, <1>6
  <2>3. f[m] = LandStep(r, f, m)
    BY <1>9, <2>1
  <2>4. g[m] = LandStep(p, g, m)
    BY <1>9, <2>2
  <2> QED BY <2>3, <2>4
<1>11. CASE m = 0
  BY <1>9, <1>10, <1>11 DEF LandStep
<1>12. CASE m # 0
  <2>1. m - 1 \in 0..n /\ m \in 1..n /\ r[m] = p[m]
    BY <1>2, <1>9, <1>12
  <2>2. m - 1 \notin T
    BY <1>8, <1>9
  <2>3. f[m - 1] = g[m - 1]
    BY <2>1, <2>2
  <2> HIDE DEF T
  <2> QED BY <1>9, <1>10, <1>12, <2>1, <2>3 DEF LandStep
<1> QED BY <1>11, <1>12

LEMMA FollowStep ==
  ASSUME NEW S, \A q \in Links : tree[q].to \in Seq(S), NEW p \in Seq(S), p # Root
  PROVE  Follow(p) = IF IsA(Entry(p), "link") THEN tree[Entry(p)].to ELSE Entry(p)
<1>1. Len(p) \in Nat \ {0} /\ Len(p) - 1 \in 0..Len(p) /\ Len(p) \in 0..Len(p)
      /\ Parent(p) = Prefix(p, Len(p) - 1)
  BY DEF Root, Parent
<1>2. Follow(p) = Land(p)[Len(p)] /\ Land(p) = [i \in 0..Len(p) |-> LandStep(p, Land(p), i)]
  BY Lands
<1>3. Follow(Parent(p)) = Land(p)[Len(p) - 1]
  BY <1>1, LandPrefix
<1>4. Entry(p) = Append(Land(p)[Len(p) - 1], p[Len(p)])
  BY <1>3 DEF Entry
<1>5. Land(p)[Len(p)] = LandStep(p, Land(p), Len(p))
  BY <1>1, <1>2
<1> QED BY <1>1, <1>2, <1>4, <1>5 DEF LandStep

\* Where a path can be followed to a directory, every path above it can.
LEMMA AllTheWay ==
  ASSUME TreeInv, ClosedInv, NEW p \in Seq(Names), IsA(Follow(p), "dir"), NEW n \in 0..Len(p)
  PROVE  /\ IsA(Follow(Prefix(p, n)), "dir")
         /\ n # 0 => Exists(Entry(Prefix(p, n)))
<1>0. \A q \in Links : tree[q].to \in Seq(Names)
  BY TreeTypes DEF Links
<1>1. ASSUME NEW r \in Seq(Names), r # Root, IsA(Follow(r), "dir")
      PROVE  Exists(Entry(r)) /\ IsA(Follow(Parent(r)), "dir")
  <2>1. Follow(r) = IF IsA(Entry(r), "link") THEN tree[Entry(r)].to ELSE Entry(r)
    BY <1>0, <1>1, FollowStep
  <2>2. Exists(Entry(r))
    BY <1>1, <2>1 DEF IsA
  <2>3. Entry(r) # Root /\ Parent(Entry(r)) = Follow(Parent(r))
    <3>1. r \in Seq(Names) \ {Root}
      BY <1>1
    <3> QED BY <1>0, <3>1, MadeEntry
  <2>4. IsA(Parent(Entry(r)), "dir")
    BY <2>2, <2>3 DEF ClosedInv, Exists
  <2> QED BY <2>2, <2>3, <2>4
<1> DEFINE T == {i \in 0..Len(p) : ~IsA(Follow(Prefix(p, i)), "dir")}
<1>2. T = {}
  <2>1. SUFFICES ASSUME T # {} PROVE FALSE
    OBVIOUS
  <2>2. PICK m \in T : \A k \in T : k <= m
    <3>1. T \subseteq 0..Len(p) /\ Len(p) \in Nat
      OBVIOUS
    <3> HIDE DEF T
    <3> QED BY <2>1, <3>1, Greatest
  <2>3. m \in 0..Len(p) /\ ~IsA(Follow(Prefix(p, m)), "dir")
    OBVIOUS
  <2>4. m # Len(p)
    <3>1. Prefix(p, Len(p)) = p
      BY DEF Prefix
    <3> QED BY <2>3, <3>1
  <2>5. m + 1 \in 0..Len(p) /\ m + 1 \notin T
    BY <2>2, <2>3, <2>4
  <2>6. PICK r : r = Prefix(p, m + 1)
    OBVIOUS
  <2>7. r \in Seq(Names) /\ Len(r) = m + 1 /\ r # Root
    <3>1. r \in Seq(Names) /\ Len(r) = m + 1
      BY <2>5, <2>6, PrefixType
    <3> QED BY <2>3, <3>1 DEF Root
  <2>8. Parent(r) = Prefix(p, m)
    BY <2>3, <2>5, <2>6, <2>7 DEF Parent, Prefix
  <2>9. IsA(Follow(r), "dir")
    BY <2>5, <2>6
  <2> HIDE DEF T
  <2> QED BY <1>1, <2>3, <2>7, <2>8, <2>9
<1>3. IsA(Follow(Prefix(p, n)), "dir")
  BY <1>2
<1>4. ASSUME n # 0 PROVE Exists(Entry(Prefix(p, n)))
  <2>1. Prefix(p, n) \in Seq(Names) /\ Len(Prefix(p, n)) = n
    BY PrefixType
  <2>2. Prefix(p, n) # Root
    BY <1>4, <2>1 DEF Root
  <2> HIDE DEF T
  <2> QED BY <1>1, <1>3, <2>1, <2>2
<1> HIDE DEF T
<1> QED BY <1>3, <1>4

\* A directory, and all above it, can be looked at by its name.
LEMMA PlainDir ==
  ASSUME ClosedInv, NEW d \in Seq(Names), IsA(d, "dir"), NEW n \in 0..Len(d)
  PROVE  /\ Prefix(d, n) \in Seq(Names) /\ IsA(Prefix(d, n), "dir")
         /\ Follow(Prefix(d, n)) = Prefix(d, n) /\ Lstat(Prefix(d, n)) = "dir"
<1>1. PICK q : q = Prefix(d, n)
  OBVIOUS
<1>2. q \in Seq(Names) /\ Len(q) = n
  BY <1>1, PrefixType
<1>3. IsA(q, "dir")
  <2>1. CASE n = Len(d)
    <3>1. Prefix(d, Len(d)) = d
      BY DEF Prefix
    <3> QED BY <1>1, <2>1, <3>1
  <2>2. CASE n # Len(d)
    <3>1. n \in 0..(Len(d) - 1)
      BY <2>2
    <3> QED BY <1>1, <3>1, ClosedUp DEF IsA, Exists
  <2> QED BY <2>1, <2>2
<1>4. CASE q # Root
  BY <1>1, <1>2, <1>3, <1>4, ClosedEntry DEF IsA, Exists
<1>5. CASE q = Root
  <2>1. Follow(Root) = Root
    <3>1. Root \in Seq(Names) /\ Len(Root) = 0
      BY <1>2, <1>5 DEF Root
    <3>2. \A i \in 1..Len(Root) : ~IsA(Prefix(Root, i), "link")
      BY <3>1
    <3> QED BY <3>1, <3>2, PlainFollows
  <2>2. ~ThroughFile(Root)
    BY DEF ThroughFile, Root
  <2>3. Lstat(Root) = "dir"
    BY <1>3, <1>5, <2>2 DEF Lstat, Entry, IsA, Exists
  <2> QED BY <1>1, <1>2, <1>3, <1>5, <2>1, <2>3
<1> QED BY <1>4, <1>5

\* So can what may be in a directory.
LEMMA PlainPath ==
  ASSUME ClosedInv, NEW g \in Seq(Names), g # Root, IsA(Parent(g), "dir")
  PROVE  /\ Len(g) \in Nat \ {0} /\ Parent(g) \in Seq(Names)
         /\ Entry(g) = g /\ ~ThroughFile(g)
         /\ Lstat(g) = IF Exists(g) THEN tree[g].kind ELSE "absent"
         /\ Follow(Parent(g)) = Parent(g)
         /\ \A n \in 0..(Len(g) - 1) :
              /\ Prefix(g, n) = Prefix(Parent(g), n) /\ IsA(Prefix(g, n), "dir")
              /\ Follow(Prefix(g, n)) = Prefix(g, n) /\ Lstat(Prefix(g, n)) = "dir"
<1>1. PICK d : d = Parent(g)
  OBVIOUS
<1>2. d \in Seq(Names) /\ Len(g) \in Nat \ {0} /\ Len(d) = Len(g) - 1 /\ g = Append(d, g[Len(g)])
  <2>1. Len(g) \in Nat \ {0} /\ Len(g) - 1 \in 0..Len(g)
    BY DEF Root
  <2>2. d \in Seq(Names) /\ Len(d) = Len(g) - 1
    BY <1>1, <2>1, PrefixType DEF Parent
  <2> QED BY <1>1, <2>1, <2>2 DEF Parent, Prefix
<1>3. ASSUME NEW n \in 0..(Len(g) - 1)
      PROVE  /\ Prefix(g, n) = Prefix(d, n) /\ IsA(Prefix(g, n), "dir")
             /\ Follow(Prefix(g, n)) = Prefix(g, n) /\ Lstat(Prefix(g, n)) = "dir"
  <2>1. n \in 0..Len(d) /\ Prefix(g, n) = Prefix(d, n)
    BY <1>1, <1>2 DEF Parent, Prefix
  <2> QED BY <1>1, <1>2, <2>1, PlainDir
<1>4. Follow(d) = d
  <2>1. Len(d) \in 0..Len(d) /\ Prefix(d, Len(d)) = d
    BY <1>2 DEF Prefix
  <2> QED BY <1>1, <1>2, <2>1, PlainDir
<1>5. Entry(g) = g
  BY <1>1, <1>2, <1>4 DEF Entry
<1>6. ~ThroughFile(g)
  BY <1>3 DEF ThroughFile, IsA
<1> QED BY <1>1, <1>2, <1>3, <1>4, <1>5, <1>6 DEF Lstat

LEMMA DeepestWhole ==
  ASSUME NEW p \in Seq(Names), Lstat(p) # "absent"
  PROVE  Deepest(p) = Len(p) /\ Existing(p) = p /\ Canonical(p) = Follow(p) \o << >>
<1>1. Prefix(p, Len(p)) = p /\ Len(p) \in Nat
  BY DEF Prefix
<1>2. PICK d : d = Deepest(p)
  OBVIOUS
<1>3. d \in 0..Len(p) /\ \A j \in (d + 1)..Len(p) : Lstat(Prefix(p, j)) = "absent"
  <2>1. Len(p) \in 0..Len(p) /\ Lstat(Prefix(p, Len(p))) # "absent"
        /\ \A j \in (Len(p) + 1)..Len(p) : Lstat(Prefix(p, j)) = "absent"
    BY <1>1
  <2> QED BY <1>2, <2>1 DEF Deepest
<1>4. d = Len(p)
  <2>1. SUFFICES ASSUME d < Len(p) PROVE FALSE
    BY <1>1, <1>3
  <2>2. Len(p) \in (d + 1)..Len(p)
    BY <1>1, <1>3, <2>1
  <2> QED BY <1>1, <1>3, <2>2
<1>5. SubSeq(p, Len(p) + 1, Len(p)) = << >>
  BY <1>1
<1> QED BY <1>1, <1>2, <1>4, <1>5 DEF Existing, Canonical

\* A plain path that is free or a directory is accepted as it is.
LEMMA PlainAccepted ==
  ASSUME TreeInv, ClosedInv, NEW g \in Seq(Names), g # Root, IsA(Parent(g), "dir"), Inside(g),
         NoTraversal(g), Exists(g) => IsA(g, "dir")
  PROVE  Accepts(g) /\ Canonical(g) = g
<1>1. /\ Len(g) \in Nat \ {0} /\ Parent(g) \in Seq(Names) /\ Entry(g) = g /\ ~ThroughFile(g)
      /\ Lstat(g) = IF Exists(g) THEN tree[g].kind ELSE "absent"
      /\ \A n \in 0..(Len(g) - 1) : /\ IsA(Prefix(g, n), "dir")
                                    /\ Follow(Prefix(g, n)) = Prefix(g, n)
                                    /\ Lstat(Prefix(g, n)) = "dir"
  BY PlainPath
<1>2. Prefix(g, Len(g)) = g
  BY DEF Prefix
<1>3. ComponentsAccepted(g)
  <2>1. ASSUME NEW i \in 1..Len(g)
        PROVE  /\ Lstat(Prefix(g, i)) \in {"dir", "absent"}
               /\ i < Len(g) => IsA(Follow(Prefix(g, i)), "dir")
    <3>1. CASE i = Len(g)
      BY <1>1, <1>2, <3>1 DEF IsA
    <3>2. CASE i # Len(g)
      <4>1. i \in 0..(Len(g) - 1)
        BY <1>1, <3>2
      <4> QED BY <1>1, <4>1
    <3> QED BY <3>1, <3>2
  <2> QED BY <2>1 DEF ComponentsAccepted
<1>4. Placed(g) /\ Canonical(g) = g
  <2>1. CASE Exists(g)
    <3>1. Lstat(g) = "dir"
      BY <1>1, <2>1 DEF IsA
    <3>2. Existing(g) = g /\ Canonical(g) = Follow(g) \o << >>
      BY <3>1, DeepestWhole
    <3>3. Follow(g) = g
      BY <2>1, <3>1, ClosedEntry DEF IsA, Exists
    <3>4. g \o << >> = g
      OBVIOUS
    <3> QED BY <1>1, <2>1, <3>1, <3>2, <3>3, <3>4 DEF Placed, Resolves
  <2>2. CASE ~Exists(g)
    <3>1. PICK d : d = Deepest(g)
      OBVIOUS
    <3>2. Lstat(g) = "absent" /\ Lstat(Prefix(g, Len(g) - 1)) = "dir"
      BY <1>1, <2>2
    <3>3. d \in 0..Len(g) /\ Lstat(Prefix(g, d)) # "absent"
          /\ \A j \in (d + 1)..Len(g) : Lstat(Prefix(g, j)) = "absent"
      <4>1. Len(g) - 1 \in 0..Len(g) /\ Lstat(Prefix(g, Len(g) - 1)) # "absent"
            /\ \A j \in (Len(g) - 1 + 1)..Len(g) : Lstat(Prefix(g, j)) = "absent"
        BY <1>1, <1>2, <3>2
      <4> QED BY <3>1, <4>1 DEF Deepest
    <3>4. d = Len(g) - 1
      <4>1. d # Len(g)
        BY <1>2, <3>2, <3>3
      <4>2. ~(d < Len(g) - 1)
        <5>1. SUFFICES ASSUME d < Len(g) - 1 PROVE FALSE
          OBVIOUS
        <5>2. Len(g) - 1 \in (d + 1)..Len(g)
          BY <1>1, <3>3, <5>1
        <5> QED BY <3>2, <3>3, <5>2
      <4> QED BY <1>1, <3>3, <4>1, <4>2
    <3>5. Existing(g) = Parent(g) /\ Follow(Parent(g)) = Parent(g) /\ IsA(Parent(g), "dir")
          /\ Lstat(Parent(g)) = "dir"
      <4>1. Parent(g) = Prefix(g, Len(g) - 1) /\ Len(g) - 1 \in 0..(Len(g) - 1)
        BY <1>1 DEF Parent
      <4> QED BY <1>1, <3>1, <3>4, <4>1 DEF Existing
    <3>6. Canonical(g) = g
      <4>1. Canonical(g) = Parent(g) \o SubSeq(g, Len(g), Len(g))
        BY <1>1, <3>1, <3>4, <3>5 DEF Canonical
      <4>2. Parent(g) \o SubSeq(g, Len(g), Len(g)) = g
        BY <1>1 DEF Parent, Prefix
      <4> QED BY <4>1, <4>2
    <3>7. ~ThroughFile(Parent(g))
      BY <3>5 DEF Lstat
    <3> QED BY <3>5, <3>6, <3>7 DEF Placed, Resolves, IsA
  <2> QED BY <2>1, <2>2
<1> QED BY <1>3, <1>4 DEF Accepts

\* A prepared request is accepted, and gives the directory it leads to.
LEMMA RequestAccepted ==
  ASSUME TreeInv, ClosedInv, NEW r \in Seq(Names), RequestIsPlain(r), IsA(Follow(r), "dir")
  PROVE  Accepts(r) /\ Canonical(r) = Follow(r)
<1>1. /\ NoTraversal(r) /\ Inside(Follow(r)) /\ Follow(r) \in Seq(Names)
      /\ \A i \in 1..Len(r) : IsA(Entry(Prefix(r, i)), "link") =>
           /\ ~StartsWith(Entry(Prefix(r, i)), Workspace)
           /\ ~StartsWith(Follow(Prefix(r, i)), Workspace)
  BY FollowType DEF RequestIsPlain
<1>2. Prefix(r, Len(r)) = r /\ Len(r) \in Nat
  BY DEF Prefix
<1>3. \A q \in Links : tree[q].to \in Seq(Names)
  BY TreeTypes DEF Links
<1>4. ASSUME NEW n \in 1..Len(r)
      PROVE  LET q == Prefix(r, n) IN
             /\ q \in Seq(Names) \ {Root} /\ Len(q) = n
             /\ IsA(Follow(q), "dir") /\ Exists(Entry(q)) /\ ~ThroughFile(q)
             /\ Lstat(q) = tree[Entry(q)].kind /\ Lstat(q) \in {"dir", "file", "link"}
  <2>1. PICK q : q = Prefix(r, n)
    OBVIOUS
  <2>2. q \in Seq(Names) /\ Len(q) = n /\ \A i \in 0..Len(q) : Prefix(q, i) = Prefix(r, i)
    BY <2>1, PrefixType DEF Prefix
  <2>3. q # Root
    BY <2>2 DEF Root
  <2>4. IsA(Follow(q), "dir") /\ Exists(Entry(q))
    BY <2>1, AllTheWay
  <2>5. ~ThroughFile(q)
    <3>1. ASSUME NEW i \in 0..(Len(q) - 1) PROVE IsA(Follow(Prefix(q, i)), "dir")
      <4>1. i \in 0..Len(r) /\ Prefix(q, i) = Prefix(r, i)
        BY <2>2
      <4> QED BY <4>1, AllTheWay
    <3> QED BY <3>1 DEF ThroughFile, IsA
  <2>6. Lstat(q) = tree[Entry(q)].kind
    BY <2>4, <2>5 DEF Lstat
  <2>7. Lstat(q) \in {"dir", "file", "link"}
    BY <2>4, <2>6, TreeTypes DEF Exists
  <2> QED BY <2>1, <2>2, <2>3, <2>4, <2>5, <2>6, <2>7
<1>5. Len(r) \in 1..Len(r)
  <2>1. SUFFICES ASSUME Len(r) = 0 PROVE FALSE
    BY <1>2
  <2>2. Follow(r) = r
    <3>1. \A i \in 1..Len(r) : ~IsA(Prefix(r, i), "link")
      BY <2>1
    <3> QED BY <3>1, PlainFollows
  <2>3. Workspace \in Seq(Names) /\ StartsWith(r, Workspace) /\ r # Workspace
    BY <1>1, <2>2, Fixed DEF Inside
  <2>4. Len(Workspace) = 0
    BY <2>1, <2>3 DEF StartsWith
  <2> QED BY <2>1, <2>3, <2>4
<1>6. /\ Lstat(r) = "dir" /\ ~ThroughFile(r) /\ Exists(Follow(r))
  <2>1. Exists(Entry(r)) /\ Lstat(r) = tree[Entry(r)].kind /\ ~ThroughFile(r) /\ r # Root
    BY <1>2, <1>4, <1>5
  <2>2. ~IsA(Entry(r), "link")
    BY <1>1, <1>2, <1>5 DEF Inside
  <2>3. Follow(r) = Entry(r)
    BY <1>3, <2>1, <2>2, FollowStep
  <2> QED BY <2>1, <2>3 DEF IsA
<1>7. Placed(r) /\ Canonical(r) = Follow(r)
  <2>1. Existing(r) = r /\ Canonical(r) = Follow(r) \o << >>
    BY <1>6, DeepestWhole
  <2>2. Follow(r) \o << >> = Follow(r)
    BY <1>1
  <2> QED BY <1>1, <1>6, <2>1, <2>2 DEF Placed, Resolves
<1>8. ComponentsAccepted(r)
  <2>1. ASSUME NEW i \in 1..Len(r)
        PROVE  LET q == Prefix(r, i) IN
               /\ Lstat(q) # "notdir" /\ IsA(Follow(q), "dir")
               /\ Lstat(q) = "link" =>
                    /\ Resolves(q)
                    /\ ~StartsWith(Follow(Parent(q)), Workspace)
                    /\ ~StartsWith(Follow(q), Workspace)
    <3>1. PICK q : q = Prefix(r, i)
      OBVIOUS
    <3>2. /\ q \in Seq(Names) \ {Root} /\ IsA(Follow(q), "dir") /\ Exists(Entry(q))
          /\ ~ThroughFile(q) /\ Lstat(q) = tree[Entry(q)].kind /\ Lstat(q) # "notdir"
      BY <1>4, <3>1
    <3>3. ASSUME Lstat(q) = "link"
          PROVE  /\ Resolves(q) /\ ~StartsWith(Follow(Parent(q)), Workspace)
                 /\ ~StartsWith(Follow(q), Workspace)
      <4>1. ~StartsWith(Entry(q), Workspace) /\ ~StartsWith(Follow(q), Workspace)
        BY <1>1, <3>1, <3>2, <3>3 DEF IsA
      <4>2. Resolves(q)
        BY <3>2 DEF Resolves, IsA
      <4>3. ~StartsWith(Follow(Parent(q)), Workspace)
        <5>1. SUFFICES ASSUME StartsWith(Follow(Parent(q)), Workspace) PROVE FALSE
          OBVIOUS
        <5>2. Parent(q) \in Seq(Names) /\ q[Len(q)] \in Names
          BY <3>2 DEF Parent, Prefix, Root
        <5>3. PICK f \in Seq(Names) : f = Follow(Parent(q))
          BY <5>2, FollowType
        <5>4. Entry(q) = Append(f, q[Len(q)])
          BY <3>2, <5>3 DEF Entry
        <5>5. Inside(Append(f, q[Len(q)]))
          BY <5>1, <5>2, <5>3, InsideBelow
        <5> QED BY <4>1, <5>4, <5>5 DEF Inside
      <4> QED BY <4>1, <4>2, <4>3
    <3> QED BY <3>1, <3>2, <3>3
  <2> QED BY <2>1 DEF ComponentsAccepted
<1> QED BY <1>1, <1>7, <1>8 DEF Accepts

\* Links that stay lead a path where they did.
LEMMA FollowSame ==
  ASSUME NEW p \in Seq(Names), Links' = Links, \A q \in Links : tree'[q].to = tree[q].to
  PROVE  Follow(p)' = Follow(p)
<1>1. \A q : IsA(q, "link") <=> q \in Links
  BY DEF IsA, Exists, Links
<1>2. \A q : IsA(q, "link")' <=> q \in Links
  BY DEF IsA, Exists, Links
<1>3. ASSUME NEW f, NEW i PROVE LandStep(p, f, i)' = LandStep(p, f, i)
  BY <1>1, <1>2 DEF LandStep
<1>4. ASSUME NEW f
      PROVE  [i \in 0..Len(p) |-> LandStep(p, f, i)'] = [i \in 0..Len(p) |-> LandStep(p, f, i)]
  BY <1>3
<1>5. Land(p)' = Land(p)
  <2>1. \A f : (f = [i \in 0..Len(p) |-> LandStep(p, f, i)'])
               <=> (f = [i \in 0..Len(p) |-> LandStep(p, f, i)])
    BY <1>4
  <2> QED BY <2>1 DEF Land
<1>6. Follow(p) = Land(p)[Len(p)]
  BY DEF Follow, Land, LandStep
<1>7. Follow(p)' = Land(p)'[Len(p)]
  BY DEF Follow, Land, LandStep
<1> QED BY <1>5, <1>6, <1>7

-----------------------------------------------------------------------------
(* What a process finds in a workspace that is ready for it *)

\* What a process finds in a workspace that is ready for it.
Grounds(k, T, R) ==
  /\ k \in Locals /\ LocalInv(k) /\ NameInv(k) /\ ~k.reuse
  /\ T = Follow(k.request) /\ R = RunsOf(k) /\ R = T \o <<CageName, RunsName>>
  /\ T \in Seq(Names) \ {Root} /\ IsA(T, "dir") /\ IsA(Parent(T), "dir")
  /\ Inside(T) /\ NoTraversal(T)
  /\ R \in Seq(Names) \ {Root} /\ IsA(R, "dir") /\ Inside(R) /\ NoTraversal(R)
  /\ Accepts(k.request) /\ Canonical(k.request) = T
HostPaths == \A q \in DOMAIN tree : tree[q].by = Host => NoTraversal(q)

LEMMA InsideIsBelow ==
  ASSUME NEW q \in Seq(Names), Inside(q)
  PROVE  q # Root /\ StartsWith(q, Workspace)
<1>1. Workspace \in Seq(Names) /\ StartsWith(q, Workspace) /\ q # Workspace
  BY Fixed DEF Inside
<1>2. ASSUME q = Root PROVE FALSE
  <2>1. Len(q) = 0
    BY <1>2 DEF Root
  <2>2. Len(Workspace) = 0
    BY <1>1, <2>1 DEF StartsWith
  <2> QED BY <1>1, <2>1, <2>2
<1> QED BY <1>1, <1>2

LEMMA Grounded ==
  ASSUME TreeInv, ClosedInv, HostPaths, NEW k, LocalInv(k), NameInv(k), Ready(k)
  PROVE  \E T, R : Grounds(k, T, R)
<1>1. PICK T : T = Follow(k.request)
  OBVIOUS
<1>2. PICK R : R = RunsOf(k)
  OBVIOUS
<1>3. k \in Locals /\ k.request \in Seq(Names)
  BY LocalFacts
<1>4. T \in Seq(Names) /\ Inside(T)
  BY <1>1, <1>3, FollowType DEF Ready, RequestIsPlain
<1>5. T # Root /\ StartsWith(T, Workspace)
  BY <1>4, InsideIsBelow
<1>6. R = T \o <<CageName, RunsName>> /\ R \in Seq(Names) /\ Inside(R)
      /\ Len(R) = Len(T) + 2 /\ Prefix(R, Len(T)) = T
  <2>1. R = T \o <<CageName, RunsName>>
    BY <1>1, <1>2 DEF RunsOf
  <2>2. <<CageName, RunsName>> \in Seq(Names) /\ <<CageName, RunsName>> # << >>
    BY Fixed
  <2>3. R \in Seq(Names) /\ Inside(R)
    BY <1>4, <1>5, <2>1, <2>2, InsideFurther
  <2>4. Len(R) = Len(T) + 2 /\ Prefix(R, Len(T)) = T
    BY <1>4, <2>1, Fixed DEF Prefix
  <2> QED BY <2>1, <2>3, <2>4
<1>7. R # Root
  BY <1>6, InsideIsBelow
<1>8. IsA(R, "dir") /\ NoTraversal(R)
  BY <1>2 DEF Ready, OfHost, HostPaths, Exists
<1>9. IsA(T, "dir") /\ IsA(Parent(T), "dir")
  <2>1. Len(T) \in 0..(Len(R) - 1) /\ Len(T) - 1 \in 0..(Len(R) - 1)
    BY <1>4, <1>5, <1>6 DEF Root
  <2>2. IsA(Prefix(R, Len(T)), "dir") /\ IsA(Prefix(R, Len(T) - 1), "dir")
    BY <1>8, <2>1, ClosedUp DEF IsA, Exists
  <2>3. Prefix(R, Len(T) - 1) = Parent(T)
    <3>1. Prefix(R, Len(T) - 1) = Prefix(Prefix(R, Len(T)), Len(T) - 1)
      BY <1>4, <1>6, <2>1 DEF Prefix
    <3> QED BY <1>6, <3>1 DEF Parent
  <2> QED BY <1>6, <2>2, <2>3
<1>10. NoTraversal(T)
  <2>1. ASSUME NEW i \in 1..Len(T) PROVE T[i] # ".."
    <3>1. i \in 1..Len(R) /\ R[i] = T[i]
      BY <1>4, <1>6, Fixed
    <3> QED BY <1>8, <3>1 DEF NoTraversal
  <2> QED BY <2>1 DEF NoTraversal
<1>11. Accepts(k.request) /\ Canonical(k.request) = T
  BY <1>1, <1>3, <1>9, RequestAccepted DEF Ready
<1> QED BY <1>1, <1>2, <1>3, <1>4, <1>5, <1>6, <1>7, <1>8, <1>9, <1>10, <1>11 DEF Grounds, Ready

\* The run a process has claimed there, and its build directory.
RunGrounds(k, run, goal) ==
  /\ run = k.run /\ goal = Append(run, BuildName)
  /\ run \in Seq(Names) \ {Root} /\ IsA(run, "dir") /\ Inside(run) /\ NoTraversal(run)
  /\ goal \in Seq(Names) \ {Root} /\ Parent(goal) = run /\ Inside(goal) /\ NoTraversal(goal)
  /\ Exists(goal) => IsA(goal, "dir")
  /\ Vetted(run)
  /\ Claimed(k) /\ RunOf(k) = run

LEMMA NamesTheRun ==
  ASSUME NEW k, NEW T, NEW R, Grounds(k, T, R), NEW x, x \in Names, x # ".."
  PROVE  /\ Append(R, x) \in Seq(Names) \ {Root} /\ Inside(Append(R, x))
         /\ NoTraversal(Append(R, x)) /\ Parent(Append(R, x)) = R
<1>1. R \in Seq(Names) /\ StartsWith(R, Workspace) /\ NoTraversal(R)
  BY InsideIsBelow DEF Grounds
<1>2. Append(R, x) \in Seq(Names) /\ Inside(Append(R, x))
  BY <1>1, InsideBelow
<1>3. Append(R, x) # Root
  BY <1>2, InsideIsBelow
<1>4. NoTraversal(Append(R, x))
  BY <1>1 DEF NoTraversal
<1>5. Parent(Append(R, x)) = R
  BY <1>1 DEF Parent, Prefix
<1> QED BY <1>2, <1>3, <1>4, <1>5

LEMMA RunNameFacts ==
  ASSUME NEW k \in Locals, k.attempt \in DOMAIN RunNames[k.key]
  PROVE  \A i \in DOMAIN RunNames[k.key] :
           /\ RunNames[k.key][i] \in Names /\ RunNames[k.key][i] # ".."
           /\ RunNames[k.key][i] \in AllRunNames
<1>1. k.key \in DOMAIN RunNames /\ RunNames[k.key] \in Seq(Names)
  BY PrepAssumption DEF Locals
<1>2. \A i \in DOMAIN RunNames[k.key] : RunNames[k.key][i] \in Names
  BY <1>1
<1>3. \A i \in DOMAIN RunNames[k.key] : RunNames[k.key][i] \in AllRunNames
  BY <1>1 DEF AllRunNames, RunNamesOf
<1>4. ".." \notin AllRunNames
  BY RunNameAssumption
<1> QED BY <1>2, <1>3, <1>4

LEMMA HasItsRunThere ==
  ASSUME PrepInv, ApartInv, MadeOnly, NEW p \in Procs, RunInv(p),
         NEW k, k = proc[p], NEW T, NEW R, Grounds(k, T, R), OnBuild(k)
  PROVE  \E run, goal : RunGrounds(k, run, goal)
<1>1. PICK run : run = k.run
  OBVIOUS
<1>2. k.attempt \in DOMAIN RunNames[k.key] /\ k \in Locals
  BY LocalFacts DEF Grounds
<1>3. PICK x : x = RunNames[k.key][k.attempt]
  OBVIOUS
<1>4. x \in Names /\ x # ".."
  BY <1>2, <1>3, RunNameFacts
<1>5. run = Append(R, x)
  BY <1>1, <1>3 DEF OnBuild, NamedRun, Grounds
<1>6. run \in Seq(Names) \ {Root} /\ Inside(run) /\ NoTraversal(run) /\ Parent(run) = R
  BY <1>4, <1>5, NamesTheRun
<1>7. IsolatedBuild(k) /\ Claimed(k) /\ RunOf(k) = run
  BY <1>1, HasItsRun DEF OnBuild, Grounds, IsolatedBuild
<1>8. IsA(run, "dir") /\ tree[run].by = p
  BY <1>7 DEF RunInv
<1>9. PICK goal : goal = Append(run, BuildName)
  OBVIOUS
<1>10. /\ goal \in Seq(Names) \ {Root} /\ Parent(goal) = run /\ Inside(goal)
       /\ NoTraversal(goal) /\ StartsWith(goal, run)
  <2>1. BuildName \in Names /\ BuildName # ".."
    BY Fixed DEF BuildName
  <2>2. StartsWith(run, Workspace)
    BY <1>6, InsideIsBelow
  <2>3. goal \in Seq(Names) /\ Inside(goal)
    BY <1>6, <1>9, <2>1, <2>2, InsideBelow
  <2>4. goal # Root
    BY <2>3, InsideIsBelow
  <2>5. NoTraversal(goal)
    BY <1>6, <1>9, <2>1 DEF NoTraversal
  <2>6. Parent(goal) = run /\ StartsWith(goal, run)
    BY <1>6, <1>9, <2>1 DEF Parent, Prefix, StartsWith
  <2> QED BY <2>3, <2>4, <2>5, <2>6
<1>11. ASSUME NEW q \in DOMAIN tree, StartsWith(q, run)
       PROVE  tree[q].kind = "dir" /\ tree[q].names = 1
  <2>1. tree[q].by # Host
    BY <1>7, <1>11 DEF ApartInv
  <2>2. PICK r \in Procs : tree[q].by = r
    <3>1. tree[q] \in EntriesBy(Procs \cup {Host})
      BY TreeTypes DEF PrepInv
    <3> QED BY <2>1, <3>1 DEF EntriesBy
  <2>3. tree[q] = Dir(r)
    BY <2>2 DEF MadeOnly
  <2> QED BY <2>3 DEF Dir
<1>12. Exists(goal) => IsA(goal, "dir")
  BY <1>10, <1>11 DEF IsA, Exists
<1>13. Vetted(run)
  <2>1. PlainTree(run)
    BY <1>11 DEF PlainTree
  <2>2. \A n \in 0..Len(run) : Lstat(Prefix(run, n)) = "dir"
    BY <1>6, <1>8, PlainDir DEF ApartInv
  <2>3. Prefix(run, Len(run)) = run /\ Len(run) \in Nat
    BY <1>6 DEF Prefix
  <2>4. run # None
    <3>1. ~NoTraversal(None)
      BY DEF None, NoTraversal
    <3> QED BY <1>6, <3>1
  <2>5. Lstat(run) = "dir" /\ \A i \in 1..(Len(run) - 1) : Lstat(Prefix(run, i)) = "dir"
    <3>1. Len(run) \in 0..Len(run)
      BY <2>3
    <3>2. \A i \in 1..(Len(run) - 1) : i \in 0..Len(run)
      BY <2>3
    <3> QED BY <2>2, <2>3, <3>1, <3>2
  <2> QED BY <2>1, <2>4, <2>5 DEF Vetted, Real
<1> QED BY <1>1, <1>6, <1>7, <1>8, <1>9, <1>10, <1>12, <1>13 DEF RunGrounds

-----------------------------------------------------------------------------
(* What keeps a process on its way *)

LEMMA FollowKept ==
  ASSUME PrepInv, NEW p \in Procs, Prepare(p)
  PROVE  /\ Keeps /\ Links' = Links
         /\ \A r \in Seq(Names) : Follow(r)' = Follow(r)
<1>1. Keeps
  BY PrepareFine DEF Fine
<1>2. \A q \in DOMAIN tree' \ DOMAIN tree : tree'[q].kind # "link"
  <2>1. CASE UNCHANGED tree
    BY <2>1
  <2>2. CASE MadeBy(p, MadeAt(proc[p]))
    BY <2>2 DEF MadeBy, Put
  <2> QED BY <2>1, <2>2, Makes
<1>3. Links' = Links
  BY <1>1, <1>2 DEF Links, Keeps
<1>4. \A q \in Links : tree'[q].to = tree[q].to
  BY <1>1 DEF Links, Keeps
<1>5. ASSUME NEW r \in Seq(Names) PROVE Follow(r)' = Follow(r)
  BY <1>3, <1>4, FollowSame
<1> QED BY <1>1, <1>3, <1>5

\* Where a process is on its track, it stays while others make other things.
BuildAfter(l) ==
  /\ l.stage = "build"
  /\ l.pc \in {"validate", "inspect", "make", "confirm",
              "lock", "vet", "openRun", "openLock", "mounted"}
  /\ l.run = NamedRun(l, l.attempt) /\ l.goal = Append(l.run, BuildName)
  /\ l.pc = "make" => l.depth = Len(l.goal) /\ l.goal \notin DOMAIN tree'
  /\ l.pc = "confirm" => l.goal \in DOMAIN tree' /\ tree'[l.goal].kind = "dir"

LEMMA TrackKept ==
  ASSUME NEW l, Follow(l.request)' = Follow(l.request), Keeps,
         OnBase(l) \/ OnFresh(l) \/ OnRuns(l) \/ BuildAfter(l)
  PROVE  OnTrack(l)'
<1>1. RunsOf(l)' = RunsOf(l)
  BY DEF RunsOf
<1>2. ASSUME NEW i PROVE NamedRun(l, i)' = NamedRun(l, i)
  BY <1>1 DEF NamedRun
<1>3. CASE OnBase(l)
  BY <1>3 DEF OnBase, OnTrack
<1>4. CASE OnFresh(l)
  BY <1>4 DEF OnFresh, OnTrack
<1>5. CASE OnRuns(l)
  BY <1>1, <1>2, <1>5 DEF OnRuns, OnTrack, Exists, Keeps
<1>6. CASE BuildAfter(l)
  BY <1>2, <1>6 DEF BuildAfter, OnBuild, OnTrack, Exists, IsA
<1> QED BY <1>3, <1>4, <1>5, <1>6

Going(p, l) ==
  /\ Go(p, l) /\ l.request = proc[p].request /\ l.key = proc[p].key /\ l.reuse = proc[p].reuse
  /\ OnTrack(l)'
  /\ Claimed(proc[p]) => Claimed(l) /\ RunOf(l) = RunOf(proc[p])
  /\ \A q \in DOMAIN tree' \ DOMAIN tree :
       /\ tree'[q] = Dir(p) /\ Claimed(l)
       /\ q \in {RunOf(l), Append(RunOf(l), BuildName)}
Serves(p) == \E l : Going(p, l)

ServingInv == PrepInv /\ CalmInv /\ IsolationInv /\ ServeInv /\ Serving

\* All a step of a process on its track starts from.
LEMMA ServingFacts ==
  ASSUME ServingInv, NEW p \in Procs, NEW k, k = proc[p]
  PROVE  /\ TreeInv /\ ClosedInv /\ ApartInv /\ RunInv(p) /\ MadeOnly /\ OnTrack(k)
         /\ LocalInv(k) /\ NameInv(k) /\ WayInv(Links, k) /\ moves = 0
         /\ \E T, R : Grounds(k, T, R)
         /\ OnBuild(k) => \E run, goal : RunGrounds(k, run, goal)
<1>1. moves = 0 /\ Apart /\ Calm
  BY DEF ServingInv, Serving, Apart, Calm
<1>2. TreeInv /\ LocalInv(k) /\ PrepInv
  BY DEF ServingInv, PrepInv
<1>3. ApartInv /\ RunInv(p) /\ ClosedInv /\ NameInv(k)
  <2>1. ApartInv /\ RunInv(p)
    BY <1>1 DEF ServingInv, IsolationInv
  <2> QED BY <2>1 DEF ApartInv
<1>4. WayInv(Links, k)
  BY <1>1 DEF ServingInv, CalmInv
<1>5. MadeOnly /\ OnTrack(k) /\ Ready(k) /\ HostPaths
  BY <1>1 DEF ServingInv, ServeInv, Serving, HostPaths
<1>6. \E T, R : Grounds(k, T, R)
  BY <1>2, <1>3, <1>5, Grounded
<1>7. ASSUME OnBuild(k) PROVE \E run, goal : RunGrounds(k, run, goal)
  BY <1>2, <1>3, <1>5, <1>6, <1>7, HasItsRunThere
<1> QED BY <1>1, <1>2, <1>3, <1>4, <1>5, <1>6, <1>7

\* A step that only reads.
LEMMA ReadsOn ==
  ASSUME ServingInv, NEW p \in Procs, Prepare(p), UNCHANGED tree, NEW k, k = proc[p], NEW l, Go(p, l),
         l.request = k.request, l.key = k.key, l.reuse = k.reuse, OnTrack(l),
         Claimed(k) => Claimed(l) /\ RunOf(l) = RunOf(k)
  PROVE  Serves(p)
<1>1. k.request \in Seq(Names)
  BY LocalFacts DEF ServingInv, PrepInv
<1>2. Keeps /\ Follow(l.request)' = Follow(l.request)
  BY <1>1, FollowKept DEF ServingInv
<1>3. OnBuild(l) => BuildAfter(l)
  BY DEF OnBuild, BuildAfter, Exists, IsA
<1>4. OnTrack(l)'
  BY <1>2, <1>3, TrackKept DEF OnTrack
<1> QED BY <1>4 DEF Serves, Going

LEMMA ValidateOn ==
  ASSUME ServingInv, NEW p \in Procs, Validate(p)
  PROVE  Serves(p)
<1>0. PICK k : k = proc[p]
  OBVIOUS
<1>1. /\ TreeInv /\ ClosedInv /\ OnTrack(k) /\ LocalInv(k) /\ k \in Locals
      /\ k.pc = "validate" /\ Prepare(p) /\ UNCHANGED tree
      /\ OnBuild(k) => \E run, goal : RunGrounds(k, run, goal)
  BY <1>0, ServingFacts, LocalFacts DEF Validate, At, Reads, Prepare
<1>2. PICK T, R : Grounds(k, T, R)
  BY <1>0, ServingFacts
<1>3. Accepts(k.goal) /\ OnTrack(Creating(k, k.stage, Canonical(k.goal)))
      /\ (Claimed(k) => k.stage = "build")
  <2>0. PICK l : l = Creating(k, k.stage, Canonical(k.goal))
    OBVIOUS
  <2>1. /\ l.pc = "inspect" /\ l.stage = k.stage /\ l.goal = Canonical(k.goal) /\ l.attempt = k.attempt
        /\ l.request = k.request /\ l.run = k.run /\ l.key = k.key
    BY <1>1, <2>0 DEF Creating, Locals
  <2>2. CASE OnBase(k)
    <3>1. k.goal = k.request /\ Accepts(k.goal) /\ Canonical(k.goal) = Follow(k.request)
      BY <1>1, <1>2, <2>2 DEF OnBase, Grounds
    <3>2. OnBase(l) /\ ~Claimed(k)
      BY <1>1, <1>2, <2>1, <2>2, <3>1 DEF OnBase, Claimed, Grounds, NameInv
    <3> QED BY <2>0, <3>1, <3>2 DEF OnTrack
  <2>3. CASE OnFresh(k)
    <3>1. Accepts(T) /\ Canonical(T) = T
      BY <1>1, <1>2, PlainAccepted DEF Grounds
    <3>2. k.goal = T /\ T = Follow(k.request)
      BY <1>2, <2>3 DEF OnFresh, Grounds
    <3>3. OnFresh(l) /\ ~Claimed(k)
      BY <1>1, <1>2, <2>1, <2>3, <3>1, <3>2 DEF OnFresh, Claimed, Grounds, NameInv
    <3> QED BY <2>0, <3>1, <3>2, <3>3 DEF OnTrack
  <2>4. CASE OnBuild(k)
    <3>1. PICK run, goal : RunGrounds(k, run, goal)
      BY <1>1, <2>4
    <3>2. Accepts(goal) /\ Canonical(goal) = goal
      BY <1>1, <3>1, PlainAccepted DEF RunGrounds
    <3>3. k.goal = goal
      BY <2>4, <3>1 DEF OnBuild, RunGrounds
    <3>4. NamedRun(l, l.attempt) = NamedRun(k, k.attempt)
      BY <2>1 DEF NamedRun, RunsOf
    <3>5. OnBuild(l)
      BY <2>1, <2>4, <3>2, <3>3, <3>4 DEF OnBuild
    <3> QED BY <2>0, <2>4, <3>2, <3>3, <3>5 DEF OnTrack, OnBuild
  <2> QED BY <1>1, <2>2, <2>3, <2>4 DEF OnTrack, OnRuns
<1>4. PICK l : l = Creating(k, k.stage, Canonical(k.goal))
  OBVIOUS
<1>5. Go(p, l)
  BY <1>0, <1>3, <1>4 DEF Validate
<1>6. /\ l.request = k.request /\ l.key = k.key /\ l.reuse = k.reuse /\ l.run = k.run
      /\ l.pc = "inspect"
  BY <1>1, <1>4 DEF Creating, Locals
<1>7. Claimed(k) => Claimed(l) /\ RunOf(l) = RunOf(k)
  BY <1>1, <1>6 DEF Claimed, RunOf
<1> QED BY <1>0, <1>1, <1>3, <1>4, <1>5, <1>6, <1>7, ReadsOn

\* One component further, as far as the goal is there.
LEMMA DeeperOn ==
  ASSUME NEW k, NEW T, NEW R, Grounds(k, T, R), OnTrack(k), k.pc = "inspect",
         k.depth \in 1..Len(k.goal), k.depth < Len(k.goal) \/ k.stage # "build"
  PROVE  /\ OnTrack(Deeper(k))
         /\ Deeper(k).request = k.request /\ Deeper(k).key = k.key
         /\ Deeper(k).reuse = k.reuse /\ Deeper(k).run = k.run /\ Deeper(k).pc # "check"
<1>1. k \in Locals
  BY DEF Grounds
<1>2. CASE k.depth < Len(k.goal)
  <2>1. PICK l : l = Deeper(k)
    OBVIOUS
  <2>2. /\ l.pc = "inspect" /\ l.stage = k.stage /\ l.goal = k.goal /\ l.attempt = k.attempt
        /\ l.request = k.request /\ l.run = k.run /\ l.key = k.key /\ l.reuse = k.reuse
    BY <1>1, <1>2, <2>1 DEF Deeper, Locals
  <2>3. RunsOf(l) = RunsOf(k) /\ \A i : NamedRun(l, i) = NamedRun(k, i)
    BY <2>2 DEF NamedRun, RunsOf
  <2>4. OnTrack(l)
    BY <2>2, <2>3 DEF OnTrack, OnBase, OnFresh, OnRuns, OnBuild
  <2> QED BY <2>1, <2>2, <2>4
<1>3. CASE ~(k.depth < Len(k.goal)) /\ k.stage = "base"
  <2>1. PICK l : l = Deeper(k)
    OBVIOUS
  <2>2. l = [k EXCEPT !.pc = "confirm"]
    BY <1>3, <2>1 DEF Deeper
  <2>3. /\ l.pc = "confirm" /\ l.stage = k.stage /\ l.goal = k.goal /\ l.attempt = k.attempt
        /\ l.request = k.request /\ l.run = k.run /\ l.key = k.key /\ l.reuse = k.reuse
    BY <1>1, <2>2 DEF Locals
  <2>4. OnTrack(l)
    BY <1>3, <2>3 DEF OnTrack, OnBase, OnFresh, OnRuns, OnBuild
  <2> QED BY <2>1, <2>3, <2>4
<1>4. CASE ~(k.depth < Len(k.goal)) /\ k.stage = "fresh"
  <2>1. PICK l : l = Deeper(k)
    OBVIOUS
  <2>2. l = Creating(k, "runs", k.goal \o <<CageName, RunsName>>)
    BY <1>4, <2>1 DEF Deeper
  <2>3. /\ l.pc = "inspect" /\ l.stage = "runs" /\ l.goal = k.goal \o <<CageName, RunsName>>
        /\ l.attempt = k.attempt
        /\ l.request = k.request /\ l.run = k.run /\ l.key = k.key /\ l.reuse = k.reuse
    BY <1>1, <2>2 DEF Locals, Creating
  <2>4. k.attempt = 1 /\ k.goal = Follow(k.request)
    BY <1>4 DEF OnTrack, OnBase, OnFresh, OnRuns, OnBuild
  <2>5. OnTrack(l)
    BY <2>3, <2>4 DEF OnTrack, OnRuns, RunsOf
  <2> QED BY <2>1, <2>3, <2>5
<1>5. CASE ~(k.depth < Len(k.goal)) /\ k.stage = "runs"
  <2>1. PICK l : l = Deeper(k)
    OBVIOUS
  <2>2. l = [k EXCEPT !.pc = "claim"]
    BY <1>5, <2>1 DEF Deeper
  <2>3. /\ l.pc = "claim" /\ l.stage = k.stage /\ l.goal = k.goal /\ l.attempt = k.attempt
        /\ l.request = k.request /\ l.run = k.run /\ l.key = k.key /\ l.reuse = k.reuse
    BY <1>1, <2>2 DEF Locals
  <2>4. RunsOf(l) = RunsOf(k) /\ \A i : NamedRun(l, i) = NamedRun(k, i)
    BY <2>3 DEF NamedRun, RunsOf
  <2>5. OnTrack(l)
    BY <1>5, <2>3, <2>4 DEF OnTrack, OnBase, OnFresh, OnRuns, OnBuild
  <2> QED BY <2>1, <2>3, <2>5
<1>6. k.stage \in {"base", "fresh", "runs", "build"}
  BY <1>1 DEF Locals, Stages
<1> QED BY <1>2, <1>3, <1>4, <1>5, <1>6

LEMMA InspectOn ==
  ASSUME ServingInv, NEW p \in Procs, InspectComponent(p)
  PROVE  Serves(p)
<1>0. PICK k : k = proc[p]
  OBVIOUS
<1>1. /\ TreeInv /\ ClosedInv /\ OnTrack(k) /\ LocalInv(k) /\ NameInv(k) /\ k \in Locals
      /\ k.pc = "inspect" /\ Prepare(p) /\ UNCHANGED tree
      /\ OnBuild(k) => \E run, goal : RunGrounds(k, run, goal)
  BY <1>0, ServingFacts, LocalFacts DEF InspectComponent, At, Reads, Prepare
<1>2. PICK T, R : Grounds(k, T, R)
  BY <1>0, ServingFacts
<1>3. PICK found : found = Lstat(Prefix(k.goal, k.depth))
  OBVIOUS
<1>4. k.depth \in 1..Len(k.goal) /\ k.goal \in Seq(Names) /\ Len(k.goal) \in Nat
  BY <1>1, LocalFacts DEF NameInv
<1>5. CASE k.depth < Len(k.goal) \/ k.stage # "build"
  <2>1. found = "dir"
    <3>1. CASE k.stage # "build"
      <4>1. k.goal \in {T, R}
        BY <1>1, <1>2, <3>1 DEF OnTrack, OnBase, OnFresh, OnRuns, OnBuild, Grounds
      <4>2. PICK g \in Seq(Names) : g = k.goal /\ IsA(g, "dir")
        BY <1>2, <4>1 DEF Grounds
      <4>3. k.depth \in 0..Len(g)
        BY <1>4, <4>2
      <4>4. Lstat(Prefix(g, k.depth)) = "dir"
        BY <1>1, <4>2, <4>3, PlainDir
      <4> QED BY <1>3, <4>2, <4>4
    <3>2. CASE k.stage = "build"
      <4>1. OnBuild(k)
        BY <1>1, <3>2 DEF OnTrack, OnBase, OnFresh, OnRuns
      <4>2. PICK run, goal : RunGrounds(k, run, goal)
        BY <1>1, <4>1
      <4>3. k.goal = goal
        BY <4>1, <4>2 DEF OnBuild, RunGrounds
      <4>4. \A n \in 0..(Len(goal) - 1) : Lstat(Prefix(goal, n)) = "dir"
        <5>1. goal \in Seq(Names) /\ goal # Root /\ IsA(Parent(goal), "dir")
          BY <4>2 DEF RunGrounds
        <5> QED BY <1>1, <5>1, PlainPath
      <4>5. k.depth \in 0..(Len(goal) - 1)
        BY <1>4, <1>5, <3>2, <4>3
      <4> QED BY <1>3, <4>3, <4>4, <4>5
    <3> QED BY <3>1, <3>2
  <2>2. Go(p, Deeper(k))
    BY <1>0, <1>3, <2>1 DEF InspectComponent
  <2>3. PICK l : l = Deeper(k)
    OBVIOUS
  <2>4. /\ OnTrack(l) /\ l.request = k.request /\ l.key = k.key
        /\ l.reuse = k.reuse /\ l.run = k.run /\ l.pc # "check"
    BY <1>1, <1>2, <1>4, <1>5, <2>3, DeeperOn
  <2>5. Claimed(k) => Claimed(l) /\ RunOf(l) = RunOf(k)
    BY <1>1, <2>4 DEF Claimed, RunOf
  <2> QED BY <1>0, <1>1, <2>2, <2>3, <2>4, <2>5, ReadsOn
<1>6. CASE k.depth = Len(k.goal) /\ k.stage = "build"
  <2>1. OnBuild(k)
    BY <1>1, <1>6 DEF OnTrack, OnBase, OnFresh, OnRuns
  <2>2. PICK run, goal : RunGrounds(k, run, goal)
    BY <1>1, <2>1
  <2>3. k.goal = goal /\ Prefix(k.goal, k.depth) = goal
    <3>1. k.goal = goal
      BY <2>1, <2>2 DEF OnBuild, RunGrounds
    <3>2. Prefix(goal, Len(goal)) = goal
      BY <2>2 DEF RunGrounds, Prefix
    <3> QED BY <1>6, <3>1, <3>2
  <2>4. found = IF Exists(goal) THEN "dir" ELSE "absent"
    <3>1. Lstat(goal) = IF Exists(goal) THEN tree[goal].kind ELSE "absent"
      <4>1. goal \in Seq(Names) /\ goal # Root /\ IsA(Parent(goal), "dir")
        BY <2>2 DEF RunGrounds
      <4> QED BY <1>1, <4>1, PlainPath
    <3> QED BY <1>3, <2>2, <2>3, <3>1 DEF RunGrounds, IsA
  <2>5. PICK pc : pc = IF Exists(goal) THEN "confirm" ELSE "make"
    OBVIOUS
  <2>6. PICK l : l = [k EXCEPT !.pc = pc]
    OBVIOUS
  <2>7. Go(p, l)
    <3>1. CASE Exists(goal)
      <4>1. Go(p, Deeper(k))
        BY <1>0, <1>3, <2>4, <3>1 DEF InspectComponent
      <4>2. Deeper(k) = l
        BY <1>4, <1>6, <2>5, <2>6, <3>1 DEF Deeper
      <4> QED BY <4>1, <4>2
    <3>2. CASE ~Exists(goal)
      BY <1>0, <1>3, <2>4, <2>5, <2>6, <3>2 DEF InspectComponent, Goto
    <3> QED BY <3>1, <3>2
  <2>8. /\ l.pc = pc /\ l.stage = k.stage /\ l.goal = k.goal /\ l.attempt = k.attempt
        /\ l.request = k.request /\ l.run = k.run /\ l.key = k.key /\ l.reuse = k.reuse
        /\ l.depth = k.depth
    BY <1>1, <2>6 DEF Locals
  <2>9. OnBuild(l)
    <3>1. NamedRun(l, l.attempt) = NamedRun(k, k.attempt)
      BY <2>8 DEF NamedRun, RunsOf
    <3>2. Exists(goal) => IsA(goal, "dir")
      BY <2>2 DEF RunGrounds
    <3> QED BY <1>6, <2>1, <2>3, <2>5, <2>8, <3>1, <3>2 DEF OnBuild
  <2>10. Claimed(k) => Claimed(l) /\ RunOf(l) = RunOf(k)
    BY <1>1, <2>5, <2>8 DEF Claimed, RunOf
  <2> QED BY <1>0, <1>1, <2>7, <2>8, <2>9, <2>10, ReadsOn DEF OnTrack
<1> QED BY <1>4, <1>5, <1>6

LEMMA MakeOn ==
  ASSUME ServingInv, NEW p \in Procs, MakeComponent(p)
  PROVE  Serves(p)
<1>0. PICK k : k = proc[p]
  OBVIOUS
<1>1. /\ TreeInv /\ ClosedInv /\ OnTrack(k) /\ LocalInv(k) /\ k \in Locals
      /\ k.pc = "make" /\ Prepare(p) /\ k.request \in Seq(Names)
      /\ OnBuild(k) => \E run, goal : RunGrounds(k, run, goal)
  BY <1>0, ServingFacts, LocalFacts DEF MakeComponent, At, Prepare
<1>2. OnBuild(k)
  BY <1>1 DEF OnTrack, OnBase, OnFresh, OnRuns
<1>3. PICK run, goal : RunGrounds(k, run, goal)
  BY <1>1, <1>2
<1>4. k.goal = goal /\ k.depth = Len(goal) /\ ~Exists(goal) /\ Prefix(k.goal, k.depth) = goal
  <2>1. k.goal = goal /\ k.depth = Len(goal) /\ ~Exists(goal)
    BY <1>1, <1>2, <1>3 DEF OnBuild, RunGrounds
  <2>2. Prefix(goal, Len(goal)) = goal
    BY <1>3 DEF RunGrounds, Prefix
  <2> QED BY <2>1, <2>2
<1>5. Entry(goal) = goal /\ CanMake(goal)
  <2>1. Entry(goal) = goal /\ Follow(Parent(goal)) = Parent(goal)
    <3>1. goal \in Seq(Names) /\ goal # Root /\ IsA(Parent(goal), "dir")
      BY <1>3 DEF RunGrounds
    <3> QED BY <1>1, <3>1, PlainPath
  <2> QED BY <1>3, <1>4, <2>1 DEF CanMake, RunGrounds
<1>6. PICK l : l = [k EXCEPT !.pc = "confirm"]
  OBVIOUS
<1>7. Go(p, l) /\ Put(goal, Dir(p))
  <2>1. Go(p, Deeper(k)) /\ Put(goal, Dir(p))
    BY <1>0, <1>4, <1>5 DEF MakeComponent
  <2>2. Deeper(k) = l
    <3>1. ~(k.depth < Len(k.goal)) /\ k.stage = "build"
      BY <1>2, <1>3, <1>4 DEF OnBuild, RunGrounds
    <3> QED BY <1>6, <3>1 DEF Deeper
  <2> QED BY <2>1, <2>2
<1>8. /\ l.pc = "confirm" /\ l.stage = k.stage /\ l.goal = k.goal /\ l.attempt = k.attempt
      /\ l.request = k.request /\ l.run = k.run /\ l.key = k.key /\ l.reuse = k.reuse
  BY <1>1, <1>6 DEF Locals
<1>9. goal \in DOMAIN tree' /\ tree'[goal] = Dir(p) /\ DOMAIN tree' \ DOMAIN tree = {goal}
  BY <1>4, <1>7 DEF Put, Exists
<1>10. OnTrack(l)'
  <2>1. NamedRun(l, l.attempt) = NamedRun(k, k.attempt)
    BY <1>8 DEF NamedRun, RunsOf
  <2>2. BuildAfter(l)
    <3>1. l.goal \in DOMAIN tree' /\ tree'[l.goal].kind = "dir"
      BY <1>4, <1>8, <1>9 DEF Dir
    <3>2. l.stage = "build" /\ l.run = NamedRun(l, l.attempt) /\ l.goal = Append(l.run, BuildName)
      BY <1>2, <1>8, <2>1 DEF OnBuild
    <3> QED BY <1>8, <3>1, <3>2 DEF BuildAfter
  <2>3. Keeps /\ Follow(l.request)' = Follow(l.request)
    BY <1>1, <1>8, FollowKept DEF ServingInv
  <2> QED BY <2>2, <2>3, TrackKept
<1>11. Claimed(k) /\ Claimed(l) /\ RunOf(l) = RunOf(k) /\ goal = Append(RunOf(l), BuildName)
  BY <1>1, <1>3, <1>8 DEF RunGrounds, Claimed, RunOf
<1> QED BY <1>0, <1>7, <1>8, <1>9, <1>10, <1>11 DEF Serves, Going

LEMMA ConfirmOn ==
  ASSUME ServingInv, NEW p \in Procs, Confirm(p)
  PROVE  Serves(p)
<1>0. PICK k : k = proc[p]
  OBVIOUS
<1>1. /\ TreeInv /\ ClosedInv /\ OnTrack(k) /\ LocalInv(k) /\ NameInv(k) /\ k \in Locals
      /\ k.pc = "confirm" /\ Prepare(p) /\ UNCHANGED tree
      /\ OnBuild(k) => \E run, goal : RunGrounds(k, run, goal)
  BY <1>0, ServingFacts, LocalFacts DEF Confirm, At, Reads, Prepare
<1>2. PICK T, R : Grounds(k, T, R)
  BY <1>0, ServingFacts
<1>3. ASSUME NEW d \in Seq(Names) \ {Root}, IsA(d, "dir"), Inside(d), k.goal = d
      PROVE  Follow(k.goal) = d /\ Resolves(k.goal) /\ Inside(Follow(k.goal))
  <2>1. Follow(d) = d /\ ~ThroughFile(d)
    BY <1>1, <1>3, ClosedEntry DEF IsA, Exists
  <2> QED BY <1>3, <2>1 DEF Resolves, IsA
<1>4. CASE OnBase(k)
  <2>1. Follow(k.goal) = T /\ Resolves(k.goal) /\ Inside(Follow(k.goal)) /\ k.stage = "base"
        /\ ~k.reuse
    BY <1>1, <1>2, <1>3, <1>4 DEF OnBase, Grounds
  <2>2. PICK l : l = Validating([k EXCEPT !.base = T], "fresh", T)
    OBVIOUS
  <2>3. Go(p, l)
    BY <1>0, <2>1, <2>2 DEF Confirm
  <2>4. /\ l.pc = "validate" /\ l.stage = "fresh" /\ l.goal = T /\ l.attempt = k.attempt
        /\ l.request = k.request /\ l.run = k.run /\ l.key = k.key /\ l.reuse = k.reuse
    BY <1>1, <2>2 DEF Locals, Validating
  <2>5. OnTrack(l)
    BY <1>2, <1>4, <2>4 DEF OnTrack, OnBase, OnFresh, Grounds
  <2>6. ~Claimed(k)
    BY <1>1, <2>1 DEF Claimed, NameInv
  <2> QED BY <1>0, <1>1, <2>3, <2>4, <2>5, <2>6, ReadsOn
<1>5. CASE OnBuild(k)
  <2>1. PICK run, goal : RunGrounds(k, run, goal)
    BY <1>1, <1>5
  <2>2. k.stage = "build" /\ Resolves(k.goal) /\ Inside(Follow(k.goal))
    BY <1>1, <1>3, <1>5, <2>1 DEF OnBuild, RunGrounds
  <2>3. PICK l : l = [k EXCEPT !.pc = "lock"]
    OBVIOUS
  <2>4. Go(p, l)
    BY <1>0, <2>2, <2>3 DEF Confirm, Goto
  <2>5. /\ l.pc = "lock" /\ l.stage = k.stage /\ l.goal = k.goal /\ l.attempt = k.attempt
        /\ l.request = k.request /\ l.run = k.run /\ l.key = k.key /\ l.reuse = k.reuse
    BY <1>1, <2>3 DEF Locals
  <2>6. NamedRun(l, l.attempt) = NamedRun(k, k.attempt)
    BY <2>5 DEF NamedRun, RunsOf
  <2>7. OnTrack(l)
    BY <1>5, <2>5, <2>6 DEF OnTrack, OnBuild
  <2>8. Claimed(k) => Claimed(l) /\ RunOf(l) = RunOf(k)
    BY <1>1, <2>5 DEF Claimed, RunOf
  <2> QED BY <1>0, <1>1, <2>4, <2>5, <2>7, <2>8, ReadsOn
<1> QED BY <1>1, <1>4, <1>5 DEF OnTrack, OnFresh, OnRuns

-----------------------------------------------------------------------------
(* Run names do not run out *)

\* Every process but this one has taken one run name at most, and so one is free.
LEMMA OneIsFree ==
  ASSUME ServingInv, NEW p \in Procs, NEW k, k = proc[p], ~Claimed(k),
         \A i \in DOMAIN RunNames[k.key] : Exists(NamedRun(k, i))
  PROVE  FALSE
<1>1. /\ TreeInv /\ ApartInv /\ MadeOnly /\ LocalInv(k) /\ k \in Locals
      /\ k.attempt \in DOMAIN RunNames[k.key]
  BY ServingFacts, LocalFacts
<1>2. PICK T, R : Grounds(k, T, R)
  BY ServingFacts
<1>3. Ready(k) /\ IsFiniteSet(Procs)
  BY DEF ServingInv, ServeInv, Serving
<1>4. PICK names : names = RunNames[k.key]
  OBVIOUS
<1>5. names \in Seq(Names) /\ DOMAIN names = 1..Len(names) /\ Len(names) \in Nat
      /\ k.key \in DOMAIN RunNames
  BY <1>1, <1>4, PrepAssumption DEF Locals
<1>6. \A i \in DOMAIN names : names[i] \in Names /\ names[i] # ".." /\ names[i] \in AllRunNames
  BY <1>1, <1>4, RunNameFacts
<1>7. \A i \in DOMAIN names : NamedRun(k, i) = Append(R, names[i])
  BY <1>2, <1>4 DEF NamedRun, Grounds
<1> DEFINE D == DOMAIN names
<1> DEFINE H == Taken(k)
<1> DEFINE S == D \ H
<1> DEFINE P == Procs \ {p}
<1>8. IsFiniteSet(S) /\ IsFiniteSet(P) /\ Cardinality(P) < Cardinality(S)
  <2>1. IsFiniteSet(D) /\ Cardinality(D) = Len(names)
    <3>1. 1 \in Int /\ Len(names) \in Int
      BY <1>5
    <3>2. IsFiniteSet(1..Len(names))
          /\ Cardinality(1..Len(names)) = IF 1 > Len(names) THEN 0 ELSE Len(names) - 1 + 1
      BY <3>1, FS_Interval
    <3>3. Cardinality(1..Len(names)) = Len(names)
      BY <1>5, <3>2
    <3> QED BY <1>5, <3>2, <3>3
  <2>2. H \subseteq D
    BY <1>4 DEF Taken
  <2>3. IsFiniteSet(S) /\ Cardinality(S) = Cardinality(D) - Cardinality(H)
    <3> HIDE DEF D, H
    <3>1. IsFiniteSet(S) /\ Cardinality(S) = Cardinality(D) - Cardinality(D \cap H)
      BY <2>1, FS_Difference
    <3>2. D \cap H = H
      BY <2>2
    <3> QED BY <3>1, <3>2
  <2>4. IsFiniteSet(P) /\ Cardinality(P) = Cardinality(Procs) - 1
    BY <1>3, FS_RemoveElement
  <2>5. Cardinality(H) + Cardinality(Procs) <= Len(names)
    BY <1>3, <1>4 DEF Ready
  <2>6. Cardinality(Procs) \in Nat /\ Cardinality(H) \in Nat
    <3>1. IsFiniteSet(H)
      <4> HIDE DEF D, H
      <4> QED BY <2>1, <2>2, FS_Subset
    <3> QED BY <1>3, <3>1, FS_CardinalityType
  <2> HIDE DEF D, H, S, P
  <2> QED BY <1>5, <2>1, <2>3, <2>4, <2>5, <2>6
<1>9. ASSUME NEW i \in S
      PROVE  /\ Append(R, names[i]) \in DOMAIN tree
             /\ \E q \in P : tree[Append(R, names[i])].by = q /\ Append(R, names[i]) = RunOf(proc[q])
  <2>1. PICK x : x = Append(R, names[i])
    OBVIOUS
  <2>2. x \in DOMAIN tree /\ tree[x].by # Host
    <3>1. i \in DOMAIN RunNames[k.key] /\ i \notin Taken(k)
      BY <1>4, <1>9
    <3>2. x = NamedRun(k, i) /\ Exists(x)
      BY <1>4, <1>7, <2>1, <3>1
    <3>3. x = Append(RunsOf(k), RunNames[k.key][i])
      BY <3>2 DEF NamedRun
    <3> QED BY <3>1, <3>2, <3>3 DEF Taken, Exists
  <2>3. PICK q \in Procs : tree[x].by = q
    <3>1. tree[x] \in EntriesBy(Procs \cup {Host})
      BY <1>1, <2>2, TreeTypes
    <3> QED BY <2>2, <3>1 DEF EntriesBy
  <2>4. Claimed(proc[q]) /\ x \in {RunOf(proc[q]), Append(RunOf(proc[q]), BuildName)}
    BY <1>1, <2>2, <2>3 DEF MadeOnly
  <2>5. x # Append(RunOf(proc[q]), BuildName)
    <3>1. RunOf(proc[q]) \in Seq(Names)
      <4>1. LocalInv(proc[q]) /\ NameInv(proc[q])
        BY <1>1, ServingFacts
      <4>2. PICK l : l = proc[q]
        OBVIOUS
      <4> QED BY <2>4, <4>1, <4>2, RunOfName
    <3>2. PICK r \in Seq(Names) : r = RunOf(proc[q])
      BY <3>1
    <3>3. names[i] # BuildName
      BY <1>6, NameFacts DEF Common
    <3>4. R \in Seq(Names) /\ names[i] \in Names /\ BuildName \in Names
      BY <1>2, <1>6, Fixed DEF Grounds
    <3>5. Append(R, names[i]) # Append(r, BuildName)
      <4>1. SUFFICES ASSUME Append(R, names[i]) = Append(r, BuildName) PROVE FALSE
        OBVIOUS
      <4>2. Len(R) + 1 = Len(r) + 1
        BY <3>4, <4>1
      <4>3. Append(R, names[i])[Len(R) + 1] = names[i] /\ Append(r, BuildName)[Len(r) + 1] = BuildName
        BY <3>4
      <4> QED BY <3>3, <4>1, <4>2, <4>3
    <3> QED BY <2>1, <3>2, <3>5
  <2>6. q # p
    BY <2>4
  <2> QED BY <2>1, <2>2, <2>3, <2>4, <2>5, <2>6
<1> DEFINE f == [i \in S |-> tree[Append(R, names[i])].by]
<1>10. f \in [S -> P]
  <2>1. \A i \in S : tree[Append(R, names[i])].by \in P
    BY <1>9
  <2> HIDE DEF S, P
  <2> QED BY <2>1
<1>11. PICK x, y \in S : x # y /\ f[x] = f[y]
  <2> HIDE DEF S, P, f
  <2> QED BY <1>8, <1>10, FS_PigeonHole
<1>12. Append(R, names[x]) = Append(R, names[y])
  <2>1. Append(R, names[x]) = RunOf(proc[f[x]]) /\ Append(R, names[y]) = RunOf(proc[f[y]])
    BY <1>9
  <2> QED BY <1>11, <2>1
<1>13. names[x] = names[y]
  <2>1. R \in Seq(Names) /\ names[x] \in Names /\ names[y] \in Names
    BY <1>2, <1>6 DEF Grounds
  <2>2. Append(R, names[x])[Len(R) + 1] = names[x] /\ Append(R, names[y])[Len(R) + 1] = names[y]
    BY <2>1
  <2> QED BY <1>12, <2>2
<1>14. x = y
  <2>1. x \in DOMAIN RunNames[k.key] /\ y \in DOMAIN RunNames[k.key]
        /\ RunNames[k.key][x] = RunNames[k.key][y]
    BY <1>4, <1>13
  <2> QED BY <1>5, <2>1, PrepAssumption
<1> QED BY <1>11, <1>14

-----------------------------------------------------------------------------
(* Every step goes on *)

LEMMA ClaimOn ==
  ASSUME ServingInv, NEW p \in Procs, ClaimRun(p)
  PROVE  Serves(p)
<1>0. PICK k : k = proc[p]
  OBVIOUS
<1>1. /\ TreeInv /\ ClosedInv /\ OnTrack(k) /\ LocalInv(k) /\ NameInv(k) /\ k \in Locals
      /\ k.pc = "claim" /\ Prepare(p) /\ k.request \in Seq(Names)
      /\ k.attempt \in DOMAIN RunNames[k.key]
  BY <1>0, ServingFacts, LocalFacts DEF ClaimRun, At, Prepare
<1>2. PICK T, R : Grounds(k, T, R)
  BY <1>0, ServingFacts
<1>3. OnRuns(k) /\ k.goal = R /\ ~k.reuse /\ ~Claimed(k) /\ k.stage = "runs"
  <2>1. OnRuns(k)
    BY <1>1 DEF OnTrack, OnBase, OnFresh, OnBuild
  <2>2. k.goal = R /\ ~k.reuse /\ k.stage = "runs"
    BY <1>2, <2>1 DEF OnRuns, Grounds
  <2>3. ~Claimed(k)
    BY <1>1, <2>2 DEF Claimed, NameInv
  <2> QED BY <2>1, <2>2, <2>3
<1>4. PICK x : x = RunNames[k.key][k.attempt]
  OBVIOUS
<1>5. x \in Names /\ x # ".."
  BY <1>1, <1>4, RunNameFacts
<1>6. PICK c : c = Candidate(k)
  OBVIOUS
<1>7. c = Append(R, x) /\ c = NamedRun(k, k.attempt)
  <2>1. c = Append(R, x)
    BY <1>3, <1>4, <1>6 DEF Candidate
  <2> QED BY <1>2, <1>4, <2>1 DEF NamedRun, Grounds
<1>8. c \in Seq(Names) /\ c # Root /\ Parent(c) = R
  BY <1>2, <1>5, <1>7, NamesTheRun
<1>9. Entry(c) = c /\ ~ThroughFile(c) /\ (CanMake(c) <=> ~Exists(c))
  <2>1. IsA(Parent(c), "dir")
    BY <1>2, <1>8 DEF Grounds
  <2>2. Entry(c) = c /\ ~ThroughFile(c) /\ Follow(Parent(c)) = Parent(c)
    BY <1>1, <1>8, <2>1, PlainPath
  <2> QED BY <2>1, <2>2 DEF CanMake
<1>10. PICK names : names = RunNames[k.key]
  OBVIOUS
<1>11. names \in Seq(Names) /\ DOMAIN names = 1..Len(names) /\ Len(names) \in Nat
       /\ k.attempt \in 1..Len(names)
  BY <1>1, <1>10, PrepAssumption DEF Locals
<1>12. CASE ~Exists(c)
  <2>1. PICK l : l = [k EXCEPT !.pc = "check"]
    OBVIOUS
  <2>2. Go(p, l) /\ Put(c, Dir(p))
    BY <1>0, <1>6, <1>9, <1>12, <2>1 DEF ClaimRun
  <2>3. /\ l.pc = "check" /\ l.stage = k.stage /\ l.goal = k.goal /\ l.attempt = k.attempt
        /\ l.request = k.request /\ l.run = k.run /\ l.key = k.key /\ l.reuse = k.reuse
    BY <1>1, <2>1 DEF Locals
  <2>4. OnTrack(l)'
    <3>1. RunsOf(l) = RunsOf(k) /\ \A i : NamedRun(l, i) = NamedRun(k, i)
      BY <2>3 DEF NamedRun, RunsOf
    <3>2. OnRuns(l)
      BY <1>3, <2>3, <3>1 DEF OnRuns
    <3>3. Keeps /\ Follow(l.request)' = Follow(l.request)
      BY <1>1, <2>3, FollowKept DEF ServingInv
    <3> QED BY <3>2, <3>3, TrackKept
  <2>5. DOMAIN tree' \ DOMAIN tree = {c} /\ tree'[c] = Dir(p)
    BY <1>12, <2>2 DEF Put, Exists
  <2>6. Claimed(l) /\ RunOf(l) = c
    BY <1>3, <1>6, <2>3 DEF Claimed, RunOf, Candidate
  <2> QED BY <1>0, <1>3, <2>2, <2>3, <2>4, <2>5, <2>6 DEF Serves, Going
<1>13. CASE Exists(c) /\ k.attempt < Len(names)
  <2>1. PICK l : l = [k EXCEPT !.attempt = @ + 1]
    OBVIOUS
  <2>2. Go(p, l) /\ UNCHANGED tree
    BY <1>0, <1>6, <1>9, <1>10, <1>13, <2>1 DEF ClaimRun
  <2>3. /\ l.pc = "claim" /\ l.stage = k.stage /\ l.goal = k.goal /\ l.attempt = k.attempt + 1
        /\ l.request = k.request /\ l.run = k.run /\ l.key = k.key /\ l.reuse = k.reuse
    BY <1>1, <2>1 DEF Locals
  <2>4. RunsOf(l) = RunsOf(k) /\ \A i : NamedRun(l, i) = NamedRun(k, i)
    BY <2>3 DEF NamedRun, RunsOf
  <2>5. ASSUME NEW i \in 1..(l.attempt - 1) PROVE Exists(NamedRun(l, i))
    <3>1. i = k.attempt \/ i \in 1..(k.attempt - 1)
      BY <1>11, <2>3
    <3> QED BY <1>3, <1>7, <1>13, <2>4, <3>1 DEF OnRuns
  <2>6. OnRuns(l)
    BY <1>3, <2>3, <2>4, <2>5 DEF OnRuns
  <2> QED BY <1>0, <1>1, <1>3, <2>2, <2>3, <2>6, ReadsOn DEF OnTrack
<1>14. CASE Exists(c) /\ ~(k.attempt < Len(names))
  <2>1. ASSUME NEW i \in DOMAIN RunNames[k.key] PROVE Exists(NamedRun(k, i))
    <3>1. i = k.attempt \/ i \in 1..(k.attempt - 1)
      BY <1>10, <1>11, <1>14
    <3> QED BY <1>3, <1>7, <1>14, <3>1 DEF OnRuns
  <2> QED BY <1>0, <1>3, <2>1, OneIsFree
<1> QED BY <1>12, <1>13, <1>14

LEMMA CheckRunOn ==
  ASSUME ServingInv, NEW p \in Procs, CheckRun(p)
  PROVE  Serves(p)
<1>0. PICK k : k = proc[p]
  OBVIOUS
<1>1. /\ TreeInv /\ ClosedInv /\ OnTrack(k) /\ LocalInv(k) /\ NameInv(k) /\ k \in Locals
      /\ k.pc = "check" /\ Prepare(p) /\ UNCHANGED tree /\ RunInv(p)
      /\ k.attempt \in DOMAIN RunNames[k.key]
  BY <1>0, ServingFacts, LocalFacts DEF CheckRun, At, Reads, Prepare
<1>2. PICK T, R : Grounds(k, T, R)
  BY <1>0, ServingFacts
<1>3. OnRuns(k) /\ k.goal = R /\ ~k.reuse
  BY <1>1, <1>2 DEF OnTrack, OnBase, OnFresh, OnRuns, OnBuild, Grounds
<1>4. PICK run : run = Candidate(k)
  OBVIOUS
<1>5. Claimed(k) /\ RunOf(k) = run /\ run = NamedRun(k, k.attempt)
  <2>1. Claimed(k) /\ RunOf(k) = run
    BY <1>1, <1>3, <1>4 DEF Claimed, RunOf
  <2> QED BY <1>2, <1>3, <1>4, <2>1 DEF NamedRun, Candidate, Grounds
<1>6. Lstat(run) = "dir"
  <2>1. IsA(run, "dir")
    BY <1>0, <1>1, <1>5 DEF RunInv
  <2>2. run \in Seq(Names) \ {Root}
    BY <1>1, <1>5, RunOfName
  <2> QED BY <1>1, <2>1, <2>2, ClosedEntry DEF IsA, Exists
<1>7. PICK l : l = Validating([k EXCEPT !.run = run], "build", Append(run, BuildName))
  OBVIOUS
<1>8. Go(p, l)
  BY <1>0, <1>4, <1>6, <1>7 DEF CheckRun
<1>9. /\ l.pc = "validate" /\ l.stage = "build" /\ l.goal = Append(run, BuildName)
      /\ l.run = run /\ l.attempt = k.attempt
      /\ l.request = k.request /\ l.key = k.key /\ l.reuse = k.reuse
  BY <1>1, <1>7 DEF Locals, Validating
<1>10. NamedRun(l, l.attempt) = NamedRun(k, k.attempt)
  BY <1>9 DEF NamedRun, RunsOf
<1>11. OnBuild(l)
  BY <1>5, <1>9, <1>10 DEF OnBuild
<1>12. Claimed(l) /\ RunOf(l) = RunOf(k)
  <2>1. run # None
    <3>1. run \in Seq(Names) \ {Root} /\ FreshRun(k.key, run)
      BY <1>1, <1>5, RunOfName
    <3>2. run[Len(run)] \in AllRunNames
      BY <1>1, <3>1, NameFacts DEF FreshRun, Locals
    <3>3. None[Len(None)] = ".."
      BY DEF None
    <3> QED BY <3>2, <3>3, RunNameAssumption
  <2> QED BY <1>3, <1>5, <1>9, <2>1 DEF Claimed, RunOf
<1> QED BY <1>0, <1>1, <1>8, <1>9, <1>11, <1>12, ReadsOn DEF OnTrack

\* The lockfile that is there passes every check.
LEMMA LockfilePasses ==
  ASSUME ServingInv, NEW p \in Procs
  PROVE  ValidLockfile /\ Vetted(Lockfile) /\ Opens(Lockfile)
<1>1. LockfileIsPlain /\ ClosedInv /\ TreeInv
  BY ServingFacts DEF ServingInv, Serving, Ready
<1>2. Lockfile \in DOMAIN tree /\ tree[Lockfile].kind = "file" /\ tree[Lockfile].names = 1
  BY <1>1 DEF LockfileIsPlain, OfHost, Exists
<1>3. Lockfile \in Seq(Names) /\ Lockfile # Root
  BY Fixed, LockfileInside, InsideIsBelow
<1>4. Entry(Lockfile) = Lockfile /\ Lstat(Lockfile) = "file"
  BY <1>1, <1>2, <1>3, ClosedEntry
<1>5. IsA(Parent(Lockfile), "dir")
  BY <1>1, <1>2, <1>3 DEF ClosedInv
<1>6. \A i \in 0..(Len(Lockfile) - 1) : Lstat(Prefix(Lockfile, i)) = "dir"
  BY <1>1, <1>3, <1>5, PlainPath
<1>7. Lockfile # None
  <2>1. Lockfile[Len(Lockfile)] = "Cargo.lock" /\ None[Len(None)] = ".."
    BY Fixed DEF Lockfile, None
  <2> QED BY <2>1
<1>8. Real(Lockfile)
  <2>1. \A i \in 1..(Len(Lockfile) - 1) : i \in 0..(Len(Lockfile) - 1)
    BY <1>3
  <2> QED BY <1>4, <1>6, <1>7, <2>1 DEF Real
<1>9. PlainTree(Lockfile)
  <2>1. SUFFICES ASSUME NEW x \in DOMAIN tree, StartsWith(x, Lockfile) PROVE x = Lockfile
    BY <1>2 DEF PlainTree
  <2>2. x \in Seq(Names)
    BY <1>1 DEF ClosedInv
  <2>3. Len(Lockfile) \in 1..Len(x) /\ Prefix(x, Len(Lockfile)) = Lockfile
    BY <1>3, <2>1, <2>2, StartsWithAppend
  <2>4. CASE Len(Lockfile) = Len(x)
    BY <2>2, <2>3, <2>4 DEF Prefix
  <2>5. CASE Len(Lockfile) # Len(x)
    <3>1. Len(Lockfile) \in 0..(Len(x) - 1)
      BY <2>2, <2>3, <2>5
    <3> QED BY <1>1, <1>2, <2>3, <3>1, ClosedUp DEF IsA
  <2> QED BY <2>4, <2>5
<1> QED BY <1>2, <1>4, <1>8, <1>9 DEF ValidLockfile, Vetted, Opens

LEMMA LaterOn ==
  ASSUME ServingInv, NEW p \in Procs,
         \/ InspectLockfile(p) \/ CreateLockfile(p) \/ ReinspectLockfile(p) \/ VetWritable(p)
         \/ OpenRun(p) \/ OpenLock(p)
  PROVE  Serves(p)
<1>0. PICK k : k = proc[p]
  OBVIOUS
<1>1. /\ TreeInv /\ ClosedInv /\ OnTrack(k) /\ k \in Locals /\ Prepare(p)
      /\ k.pc \in {"lock", "newLock", "relock", "vet", "openRun", "openLock"}
      /\ OnBuild(k) => \E run, goal : RunGrounds(k, run, goal)
  BY <1>0, ServingFacts, LocalFacts DEF Prepare, InspectLockfile, CreateLockfile, ReinspectLockfile,
    VetWritable, OpenRun, OpenLock, Open, At
<1>2. OnBuild(k) /\ k.pc \in {"lock", "vet", "openRun", "openLock"}
  BY <1>1 DEF OnTrack, OnBase, OnFresh, OnRuns, OnBuild
<1>3. PICK run, goal : RunGrounds(k, run, goal)
  BY <1>1, <1>2
<1>4. Vetted(k.run) /\ Opens(k.run) /\ Claimed(k)
  <2>1. Lstat(run) = "dir"
    <3>1. run \in Seq(Names) \ {Root} /\ IsA(run, "dir")
      BY <1>3 DEF RunGrounds
    <3> QED BY <1>1, <3>1, ClosedEntry DEF IsA, Exists
  <2> QED BY <1>3, <2>1 DEF RunGrounds, Vetted, Opens
<1>5. ValidLockfile /\ Vetted(Lockfile) /\ Opens(Lockfile)
  BY LockfilePasses
<1>6. \E pc \in {"vet", "openRun", "openLock", "mounted"} : Goto(p, pc) /\ UNCHANGED tree
  <2>1. CASE InspectLockfile(p)
    BY <1>5, <2>1 DEF InspectLockfile, Reads, ValidLockfile
  <2>2. CASE VetWritable(p)
    BY <1>0, <1>4, <1>5, <2>2 DEF VetWritable, Reads
  <2>3. CASE OpenRun(p)
    BY <1>0, <1>4, <2>3 DEF OpenRun, Open
  <2>4. CASE OpenLock(p)
    BY <1>5, <2>4 DEF OpenLock, Open
  <2>5. CASE CreateLockfile(p) \/ ReinspectLockfile(p)
    BY <1>0, <1>2, <2>5 DEF CreateLockfile, ReinspectLockfile, At
  <2> QED BY <2>1, <2>2, <2>3, <2>4, <2>5
<1>7. PICK pc \in {"vet", "openRun", "openLock", "mounted"} : Goto(p, pc) /\ UNCHANGED tree
  BY <1>6
<1>8. PICK l : l = [k EXCEPT !.pc = pc]
  OBVIOUS
<1>9. /\ l.pc = pc /\ l.stage = k.stage /\ l.goal = k.goal /\ l.attempt = k.attempt
      /\ l.request = k.request /\ l.run = k.run /\ l.key = k.key /\ l.reuse = k.reuse
  BY <1>1, <1>8 DEF Locals
<1>10. NamedRun(l, l.attempt) = NamedRun(k, k.attempt)
  BY <1>9 DEF NamedRun, RunsOf
<1>11. OnTrack(l)
  BY <1>2, <1>9, <1>10 DEF OnTrack, OnBuild
<1>12. Claimed(l) /\ RunOf(l) = RunOf(k)
  BY <1>2, <1>4, <1>9 DEF Claimed, RunOf
<1>13. Go(p, l)
  BY <1>0, <1>7, <1>8 DEF Goto
<1> QED BY <1>0, <1>1, <1>7, <1>9, <1>11, <1>12, <1>13, ReadsOn

LEMMA PrepareOn ==
  ASSUME ServingInv, NEW p \in Procs, Prepare(p)
  PROVE  Serves(p)
BY ValidateOn, InspectOn, MakeOn, ConfirmOn, ClaimOn, CheckRunOn, LaterOn DEF Prepare

\* What is ready after a step was ready before it: a process changes nothing of
\* what others have made.
LEMMA ReadyBefore ==
  ASSUME PrepInv, CalmInv, ApartInv, NEW p \in Procs, Prepare(p), NEW l, l.request \in Seq(Names), Ready(l)'
  PROVE  Ready(l)
<1>1. /\ Keeps /\ Links' = Links /\ Host \notin Procs
      /\ \A r \in Seq(Names) : Follow(r)' = Follow(r)
  BY FollowKept DEF CalmInv
<1>2. \A q \in DOMAIN tree' \ DOMAIN tree : tree'[q].by = p
  <2>1. CASE UNCHANGED tree
    BY <2>1
  <2>2. CASE MadeBy(p, MadeAt(proc[p]))
    BY <2>2 DEF MadeBy, Put
  <2> QED BY <2>1, <2>2, Makes
<1>3. ASSUME NEW q PROVE /\ OfHost(q)' <=> OfHost(q)
                         /\ OfHost(q) => q \in DOMAIN tree /\ tree'[q] = tree[q]
                         /\ IsA(q, "link")' <=> IsA(q, "link")
  <2>1. OfHost(q)' <=> OfHost(q)
    BY <1>1, <1>2 DEF OfHost, Exists, Keeps
  <2>2. OfHost(q) => q \in DOMAIN tree /\ tree'[q] = tree[q]
    BY <1>1 DEF OfHost, Exists, Keeps
  <2>3. (IsA(q, "link") <=> q \in Links) /\ (IsA(q, "link")' <=> q \in Links')
    BY DEF IsA, Exists, Links
  <2> QED BY <1>1, <2>1, <2>2, <2>3
<1>4. ASSUME NEW n \in 1..Len(l.request)
      PROVE  /\ Follow(Prefix(l.request, n))' = Follow(Prefix(l.request, n))
             /\ Entry(Prefix(l.request, n))' = Entry(Prefix(l.request, n))
  <2>1. PICK q : q = Prefix(l.request, n)
    OBVIOUS
  <2>2. q \in Seq(Names) /\ Len(q) = n
    BY <2>1, PrefixType
  <2>3. PICK d : d = Parent(q)
    OBVIOUS
  <2>4. d \in Seq(Names)
    BY <2>2, <2>3 DEF Parent, Prefix
  <2>5. Follow(q)' = Follow(q) /\ Follow(d)' = Follow(d)
    BY <1>1, <2>2, <2>4
  <2>6. Entry(q)' = Entry(q)
    BY <2>3, <2>5 DEF Entry
  <2> QED BY <2>1, <2>5, <2>6
<1>5. PICK T : T = Follow(l.request)
  OBVIOUS
<1>6. Follow(l.request)' = T
  BY <1>1, <1>5
<1>7. RequestIsPlain(l.request)
  BY <1>3, <1>4, <1>5, <1>6 DEF Ready, RequestIsPlain
<1>8. LockfileIsPlain
  BY <1>3 DEF Ready, LockfileIsPlain
<1>9. RunsOf(l)' = RunsOf(l)
  BY <1>5, <1>6 DEF RunsOf
<1>10. OfHost(RunsOf(l)) /\ IsA(RunsOf(l), "dir")
  <2>1. PICK R : R = RunsOf(l)
    OBVIOUS
  <2>2. OfHost(R)' /\ IsA(R, "dir")'
    BY <1>9, <2>1 DEF Ready
  <2>3. OfHost(R) /\ tree'[R] = tree[R] /\ R \in DOMAIN tree
    BY <1>3, <2>2
  <2>4. IsA(R, "dir")
    BY <2>2, <2>3 DEF IsA, Exists
  <2> QED BY <2>1, <2>3, <2>4
<1>11. Taken(l)' = Taken(l)
  <2>1. Taken(l) = {i \in DOMAIN RunNames[l.key] : OfHost(Append(RunsOf(l), RunNames[l.key][i]))}
    BY DEF Taken, OfHost
  <2>2. PICK R : R = RunsOf(l)
    OBVIOUS
  <2>3. Taken(l)' = {i \in DOMAIN RunNames[l.key] : OfHost(Append(R, RunNames[l.key][i]))'}
    BY <1>9, <2>2 DEF Taken, OfHost
  <2> QED BY <1>3, <2>1, <2>2, <2>3
<1>12. Procs' = Procs
  <2>1. PICK k : Go(p, k)
    BY PrepareTurn DEF Turn, Turns
  <2> QED BY <2>1 DEF Go, Procs
<1> QED BY <1>7, <1>8, <1>10, <1>11, <1>12 DEF Ready

\* Two runs' build directories are two, and neither is a run.
LEMMA BuildsApart ==
  ASSUME NEW r \in Seq(Names), NEW s \in Seq(Names), r # s, r # Root, r[Len(r)] \in AllRunNames
  PROVE  Append(s, BuildName) \notin {r, Append(r, BuildName)}
<1>1. BuildName \in Names /\ BuildName \notin AllRunNames
  BY NameFacts, Fixed DEF Common
<1>2. PICK b \in Names : b = BuildName
  BY <1>1
<1>3. ASSUME Append(s, b) = r PROVE FALSE
  <2>1. Len(r) = Len(s) + 1 /\ r[Len(s) + 1] = b
    BY <1>3
  <2> QED BY <1>1, <1>2, <2>1
<1>4. ASSUME Append(s, b) = Append(r, b) PROVE FALSE
  <2>1. Len(s) = Len(r) /\ \A i \in 1..Len(s) : Append(s, b)[i] = s[i] /\ Append(r, b)[i] = r[i]
    BY <1>4
  <2>2. \A i \in 1..Len(s) : s[i] = r[i]
    BY <1>4, <2>1
  <2> QED BY <2>1, <2>2
<1> QED BY <1>2, <1>3, <1>4

SameRequest(p) ==
  \E l : /\ Go(p, l) /\ l.request = proc[p].request /\ l.key = proc[p].key
         /\ l.reuse = proc[p].reuse

\* A process stays with what it has been asked for.
LEMMA StepsSameRequest ==
  ASSUME PrepInv, NEW p \in Procs, Prepare(p)
  PROVE  SameRequest(p)
<1>0. PICK k : k = proc[p]
  OBVIOUS
<1>1. k \in Locals
  BY <1>0, LocalFacts DEF PrepInv
<1>2. ASSUME NEW pc, Goto(p, pc) PROVE SameRequest(p)
  <2>1. PICK l : l = [k EXCEPT !.pc = pc]
    OBVIOUS
  <2>2. l.request = k.request /\ l.key = k.key /\ l.reuse = k.reuse
    BY <1>1, <2>1 DEF Locals
  <2>3. Go(p, l)
    BY <1>0, <1>2, <2>1 DEF Goto
  <2> QED BY <1>0, <2>2, <2>3 DEF SameRequest
<1>3. ASSUME NEW stage, NEW goal, Go(p, Creating(k, stage, goal)) PROVE SameRequest(p)
  <2>1. PICK l : l = Creating(k, stage, goal)
    OBVIOUS
  <2>2. l.request = k.request /\ l.key = k.key /\ l.reuse = k.reuse
    BY <1>1, <2>1 DEF Locals, Creating
  <2> QED BY <1>0, <1>3, <2>1, <2>2 DEF SameRequest
<1>4. ASSUME NEW base, NEW run, NEW stage, NEW goal,
             \/ Go(p, Validating([k EXCEPT !.base = base], stage, goal))
             \/ Go(p, Validating([k EXCEPT !.run = run], stage, goal))
             \/ Go(p, Validating([k EXCEPT !.base = base, !.run = run], stage, goal))
      PROVE  SameRequest(p)
  <2>1. PICK l : /\ Go(p, l)
                 /\ \/ l = Validating([k EXCEPT !.base = base], stage, goal)
                    \/ l = Validating([k EXCEPT !.run = run], stage, goal)
                    \/ l = Validating([k EXCEPT !.base = base, !.run = run], stage, goal)
    BY <1>4
  <2>2. l.request = k.request /\ l.key = k.key /\ l.reuse = k.reuse
    BY <1>1, <2>1 DEF Locals, Validating
  <2> QED BY <1>0, <2>1, <2>2 DEF SameRequest
<1>5. ASSUME Go(p, Deeper(k)) PROVE SameRequest(p)
  <2>1. PICK l : l = Deeper(k)
    OBVIOUS
  <2>2. l.request = k.request /\ l.key = k.key /\ l.reuse = k.reuse
    BY <1>1, <2>1 DEF Locals, Stages, Deeper, Creating
  <2> QED BY <1>0, <1>5, <2>1, <2>2 DEF SameRequest
<1>6. CASE Validate(p)
  BY <1>0, <1>2, <1>3, <1>6 DEF Validate, Fail
<1>7. CASE InspectComponent(p) \/ MakeComponent(p)
  BY <1>0, <1>2, <1>5, <1>7 DEF InspectComponent, MakeComponent, Fail
<1>8. CASE Confirm(p)
  BY <1>0, <1>2, <1>4, <1>8 DEF Confirm, Fail
<1>9. CASE ClaimRun(p)
  <2>1. CASE Go(p, [k EXCEPT !.pc = "check"]) \/ Fail(p)
    BY <1>0, <1>2, <2>1 DEF Goto, Fail
  <2>2. CASE Go(p, [k EXCEPT !.attempt = @ + 1])
    <3>1. PICK l : l = [k EXCEPT !.attempt = @ + 1]
      OBVIOUS
    <3>2. l.request = k.request /\ l.key = k.key /\ l.reuse = k.reuse
      BY <1>1, <3>1 DEF Locals
    <3> QED BY <1>0, <2>2, <3>1, <3>2 DEF SameRequest
  <2> QED BY <1>0, <1>9, <2>1, <2>2 DEF ClaimRun
<1>10. CASE CheckRun(p)
  BY <1>0, <1>2, <1>4, <1>10 DEF CheckRun, Fail
<1>11. CASE InspectLockfile(p) \/ CreateLockfile(p) \/ ReinspectLockfile(p) \/ VetWritable(p)
            \/ OpenRun(p) \/ OpenLock(p)
  BY <1>2, <1>11 DEF InspectLockfile, CreateLockfile, ReinspectLockfile, VetWritable, OpenRun,
    OpenLock, Open, Fail
<1> QED BY <1>6, <1>7, <1>8, <1>9, <1>10, <1>11 DEF Prepare

LEMMA ServeStep ==
  ASSUME PrepInv, CalmInv, IsolationInv, ServeInv, NEW p \in Procs, Prepare(p)
  PROVE  ServeInv'
<1>1. moves' = moves /\ (moves = 0 => ApartInv)
  BY OthersStay DEF IsolationInv, Apart
<1>2. Keeps /\ PrepInv' /\ IsolationInv' /\ Host \notin Procs
  BY PrepareFine, PrepareApart DEF Fine, CalmInv
<1>3. /\ Procs' = Procs
      /\ \A r \in Procs : /\ proc'[r].request = proc[r].request /\ proc'[r].key = proc[r].key
                          /\ proc'[r].reuse = proc[r].reuse
  <2>1. PICK k : /\ Go(p, k) /\ k.request = proc[p].request /\ k.key = proc[p].key
                 /\ k.reuse = proc[p].reuse
    BY StepsSameRequest DEF SameRequest
  <2>2. proc' = [proc EXCEPT ![p] = k]
    BY <2>1 DEF Go
  <2> QED BY <2>1, <2>2 DEF Procs
<1>4. \A q \in DOMAIN tree' \ DOMAIN tree : tree'[q].by = p
  <2>1. CASE UNCHANGED tree
    BY <2>1
  <2>2. CASE MadeBy(p, MadeAt(proc[p]))
    BY <2>2 DEF MadeBy, Put
  <2> QED BY <2>1, <2>2, Makes
<1>5. moves' = 0 => \A q \in DOMAIN tree' : tree'[q].by = Host => NoTraversal(q)
  BY <1>1, <1>2, <1>4 DEF ServeInv, Keeps
<1>6. ASSUME Serving' PROVE MadeOnly' /\ \A r \in Procs' : OnTrack(proc[r])'
  <2>1. moves = 0 /\ ApartInv /\ ApartInv' /\ \A r \in Procs' : RunInv(r)'
    BY <1>1, <1>2, <1>6 DEF Serving, IsolationInv, Apart
  <2>2. ASSUME NEW r \in Procs PROVE Ready(proc[r])
    <3>1. PICK l : l = proc'[r]
      OBVIOUS
    <3>2. Ready(l)'
      BY <1>3, <1>6, <3>1 DEF Serving
    <3>3. l.request = proc[r].request /\ l.key = proc[r].key /\ l.reuse = proc[r].reuse
      BY <1>3, <3>1
    <3>4. l.request \in Seq(Names)
      BY <3>3, LocalFacts DEF PrepInv
    <3>5. Ready(l)
      BY <2>1, <3>2, <3>4, ReadyBefore
    <3>6. Ready(proc[r])
      BY <3>3, <3>5 DEF Ready, RunsOf, Taken
    <3> QED BY <3>6
  <2>3. ServingInv
    BY <2>1, <2>2 DEF ServingInv, Serving
  <2>4. PICK l : Going(p, l)
    BY <2>3, PrepareOn DEF Serves
  <2>5. \A r \in Procs : proc'[r] = IF r = p THEN l ELSE proc[r]
    <3>1. proc' = [proc EXCEPT ![p] = l]
      BY <2>4 DEF Going, Go
    <3> QED BY <3>1 DEF Procs
  <2>6. MadeOnly /\ \A r \in Procs : OnTrack(proc[r])
    BY <2>3 DEF ServingInv, ServeInv
  <2>7. ASSUME NEW q \in DOMAIN tree', NEW r \in Procs, tree'[q].by = r
        PROVE  /\ tree'[q] = Dir(r) /\ Claimed(proc'[r])
               /\ q \in {RunOf(proc'[r]), Append(RunOf(proc'[r]), BuildName)}
    <3>1. CASE q \in DOMAIN tree
      <4>1. tree'[q] = tree[q]
        BY <1>2, <3>1 DEF Keeps
      <4>2. /\ tree[q] = Dir(r) /\ Claimed(proc[r])
            /\ q \in {RunOf(proc[r]), Append(RunOf(proc[r]), BuildName)}
        BY <2>6, <2>7, <3>1, <4>1 DEF MadeOnly
      <4>3. Claimed(proc'[r]) /\ RunOf(proc'[r]) = RunOf(proc[r])
        BY <2>4, <2>5, <4>2 DEF Going
      <4> QED BY <4>1, <4>2, <4>3
    <3>2. CASE q \notin DOMAIN tree
      <4>1. r = p
        BY <1>4, <2>7, <3>2
      <4> QED BY <2>4, <2>5, <2>7, <3>2, <4>1 DEF Going
    <3> QED BY <3>1, <3>2
  <2>8. MadeOnly'
    BY <1>3, <2>7 DEF MadeOnly
  <2>9. OnTrack(l)'
    BY <2>4 DEF Going
  <2>10. ASSUME NEW r \in Procs, r # p, NEW k, k = proc[r] PROVE OnTrack(k)'
    <3>1. OnTrack(k) /\ LocalInv(k) /\ k.request \in Seq(Names) /\ RunInv(r) /\ NameInv(k)
          /\ \E T, R : Grounds(k, T, R)
      BY <2>3, <2>10, ServingFacts, LocalFacts
    <3>2. Follow(k.request)' = Follow(k.request)
      BY <3>1, FollowKept
    <3>3. OnBuild(k) => BuildAfter(k)
      <4>1. SUFFICES ASSUME OnBuild(k), k.pc = "make", k.goal \in DOMAIN tree' PROVE FALSE
        BY <1>2 DEF OnBuild, BuildAfter, IsA, Exists, Keeps
      <4>2. PICK run, goal : RunGrounds(k, run, goal)
        BY <2>3, <2>10, <4>1, ServingFacts
      <4>3. k.goal = Append(run, BuildName) /\ k.goal \notin DOMAIN tree
        BY <4>1, <4>2 DEF OnBuild, RunGrounds, Exists
      <4>4. Claimed(l) /\ k.goal \in {RunOf(l), Append(RunOf(l), BuildName)}
        BY <2>4, <4>1, <4>3 DEF Going
      <4>5. tree[run].by = r /\ run \in DOMAIN tree /\ run \in Seq(Names)
        BY <2>10, <3>1, <4>2 DEF RunGrounds, RunInv, IsA, Exists
      <4>6. LocalInv(l) /\ NameInv(l)
        BY <1>2, <1>3, <2>1, <2>5 DEF PrepInv, ApartInv
      <4>7. PICK o : o = RunOf(l)
        OBVIOUS
      <4>8. o \in Seq(Names) /\ o # Root /\ o[Len(o)] \in AllRunNames
        <5>1. o \in Seq(Names) \ {Root} /\ FreshRun(l.key, o) /\ l.key \in DOMAIN RunNames
          BY <4>4, <4>6, <4>7, RunOfName, LocalFacts
        <5> QED BY <5>1, NameFacts DEF FreshRun
      <4>9. tree'[o].by = p
        <5>1. RunInv(p)' /\ proc'[p] = l
          BY <1>3, <2>1, <2>5
        <5> QED BY <4>4, <4>7, <5>1 DEF RunInv
      <4>10. o # run
        BY <1>2, <2>10, <4>5, <4>9 DEF Keeps
      <4> QED BY <4>3, <4>4, <4>5, <4>7, <4>8, <4>10, BuildsApart
    <3> QED BY <1>2, <3>1, <3>2, <3>3, TrackKept DEF OnTrack
  <2>11. ASSUME NEW r \in Procs PROVE OnTrack(proc[r])'
    <3>1. PICK k : k = proc'[r]
      OBVIOUS
    <3>2. OnTrack(k)'
      BY <2>5, <2>9, <2>10, <3>1
    <3>3. /\ RunsOf(k)' = RunsOf(proc[r])' /\ Follow(k.request)' = Follow(proc[r].request)'
          /\ \A i \in Nat : NamedRun(k, i)' = NamedRun(proc[r], i)'
          /\ NamedRun(k, k.attempt)' = NamedRun(proc[r], proc[r].attempt)'
      BY <3>1 DEF NamedRun, RunsOf, Follow
    <3>4. OnBase(k)' => OnBase(proc[r])'
      BY <3>1, <3>3 DEF OnBase
    <3>5. OnFresh(k)' => OnFresh(proc[r])'
      BY <3>1, <3>3 DEF OnFresh
    <3>6. OnRuns(k)' => OnRuns(proc[r])'
      BY <3>1 DEF OnRuns, NamedRun, RunsOf, Follow
    <3>7. OnBuild(k)' => OnBuild(proc[r])'
      BY <3>1, <3>3 DEF OnBuild
    <3> QED BY <3>2, <3>4, <3>5, <3>6, <3>7 DEF OnTrack
  <2> QED BY <1>3, <2>8, <2>11
<1>7. IsFiniteSet(Procs')
  BY <1>3 DEF ServeInv
<1> QED BY <1>5, <1>6, <1>7 DEF ServeInv

LEMMA InitServe == Init => ServeInv
<1>1. SUFFICES ASSUME Init PROVE ServeInv
  OBVIOUS
<1>2. PICK s \in Scenes :
        /\ tree \in s.trees
        /\ proc \in [s.procs -> {Start(r, u, k) : r \in s.requests, u \in s.reuse, k \in s.keys}]
  BY <1>1 DEF Init
<1>3. Procs = s.procs /\ Host \notin Procs
  <2>1. Host \notin s.procs
    BY PrepAssumption
  <2> QED BY <1>2, <2>1 DEF Procs
<1>4. IsFiniteSet(Procs)
  BY <1>3, SceneAssumption
<1>5. \A q \in DOMAIN tree : NoTraversal(q)
  BY <1>2, SceneAssumption
<1>6. \A q \in DOMAIN tree : tree[q].by = Host
  <2>1. \A t \in s.trees : t \in [DOMAIN t -> EntriesBy({Host})]
    BY PrepAssumption
  <2>2. tree \in [DOMAIN tree -> EntriesBy({Host})]
    <3>1. tree \in s.trees
      BY <1>2
    <3> QED BY <2>1, <3>1, Zenon
  <2>3. \A q \in DOMAIN tree : tree[q] \in EntriesBy({Host})
    BY <2>2
  <2> QED BY <2>3 DEF EntriesBy
<1>7. MadeOnly
  BY <1>3, <1>6 DEF MadeOnly
<1>8. ASSUME NEW p \in Procs PROVE OnTrack(proc[p])
  <2>1. PICK r \in s.requests, u \in s.reuse, k \in s.keys : proc[p] = Start(r, u, k)
    BY <1>2, <1>3
  <2> QED BY <2>1 DEF Start, OnTrack, OnBase
<1> QED BY <1>4, <1>5, <1>7, <1>8 DEF ServeInv

LEMMA PreparedIsReady ==
  ASSUME NEW l, Prepared(l)
  PROVE  Ready(l)
<1>1. ~l.reuse /\ RequestFits(l.request) /\ FreeOrDir(RunsOf(l))
      /\ (Exists(Lockfile) => IsA(Lockfile, "file") /\ tree[Lockfile].names = 1)
  BY DEF Prepared, Acceptable, TargetFits
<1>2. OfHost(RunsOf(l)) /\ OfHost(Lockfile)
  BY DEF Prepared, OfHost
<1>3. IsA(RunsOf(l), "dir") /\ LockfileIsPlain
  BY <1>1, <1>2 DEF FreeOrDir, LockfileIsPlain, OfHost, IsA
<1>4. RequestIsPlain(l.request)
  BY <1>1 DEF RequestFits, RequestIsPlain
<1> QED BY <1>1, <1>2, <1>3, <1>4 DEF Ready, Prepared

-----------------------------------------------------------------------------
(* Following a path name by name *)

\* One name of a path: the entry it stands for, and where it leads.
LEMMA OneName ==
  ASSUME TreeInv, NEW p \in Seq(Names), NEW n \in 1..Len(p)
  PROVE  LET q == Prefix(p, n)
             f == Follow(Prefix(p, n - 1)) IN
         /\ q \in Seq(Names) \ {Root} /\ Len(q) = n /\ Parent(q) = Prefix(p, n - 1)
         /\ Follow(Parent(q)) = f /\ f \in Seq(Names) /\ p[n] \in Names
         /\ Entry(q) = Append(f, p[n]) /\ Entry(q) \in Seq(Names) \ {Root}
         /\ Parent(Entry(q)) = f
         /\ Follow(q) = IF IsA(Entry(q), "link") THEN tree[Entry(q)].to ELSE Entry(q)
         /\ Follow(q) \in Seq(Names)
         /\ ThroughFile(q) <=> \E i \in 0..(n - 1) : IsA(Follow(Prefix(p, i)), "file")
<1>0. \A q \in Links : tree[q].to \in Seq(Names)
  BY TreeTypes DEF Links
<1>1. PICK q : q = Prefix(p, n)
  OBVIOUS
<1>2. /\ q \in Seq(Names) /\ Len(q) = n /\ q[n] = p[n] /\ p[n] \in Names
      /\ \A i \in 0..(n - 1) : Prefix(q, i) = Prefix(p, i)
  BY <1>1 DEF Prefix
<1>3. q # Root /\ Parent(q) = Prefix(p, n - 1)
  BY <1>1, <1>2 DEF Root, Parent, Prefix
<1>4. PICK r \in Seq(Names) : r = Prefix(p, n - 1)
  BY <1>2, <1>3, ParentType
<1>5. PICK f \in Seq(Names) : f = Follow(r)
  BY FollowType
<1>6. Entry(q) = Append(f, p[n])
  BY <1>2, <1>3, <1>4, <1>5 DEF Entry
<1>7. Entry(q) \in Seq(Names) /\ Entry(q) # Root /\ Parent(Entry(q)) = f
  <2>1. q \in Seq(Names) \ {Root}
    BY <1>2, <1>3
  <2> QED BY <1>0, <1>3, <1>4, <1>5, <2>1, MadeEntry
<1>8. Follow(q) = IF IsA(Entry(q), "link") THEN tree[Entry(q)].to ELSE Entry(q)
  BY <1>0, <1>2, <1>3, FollowStep
<1>9. Follow(q) \in Seq(Names)
  BY <1>2, FollowType
<1>10. ThroughFile(q) <=> \E i \in 0..(n - 1) : IsA(Follow(Prefix(p, i)), "file")
  BY <1>2 DEF ThroughFile
<1> QED BY <1>1, <1>2, <1>3, <1>4, <1>5, <1>6, <1>7, <1>8, <1>9, <1>10

\* The first name is looked for in the root.
LEMMA NoName ==
  ASSUME IsA(Root, "dir"), NEW p \in Seq(Names)
  PROVE  /\ Prefix(p, 0) = Root /\ Follow(Root) = Root
         /\ ~ThroughFile(Root) /\ Lstat(Root) = "dir"
<1>1. Prefix(p, 0) = Root
  BY DEF Prefix, Root
<1>2. Follow(Root) = Root
  <2>1. Root \in Seq(Names) /\ Len(Root) = 0
    BY DEF Root
  <2>2. \A i \in 1..Len(Root) : ~IsA(Prefix(Root, i), "link")
    BY <2>1
  <2> QED BY <2>1, <2>2, PlainFollows
<1>3. ~ThroughFile(Root)
  BY DEF ThroughFile, Root
<1>4. Lstat(Root) = "dir"
  BY <1>3 DEF Lstat, Entry, IsA, Exists
<1> QED BY <1>1, <1>2, <1>3, <1>4

LEMMA JoinAssociative ==
  ASSUME NEW f \in Seq(Names), NEW t \in Seq(Names), NEW u \in Seq(Names)
  PROVE  (f \o t) \o u = f \o (t \o u)
BY ConcatAssociative

Joins(f, t, g) == g = f \o t
LEMMA JoinGrows ==
  ASSUME NEW f \in Seq(Names), NEW t \in Seq(Names), NEW u \in Seq(Names), NEW g, NEW e, NEW v,
         Joins(f, t, g), Joins(g, u, e), Joins(t, u, v)
  PROVE  Joins(f, v, e)
<1> QED BY JoinAssociative DEF Joins

LEMMA SubSeqGrows ==
  ASSUME NEW p \in Seq(Names), NEW n \in 1..Len(p), NEW k \in n..Len(p)
  PROVE  /\ SubSeq(p, n, k) = SubSeq(p, n, k - 1) \o <<p[k]>> /\ SubSeq(p, n, n - 1) = << >>
         /\ SubSeq(p, n, k - 1) \in Seq(Names) /\ p[k] \in Names /\ <<p[k]>> \in Seq(Names)
<1>1. Len(p) \in Nat /\ k \in 1..Len(p)
  OBVIOUS
<1>2. p[k] \in Names
  BY <1>1
<1>3. SubSeq(p, n, k) = SubSeq(p, n, k - 1) \o <<p[k]>>
  BY SubSeqRecursiveSecond
<1>4. SubSeq(p, n, n - 1) = << >>
  <2>1. n \in Int /\ n - 1 \in Int /\ n - 1 < n
    BY <1>1
  <2> QED BY <2>1, SubSeqEmpty
<1>5. SubSeq(p, n, k - 1) \in Seq(Names)
  <2>1. n \in Int /\ k - 1 \in Int /\ \A i \in n..(k - 1) : p[i] \in Names
    BY <1>1
  <2> QED BY <2>1, SubSeqProperties
<1> QED BY <1>2, <1>3, <1>4, <1>5

\* From the first name on that is not there, none is, and a path goes on name by
\* name.
GoesOn(p, n, m) ==
  /\ ~Exists(Entry(Prefix(p, m))) /\ Follow(Prefix(p, m)) = Entry(Prefix(p, m))
  /\ Follow(Prefix(p, m)) = Follow(Prefix(p, n - 1)) \o SubSeq(p, n, m)
LEMMA NothingFurther ==
  ASSUME TreeInv, ClosedInv, NEW p \in Seq(Names), NEW n \in 1..Len(p),
         ~Exists(Entry(Prefix(p, n))), NEW m \in n..Len(p)
  PROVE  GoesOn(p, n, m)
<1>0. Len(p) \in Nat
  OBVIOUS
<1>1. GoesOn(p, n, n)
  <2>1. PICK f \in Seq(Names) : f = Follow(Prefix(p, n - 1))
    BY OneName
  <2>2. Entry(Prefix(p, n)) = Append(f, p[n]) /\ Follow(Prefix(p, n)) = Entry(Prefix(p, n))
        /\ p[n] \in Names
    BY <2>1, OneName DEF IsA
  <2>3. SubSeq(p, n, n) = <<p[n]>>
    <3>1. n \in n..Len(p)
      BY <1>0
    <3>2. SubSeq(p, n, n) = SubSeq(p, n, n - 1) \o <<p[n]>> /\ SubSeq(p, n, n - 1) = << >>
          /\ <<p[n]>> \in Seq(Names)
      BY <3>1, SubSeqGrows
    <3> QED BY <3>2, ConcatEmptySeq
  <2>4. Append(f, p[n]) = f \o <<p[n]>>
    BY <2>2
  <2> QED BY <2>1, <2>2, <2>3, <2>4 DEF GoesOn
<1>2. ASSUME NEW k \in (n + 1)..Len(p), GoesOn(p, n, k - 1) PROVE GoesOn(p, n, k)
  <2>0. k \in 1..Len(p) /\ k - 1 \in n..Len(p) /\ k - 1 \in 1..Len(p)
    BY <1>0
  <2>1. PICK f \in Seq(Names) : f = Follow(Prefix(p, n - 1))
    BY OneName
  <2>2. PICK g \in Seq(Names) : g = Follow(Prefix(p, k - 1))
    BY <2>0, OneName
  <2>3. PICK e \in Seq(Names) \ {Root} : e = Entry(Prefix(p, k))
    BY <2>0, OneName
  <2>4. e = Append(g, p[k]) /\ Parent(e) = g /\ p[k] \in Names
        /\ Follow(Prefix(p, k)) = IF IsA(e, "link") THEN tree[e].to ELSE e
    BY <2>0, <2>2, <2>3, OneName
  <2>5. ~Exists(g) /\ g = f \o SubSeq(p, n, k - 1)
    BY <1>2, <2>1, <2>2 DEF GoesOn
  <2>6. ~Exists(e)
    BY <2>3, <2>4, <2>5 DEF ClosedInv, IsA, Exists
  <2>7. e = f \o SubSeq(p, n, k)
    <3>0. k \in n..Len(p)
      BY <1>0
    <3>1. PICK t \in Seq(Names) : t = SubSeq(p, n, k - 1)
      BY <3>0, SubSeqGrows
    <3>2. PICK u \in Seq(Names) : u = <<p[k]>>
      BY <3>0, SubSeqGrows
    <3>3. SubSeq(p, n, k) = t \o u
      <4>1. SubSeq(p, n, k) = SubSeq(p, n, k - 1) \o <<p[k]>>
        BY <3>0, SubSeqGrows
      <4> QED BY <3>1, <3>2, <4>1
    <3>4. e = g \o u
      <4>1. Append(g, p[k]) = g \o <<p[k]>>
        BY <2>2, <2>4
      <4> QED BY <2>4, <3>2, <4>1, Zenon
    <3>5. g = f \o t
      BY <2>5, <3>1, Zenon
    <3>6. PICK v : v = SubSeq(p, n, k)
      OBVIOUS
    <3>7. v = t \o u
      BY <3>3, <3>6, Zenon
    <3>8. Joins(f, t, g) /\ Joins(g, u, e) /\ Joins(t, u, v)
      BY <3>4, <3>5, <3>7, Zenon DEF Joins
    <3>9. Joins(f, v, e)
      BY <3>8, JoinGrows
    <3> QED BY <3>6, <3>9, Zenon DEF Joins
  <2> QED BY <2>1, <2>3, <2>4, <2>6, <2>7 DEF GoesOn, IsA
<1> DEFINE T == {k \in n..Len(p) : ~GoesOn(p, n, k)}
<1>3. SUFFICES ASSUME T # {} PROVE FALSE
  OBVIOUS
<1>4. PICK k \in T : \A j \in T : k <= j
  <2>1. T \subseteq Nat
    OBVIOUS
  <2> HIDE DEF T
  <2> QED BY <1>3, <2>1, Least
<1>5. k \in n..Len(p) /\ ~GoesOn(p, n, k)
  OBVIOUS
<1>6. k # n
  BY <1>1, <1>5
<1>7. k \in (n + 1)..Len(p) /\ k - 1 \in n..Len(p) /\ k - 1 \notin T
  BY <1>4, <1>5, <1>6
<1>8. GoesOn(p, n, k - 1)
  BY <1>7
<1> HIDE DEF T
<1> QED BY <1>2, <1>5, <1>7, <1>8

\* The deepest component that is there.
DeepestAt(p, d) ==
  /\ d \in 0..Len(p) /\ Lstat(Prefix(p, d)) # "absent"
  /\ \A j \in (d + 1)..Len(p) : Lstat(Prefix(p, j)) = "absent"
LEMMA DeepestFacts ==
  ASSUME IsA(Root, "dir"), NEW p \in Seq(Names)
  PROVE  DeepestAt(p, Deepest(p))
<1> DEFINE T == {i \in 0..Len(p) : Lstat(Prefix(p, i)) # "absent"}
<1>1. 0 \in T
  BY NoName
<1>2. PICK m \in T : \A k \in T : k <= m
  <2>1. T \subseteq 0..Len(p) /\ T # {} /\ Len(p) \in Nat
    BY <1>1
  <2> HIDE DEF T
  <2> QED BY <2>1, Greatest
<1>3. \A j \in (m + 1)..Len(p) : Lstat(Prefix(p, j)) = "absent"
  <2>1. ASSUME NEW j \in (m + 1)..Len(p) PROVE j \notin T /\ j \in 0..Len(p)
    BY <1>2
  <2> QED BY <2>1
<1>4. \E i \in 0..Len(p) : /\ Lstat(Prefix(p, i)) # "absent"
                          /\ \A j \in (i + 1)..Len(p) : Lstat(Prefix(p, j)) = "absent"
  BY <1>3
<1> HIDE DEF T
<1> QED BY <1>4 DEF Deepest, DeepestAt

\* What canonicalize_with_missing_components gives is where the path leads.
LEMMA CanonicalFollows ==
  ASSUME TreeInv, ClosedInv, IsA(Root, "dir"), NEW p \in Seq(Names)
  PROVE  Canonical(p) = Follow(p)
<1>1. PICK d : d = Deepest(p)
  OBVIOUS
<1>2. DeepestAt(p, d) /\ Len(p) \in Nat /\ Prefix(p, Len(p)) = p
  BY <1>1, DeepestFacts DEF Prefix
<1>3. Canonical(p) = Follow(Prefix(p, d)) \o SubSeq(p, d + 1, Len(p))
  BY <1>1 DEF Canonical, Existing
<1>4. CASE d = Len(p)
  <2>1. SubSeq(p, d + 1, Len(p)) = << >>
    BY <1>2, <1>4
  <2>2. PICK f \in Seq(Names) : f = Follow(p)
    BY FollowType
  <2>3. f \o << >> = f
    OBVIOUS
  <2> QED BY <1>2, <1>3, <1>4, <2>1, <2>2, <2>3
<1>5. CASE d # Len(p)
  <2>0. PICK n : n = d + 1
    OBVIOUS
  <2>1. n \in 1..Len(p) /\ n \in (d + 1)..Len(p) /\ Len(p) \in n..Len(p) /\ n - 1 = d
    BY <1>2, <1>5, <2>0 DEF DeepestAt
  <2>2. ~Exists(Entry(Prefix(p, n)))
    BY <1>2, <2>1, TreeTypes DEF DeepestAt, Lstat, Exists
  <2>3. GoesOn(p, n, Len(p))
    BY <2>1, <2>2, NothingFurther
  <2>4. Follow(Prefix(p, Len(p))) = Follow(Prefix(p, n - 1)) \o SubSeq(p, n, Len(p))
    BY <2>3, Zenon DEF GoesOn
  <2> QED BY <1>2, <1>3, <2>0, <2>1, <2>4
<1> QED BY <1>4, <1>5
-----------------------------------------------------------------------------
(* RequestFits and validate_target_dir say the same of a path *)

\* What lstat says of each name of a request that fits.
LEMMA FitsByName ==
  ASSUME TreeInv, IsA(Root, "dir"), NEW r \in Seq(Names), RequestFits(r), NEW n \in 1..Len(r)
  PROVE  LET q == Prefix(r, n) IN
         /\ ~ThroughFile(q)
         /\ Lstat(q) = IF Exists(Entry(q)) THEN tree[Entry(q)].kind ELSE "absent"
         /\ Exists(Entry(q)) => IsA(Follow(q), "dir")
         /\ IsA(Entry(q), "link") =>
              ~StartsWith(Entry(q), Workspace) /\ ~StartsWith(Follow(q), Workspace)
<1>1. PICK q : q = Prefix(r, n)
  OBVIOUS
<1>2. /\ Exists(Entry(q)) => IsA(Follow(q), "dir")
      /\ IsA(Entry(q), "link") =>
           ~StartsWith(Entry(q), Workspace) /\ ~StartsWith(Follow(q), Workspace)
  BY <1>1 DEF RequestFits
<1>3. ASSUME NEW i \in 0..(n - 1) PROVE ~IsA(Follow(Prefix(r, i)), "file")
  <2>1. CASE i = 0
    BY <2>1, NoName DEF IsA
  <2>2. CASE i # 0
    <3>1. i \in 1..Len(r)
      BY <2>2
    <3>2. PICK e : e = Entry(Prefix(r, i))
      OBVIOUS
    <3>3. PICK f : f = Follow(Prefix(r, i))
      OBVIOUS
    <3>4. f = IF IsA(e, "link") THEN tree[e].to ELSE e
      BY <3>1, <3>2, <3>3, OneName
    <3>5. Exists(e) => IsA(f, "dir")
      BY <3>1, <3>2, <3>3 DEF RequestFits
    <3> QED BY <3>3, <3>4, <3>5 DEF IsA
  <2> QED BY <2>1, <2>2
<1>4. ~ThroughFile(q)
  BY <1>1, <1>3, OneName
<1>5. Lstat(q) = IF Exists(Entry(q)) THEN tree[Entry(q)].kind ELSE "absent"
  BY <1>4 DEF Lstat
<1> QED BY <1>1, <1>2, <1>4, <1>5

\* The last of a request's names that is there is not a symbolic link: the next
\* would be one of the workspace's own.
LEMMA LastIsNoLink ==
  ASSUME TreeInv, ClosedInv, WorkspaceInv, NEW r \in Seq(Names), RequestFits(r),
         NEW d \in 1..Len(r), DeepestAt(r, d)
  PROVE  ~IsA(Entry(Prefix(r, d)), "link")
<1>0. SUFFICES ASSUME IsA(Entry(Prefix(r, d)), "link") PROVE FALSE
  OBVIOUS
<1>1. IsA(Root, "dir") /\ Workspace \in Seq(Names) /\ Len(Workspace) \in Nat
  <2>1. Workspace \in Seq(Names) /\ Len(Workspace) \in Nat
    BY Fixed
  <2>2. IsA(Prefix(Workspace, 0), "dir")
    BY <2>1 DEF WorkspaceInv
  <2>3. Prefix(Workspace, 0) = Root
    BY DEF Prefix, Root
  <2> QED BY <2>1, <2>2, <2>3
<1>2. PICK f \in Seq(Names) : f = Follow(Prefix(r, d))
  BY OneName
<1>3. ~StartsWith(f, Workspace)
  BY <1>0, <1>1, <1>2, FitsByName
<1>4. Inside(Follow(r)) /\ Prefix(r, Len(r)) = r /\ Len(r) \in Nat
  BY DEF RequestFits, Prefix
<1>5. d # Len(r)
  BY <1>2, <1>3, <1>4 DEF Inside
<1>6. PICK n : n = d + 1
  OBVIOUS
<1>7. n \in 1..Len(r) /\ n \in (d + 1)..Len(r) /\ Len(r) \in n..Len(r) /\ n - 1 = d
  BY <1>4, <1>5, <1>6
<1>8. ~Exists(Entry(Prefix(r, n)))
  <2>1. Lstat(Prefix(r, n)) = "absent"
    BY <1>7 DEF DeepestAt
  <2> QED BY <2>1, TreeTypes DEF Lstat, Exists
<1>9. Follow(r) = f \o SubSeq(r, n, Len(r))
  <2>1. GoesOn(r, n, Len(r))
    BY <1>7, <1>8, NothingFurther
  <2>2. Follow(Prefix(r, Len(r))) = Follow(Prefix(r, n - 1)) \o SubSeq(r, n, Len(r))
    BY <2>1, Zenon DEF GoesOn
  <2> QED BY <1>2, <1>4, <1>7, <2>2
<1>10. Entry(Prefix(r, n)) = Append(f, r[n]) /\ r[n] \in Names
  BY <1>2, <1>7, OneName
<1>11. PICK t \in Seq(Names) : t = SubSeq(r, n, Len(r))
  <2>1. SubSeq(r, n, Len(r)) \in Seq(Names)
    BY <1>7
  <2> QED BY <2>1
<1>12. Len(t) \in Nat \ {0} /\ t[1] = r[n]
  BY <1>4, <1>7, <1>11
<1>13. PICK c \in Seq(Names) : c = f \o t
  <2>1. f \o t \in Seq(Names)
    OBVIOUS
  <2> QED BY <2>1
<1>14. StartsWith(c, Workspace)
  BY <1>9, <1>4, <1>11, <1>13 DEF Inside
<1>15. Len(f) < Len(Workspace)
  <2>1. SUFFICES ASSUME Len(Workspace) <= Len(f) PROVE FALSE
    BY <1>1
  <2>2. SubSeq(c, 1, Len(Workspace)) = Workspace
    BY <1>14 DEF StartsWith
  <2>3. SubSeq(c, 1, Len(Workspace)) = SubSeq(f, 1, Len(Workspace))
    <3>1. \A i \in 1..Len(Workspace) : c[i] = f[i]
      BY <1>1, <1>13, <2>1
    <3>2. Len(Workspace) <= Len(c)
      BY <1>1, <1>13, <2>1
    <3> QED BY <1>1, <2>1, <3>1, <3>2
  <2> QED BY <1>3, <2>1, <2>2, <2>3 DEF StartsWith
<1>16. Prefix(Workspace, Len(f) + 1) = Append(f, r[n])
  <2>1. PICK m : m = Len(f) + 1
    OBVIOUS
  <2>2. m \in 1..Len(Workspace) /\ m \in 1..Len(c)
    BY <1>1, <1>12, <1>13, <1>15, <2>1
  <2>3. SubSeq(c, 1, Len(Workspace)) = Workspace /\ Len(Workspace) <= Len(c)
    BY <1>14 DEF StartsWith
  <2>4. \A i \in 1..m : Workspace[i] = c[i]
    <3>1. \A i \in 1..Len(Workspace) : SubSeq(c, 1, Len(Workspace))[i] = c[i]
      BY <1>1, <2>3
    <3> QED BY <2>2, <2>3, <3>1
  <2>5. PICK a \in Seq(Names) : a = Prefix(Workspace, m)
    BY <1>1, <2>2, PrefixType
  <2>6. Len(a) = m /\ \A i \in 1..m : a[i] = c[i]
    BY <1>1, <2>2, <2>4, <2>5 DEF Prefix
  <2>7. PICK b \in Seq(Names) : b = Append(f, r[n])
    <3>1. Append(f, r[n]) \in Seq(Names)
      BY <1>10
    <3> QED BY <3>1
  <2>8. Len(b) = m /\ \A i \in 1..m : b[i] = c[i]
    BY <1>10, <1>12, <1>13, <2>1, <2>7
  <2>9. a = b
    BY <2>6, <2>8, SeqEqual
  <2> QED BY <2>1, <2>5, <2>7, <2>9
<1>17. Exists(Append(f, r[n]))
  <2>1. Len(f) + 1 \in 0..Len(Workspace)
    BY <1>1, <1>15
  <2> QED BY <1>16, <2>1 DEF WorkspaceInv, IsA
<1> QED BY <1>8, <1>10, <1>17

\* A request that fits passes validate_target_dir.
LEMMA FitsAccepted ==
  ASSUME TreeInv, ClosedInv, WorkspaceInv, NEW r \in Seq(Names), RequestFits(r)
  PROVE  Accepts(r)
<1>1. IsA(Root, "dir") /\ NoTraversal(r) /\ Inside(Follow(r)) /\ Len(r) \in Nat
  <2>1. 0 \in 0..Len(Workspace) /\ Prefix(Workspace, 0) = Root
    BY Fixed DEF Prefix, Root
  <2>2. IsA(Root, "dir")
    BY <2>1 DEF WorkspaceInv
  <2> QED BY <2>2 DEF RequestFits
<1>2. PICK d : d = Deepest(r)
  OBVIOUS
<1>3. DeepestAt(r, d)
  BY <1>1, <1>2, DeepestFacts
<1>4. Lstat(Prefix(r, d)) \in {"dir", "file"} /\ Resolves(Prefix(r, d))
  <2>1. CASE d = 0
    BY <1>1, <2>1, NoName DEF Resolves, IsA
  <2>2. CASE d # 0
    <3>1. d \in 1..Len(r)
      BY <1>3, <2>2 DEF DeepestAt
    <3>2. PICK q : q = Prefix(r, d)
      OBVIOUS
    <3>3. /\ ~ThroughFile(q) /\ (Exists(Entry(q)) => IsA(Follow(q), "dir"))
          /\ Lstat(q) = IF Exists(Entry(q)) THEN tree[Entry(q)].kind ELSE "absent"
      BY <1>1, <3>1, <3>2, FitsByName
    <3>4. Exists(Entry(q))
      BY <1>3, <3>2, <3>3 DEF DeepestAt
    <3>5. ~IsA(Entry(q), "link")
      BY <1>3, <3>1, <3>2, LastIsNoLink
    <3>6. Lstat(q) \in {"dir", "file"}
      BY <3>3, <3>4, <3>5, TreeTypes DEF IsA, Exists
    <3> QED BY <3>2, <3>3, <3>4, <3>6 DEF Resolves, IsA
  <2> QED BY <2>1, <2>2
<1>5. Placed(r)
  <2>1. Inside(Canonical(r))
    BY <1>1, CanonicalFollows
  <2> QED BY <1>2, <1>4, <2>1 DEF Placed, Existing
<1>6. ComponentsAccepted(r)
  <2>1. ASSUME NEW i \in 1..Len(r)
        PROVE  LET q == Prefix(r, i) IN
               /\ Lstat(q) # "notdir" /\ (Lstat(q) # "absent" => IsA(Follow(q), "dir"))
               /\ Lstat(q) = "link" =>
                    /\ Resolves(q)
                    /\ ~StartsWith(Follow(Parent(q)), Workspace)
                    /\ ~StartsWith(Follow(q), Workspace)
    <3>1. PICK q : q = Prefix(r, i)
      OBVIOUS
    <3>2. /\ ~ThroughFile(q) /\ (Exists(Entry(q)) => IsA(Follow(q), "dir"))
          /\ Lstat(q) = IF Exists(Entry(q)) THEN tree[Entry(q)].kind ELSE "absent"
          /\ IsA(Entry(q), "link") =>
               ~StartsWith(Entry(q), Workspace) /\ ~StartsWith(Follow(q), Workspace)
      BY <1>1, <3>1, FitsByName
    <3>3. Lstat(q) # "notdir" /\ (Lstat(q) # "absent" => IsA(Follow(q), "dir"))
      BY <3>2, TreeTypes DEF Exists
    <3>4. ASSUME Lstat(q) = "link"
          PROVE  /\ Resolves(q) /\ ~StartsWith(Follow(Parent(q)), Workspace)
                 /\ ~StartsWith(Follow(q), Workspace)
      <4>1. IsA(Entry(q), "link") /\ Exists(Follow(q))
        BY <3>2, <3>4 DEF IsA
      <4>2. PICK f \in Seq(Names) : f = Follow(Parent(q)) /\ Entry(q) = Append(f, r[i]) /\ r[i] \in Names
        BY <3>1, OneName
      <4>3. ~StartsWith(f, Workspace)
        BY <3>2, <4>1, <4>2, InsideBelow DEF Inside
      <4> QED BY <3>2, <4>1, <4>2, <4>3 DEF Resolves
    <3> QED BY <3>1, <3>3, <3>4
  <2> QED BY <2>1 DEF ComponentsAccepted
<1> QED BY <1>1, <1>5, <1>6 DEF Accepts

LEMMA RootIsThere ==
  ASSUME WorkspaceInv
  PROVE  IsA(Root, "dir")
<1>1. 0 \in 0..Len(Workspace) /\ Prefix(Workspace, 0) = Root
  BY Fixed DEF Prefix, Root
<1> QED BY <1>1 DEF WorkspaceInv

\* Of what validate_target_dir accepts no link is in the workspace or leads into it.
LEMMA AcceptedIsPlain ==
  ASSUME TreeInv, ClosedInv, WorkspaceInv, NEW r \in Seq(Names), Accepts(r),
         \A q \in DOMAIN tree : NoTraversal(q)
  PROVE  RequestIsPlain(r) /\ NoTraversal(Follow(r))
<1>1. IsA(Root, "dir") /\ Workspace \in Seq(Names) /\ Len(Workspace) \in Nat
  BY RootIsThere, Fixed
<1>2. NoTraversal(r) /\ Inside(Follow(r)) /\ Follow(r) = Canonical(r)
  BY <1>1, CanonicalFollows DEF Accepts, Placed
<1>3. ASSUME NEW i \in 1..Len(r), IsA(Entry(Prefix(r, i)), "link")
      PROVE  /\ ~StartsWith(Entry(Prefix(r, i)), Workspace)
             /\ ~StartsWith(Follow(Prefix(r, i)), Workspace)
  <2>1. PICK q : q = Prefix(r, i)
    OBVIOUS
  <2>2. Lstat(q) = "link"
    <3>1. Lstat(q) # "notdir"
      BY <2>1 DEF Accepts, ComponentsAccepted
    <3> QED BY <1>3, <2>1, <3>1 DEF Lstat, IsA
  <2>3. ~StartsWith(Follow(Parent(q)), Workspace) /\ ~StartsWith(Follow(q), Workspace)
    BY <2>1, <2>2 DEF Accepts, ComponentsAccepted
  <2>4. PICK f \in Seq(Names) : f = Follow(Parent(q)) /\ Entry(q) = Append(f, r[i]) /\ r[i] \in Names
    BY <2>1, OneName
  <2>5. PICK e \in Seq(Names) : e = Append(f, r[i]) /\ Len(e) = Len(f) + 1
                                /\ \A j \in 1..Len(f) : e[j] = f[j]
    <3>1. /\ Append(f, r[i]) \in Seq(Names) /\ Len(Append(f, r[i])) = Len(f) + 1
          /\ \A j \in 1..Len(f) : Append(f, r[i])[j] = f[j]
      BY <2>4
    <3> QED BY <3>1
  <2>6. ~StartsWith(e, Workspace)
    <3>1. SUFFICES ASSUME StartsWith(e, Workspace) PROVE FALSE
      OBVIOUS
    <3>2. Len(Workspace) <= Len(e) /\ SubSeq(e, 1, Len(Workspace)) = Workspace
      BY <3>1 DEF StartsWith
    <3>3. Len(Workspace) # Len(e)
      <4>1. SUFFICES ASSUME Len(Workspace) = Len(e) PROVE FALSE
        OBVIOUS
      <4>2. e = Workspace
        BY <3>2, <4>1
      <4>3. IsA(Workspace, "dir")
        <5>1. Len(Workspace) \in 0..Len(Workspace) /\ Prefix(Workspace, Len(Workspace)) = Workspace
          BY <1>1 DEF Prefix
        <5> QED BY <5>1 DEF WorkspaceInv
      <4> QED BY <1>3, <2>1, <2>4, <2>5, <4>2, <4>3 DEF IsA
    <3>4. Len(Workspace) <= Len(f)
      <4>1. PICK w \in Nat : w = Len(Workspace)
        BY <1>1
      <4>2. PICK n \in Nat : n = Len(f)
        OBVIOUS
      <4>3. w <= n + 1 /\ w # n + 1
        BY <2>5, <3>2, <3>3, <4>1, <4>2
      <4> QED BY <4>1, <4>2, <4>3
    <3>5. SubSeq(f, 1, Len(Workspace)) = SubSeq(e, 1, Len(Workspace))
      <4>1. PICK w \in Nat : w = Len(Workspace)
        BY <1>1
      <4>2. PICK n \in Nat : n = Len(f)
        OBVIOUS
      <4>3. w <= n /\ Len(e) = n + 1 /\ \A j \in 1..w : e[j] = f[j]
        BY <2>5, <3>4, <4>1, <4>2
      <4>4. SubSeq(f, 1, w) = SubSeq(e, 1, w)
        BY <4>2, <4>3
      <4> QED BY <4>1, <4>4
    <3> QED BY <2>3, <2>4, <3>2, <3>4, <3>5 DEF StartsWith
  <2> QED BY <2>1, <2>3, <2>4, <2>5, <2>6
<1>4. NoTraversal(Follow(r))
  <2>1. PICK d : d = Deepest(r)
    OBVIOUS
  <2>2. d \in 0..Len(r) /\ Len(r) \in Nat
    BY <1>1, <2>1, DeepestFacts DEF DeepestAt
  <2>3. PICK f \in Seq(Names) : f = Follow(Prefix(r, d))
    BY <2>2, PrefixType, FollowType
  <2>4. NoTraversal(f)
    BY <2>1, <2>3 DEF Accepts, Placed, Resolves, Existing, Exists
  <2>5. PICK n : n = d + 1
    OBVIOUS
  <2>6. Follow(r) = f \o SubSeq(r, n, Len(r))
    BY <1>2, <2>1, <2>3, <2>5 DEF Canonical, Existing
  <2>7. PICK t \in Seq(Names) : t = SubSeq(r, n, Len(r)) /\ \A i \in 1..Len(t) : t[i] # ".."
    <3>1. SubSeq(r, n, Len(r)) \in Seq(Names)
      BY <2>2, <2>5
    <3>2. ASSUME NEW i \in 1..Len(SubSeq(r, n, Len(r))) PROVE SubSeq(r, n, Len(r))[i] # ".."
      <4>1. n + i - 1 \in 1..Len(r) /\ SubSeq(r, n, Len(r))[i] = r[n + i - 1]
        BY <2>2, <2>5
      <4> QED BY <1>2, <4>1 DEF NoTraversal
    <3> QED BY <3>1, <3>2
  <2>8. NoTraversal(f \o t)
    <3>1. Len(f \o t) = Len(f) + Len(t)
      OBVIOUS
    <3>2. ASSUME NEW i \in 1..Len(f \o t) PROVE (f \o t)[i] # ".."
      <4>1. CASE i <= Len(f)
        BY <2>4, <4>1 DEF NoTraversal
      <4>2. CASE ~(i <= Len(f))
        <5>1. i - Len(f) \in 1..Len(t) /\ (f \o t)[i] = t[i - Len(f)]
          BY <3>1, <4>2
        <5> QED BY <2>7, <5>1
      <4> QED BY <4>1, <4>2
    <3> QED BY <3>2 DEF NoTraversal
  <2> QED BY <2>6, <2>7, <2>8
<1> QED BY <1>2, <1>3, <1>4 DEF RequestIsPlain

\* What is on the way to the target of a request that fits is a directory or can
\* become one.
LEMMA FitsFree ==
  ASSUME TreeInv, ClosedInv, WorkspaceInv, NEW r \in Seq(Names), RequestFits(r),
         NEW i \in 1..Len(Follow(r))
  PROVE  FreeOrDir(Prefix(Follow(r), i))
<1>1. IsA(Root, "dir") /\ Follow(r) = Canonical(r) /\ Len(r) \in Nat
  BY RootIsThere, CanonicalFollows
<1>2. PICK d : d = Deepest(r)
  OBVIOUS
<1>3. DeepestAt(r, d) /\ d \in 0..Len(r)
  BY <1>1, <1>2, DeepestFacts DEF DeepestAt
<1>4. PICK f \in Seq(Names) : f = Follow(Prefix(r, d))
  BY <1>3, PrefixType, FollowType
<1>5. IsA(f, "dir")
  <2>1. CASE d = 0
    BY <1>1, <1>4, <2>1, NoName
  <2>2. CASE d # 0
    <3>1. d \in 1..Len(r)
      BY <1>3, <2>2
    <3>2. Exists(Entry(Prefix(r, d)))
      BY <1>1, <1>3, <3>1, FitsByName DEF DeepestAt
    <3> QED BY <1>1, <1>4, <3>1, <3>2, FitsByName
  <2> QED BY <2>1, <2>2
<1>6. PICK n : n = d + 1
  OBVIOUS
<1>7. PICK t \in Seq(Names) : t = SubSeq(r, n, Len(r)) /\ Len(t) = Len(r) - d
                              /\ \A j \in 1..Len(t) : t[j] = r[d + j]
  <2>1. SubSeq(r, n, Len(r)) \in Seq(Names) /\ Len(SubSeq(r, n, Len(r))) = Len(r) - d
        /\ \A j \in 1..(Len(r) - d) : SubSeq(r, n, Len(r))[j] = r[d + j]
    BY <1>1, <1>3, <1>6
  <2> QED BY <2>1
<1>8. PICK T \in Seq(Names) : T = Follow(r) /\ T = f \o t
  <2>1. Follow(r) = f \o t /\ f \o t \in Seq(Names)
    BY <1>1, <1>2, <1>4, <1>6, <1>7 DEF Canonical, Existing
  <2> QED BY <2>1
<1>9. /\ Len(T) = Len(f) + Len(t) /\ \A j \in 1..Len(f) : T[j] = f[j]
      /\ \A j \in 1..Len(t) : T[Len(f) + j] = t[j]
  BY <1>8
<1>10. i \in 1..Len(T)
  BY <1>8
<1>11. CASE i <= Len(f)
  <2>1. Prefix(T, i) = Prefix(f, i)
    BY <1>9, <1>10, <1>11 DEF Prefix
  <2>2. i \in 0..Len(f)
    BY <1>10, <1>11
  <2> QED BY <1>5, <1>8, <2>1, <2>2, PlainDir DEF FreeOrDir
<1>12. CASE ~(i <= Len(f))
  <2>1. PICK m : m = d + (i - Len(f))
    OBVIOUS
  <2>2. m \in n..Len(r) /\ n \in 1..Len(r) /\ n \in (d + 1)..Len(r) /\ n - 1 = d
    <3>1. PICK x \in Nat : x = Len(f)
      OBVIOUS
    <3>2. PICK y \in Nat : y = Len(t)
      OBVIOUS
    <3>3. PICK z \in Nat : z = Len(r)
      OBVIOUS
    <3>4. y = z - d /\ i \in 1..(x + y) /\ ~(i <= x) /\ m = d + (i - x) /\ n = d + 1 /\ d \in 0..z
      BY <1>3, <1>6, <1>7, <1>9, <1>10, <1>12, <2>1, <3>1, <3>2, <3>3
    <3>5. m \in n..z /\ n \in 1..z /\ n \in (d + 1)..z /\ n - 1 = d
      BY <3>4
    <3> QED BY <3>3, <3>5
  <2>3. ~Exists(Entry(Prefix(r, n)))
    <3>1. Lstat(Prefix(r, n)) = "absent"
      BY <1>3, <2>2 DEF DeepestAt
    <3> QED BY <3>1, TreeTypes DEF Lstat, Exists
  <2>4. GoesOn(r, n, m)
    BY <2>2, <2>3, NothingFurther
  <2>5. ~Exists(Follow(Prefix(r, m))) /\ Follow(Prefix(r, m)) = Follow(Prefix(r, n - 1)) \o SubSeq(r, n, m)
    BY <2>4, Zenon DEF GoesOn
  <2>6. PICK u \in Seq(Names) : u = SubSeq(r, n, m) /\ Len(u) = i - Len(f)
                                /\ \A j \in 1..Len(u) : u[j] = r[d + j]
    <3>1. SubSeq(r, n, m) \in Seq(Names) /\ Len(SubSeq(r, n, m)) = i - Len(f)
          /\ \A j \in 1..(i - Len(f)) : SubSeq(r, n, m)[j] = r[d + j]
      <4>1. PICK x \in Nat : x = Len(f)
        OBVIOUS
      <4>2. PICK z \in Nat : z = Len(r)
        OBVIOUS
      <4>3. d \in 0..z /\ i \in Nat /\ m = d + (i - x) /\ n = d + 1 /\ m \in n..z /\ n \in 1..z
        BY <1>3, <1>6, <1>10, <2>1, <2>2, <4>1, <4>2
      <4>4. /\ SubSeq(r, n, m) \in Seq(Names) /\ Len(SubSeq(r, n, m)) = m - n + 1
            /\ \A j \in 1..(m - n + 1) : SubSeq(r, n, m)[j] = r[n + j - 1]
        BY <4>2, <4>3
      <4>5. m - n + 1 = i - x /\ \A j \in 1..(i - x) : n + j - 1 = d + j
        BY <4>3
      <4> QED BY <4>1, <4>4, <4>5
    <3> QED BY <3>1
  <2>7. PICK a \in Seq(Names) : a = Prefix(T, i) /\ Len(a) = i /\ \A j \in 1..i : a[j] = T[j]
    <3>1. Prefix(T, i) \in Seq(Names) /\ Len(Prefix(T, i)) = i /\ \A j \in 1..i : Prefix(T, i)[j] = T[j]
      BY <1>10 DEF Prefix
    <3> QED BY <3>1
  <2>8. PICK b \in Seq(Names) : /\ b = f \o u /\ Len(b) = i
                                /\ \A j \in 1..Len(f) : b[j] = f[j]
                                /\ \A j \in 1..Len(u) : b[Len(f) + j] = u[j]
    <3>1. f \o u \in Seq(Names)
      OBVIOUS
    <3>2. PICK x \in Nat : x = Len(f)
      OBVIOUS
    <3>3. Len(f \o u) = Len(f) + Len(u)
      OBVIOUS
    <3>4. Len(f \o u) = i
      <4>1. Len(u) = i - x /\ i \in Int
        BY <1>10, <2>6, <3>2
      <4> QED BY <3>2, <3>3, <4>1
    <3>5. /\ \A j \in 1..Len(f) : (f \o u)[j] = f[j]
          /\ \A j \in 1..Len(u) : (f \o u)[Len(f) + j] = u[j]
      OBVIOUS
    <3> QED BY <3>1, <3>4, <3>5
  <2>9. ASSUME NEW j \in 1..i PROVE a[j] = b[j]
    <3>1. CASE j <= Len(f)
      BY <1>9, <1>10, <2>7, <2>8, <3>1
    <3>2. CASE ~(j <= Len(f))
      <4>1. PICK k : k = j - Len(f)
        OBVIOUS
      <4>2. k \in 1..Len(u) /\ k \in 1..Len(t) /\ j = Len(f) + k
        <5>1. PICK x \in Nat : x = Len(f)
          OBVIOUS
        <5>2. PICK y \in Nat : y = Len(t)
          OBVIOUS
        <5>3. i \in 1..(x + y) /\ ~(j <= x) /\ k = j - x /\ j \in 1..i /\ Len(u) = i - x
          BY <1>9, <1>10, <2>6, <3>2, <4>1, <5>1, <5>2
        <5>4. k \in 1..(i - x) /\ k \in 1..y /\ j = x + k
          BY <5>3
        <5> QED BY <5>1, <5>2, <5>3, <5>4
      <4>3. a[j] = T[j] /\ j = Len(f) + k
        BY <2>7, <4>2
      <4>4. T[Len(f) + k] = t[k]
        BY <1>9, <4>2
      <4>5. t[k] = r[d + k]
        BY <1>7, <4>2
      <4>6. u[k] = r[d + k] /\ b[Len(f) + k] = u[k]
        BY <2>6, <2>8, <4>2
      <4>7. a[j] = a[Len(f) + k] /\ b[j] = b[Len(f) + k] /\ T[j] = T[Len(f) + k]
        BY <4>3, Zenon
      <4> QED BY <4>3, <4>4, <4>5, <4>6, <4>7, Zenon
    <3> QED BY <3>1, <3>2
  <2>10. a = b
    BY <2>7, <2>8, <2>9, SeqEqual
  <2> QED BY <1>4, <1>8, <2>2, <2>5, <2>6, <2>7, <2>8, <2>10 DEF FreeOrDir
<1> QED BY <1>10, <1>11, <1>12

\* Where a request leads to a directory, it fits.
LEMMA TargetFitsRequest ==
  ASSUME TreeInv, ClosedInv, NEW l, l.request \in Seq(Names), HasTarget(l)
  PROVE  RequestFits(l.request)
<1>1. PICK r \in Seq(Names) : r = l.request
  OBVIOUS
<1>2. RequestIsPlain(r) /\ IsA(Follow(r), "dir")
  BY <1>1 DEF HasTarget
<1>3. ASSUME NEW i \in 1..Len(r) PROVE IsA(Follow(Prefix(r, i)), "dir")
  <2>1. i \in 0..Len(r)
    OBVIOUS
  <2> QED BY <1>2, <2>1, AllTheWay
<1> QED BY <1>1, <1>2, <1>3 DEF RequestFits, RequestIsPlain

-----------------------------------------------------------------------------
(* What a process that is alone starts each step from *)

AloneHere == PrepInv /\ CalmInv /\ IsolationInv /\ ServeInv /\ AloneInv /\ ByItself
Footing(p, k) ==
  /\ PrepInv /\ CalmInv /\ TreeInv /\ ClosedInv /\ WorkspaceInv /\ ApartInv
  /\ Procs = {p} /\ p \in Procs /\ k = proc[p] /\ k \in Locals /\ LocalInv(k) /\ NameInv(k) /\ RunInv(p)
  /\ k.request \in Seq(Names) /\ IsA(Root, "dir")
  /\ \A q \in DOMAIN tree : NoTraversal(q) /\ tree[q].by \in {p, Host}
  /\ MadePlain(p) /\ NoRunYet(p)
  /\ k.pc # "failed" => OnCourse(Dirs, k)

LEMMA AllAlone ==
  ASSUME AloneHere, NEW p \in Procs, NEW k, k = proc[p]
  PROVE  Footing(p, k)
<1>1. /\ PrepInv /\ CalmInv /\ TreeInv /\ WorkspaceInv /\ moves = 0 /\ Apart
  BY DEF AloneHere, PrepInv, CalmInv, ByItself, Apart
<1>2. ApartInv /\ RunInv(p)
  BY <1>1 DEF AloneHere, IsolationInv
<1>3. ClosedInv /\ NameInv(k)
  BY <1>2 DEF ApartInv
<1>4. k \in Locals /\ LocalInv(k) /\ k.request \in Seq(Names)
  BY <1>1, LocalFacts DEF PrepInv
<1>5. Procs = {p}
  <2>1. IsFiniteSet(Procs) /\ Cardinality(Procs) = 1
    BY DEF AloneHere, ServeInv, ByItself
  <2>2. \E x : Procs = {x}
    BY <2>1, FS_Singleton
  <2> QED BY <2>2
<1>6. \A q \in DOMAIN tree : tree[q].by \in {p, Host}
  BY <1>1, <1>5, TreeTypes DEF EntriesBy
<1>7. /\ \A q \in DOMAIN tree : NoTraversal(q)
      /\ MadePlain(p) /\ NoRunYet(p)
      /\ k.pc # "failed" => OnCourse(Dirs, k)
  BY DEF AloneHere, AloneInv
<1>8. IsA(Root, "dir")
  BY <1>1, RootIsThere
<1> QED BY <1>1, <1>2, <1>3, <1>4, <1>5, <1>6, <1>7, <1>8 DEF Footing

\* One name more below a directory inside the workspace.
LEMMA OneMore ==
  ASSUME NEW R \in Seq(Names), Inside(R), NoTraversal(R), NEW x \in Names, x # ".."
  PROVE  /\ Append(R, x) \in Seq(Names) \ {Root} /\ Inside(Append(R, x))
         /\ NoTraversal(Append(R, x)) /\ Parent(Append(R, x)) = R
         /\ Len(Append(R, x)) = Len(R) + 1
         /\ \A i \in 0..Len(R) : Prefix(Append(R, x), i) = Prefix(R, i)
         /\ Prefix(R, Len(R)) = R
<1>1. StartsWith(R, Workspace)
  BY InsideIsBelow
<1>2. Append(R, x) \in Seq(Names) /\ Inside(Append(R, x))
  BY <1>1, InsideBelow
<1>3. Append(R, x) # Root
  BY <1>2, InsideIsBelow
<1>4. NoTraversal(Append(R, x))
  BY DEF NoTraversal
<1>5. Parent(Append(R, x)) = R
  BY DEF Parent, Prefix
<1>6. /\ Len(Append(R, x)) = Len(R) + 1
      /\ \A i \in 0..Len(R) : Prefix(Append(R, x), i) = Prefix(R, i)
      /\ Prefix(R, Len(R)) = R
  BY DEF Prefix
<1> QED BY <1>2, <1>3, <1>4, <1>5, <1>6

\* The target directory of the request, and where the runs in it are.
OnTarget(k, T, H, R) ==
  /\ T = Follow(k.request) /\ R = RunsOf(k) /\ H = Parent(R)
  /\ T \in Seq(Names) \ {Root} /\ IsA(T, "dir") /\ IsA(Parent(T), "dir")
  /\ Inside(T) /\ NoTraversal(T)
  /\ H = Append(T, CageName) /\ H \in Seq(Names) \ {Root}
  /\ R = Append(H, RunsName) /\ R \in Seq(Names) \ {Root} /\ Inside(R) /\ NoTraversal(R)
  /\ Len(R) = Len(T) + 2 /\ Prefix(R, Len(T) + 1) = H
  /\ \A i \in 0..Len(T) : Prefix(R, i) = Prefix(T, i)
  /\ RequestFits(k.request)

LEMMA HasGround ==
  ASSUME NEW p, NEW k, Footing(p, k), HasTarget(k)
  PROVE  \E T, H, R : OnTarget(k, T, H, R)
<1>1. PICK T : T = Follow(k.request)
  OBVIOUS
<1>2. T \in Seq(Names) /\ IsA(T, "dir") /\ Inside(T)
  BY <1>1, FollowType DEF HasTarget, RequestIsPlain, Footing
<1>3. T # Root
  BY <1>2, InsideIsBelow
<1>4. NoTraversal(T) /\ IsA(Parent(T), "dir")
  BY <1>2, <1>3 DEF Footing, IsA, Exists, ClosedInv
<1>5. CageName \in Names /\ RunsName \in Names /\ CageName # ".." /\ RunsName # ".."
  BY Fixed DEF CageName, RunsName
<1>6. PICK H : H = Append(T, CageName)
  OBVIOUS
<1>7. /\ H \in Seq(Names) \ {Root} /\ Inside(H) /\ NoTraversal(H) /\ Len(H) = Len(T) + 1
      /\ \A i \in 0..Len(T) : Prefix(H, i) = Prefix(T, i)
  BY <1>2, <1>4, <1>5, <1>6, OneMore
<1>8. PICK R : R = Append(H, RunsName)
  OBVIOUS
<1>9. /\ R \in Seq(Names) \ {Root} /\ Inside(R) /\ NoTraversal(R) /\ Len(R) = Len(H) + 1
      /\ Parent(R) = H /\ Prefix(H, Len(H)) = H
      /\ \A i \in 0..Len(H) : Prefix(R, i) = Prefix(H, i)
  BY <1>5, <1>7, <1>8, OneMore
<1>10. R = RunsOf(k)
  <2>1. R = T \o <<CageName, RunsName>>
    BY <1>2, <1>5, <1>6, <1>8
  <2> QED BY <1>1, <2>1 DEF RunsOf
<1>11. /\ Len(R) = Len(T) + 2 /\ Prefix(R, Len(T) + 1) = H
       /\ \A i \in 0..Len(T) : Prefix(R, i) = Prefix(T, i)
  <2>1. PICK n \in Nat : n = Len(T)
    BY <1>2
  <2>2. n + 1 \in 0..Len(H) /\ \A i \in 0..n : i \in 0..Len(H)
    BY <1>7, <2>1
  <2> QED BY <1>7, <1>9, <2>1, <2>2
<1>12. RequestFits(k.request)
  BY TargetFitsRequest DEF Footing
<1> QED BY <1>1, <1>2, <1>3, <1>4, <1>6, <1>7, <1>8, <1>9, <1>10, <1>11, <1>12 DEF OnTarget

\* The build directory, and the run it is in.
OnRun(k, run, goal) ==
  /\ run = k.run /\ goal = k.goal /\ goal = Append(run, BuildName)
  /\ run \in Seq(Names) \ {Root} /\ IsA(run, "dir") /\ Inside(run) /\ NoTraversal(run)
  /\ goal \in Seq(Names) \ {Root} /\ Parent(goal) = run /\ Inside(goal) /\ NoTraversal(goal)
  /\ Len(goal) = Len(run) + 1 /\ Prefix(goal, Len(run)) = run
  /\ IF k.reuse THEN run = Follow(k.request)
     ELSE TargetFits(k) /\ PlainTree(run) /\ FreeOrDir(goal) /\ Claimed(k)

LEMMA BuildGround ==
  ASSUME NEW p, NEW k, Footing(p, k), AtBuild(k)
  PROVE  \E run, goal : OnRun(k, run, goal)
<1>1. PICK T, H, R : OnTarget(k, T, H, R)
  BY HasGround DEF AtBuild
<1>2. PICK run : run = k.run
  OBVIOUS
<1>3. PICK goal : goal = k.goal
  OBVIOUS
<1>4. goal = Append(run, BuildName) /\ k.stage = "build"
      /\ run = (IF k.reuse THEN T ELSE Append(R, RunNames[k.key][k.attempt]))
  BY <1>1, <1>2, <1>3 DEF AtBuild, NamedRun, OnTarget
<1>5. /\ run \in Seq(Names) \ {Root} /\ Inside(run) /\ NoTraversal(run)
      /\ ~k.reuse => Parent(run) = R
  <2>1. CASE k.reuse
    BY <1>1, <1>4, <2>1 DEF OnTarget
  <2>2. CASE ~k.reuse
    <3>1. PICK x : x = RunNames[k.key][k.attempt]
      OBVIOUS
    <3>2. k \in Locals /\ k.attempt \in DOMAIN RunNames[k.key]
      BY LocalFacts DEF Footing
    <3>3. x \in Names /\ x # ".."
      BY <3>1, <3>2, RunNameFacts
    <3>4. R \in Seq(Names) /\ Inside(R) /\ NoTraversal(R)
      BY <1>1 DEF OnTarget
    <3> QED BY <1>4, <2>2, <3>1, <3>3, <3>4, OneMore
  <2> QED BY <2>1, <2>2
<1>6. ~k.reuse => Claimed(k) /\ RunOf(k) = run /\ FreshRun(k.key, run)
  BY <1>2, <1>4, HasItsRun DEF Footing, IsolatedBuild, NameInv
<1>7. IsA(run, "dir") /\ (~k.reuse => tree[run].by = p)
  <2>1. CASE k.reuse
    BY <1>1, <1>4, <2>1 DEF OnTarget
  <2>2. CASE ~k.reuse
    BY <1>6, <2>2 DEF RunInv, Footing
  <2> QED BY <2>1, <2>2
<1>8. BuildName \in Names /\ BuildName # ".."
  BY Fixed DEF BuildName
<1>9. /\ goal \in Seq(Names) \ {Root} /\ Parent(goal) = run /\ Inside(goal) /\ NoTraversal(goal)
      /\ Len(goal) = Len(run) + 1 /\ Prefix(goal, Len(run)) = run
  <2>1. /\ goal \in Seq(Names) \ {Root} /\ Parent(goal) = run /\ Inside(goal) /\ NoTraversal(goal)
        /\ Len(goal) = Len(run) + 1 /\ Prefix(run, Len(run)) = run
        /\ \A i \in 0..Len(run) : Prefix(goal, i) = Prefix(run, i)
    <3>1. run \in Seq(Names) /\ Inside(run) /\ NoTraversal(run) /\ goal = Append(run, BuildName)
      BY <1>4, <1>5
    <3>2. PICK x : x = BuildName
      OBVIOUS
    <3> QED BY <1>8, <3>1, <3>2, OneMore
  <2>2. Len(run) \in 0..Len(run)
    BY <1>5
  <2> QED BY <2>1, <2>2
<1>10. ASSUME ~k.reuse PROVE TargetFits(k) /\ PlainTree(run) /\ FreeOrDir(goal)
  <2>1. ASSUME NEW q \in DOMAIN tree, StartsWith(q, run) PROVE tree[q] = Dir(p)
    <3>1. tree[q].by # Host
      BY <1>6, <1>10, <2>1 DEF ApartInv, Footing
    <3>2. tree[q].by = p
      BY <3>1 DEF Footing
    <3>3. q # Lockfile
      <4>1. run[Len(run)] \in AllRunNames
        BY <1>6, <1>10, NameFacts DEF FreshRun, Footing, Locals
      <4>2. ASSUME q = Lockfile PROVE FALSE
        <5>1. Len(run) \in 1..Len(Lockfile) /\ Lockfile[Len(run)] = run[Len(run)]
          BY <1>5, <2>1, <4>2, StartsWithAppend, Fixed
        <5>2. \A i \in 1..Len(Lockfile) : Lockfile[i] \in Common
          BY NameFacts
        <5> QED BY <4>1, <5>1, <5>2 DEF Common
      <4> QED BY <4>2
    <3> QED BY <3>2, <3>3 DEF MadePlain, Footing
  <2>2. PlainTree(run)
    BY <2>1 DEF PlainTree, Dir
  <2>3. FreeOrDir(goal)
    <3>1. StartsWith(goal, run)
      BY <1>5, <1>9 DEF StartsWith, Prefix
    <3> QED BY <2>1, <3>1 DEF FreeOrDir, IsA, Exists, Dir
  <2>4. IsA(R, "dir") /\ IsA(H, "dir")
    <3>1. IsA(R, "dir")
      BY <1>5, <1>7, <1>10 DEF ClosedInv, Footing, IsA, Exists
    <3>2. IsA(Parent(R), "dir")
      BY <1>1, <3>1 DEF ClosedInv, Footing, IsA, Exists, OnTarget
    <3> QED BY <1>1, <3>1, <3>2 DEF OnTarget
  <2>5. k.attempt \in DOMAIN RunNames[k.key] /\ k.attempt \notin Taken(k)
    <3>1. k.attempt \in DOMAIN RunNames[k.key]
      BY LocalFacts DEF Footing
    <3>2. run = Append(RunsOf(k), RunNames[k.key][k.attempt])
      BY <1>1, <1>4, <1>10 DEF OnTarget
    <3>3. tree[run].by # Host
      BY <1>7, <1>10 DEF CalmInv, Footing
    <3> QED BY <3>1, <3>2, <3>3 DEF Taken
  <2>6. FreeOrDir(RunsOf(k)) /\ FreeOrDir(Parent(RunsOf(k)))
    BY <1>1, <2>4 DEF OnTarget, FreeOrDir
  <2>7. Taken(k) # DOMAIN RunNames[k.key]
    BY <2>5
  <2> QED BY <1>10, <2>2, <2>3, <2>6, <2>7 DEF TargetFits
<1> QED BY <1>1, <1>2, <1>3, <1>4, <1>5, <1>6, <1>7, <1>9, <1>10 DEF OnRun, OnTarget

\* A reused target's build directory that is taken is one the request cannot
\* have; an isolated one is never taken.
LEMMA BuildBlocked ==
  ASSUME NEW p, NEW k, Footing(p, k), AtBuild(k), ~FreeOrDir(k.goal)
  PROVE  ~Acceptable(k)
<1>1. PICK run, goal : OnRun(k, run, goal)
  BY BuildGround
<1>2. k.reuse /\ k.goal = Append(Follow(k.request), BuildName)
  BY <1>1 DEF OnRun
<1> QED BY <1>2 DEF Acceptable, TargetFits

-----------------------------------------------------------------------------
(* What keeps it on its course *)

\* A step moves no path.
LEMMA PlainKept ==
  ASSUME PrepInv, NEW p \in Procs, Prepare(p), NEW r \in Seq(Names)
  PROVE  Follow(r)' = Follow(r) /\ (RequestIsPlain(r)' <=> RequestIsPlain(r))
<1>1. Links' = Links /\ \A q \in Seq(Names) : Follow(q)' = Follow(q)
  BY FollowKept
<1>2. ASSUME NEW q PROVE IsA(q, "link")' <=> IsA(q, "link")
  <2>1. (IsA(q, "link") <=> q \in Links) /\ (IsA(q, "link")' <=> q \in Links')
    BY DEF IsA, Exists, Links
  <2> QED BY <1>1, <2>1
<1>3. ASSUME NEW n \in 1..Len(r)
      PROVE  /\ Follow(Prefix(r, n))' = Follow(Prefix(r, n))
             /\ Entry(Prefix(r, n))' = Entry(Prefix(r, n))
  <2>1. PICK q : q = Prefix(r, n)
    OBVIOUS
  <2>2. q \in Seq(Names) /\ Len(q) = n
    BY <2>1, PrefixType
  <2>3. PICK d : d = Parent(q)
    OBVIOUS
  <2>4. d \in Seq(Names)
    BY <2>2, <2>3 DEF Parent, Prefix
  <2>5. Follow(q)' = Follow(q) /\ Follow(d)' = Follow(d)
    BY <1>1, <2>2, <2>4
  <2>6. Entry(q)' = Entry(q)
    BY <2>3, <2>5 DEF Entry
  <2> QED BY <2>1, <2>5, <2>6
<1>4. PICK T : T = Follow(r)
  OBVIOUS
<1>5. Follow(r)' = T
  BY <1>1, <1>4
<1> QED BY <1>2, <1>3, <1>4, <1>5 DEF RequestIsPlain

\* What it knows of the tree stays true: it makes things, and makes no links.
LEMMA CourseKept ==
  ASSUME PrepInv, NEW p \in Procs, Prepare(p), NEW l, l.request \in Seq(Names),
         NEW D, D \subseteq Dirs', OnCourse(D, l),
         UNCHANGED tree \/ l.pc \notin {"make", "newLock", "openRun", "openLock", "mounted"}
  PROVE  OnCourse(Dirs, l)'
<1>1. Keeps
  BY FollowKept
<1>2. Follow(l.request)' = Follow(l.request)
      /\ (RequestIsPlain(l.request)' <=> RequestIsPlain(l.request))
  BY PlainKept
<1>3. RunsOf(l)' = RunsOf(l) /\ \A i : NamedRun(l, i)' = NamedRun(l, i)
  BY <1>2 DEF RunsOf, NamedRun
<1>4. ASSUME NEW q PROVE /\ IsA(q, "dir") => IsA(q, "dir")'
                         /\ IsA(q, "file") /\ tree[q].names = 1 =>
                              IsA(q, "file")' /\ tree'[q].names = 1
                         /\ OfHost(q) => OfHost(q)'
  BY <1>1 DEF Keeps, IsA, OfHost, Exists
<1>5. HasTarget(l) => HasTarget(l)'
  <2>1. PICK T : T = Follow(l.request) /\ Follow(l.request)' = T
    BY <1>2
  <2> QED BY <1>2, <1>4, <2>1 DEF HasTarget
<1>6. Reached(Dirs, l)'
  <2>1. Reached(D, l)
    BY DEF OnCourse
  <2>2. l.pc = "make" => ~Exists(Prefix(l.goal, l.depth))'
    BY <2>1 DEF Reached, Exists
  <2>3. PICK E : E = Dirs'
    OBVIOUS
  <2> QED BY <2>1, <2>2, <2>3 DEF Reached
<1>7. AtBase(l) => AtBase(l)'
  BY <1>2 DEF AtBase
<1>8. AtFresh(l) => AtFresh(l)'
  BY <1>2, <1>5 DEF AtFresh
<1>9. ASSUME AtRuns(l) PROVE AtRuns(l)'
  <2>1. ASSUME NEW i \in 1..(l.attempt - 1) PROVE OfHost(NamedRun(l, i))'
    <3>1. PICK q : q = NamedRun(l, i) /\ NamedRun(l, i)' = q
      BY <1>3
    <3>2. OfHost(q)'
      BY <1>4, <1>9, <3>1 DEF AtRuns
    <3> QED BY <3>1, <3>2 DEF OfHost
  <2> QED BY <1>3, <1>5, <1>9, <2>1 DEF AtRuns
<1>10. ASSUME AtBuild(l) PROVE AtBuild(l)'
  <2>1. /\ l.stage = "build" /\ HasTarget(l)'
        /\ l.pc \in {"validate", "inspect", "make", "confirm"} \cup Late
        /\ l.goal = Append(l.run, BuildName)
    BY <1>5, <1>10 DEF AtBuild
  <2>2. l.run = (IF l.reuse THEN Follow(l.request) ELSE NamedRun(l, l.attempt))'
    BY <1>2, <1>3, <1>10 DEF AtBuild
  <2>3. l.pc = "newLock" => ~Exists(Lockfile)'
    BY <1>10 DEF AtBuild, Exists
  <2>4. l.pc \in {"relock", "vet", "openRun", "openLock", "mounted"} =>
          IsA(Lockfile, "file")' /\ tree'[Lockfile].names = 1
    BY <1>4, <1>10 DEF AtBuild
  <2>5. l.pc \in {"openRun", "openLock", "mounted"} => PlainTree(l.run)'
    BY <1>10 DEF AtBuild, PlainTree
  <2> QED BY <2>1, <2>2, <2>3, <2>4, <2>5 DEF AtBuild
<1> QED BY <1>6, <1>7, <1>8, <1>9, <1>10 DEF OnCourse

\* One component further, where all components so far are directories.
Advances(D, k, l) ==
  /\ OnCourse(D, l) /\ l.pc \in {"inspect", "confirm", "claim"}
  /\ l.request = k.request /\ l.key = k.key /\ l.reuse = k.reuse /\ l.run = k.run
LEMMA DeeperCourse ==
  ASSUME NEW k \in Locals, LocalInv(k), NEW D, k.pc \in {"inspect", "make"},
         AtBase(k) \/ AtFresh(k) \/ AtRuns(k) \/ AtBuild(k),
         k.depth \in 1..Len(k.goal), \A i \in 0..k.depth : Prefix(k.goal, i) \in D
  PROVE  Advances(D, k, Deeper(k))
<1>1. k.goal \in Seq(Names) /\ Prefix(k.goal, Len(k.goal)) = k.goal /\ k.depth \in Nat
  BY LocalFacts DEF Prefix
<1>2. PICK l : l = Deeper(k)
  OBVIOUS
<1>3. CASE k.depth < Len(k.goal)
  <2>1. /\ l.pc = "inspect" /\ l.stage = k.stage /\ l.goal = k.goal /\ l.attempt = k.attempt
        /\ l.request = k.request /\ l.run = k.run /\ l.key = k.key /\ l.reuse = k.reuse
        /\ l.depth = k.depth + 1
    BY <1>2, <1>3 DEF Deeper, Locals
  <2>2. RunsOf(l) = RunsOf(k) /\ (\A i : NamedRun(l, i) = NamedRun(k, i))
        /\ (HasTarget(l) <=> HasTarget(k))
    BY <2>1 DEF NamedRun, RunsOf, HasTarget
  <2>3. AtBase(l) \/ AtFresh(l) \/ AtRuns(l) \/ AtBuild(l)
    BY <2>1, <2>2 DEF AtBase, AtFresh, AtRuns, AtBuild
  <2>4. Reached(D, l)
    <3>1. \A i \in 0..(l.depth - 1) : i \in 0..k.depth
      BY <1>1, <2>1
    <3> QED BY <2>1, <3>1 DEF Reached, Late
  <2> QED BY <1>2, <2>1, <2>3, <2>4 DEF OnCourse, Advances
<1>4. CASE ~(k.depth < Len(k.goal))
  <2>0. k.depth = Len(k.goal) /\ k.goal \in D
    BY <1>1, <1>4
  <2>1. CASE k.stage \in {"base", "build"}
    <3>1. l = [k EXCEPT !.pc = "confirm"]
      BY <1>2, <1>4, <2>1 DEF Deeper
    <3>2. /\ l.pc = "confirm" /\ l.stage = k.stage /\ l.goal = k.goal /\ l.attempt = k.attempt
          /\ l.request = k.request /\ l.run = k.run /\ l.key = k.key /\ l.reuse = k.reuse
      BY <3>1 DEF Locals
    <3>3. RunsOf(l) = RunsOf(k) /\ (\A i : NamedRun(l, i) = NamedRun(k, i))
          /\ (HasTarget(l) <=> HasTarget(k))
      BY <3>2 DEF NamedRun, RunsOf, HasTarget
    <3>4. AtBase(l) \/ AtBuild(l)
      BY <2>1, <3>2, <3>3 DEF AtBase, AtFresh, AtRuns, AtBuild
    <3>5. Reached(D, l)
      BY <2>0, <3>2 DEF Reached
    <3> QED BY <1>2, <3>2, <3>4, <3>5 DEF OnCourse, Advances
  <2>2. CASE k.stage = "fresh"
    <3>1. l = Creating(k, "runs", k.goal \o <<CageName, RunsName>>)
      BY <1>2, <1>4, <2>2 DEF Deeper
    <3>2. /\ l.pc = "inspect" /\ l.stage = "runs" /\ l.goal = k.goal \o <<CageName, RunsName>>
          /\ l.attempt = k.attempt /\ l.depth = 1
          /\ l.request = k.request /\ l.run = k.run /\ l.key = k.key /\ l.reuse = k.reuse
      BY <3>1 DEF Locals, Creating
    <3>3. k.attempt = 1 /\ k.goal = Follow(k.request) /\ HasTarget(k)
      BY <2>2 DEF AtBase, AtFresh, AtRuns, AtBuild
    <3>4. AtRuns(l)
      BY <3>2, <3>3 DEF AtRuns, RunsOf, HasTarget
    <3>5. Prefix(l.goal, 0) = Prefix(k.goal, 0) /\ 0 \in 0..k.depth
      BY <1>1 DEF Prefix
    <3>6. Reached(D, l)
      <4>1. \A i \in 0..(l.depth - 1) : i = 0
        BY <3>2
      <4> QED BY <3>2, <3>5, <4>1 DEF Reached, Late
    <3> QED BY <1>2, <3>2, <3>4, <3>6 DEF OnCourse, Advances
  <2>3. CASE k.stage = "runs"
    <3>1. l = [k EXCEPT !.pc = "claim"]
      BY <1>2, <1>4, <2>3 DEF Deeper
    <3>2. /\ l.pc = "claim" /\ l.stage = k.stage /\ l.goal = k.goal /\ l.attempt = k.attempt
          /\ l.request = k.request /\ l.run = k.run /\ l.key = k.key /\ l.reuse = k.reuse
      BY <3>1 DEF Locals
    <3>3. RunsOf(l) = RunsOf(k) /\ (\A i : NamedRun(l, i) = NamedRun(k, i))
          /\ (HasTarget(l) <=> HasTarget(k))
      BY <3>2 DEF NamedRun, RunsOf, HasTarget
    <3>4. AtRuns(l)
      BY <2>3, <3>2, <3>3 DEF AtBase, AtFresh, AtRuns, AtBuild
    <3>5. Reached(D, l)
      BY <2>0, <3>2 DEF Reached
    <3> QED BY <1>2, <3>2, <3>4, <3>5 DEF OnCourse, Advances
  <2> QED BY <2>1, <2>2, <2>3 DEF AtBase, AtFresh, AtRuns, AtBuild
<1> QED BY <1>3, <1>4

-----------------------------------------------------------------------------
(* Its steps *)

Continues(p, l) ==
  /\ Go(p, l) /\ l.request = proc[p].request /\ l.key = proc[p].key /\ l.reuse = proc[p].reuse
  /\ IF l.pc = "failed" THEN UNCHANGED tree /\ ~Acceptable(l) ELSE OnCourse(Dirs, l)'
  /\ Claimed(proc[p]) => Claimed(l)
  /\ \A q \in DOMAIN tree' \ DOMAIN tree :
       /\ NoTraversal(q) /\ (tree'[q] = Dir(p) \/ (q = Lockfile /\ tree'[q] = File(1, p)))
       /\ l.reuse \/ Claimed(l) \/ ~AmongRuns(q)
Stays(p) == \E l : Continues(p, l)

LEMMA NeverFails ==
  ASSUME NEW D, NEW l, OnCourse(D, l)
  PROVE  l.pc # "failed"
BY DEF OnCourse, AtBase, AtFresh, AtRuns, AtBuild, Late

\* A step that only reads.
LEMMA ReadsStay ==
  ASSUME NEW p, NEW k, Footing(p, k), Prepare(p), UNCHANGED tree, NEW l, Go(p, l),
         l.request = k.request, l.key = k.key, l.reuse = k.reuse, OnCourse(Dirs, l),
         Claimed(k) => Claimed(l)
  PROVE  Stays(p)
<1>1. Dirs' = Dirs
  BY DEF Dirs
<1>2. OnCourse(Dirs, l)'
  <2>1. PICK D : D = Dirs
    OBVIOUS
  <2>2. D \subseteq Dirs' /\ OnCourse(D, l)
    BY <1>1, <2>1
  <2>3. l.request \in Seq(Names) /\ PrepInv /\ p \in Procs
    BY DEF Footing
  <2> QED BY <2>2, <2>3, CourseKept
<1>3. l.pc # "failed"
  BY NeverFails
<1>4. DOMAIN tree' \ DOMAIN tree = {}
  OBVIOUS
<1> QED BY <1>2, <1>3, <1>4 DEF Stays, Continues, Footing

\* The same with the program counter alone changed.
LEMMA GoesOnReading ==
  ASSUME NEW p, NEW k, Footing(p, k), Prepare(p), UNCHANGED tree, k.pc # "check",
         NEW pc, Goto(p, pc), OnCourse(Dirs, [k EXCEPT !.pc = pc])
  PROVE  Stays(p)
<1>1. PICK l : l = [k EXCEPT !.pc = pc]
  OBVIOUS
<1>2. /\ l.pc = pc /\ l.request = k.request /\ l.key = k.key /\ l.reuse = k.reuse /\ l.run = k.run
  BY <1>1 DEF Footing, Locals
<1>3. Go(p, l)
  BY <1>1 DEF Goto, Footing
<1>4. Claimed(k) => Claimed(l)
  BY <1>2 DEF Claimed
<1> QED BY <1>1, <1>2, <1>3, <1>4, ReadsStay

\* It gives up only where the request cannot be served.
LEMMA GivesUp ==
  ASSUME NEW p, NEW k, Footing(p, k), UNCHANGED tree, k.pc # "check", Fail(p), ~Acceptable(k)
  PROVE  Stays(p)
<1>1. PICK l : l = [k EXCEPT !.pc = "failed"]
  OBVIOUS
<1>2. /\ l.pc = "failed" /\ l.request = k.request /\ l.key = k.key /\ l.reuse = k.reuse
      /\ l.run = k.run
  BY <1>1 DEF Footing, Locals
<1>3. Go(p, l)
  BY <1>1 DEF Fail, Goto, Footing
<1>4. Claimed(k) => Claimed(l)
  BY <1>2 DEF Claimed
<1>5. ~Acceptable(l)
  BY <1>2 DEF Acceptable, TargetFits, RunsOf, Taken
<1>6. DOMAIN tree' \ DOMAIN tree = {}
  OBVIOUS
<1> QED BY <1>2, <1>3, <1>4, <1>5, <1>6 DEF Stays, Continues, Footing

\* A step that makes something.
LEMMA MakesStay ==
  ASSUME NEW p, NEW k, Footing(p, k), Prepare(p), NEW l, Go(p, l),
         l.request = k.request, l.key = k.key, l.reuse = k.reuse,
         NEW q, NEW e, Put(q, e), ~Exists(q), NoTraversal(q),
         e = Dir(p) \/ (q = Lockfile /\ e = File(1, p)),
         OnCourse(Dirs, l)', l.pc # "failed",
         Claimed(k) => Claimed(l), l.reuse \/ Claimed(l) \/ ~AmongRuns(q)
  PROVE  Stays(p)
<1>1. DOMAIN tree' \ DOMAIN tree = {q} /\ tree'[q] = e
  BY DEF Put, Exists
<1> QED BY <1>1 DEF Stays, Continues, Footing

LEMMA ValidateStays ==
  ASSUME NEW p, NEW k, Footing(p, k), Validate(p)
  PROVE  Stays(p)
<1>1. k.pc = "validate" /\ Prepare(p) /\ UNCHANGED tree /\ OnCourse(Dirs, k) /\ k \in Locals
      /\ k = proc[p]
  BY DEF Validate, At, Reads, Prepare, Footing
<1>2. PICK l : l = Creating(k, k.stage, Canonical(k.goal))
  OBVIOUS
<1>3. /\ l.pc = "inspect" /\ l.stage = k.stage /\ l.goal = Canonical(k.goal) /\ l.attempt = k.attempt
      /\ l.request = k.request /\ l.run = k.run /\ l.key = k.key /\ l.reuse = k.reuse /\ l.depth = 1
  BY <1>1, <1>2 DEF Creating, Locals
<1>4. (Accepts(k.goal) /\ Go(p, l)) \/ (~Accepts(k.goal) /\ Fail(p))
  BY <1>1, <1>2 DEF Validate
<1>5. Claimed(k) => Claimed(l)
  BY <1>1, <1>3 DEF Claimed
<1>6. Reached(Dirs, l)
  <2>1. l.goal = Canonical(k.goal)
    BY <1>3
  <2>2. Prefix(l.goal, 0) = Root
    BY DEF Prefix, Root
  <2>3. Root \in Dirs
    BY DEF Footing, IsA, Exists, Dirs
  <2>4. \A i \in 0..(l.depth - 1) : i = 0
    BY <1>3
  <2> QED BY <1>3, <2>2, <2>3, <2>4 DEF Reached, Late
<1>7. ASSUME Accepts(k.goal), Go(p, l), AtBase(l) \/ AtFresh(l) \/ AtBuild(l) PROVE Stays(p)
  <2>1. OnCourse(Dirs, l)
    BY <1>6, <1>7 DEF OnCourse
  <2> QED BY <1>1, <1>3, <1>5, <1>7, <2>1, ReadsStay
<1>8. CASE AtBase(k)
  <2>1. PICK r \in Seq(Names) : r = k.request /\ k.goal = r /\ k.stage = "base" /\ k.attempt = 1
    BY <1>1, <1>8 DEF AtBase, Footing
  <2>2. CASE Accepts(r)
    <3>1. RequestIsPlain(r) /\ NoTraversal(Follow(r))
      BY <2>2, AcceptedIsPlain DEF Footing
    <3>2. Canonical(r) = Follow(r)
      BY CanonicalFollows DEF Footing
    <3>3. AtBase(l)
      BY <1>3, <2>1, <3>1, <3>2 DEF AtBase
    <3> QED BY <1>4, <1>7, <2>1, <2>2, <3>3
  <2>3. CASE ~Accepts(r)
    <3>1. ~RequestFits(r)
      BY <2>3, FitsAccepted DEF Footing
    <3>2. ~Acceptable(k)
      BY <2>1, <3>1 DEF Acceptable
    <3> QED BY <1>1, <1>4, <2>1, <2>3, <3>2, GivesUp
  <2> QED BY <2>2, <2>3
<1>9. CASE AtFresh(k)
  <2>1. PICK T, H, R : OnTarget(k, T, H, R)
    BY <1>9, HasGround DEF AtFresh
  <2>2. k.goal = T /\ Accepts(T) /\ Canonical(T) = T
    <3>1. k.goal = T
      BY <1>9, <2>1 DEF AtFresh, OnTarget
    <3>2. T \in Seq(Names) /\ T # Root /\ IsA(Parent(T), "dir") /\ Inside(T) /\ NoTraversal(T)
          /\ IsA(T, "dir") /\ TreeInv /\ ClosedInv
      BY <2>1 DEF OnTarget, Footing
    <3> QED BY <3>1, <3>2, PlainAccepted
  <2>3. T = Follow(l.request) /\ (HasTarget(l) <=> HasTarget(k))
    BY <1>3, <2>1 DEF OnTarget, HasTarget
  <2>4. AtFresh(l)
    BY <1>3, <1>9, <2>2, <2>3 DEF AtFresh
  <2> QED BY <1>4, <1>7, <2>2, <2>4
<1>10. CASE AtBuild(k)
  <2>1. PICK run, goal : OnRun(k, run, goal)
    BY <1>10, BuildGround
  <2>2. /\ k.goal = goal /\ goal = Append(run, BuildName) /\ run \in Seq(Names) \ {Root}
        /\ IsA(run, "dir") /\ Inside(run) /\ goal \in Seq(Names) /\ goal # Root
        /\ Parent(goal) = run /\ Inside(goal) /\ NoTraversal(goal) /\ TreeInv /\ ClosedInv
    BY <2>1 DEF OnRun, Footing
  <2>3. CASE Accepts(goal)
    <3>1. Canonical(goal) = goal
      BY <2>2, <2>3, CanonicalBuild
    <3>2. NamedRun(l, l.attempt) = NamedRun(k, k.attempt) /\ (HasTarget(l) <=> HasTarget(k))
      BY <1>3 DEF NamedRun, RunsOf, HasTarget
    <3>3. AtBuild(l)
      BY <1>3, <1>10, <2>2, <3>1, <3>2 DEF AtBuild, Late
    <3> QED BY <1>4, <1>7, <2>2, <2>3, <3>3
  <2>4. CASE ~Accepts(goal)
    <3>1. ~FreeOrDir(goal)
      BY <2>2, <2>4, PlainAccepted DEF FreeOrDir
    <3>2. ~Acceptable(k)
      BY <1>10, <2>2, <3>1, BuildBlocked
    <3> QED BY <1>1, <1>4, <2>2, <2>4, <3>2, GivesUp
  <2> QED BY <2>3, <2>4
<1> QED BY <1>1, <1>8, <1>9, <1>10 DEF OnCourse, AtRuns

\* The component it is at, in a directory it has passed.
NextName(k, q) ==
  /\ q = Prefix(k.goal, k.depth) /\ q \in Seq(Names) \ {Root}
  /\ k.goal \in Seq(Names) /\ k.depth \in 1..Len(k.goal)
  /\ IsA(Parent(q), "dir") /\ Entry(q) = q /\ Follow(Parent(q)) = Parent(q)
  /\ Lstat(q) = IF Exists(q) THEN tree[q].kind ELSE "absent"
  /\ \A i \in 0..(k.depth - 1) : Prefix(k.goal, i) \in Dirs

LEMMA AtName ==
  ASSUME NEW p, NEW k, Footing(p, k), k.pc \in {"inspect", "make"}
  PROVE  \E q : NextName(k, q)
<1>1. k.goal \in Seq(Names) /\ k.depth \in 1..Len(k.goal) /\ ClosedInv
  BY LocalFacts DEF Footing, NameInv
<1>2. \A i \in 0..(k.depth - 1) : Prefix(k.goal, i) \in Dirs
  BY DEF Footing, OnCourse, Reached
<1>3. PICK q : q = Prefix(k.goal, k.depth)
  OBVIOUS
<1>4. q \in Seq(Names) /\ q # Root /\ Parent(q) = Prefix(k.goal, k.depth - 1)
  <2>1. PICK g \in Seq(Names) : g = k.goal
    BY <1>1
  <2>2. PICK n \in 1..Len(g) : n = k.depth
    BY <1>1, <2>1
  <2>3. q = Prefix(g, n)
    BY <1>3, <2>1, <2>2
  <2>4. Prefix(g, n) \in Seq(Names) \ {Root} /\ Parent(Prefix(g, n)) = Prefix(g, n - 1)
    BY OneName DEF Footing
  <2> QED BY <2>1, <2>2, <2>3, <2>4
<1>5. IsA(Parent(q), "dir")
  <2>1. k.depth - 1 \in 0..(k.depth - 1)
    BY <1>1
  <2> QED BY <1>2, <1>4, <2>1 DEF Dirs, IsA, Exists
<1>6. /\ Entry(q) = q /\ Follow(Parent(q)) = Parent(q)
      /\ Lstat(q) = IF Exists(q) THEN tree[q].kind ELSE "absent"
  BY <1>1, <1>4, <1>5, PlainPath
<1> QED BY <1>1, <1>2, <1>3, <1>4, <1>5, <1>6 DEF NextName

\* What is in its way there is in the way of the request.
LEMMA Blocked ==
  ASSUME NEW p, NEW k, Footing(p, k), k.pc = "inspect", NEW q, NextName(k, q), ~FreeOrDir(q)
  PROVE  ~Acceptable(k)
<1>1. q = Prefix(k.goal, k.depth) /\ k.goal \in Seq(Names) /\ k.depth \in 1..Len(k.goal)
  BY DEF NextName
<1>2. AtBase(k) \/ AtFresh(k) \/ AtRuns(k) \/ AtBuild(k)
  BY DEF Footing, OnCourse
<1>3. CASE AtBase(k)
  <2>1. PICK r \in Seq(Names) : r = k.request /\ k.goal = Follow(r)
    BY <1>3 DEF AtBase, Footing
  <2>2. PICK n \in 1..Len(Follow(r)) : n = k.depth
    BY <1>1, <2>1
  <2>3. ~FreeOrDir(Prefix(Follow(r), n))
    BY <1>1, <2>1, <2>2
  <2>4. ~RequestFits(r)
    BY <2>3, FitsFree DEF Footing
  <2> QED BY <2>1, <2>4 DEF Acceptable
<1>4. ASSUME NEW d \in Seq(Names), IsA(d, "dir"), NEW n \in 0..Len(d), q = Prefix(d, n) PROVE FALSE
  BY <1>4, PlainDir DEF Footing, FreeOrDir
<1>5. CASE AtFresh(k)
  <2>1. PICK T, H, R : OnTarget(k, T, H, R)
    BY <1>5, HasGround DEF AtFresh
  <2>2. k.goal = T /\ T \in Seq(Names) /\ IsA(T, "dir")
    BY <1>5, <2>1 DEF AtFresh, OnTarget
  <2> QED BY <1>1, <1>4, <2>2
<1>6. CASE AtRuns(k)
  <2>1. PICK T, H, R : OnTarget(k, T, H, R)
    BY <1>6, HasGround DEF AtRuns
  <2>2. k.goal = R /\ ~k.reuse
    BY <1>6, <2>1 DEF AtRuns, OnTarget, Footing, NameInv
  <2>3. PICK n \in Nat : n = Len(T)
    BY <2>1 DEF OnTarget
  <2>4. k.depth \in 1..(n + 2)
    BY <1>1, <2>1, <2>2, <2>3 DEF OnTarget
  <2>5. CASE k.depth <= n
    <3>1. k.depth \in 0..Len(T)
      BY <2>3, <2>4, <2>5
    <3>2. q = Prefix(T, k.depth) /\ T \in Seq(Names) /\ IsA(T, "dir")
      BY <1>1, <2>1, <2>2, <3>1 DEF OnTarget
    <3> QED BY <1>4, <3>1, <3>2
  <2>6. CASE k.depth = n + 1
    <3>1. q = H
      BY <1>1, <2>1, <2>2, <2>3, <2>6 DEF OnTarget
    <3>2. ~FreeOrDir(Parent(RunsOf(k)))
      BY <2>1, <3>1 DEF OnTarget
    <3> QED BY <2>2, <3>2 DEF Acceptable, TargetFits
  <2>7. CASE k.depth = n + 2
    <3>1. q = R
      BY <1>1, <2>1, <2>2, <2>3, <2>7 DEF OnTarget, Prefix
    <3>2. ~FreeOrDir(RunsOf(k))
      BY <2>1, <3>1 DEF OnTarget
    <3> QED BY <2>2, <3>2 DEF Acceptable, TargetFits
  <2> QED BY <2>3, <2>4, <2>5, <2>6, <2>7
<1>7. CASE AtBuild(k)
  <2>1. PICK run, goal : OnRun(k, run, goal)
    BY <1>7, BuildGround
  <2>2. /\ k.goal = goal /\ run \in Seq(Names) /\ IsA(run, "dir") /\ Len(goal) = Len(run) + 1
        /\ Prefix(goal, Len(run)) = run /\ goal \in Seq(Names)
    BY <2>1 DEF OnRun
  <2>3. PICK n \in Nat : n = Len(run)
    BY <2>2
  <2>4. CASE k.depth <= n
    <3>1. k.depth \in 0..Len(run)
      BY <1>1, <2>3, <2>4
    <3>2. Prefix(goal, k.depth) = Prefix(run, k.depth)
      <4>1. Prefix(Prefix(goal, n), k.depth) = Prefix(goal, k.depth)
        BY <1>1, <2>2, <2>3, <2>4 DEF Prefix
      <4> QED BY <2>2, <2>3, <4>1
    <3> QED BY <1>1, <1>4, <2>2, <3>1, <3>2
  <2>5. CASE ~(k.depth <= n)
    <3>1. k.depth = Len(goal)
      BY <1>1, <2>2, <2>3, <2>5
    <3>2. q = k.goal
      BY <1>1, <2>2, <3>1 DEF Prefix
    <3> QED BY <1>7, <3>2, BuildBlocked
  <2> QED BY <2>4, <2>5
<1> QED BY <1>2, <1>3, <1>5, <1>6, <1>7

LEMMA InspectStays ==
  ASSUME NEW p, NEW k, Footing(p, k), InspectComponent(p)
  PROVE  Stays(p)
<1>1. /\ k.pc = "inspect" /\ Prepare(p) /\ UNCHANGED tree /\ k \in Locals /\ k = proc[p]
      /\ AtBase(k) \/ AtFresh(k) \/ AtRuns(k) \/ AtBuild(k)
      /\ Reached(Dirs, k)
  BY DEF InspectComponent, At, Reads, Prepare, Footing, OnCourse
<1>2. PICK q : NextName(k, q)
  BY <1>1, AtName
<1>3. /\ Lstat(q) = (IF Exists(q) THEN tree[q].kind ELSE "absent") /\ q = Prefix(k.goal, k.depth)
      /\ k.depth \in 1..Len(k.goal) /\ \A i \in 0..(k.depth - 1) : Prefix(k.goal, i) \in Dirs
  BY <1>2 DEF NextName
<1>4. \/ Lstat(q) = "dir" /\ Go(p, Deeper(k))
      \/ Lstat(q) = "absent" /\ Goto(p, "make")
      \/ Lstat(q) \notin {"dir", "absent"} /\ Fail(p)
  BY <1>1, <1>3 DEF InspectComponent
<1>5. CASE Lstat(q) = "dir" /\ Go(p, Deeper(k))
  <2>1. q \in Dirs
    BY <1>3, <1>5 DEF Dirs, Exists
  <2>2. \A i \in 0..k.depth : Prefix(k.goal, i) \in Dirs
    <3>1. \A i \in 0..k.depth : i = k.depth \/ i \in 0..(k.depth - 1)
      BY <1>3
    <3> QED BY <1>3, <2>1, <3>1
  <2>3. PICK l : l = Deeper(k)
    OBVIOUS
  <2>4. PICK D : D = Dirs
    OBVIOUS
  <2>5. /\ OnCourse(D, l) /\ l.request = k.request /\ l.key = k.key
        /\ l.reuse = k.reuse /\ l.run = k.run
    <3>1. k \in Locals /\ LocalInv(k)
      BY DEF Footing
    <3>2. \A i \in 0..k.depth : Prefix(k.goal, i) \in D
      BY <2>2, <2>4
    <3>3. k.pc \in {"inspect", "make"} /\ k.depth \in 1..Len(k.goal)
          /\ (AtBase(k) \/ AtFresh(k) \/ AtRuns(k) \/ AtBuild(k))
      BY <1>1, <1>3
    <3>4. Advances(D, k, Deeper(k))
      BY <3>1, <3>2, <3>3, DeeperCourse
    <3> QED BY <2>3, <3>4 DEF Advances
  <2>6. Claimed(k) => Claimed(l)
    BY <1>1, <2>5 DEF Claimed
  <2> QED BY <1>1, <1>5, <2>3, <2>4, <2>5, <2>6, ReadsStay
<1>6. CASE Lstat(q) = "absent" /\ Goto(p, "make")
  <2>1. ~Exists(q)
    BY <1>3, <1>6, TreeTypes DEF Footing, Exists
  <2>2. ~AtFresh(k)
    <3>1. ASSUME AtFresh(k) PROVE FALSE
      <4>1. PICK T, H, R : OnTarget(k, T, H, R)
        BY <3>1, HasGround DEF AtFresh
      <4>2. k.goal = T /\ T \in Seq(Names) /\ IsA(T, "dir")
        BY <3>1, <4>1 DEF AtFresh, OnTarget
      <4>3. PICK n \in 0..Len(T) : n = k.depth
        BY <1>3, <4>2
      <4>4. IsA(Prefix(T, n), "dir")
        BY <4>2, PlainDir DEF Footing
      <4> QED BY <1>3, <2>1, <4>2, <4>3, <4>4 DEF IsA
    <3> QED BY <3>1
  <2>3. PICK l : l = [k EXCEPT !.pc = "make"]
    OBVIOUS
  <2>4. /\ l.pc = "make" /\ l.stage = k.stage /\ l.goal = k.goal /\ l.attempt = k.attempt
        /\ l.request = k.request /\ l.run = k.run /\ l.key = k.key /\ l.reuse = k.reuse
        /\ l.depth = k.depth
    BY <1>1, <2>3 DEF Locals
  <2>5. RunsOf(l) = RunsOf(k) /\ (\A i : NamedRun(l, i) = NamedRun(k, i))
        /\ (HasTarget(l) <=> HasTarget(k))
    BY <2>4 DEF NamedRun, RunsOf, HasTarget
  <2>6. AtBase(l) \/ AtRuns(l) \/ AtBuild(l)
    BY <1>1, <2>2, <2>4, <2>5 DEF AtBase, AtRuns, AtBuild
  <2>7. Reached(Dirs, l)
    BY <1>3, <2>1, <2>4 DEF Reached, Late
  <2>8. OnCourse(Dirs, [k EXCEPT !.pc = "make"])
    BY <2>3, <2>6, <2>7 DEF OnCourse
  <2> QED BY <1>1, <1>6, <2>8, GoesOnReading
<1>7. CASE Lstat(q) \notin {"dir", "absent"} /\ Fail(p)
  <2>1. ~FreeOrDir(q)
    BY <1>3, <1>7 DEF FreeOrDir, IsA
  <2>2. ~Acceptable(k)
    BY <1>1, <1>2, <2>1, Blocked
  <2> QED BY <1>1, <1>7, <2>2, GivesUp
<1> QED BY <1>4, <1>5, <1>6, <1>7

\* What it makes below a directory of the goal has no name it must not have.
LEMMA GoalPlain ==
  ASSUME NEW p, NEW k, Footing(p, k), k.pc \in {"inspect", "make"}, NEW q, NextName(k, q)
  PROVE  NoTraversal(q) /\ (k.reuse \/ Claimed(k) \/ ~AmongRuns(q))
<1>1. q = Prefix(k.goal, k.depth) /\ k.goal \in Seq(Names) /\ k.depth \in 1..Len(k.goal)
  BY DEF NextName
<1>2. AtBase(k) \/ AtFresh(k) \/ AtRuns(k) \/ AtBuild(k)
  BY DEF Footing, OnCourse
<1>3. NoTraversal(k.goal)
  <2>1. CASE AtBase(k)
    BY <2>1 DEF AtBase
  <2>2. CASE AtFresh(k) \/ AtRuns(k)
    <3>1. PICK T, H, R : OnTarget(k, T, H, R)
      BY <2>2, HasGround DEF AtFresh, AtRuns
    <3> QED BY <2>2, <3>1 DEF AtFresh, AtRuns, OnTarget
  <2>3. CASE AtBuild(k)
    <3>1. PICK run, goal : OnRun(k, run, goal)
      BY <2>3, BuildGround
    <3> QED BY <3>1 DEF OnRun
  <2> QED BY <1>2, <2>1, <2>2, <2>3
<1>4. Len(q) = k.depth /\ \A i \in 1..Len(q) : i \in 1..Len(k.goal) /\ q[i] = k.goal[i]
  BY <1>1 DEF Prefix
<1>5. NoTraversal(q)
  BY <1>3, <1>4 DEF NoTraversal
<1>6. CASE IsolatedBuild(k)
  BY <1>5, <1>6, HasItsRun DEF Footing
<1>7. CASE ~IsolatedBuild(k)
  <2>1. k.goal \in Seq(Common)
    BY <1>7 DEF Footing, NameInv
  <2>2. ~AmongRuns(k.goal)
    BY <2>1, CommonOnly
  <2>3. ~AmongRuns(q)
    BY <1>1, <1>4, <2>2 DEF AmongRuns
  <2> QED BY <1>5, <2>3
<1> QED BY <1>5, <1>6, <1>7

LEMMA MakeStays ==
  ASSUME NEW p, NEW k, Footing(p, k), MakeComponent(p)
  PROVE  Stays(p)
<1>1. /\ k.pc = "make" /\ Prepare(p) /\ k \in Locals /\ k = proc[p] /\ LocalInv(k)
      /\ AtBase(k) \/ AtFresh(k) \/ AtRuns(k) \/ AtBuild(k)
      /\ Reached(Dirs, k) /\ p \in Procs /\ PrepInv /\ k.request \in Seq(Names)
  BY DEF MakeComponent, At, Prepare, Footing, OnCourse
<1>2. PICK q : NextName(k, q)
  BY <1>1, AtName
<1>3. /\ q = Prefix(k.goal, k.depth) /\ k.depth \in 1..Len(k.goal)
      /\ \A i \in 0..(k.depth - 1) : Prefix(k.goal, i) \in Dirs
      /\ Entry(q) = q
  BY <1>2 DEF NextName
<1>4. ~Exists(q) /\ CanMake(q)
  <2>1. ~Exists(q)
    BY <1>1, <1>3 DEF Reached
  <2> QED BY <1>2, <2>1 DEF CanMake, NextName
<1>5. Put(q, Dir(p)) /\ Go(p, Deeper(k))
  BY <1>1, <1>3, <1>4 DEF MakeComponent
<1>6. PICK l : l = Deeper(k)
  OBVIOUS
<1>7. PICK D : D = Dirs'
  OBVIOUS
<1>8. Dirs \subseteq D /\ q \in D
  BY <1>4, <1>5, <1>7 DEF Put, Dirs, Exists, Dir
<1>9. /\ OnCourse(D, l) /\ l.pc \in {"inspect", "confirm", "claim"} /\ l.request = k.request
      /\ l.key = k.key /\ l.reuse = k.reuse /\ l.run = k.run
  <2>1. \A i \in 0..k.depth : Prefix(k.goal, i) \in D
    <3>1. \A i \in 0..k.depth : i = k.depth \/ i \in 0..(k.depth - 1)
      BY <1>3
    <3> QED BY <1>3, <1>8, <3>1
  <2>2. k.pc \in {"inspect", "make"}
    BY <1>1
  <2>3. Advances(D, k, Deeper(k))
    <3>1. k \in Locals /\ LocalInv(k) /\ k.depth \in 1..Len(k.goal)
          /\ (AtBase(k) \/ AtFresh(k) \/ AtRuns(k) \/ AtBuild(k))
      BY <1>1, <1>3
    <3> QED BY <2>1, <2>2, <3>1, DeeperCourse
  <2> QED BY <1>6, <2>3 DEF Advances
<1>10. OnCourse(Dirs, l)'
  <2>1. l.request \in Seq(Names) /\ D \subseteq Dirs'
        /\ l.pc \notin {"make", "newLock", "openRun", "openLock", "mounted"}
    BY <1>1, <1>7, <1>9
  <2> QED BY <1>1, <1>9, <2>1, CourseKept
<1>11. NoTraversal(q) /\ (k.reuse \/ Claimed(k) \/ ~AmongRuns(q))
  BY <1>1, <1>2, GoalPlain
<1>12. Claimed(k) => Claimed(l)
  BY <1>1, <1>9 DEF Claimed
<1>13. l.pc # "failed" /\ (l.reuse \/ Claimed(l) \/ ~AmongRuns(q)) /\ Go(p, l)
  BY <1>5, <1>6, <1>9, <1>11, <1>12
<1> QED BY <1>1, <1>4, <1>5, <1>9, <1>10, <1>11, <1>12, <1>13, MakesStay

LEMMA ConfirmStays ==
  ASSUME NEW p, NEW k, Footing(p, k), Confirm(p)
  PROVE  Stays(p)
<1>1. /\ k.pc = "confirm" /\ Prepare(p) /\ UNCHANGED tree /\ k \in Locals /\ k = proc[p]
      /\ LocalInv(k) /\ (AtBase(k) \/ AtBuild(k))
      /\ Reached(Dirs, k) /\ Inside(k.goal)
  BY DEF Confirm, At, Reads, Prepare, Footing, OnCourse, AtFresh, AtRuns, LocalInv
<1>2. PICK T : T = k.goal
  OBVIOUS
<1>3. T \in Seq(Names) /\ T # Root /\ IsA(T, "dir")
  <2>1. T \in Seq(Names) /\ Inside(T)
    <3>1. LocalInv(k) /\ Inside(k.goal)
      BY <1>1
    <3>2. k.goal \in Seq(Names)
      BY <3>1, LocalFacts
    <3> QED BY <1>2, <3>1, <3>2
  <2>2. T \in Dirs
    BY <1>1, <1>2 DEF Reached
  <2> QED BY <2>1, <2>2, InsideIsBelow DEF Dirs, IsA, Exists
<1>4. Follow(T) = T /\ Resolves(T)
  <2>1. T \in DOMAIN tree /\ tree[T].kind # "link"
    BY <1>3 DEF IsA, Exists
  <2>2. Follow(T) = T /\ ~ThroughFile(T)
    BY <1>3, <2>1, ClosedEntry DEF Footing
  <2> QED BY <2>1, <2>2 DEF Resolves, Exists
<1>5. \/ k.stage = "build" /\ Goto(p, "lock")
      \/ k.stage = "base" /\ ~k.reuse /\ Go(p, Validating([k EXCEPT !.base = T], "fresh", T))
      \/ k.stage = "base" /\ k.reuse
           /\ Go(p, Validating([k EXCEPT !.base = T, !.run = T], "build", Append(T, BuildName)))
  BY <1>1, <1>2, <1>4 DEF Confirm
<1>6. CASE k.stage = "build" /\ Goto(p, "lock")
  <2>1. AtBuild(k)
    BY <1>1, <1>6 DEF AtBase
  <2>2. PICK l : l = [k EXCEPT !.pc = "lock"]
    OBVIOUS
  <2>3. /\ l.pc = "lock" /\ l.stage = k.stage /\ l.goal = k.goal /\ l.attempt = k.attempt
        /\ l.request = k.request /\ l.run = k.run /\ l.key = k.key /\ l.reuse = k.reuse
    BY <1>1, <2>2 DEF Locals
  <2>4. NamedRun(l, l.attempt) = NamedRun(k, k.attempt) /\ (HasTarget(l) <=> HasTarget(k))
    BY <2>3 DEF NamedRun, RunsOf, HasTarget
  <2>5. AtBuild(l)
    BY <2>1, <2>3, <2>4 DEF AtBuild, Late
  <2>6. Reached(Dirs, l)
    BY <1>1, <2>3 DEF Reached
  <2> QED BY <1>1, <1>6, <2>2, <2>5, <2>6, GoesOnReading DEF OnCourse
<1>7. ASSUME k.stage = "base" PROVE /\ T = Follow(k.request) /\ k.attempt = 1 /\ HasTarget(k)
  <2>1. AtBase(k)
    BY <1>1, <1>7 DEF AtBuild
  <2> QED BY <1>1, <1>2, <1>3, <2>1 DEF AtBase, HasTarget
<1>8. CASE k.stage = "base" /\ ~k.reuse /\ Go(p, Validating([k EXCEPT !.base = T], "fresh", T))
  <2>1. PICK l : l = Validating([k EXCEPT !.base = T], "fresh", T)
    OBVIOUS
  <2>2. /\ l.pc = "validate" /\ l.stage = "fresh" /\ l.goal = T /\ l.attempt = k.attempt
        /\ l.request = k.request /\ l.run = k.run /\ l.key = k.key /\ l.reuse = k.reuse
    BY <1>1, <2>1 DEF Locals, Validating
  <2>3. AtFresh(l)
    BY <1>7, <1>8, <2>2 DEF AtFresh, HasTarget
  <2>4. Reached(Dirs, l)
    BY <2>2 DEF Reached, Late
  <2>5. Claimed(k) => Claimed(l)
    BY <1>1, <2>2 DEF Claimed
  <2>6. OnCourse(Dirs, l)
    BY <2>3, <2>4 DEF OnCourse
  <2> QED BY <1>1, <1>8, <2>1, <2>2, <2>5, <2>6, ReadsStay
<1>9. CASE k.stage = "base" /\ k.reuse
           /\ Go(p, Validating([k EXCEPT !.base = T, !.run = T], "build", Append(T, BuildName)))
  <2>1. PICK l : l = Validating([k EXCEPT !.base = T, !.run = T], "build", Append(T, BuildName))
    OBVIOUS
  <2>2. /\ l.pc = "validate" /\ l.stage = "build" /\ l.goal = Append(T, BuildName)
        /\ l.attempt = k.attempt /\ l.run = T
        /\ l.request = k.request /\ l.key = k.key /\ l.reuse = k.reuse
    BY <1>1, <2>1 DEF Locals, Validating
  <2>3. AtBuild(l)
    BY <1>7, <1>9, <2>2 DEF AtBuild, HasTarget
  <2>4. Reached(Dirs, l)
    BY <2>2 DEF Reached, Late
  <2>5. Claimed(k) => Claimed(l)
    BY <1>9 DEF Claimed
  <2>6. OnCourse(Dirs, l)
    BY <2>3, <2>4 DEF OnCourse
  <2> QED BY <1>1, <1>9, <2>1, <2>2, <2>5, <2>6, ReadsStay
<1> QED BY <1>5, <1>6, <1>8, <1>9

LEMMA ClaimStays ==
  ASSUME NEW p, NEW k, Footing(p, k), ClaimRun(p)
  PROVE  Stays(p)
<1>1. /\ k.pc = "claim" /\ Prepare(p) /\ k \in Locals /\ k = proc[p] /\ LocalInv(k) /\ NameInv(k)
      /\ AtRuns(k) /\ Reached(Dirs, k) /\ k.attempt \in DOMAIN RunNames[k.key]
      /\ PrepInv /\ p \in Procs /\ k.request \in Seq(Names)
  BY LocalFacts
     DEF ClaimRun, At, Prepare, Footing, OnCourse, AtBase, AtFresh, AtBuild, Late
<1>2. PICK T, H, R : OnTarget(k, T, H, R)
  BY <1>1, HasGround DEF AtRuns
<1>3. k.goal = R /\ ~k.reuse /\ ~Claimed(k) /\ k.stage = "runs"
  <2>1. k.goal = R /\ ~k.reuse /\ k.stage = "runs"
    BY <1>1, <1>2 DEF AtRuns, OnTarget, NameInv
  <2> QED BY <1>1, <2>1 DEF Claimed, NameInv
<1>4. IsA(R, "dir")
  BY <1>1, <1>3 DEF Reached, Dirs, IsA, Exists
<1>5. PICK names : names = RunNames[k.key]
  OBVIOUS
<1>6. names \in Seq(Names) /\ DOMAIN names = 1..Len(names) /\ Len(names) \in Nat
      /\ k.attempt \in 1..Len(names)
  BY <1>1, <1>5, PrepAssumption DEF Locals
<1>7. ASSUME NEW i \in DOMAIN names, NEW c, c = NamedRun(k, i)
      PROVE  /\ c = Append(R, names[i]) /\ c \in Seq(Names) /\ c # Root /\ Parent(c) = R
             /\ NoTraversal(c) /\ AmongRuns(c) /\ (Exists(c) => OfHost(c))
  <2>1. PICK x : x = names[i]
    OBVIOUS
  <2>2. c = Append(R, x)
    BY <1>2, <1>5, <1>7, <2>1 DEF NamedRun, OnTarget
  <2>3. x \in Names /\ x # ".." /\ x \in AllRunNames
    BY <1>1, <1>5, <2>1, RunNameFacts
  <2>4. R \in Seq(Names) /\ Inside(R) /\ NoTraversal(R)
    BY <1>2 DEF OnTarget
  <2>5. c \in Seq(Names) \ {Root} /\ Parent(c) = R /\ NoTraversal(c)
    BY <2>2, <2>3, <2>4, OneMore
  <2>6. AmongRuns(c)
    <3>1. Len(R) + 1 \in DOMAIN c /\ c[Len(R) + 1] = x
      BY <2>2, <2>3, <2>4
    <3> QED BY <2>3, <3>1 DEF AmongRuns
  <2>7. Exists(c) => OfHost(c)
    <3>1. NoRunYet(p) /\ \A q \in DOMAIN tree : tree[q].by \in {p, Host}
      BY DEF Footing
    <3> QED BY <1>1, <1>3, <2>6, <3>1 DEF NoRunYet, OfHost, Exists
  <2> QED BY <2>1, <2>2, <2>5, <2>6, <2>7
<1>8. PICK c : c = NamedRun(k, k.attempt)
  OBVIOUS
<1>9. /\ c = Candidate(k) /\ c \in Seq(Names) /\ c # Root /\ Parent(c) = R
      /\ NoTraversal(c) /\ (Exists(c) => OfHost(c))
  <2>1. k.attempt \in DOMAIN names
    BY <1>6
  <2>2. /\ c = Append(R, names[k.attempt]) /\ c \in Seq(Names) /\ c # Root /\ Parent(c) = R
        /\ NoTraversal(c) /\ (Exists(c) => OfHost(c))
    BY <1>7, <1>8, <2>1
  <2> QED BY <1>3, <1>5, <2>2 DEF Candidate
<1>10. Entry(c) = c /\ ~ThroughFile(c) /\ (CanMake(c) <=> ~Exists(c))
  <2>1. Entry(c) = c /\ ~ThroughFile(c) /\ Follow(Parent(c)) = Parent(c)
    BY <1>4, <1>9, PlainPath DEF Footing
  <2> QED BY <1>4, <1>9, <2>1 DEF CanMake
<1>11. CASE ~Exists(c)
  <2>1. PICK l : l = [k EXCEPT !.pc = "check"]
    OBVIOUS
  <2>2. Go(p, l) /\ Put(c, Dir(p))
    BY <1>1, <1>9, <1>10, <1>11, <2>1 DEF ClaimRun
  <2>3. /\ l.pc = "check" /\ l.stage = k.stage /\ l.goal = k.goal /\ l.attempt = k.attempt
        /\ l.request = k.request /\ l.run = k.run /\ l.key = k.key /\ l.reuse = k.reuse
    BY <1>1, <2>1 DEF Locals
  <2>4. RunsOf(l) = RunsOf(k) /\ (\A i : NamedRun(l, i) = NamedRun(k, i))
        /\ (HasTarget(l) <=> HasTarget(k))
    BY <2>3 DEF NamedRun, RunsOf, HasTarget
  <2>5. PICK D : D = Dirs
    OBVIOUS
  <2>6. OnCourse(D, l)
    <3>1. AtRuns(l)
      BY <1>1, <2>3, <2>4 DEF AtRuns
    <3>2. Reached(D, l)
      BY <1>1, <2>3, <2>5 DEF Reached
    <3> QED BY <3>1, <3>2 DEF OnCourse
  <2>7. D \subseteq Dirs'
    BY <1>11, <2>2, <2>5 DEF Put, Dirs, Exists, Dir
  <2>8. OnCourse(Dirs, l)'
    <3>1. l.request \in Seq(Names)
          /\ l.pc \notin {"make", "newLock", "openRun", "openLock", "mounted"}
      BY <1>1, <2>3
    <3> QED BY <1>1, <2>6, <2>7, <3>1, CourseKept
  <2>9. Claimed(l) /\ l.pc # "failed"
    BY <1>3, <2>3 DEF Claimed
  <2> QED BY <1>1, <1>9, <1>11, <2>2, <2>3, <2>8, <2>9, MakesStay
<1>12. CASE Exists(c) /\ k.attempt < Len(names)
  <2>1. PICK l : l = [k EXCEPT !.attempt = @ + 1]
    OBVIOUS
  <2>2. Go(p, l) /\ UNCHANGED tree
    BY <1>1, <1>5, <1>9, <1>10, <1>12, <2>1 DEF ClaimRun
  <2>3. /\ l.pc = "claim" /\ l.stage = k.stage /\ l.goal = k.goal /\ l.attempt = k.attempt + 1
        /\ l.request = k.request /\ l.run = k.run /\ l.key = k.key /\ l.reuse = k.reuse
    BY <1>1, <2>1 DEF Locals
  <2>4. RunsOf(l) = RunsOf(k) /\ (\A i : NamedRun(l, i) = NamedRun(k, i))
        /\ (HasTarget(l) <=> HasTarget(k))
    BY <2>3 DEF NamedRun, RunsOf, HasTarget
  <2>5. ASSUME NEW i \in 1..(l.attempt - 1) PROVE OfHost(NamedRun(l, i))
    <3>1. i = k.attempt \/ i \in 1..(k.attempt - 1)
      BY <1>6, <2>3
    <3> QED BY <1>1, <1>8, <1>9, <1>12, <2>4, <3>1 DEF AtRuns
  <2>6. AtRuns(l)
    BY <1>1, <2>3, <2>4, <2>5 DEF AtRuns
  <2>7. Reached(Dirs, l)
    BY <1>1, <2>3 DEF Reached
  <2>8. OnCourse(Dirs, l)
    BY <2>6, <2>7 DEF OnCourse
  <2> QED BY <1>1, <1>3, <2>2, <2>3, <2>8, ReadsStay
<1>13. CASE Exists(c) /\ ~(k.attempt < Len(names))
  <2>1. Fail(p) /\ UNCHANGED tree
    BY <1>1, <1>5, <1>9, <1>10, <1>13 DEF ClaimRun
  <2>2. ASSUME NEW i \in DOMAIN names PROVE OfHost(NamedRun(k, i))
    <3>1. i = k.attempt \/ i \in 1..(k.attempt - 1)
      BY <1>6, <1>13
    <3> QED BY <1>1, <1>8, <1>9, <1>13, <3>1 DEF AtRuns
  <2>3. Taken(k) = DOMAIN RunNames[k.key]
    BY <1>5, <2>2 DEF Taken, OfHost, NamedRun
  <2>4. ~Acceptable(k)
    BY <1>3, <2>3 DEF Acceptable, TargetFits
  <2> QED BY <1>1, <2>1, <2>4, GivesUp
<1> QED BY <1>11, <1>12, <1>13

LEMMA CheckRunStays ==
  ASSUME NEW p, NEW k, Footing(p, k), CheckRun(p)
  PROVE  Stays(p)
<1>1. /\ k.pc = "check" /\ Prepare(p) /\ UNCHANGED tree /\ k \in Locals /\ k = proc[p]
      /\ LocalInv(k) /\ NameInv(k) /\ RunInv(p) /\ ClosedInv
      /\ AtRuns(k) /\ Reached(Dirs, k) /\ k.attempt \in DOMAIN RunNames[k.key]
  BY LocalFacts
     DEF CheckRun, At, Reads, Prepare, Footing, OnCourse, AtBase, AtFresh, AtBuild, Late
<1>2. ~k.reuse /\ k.goal = RunsOf(k)
  BY <1>1 DEF AtRuns, NameInv
<1>3. PICK run : run = Candidate(k)
  OBVIOUS
<1>4. Claimed(k) /\ RunOf(k) = run /\ run = NamedRun(k, k.attempt)
  BY <1>1, <1>2, <1>3 DEF Claimed, RunOf, NamedRun, Candidate
<1>5. run \in Seq(Names) \ {Root} /\ FreshRun(k.key, run)
  BY <1>1, <1>4, RunOfName
<1>6. Lstat(run) = "dir"
  <2>1. IsA(run, "dir")
    BY <1>1, <1>4 DEF RunInv
  <2> QED BY <1>1, <1>5, <2>1, ClosedEntry DEF IsA, Exists
<1>7. PICK l : l = Validating([k EXCEPT !.run = run], "build", Append(run, BuildName))
  OBVIOUS
<1>8. Go(p, l)
  BY <1>1, <1>3, <1>6, <1>7 DEF CheckRun
<1>9. /\ l.pc = "validate" /\ l.stage = "build" /\ l.goal = Append(run, BuildName)
      /\ l.run = run /\ l.attempt = k.attempt
      /\ l.request = k.request /\ l.key = k.key /\ l.reuse = k.reuse
  BY <1>1, <1>7 DEF Locals, Validating
<1>10. NamedRun(l, l.attempt) = NamedRun(k, k.attempt) /\ (HasTarget(l) <=> HasTarget(k))
  BY <1>9 DEF NamedRun, RunsOf, HasTarget
<1>11. AtBuild(l)
  BY <1>1, <1>2, <1>4, <1>9, <1>10 DEF AtBuild, AtRuns
<1>12. OnCourse(Dirs, l)
  <2>1. Reached(Dirs, l)
    BY <1>9 DEF Reached, Late
  <2> QED BY <1>11, <2>1 DEF OnCourse
<1>13. Claimed(l)
  <2>1. run # None
    <3>1. run[Len(run)] \in AllRunNames
      BY <1>1, <1>5, NameFacts DEF FreshRun, Locals
    <3>2. None[Len(None)] = ".."
      BY DEF None
    <3> QED BY <3>1, <3>2, RunNameAssumption
  <2> QED BY <1>2, <1>9, <2>1 DEF Claimed
<1> QED BY <1>1, <1>8, <1>9, <1>12, <1>13, ReadsStay

\* What a process sees of the lockfile.
LEMMA SeesLockfile ==
  ASSUME NEW p, NEW k, Footing(p, k)
  PROVE  /\ Lockfile \in Seq(Names) \ {Root} /\ Entry(Lockfile) = Lockfile
         /\ Lstat(Lockfile) = IF Exists(Lockfile) THEN tree[Lockfile].kind ELSE "absent"
         /\ CanMake(Lockfile) <=> ~Exists(Lockfile)
         /\ ValidLockfile <=> IsA(Lockfile, "file") /\ tree[Lockfile].names = 1
         /\ NoTraversal(Lockfile)
<1>1. Lockfile \in Seq(Names) /\ Lockfile # Root
  BY Fixed, LockfileInside, InsideIsBelow
<1>2. Parent(Lockfile) = Workspace /\ IsA(Workspace, "dir")
  <2>1. Workspace \in Seq(Names)
    BY Fixed
  <2>2. Parent(Lockfile) = Workspace
    BY <2>1 DEF Lockfile, Parent, Prefix
  <2>3. Len(Workspace) \in 0..Len(Workspace) /\ Prefix(Workspace, Len(Workspace)) = Workspace
    BY <2>1 DEF Prefix
  <2> QED BY <2>2, <2>3 DEF Footing, WorkspaceInv
<1>3. /\ Entry(Lockfile) = Lockfile /\ Follow(Parent(Lockfile)) = Parent(Lockfile)
      /\ Lstat(Lockfile) = IF Exists(Lockfile) THEN tree[Lockfile].kind ELSE "absent"
  BY <1>1, <1>2, PlainPath DEF Footing
<1>4. CanMake(Lockfile) <=> ~Exists(Lockfile)
  BY <1>2, <1>3 DEF CanMake
<1>5. ValidLockfile <=> IsA(Lockfile, "file") /\ tree[Lockfile].names = 1
  BY <1>3 DEF ValidLockfile, IsA
<1>6. NoTraversal(Lockfile)
  <2>1. NoTraversal(Workspace) /\ Workspace \in Seq(Names)
    BY <1>2, Fixed DEF Footing, IsA, Exists
  <2> QED BY <2>1 DEF NoTraversal, Lockfile
<1> QED BY <1>1, <1>3, <1>4, <1>5, <1>6

\* A file with one name passes what the backend checks of the lockfile.
LEMMA LockfileGood ==
  ASSUME NEW p, NEW k, Footing(p, k), IsA(Lockfile, "file"), tree[Lockfile].names = 1
  PROVE  Vetted(Lockfile) /\ Opens(Lockfile)
<1>1. ClosedInv /\ Lockfile \in DOMAIN tree /\ tree[Lockfile].kind = "file"
  BY DEF Footing, IsA, Exists
<1>2. Lockfile \in Seq(Names) /\ Lockfile # Root /\ Lstat(Lockfile) = "file"
  BY <1>1, SeesLockfile DEF Exists
<1>3. \A i \in 0..(Len(Lockfile) - 1) : Lstat(Prefix(Lockfile, i)) = "dir"
  <2>1. IsA(Parent(Lockfile), "dir")
    BY <1>1, <1>2 DEF ClosedInv
  <2> QED BY <1>1, <1>2, <2>1, PlainPath
<1>4. Lockfile # None
  <2>1. Lockfile[Len(Lockfile)] = "Cargo.lock" /\ None[Len(None)] = ".."
    BY Fixed DEF Lockfile, None
  <2> QED BY <2>1
<1>5. Real(Lockfile)
  <2>1. \A i \in 1..(Len(Lockfile) - 1) : i \in 0..(Len(Lockfile) - 1)
    BY <1>2
  <2> QED BY <1>2, <1>3, <1>4, <2>1 DEF Real
<1>6. PlainTree(Lockfile)
  <2>1. SUFFICES ASSUME NEW x \in DOMAIN tree, StartsWith(x, Lockfile) PROVE x = Lockfile
    BY <1>1 DEF PlainTree
  <2>2. x \in Seq(Names)
    BY <1>1 DEF ClosedInv
  <2>3. Len(Lockfile) \in 1..Len(x) /\ Prefix(x, Len(Lockfile)) = Lockfile
    BY <1>2, <2>1, <2>2, StartsWithAppend
  <2>4. CASE Len(Lockfile) = Len(x)
    BY <2>2, <2>3, <2>4 DEF Prefix
  <2>5. CASE Len(Lockfile) # Len(x)
    <3>1. Len(Lockfile) \in 0..(Len(x) - 1)
      BY <2>2, <2>3, <2>5
    <3> QED BY <1>1, <2>3, <3>1, ClosedUp DEF IsA
  <2> QED BY <2>4, <2>5
<1> QED BY <1>2, <1>5, <1>6 DEF Vetted, Opens

\* So does a directory without links and second names.
LEMMA RunGood ==
  ASSUME NEW p, NEW k, Footing(p, k), AtBuild(k)
  PROVE  Opens(k.run) /\ (PlainTree(k.run) <=> Vetted(k.run))
<1>1. PICK run, goal : OnRun(k, run, goal)
  BY BuildGround
<1>2. run = k.run /\ run \in Seq(Names) /\ IsA(run, "dir") /\ NoTraversal(run)
  BY <1>1 DEF OnRun
<1>3. \A n \in 0..Len(run) : Lstat(Prefix(run, n)) = "dir"
  BY <1>2, PlainDir DEF Footing
<1>4. Prefix(run, Len(run)) = run /\ Len(run) \in Nat
  BY <1>2 DEF Prefix
<1>5. run # None
  <2>1. ~NoTraversal(None)
    BY DEF None, NoTraversal
  <2> QED BY <1>2, <2>1
<1>6. Lstat(run) = "dir" /\ \A i \in 1..(Len(run) - 1) : Lstat(Prefix(run, i)) = "dir"
  <2>1. Len(run) \in 0..Len(run) /\ \A i \in 1..(Len(run) - 1) : i \in 0..Len(run)
    BY <1>4
  <2> QED BY <1>3, <1>4, <2>1
<1>7. Real(run)
  BY <1>5, <1>6 DEF Real
<1> QED BY <1>2, <1>6, <1>7 DEF Opens, Vetted

\* From one place to the next of the build's last steps.
LEMMA LaterCourse ==
  ASSUME NEW k \in Locals, AtBuild(k), Reached(Dirs, k), k.pc \in Late,
         NEW pc \in Late,
         pc = "newLock" => ~Exists(Lockfile),
         pc \in {"relock", "vet", "openRun", "openLock", "mounted"} =>
           IsA(Lockfile, "file") /\ tree[Lockfile].names = 1,
         pc \in {"openRun", "openLock", "mounted"} => PlainTree(k.run)
  PROVE  OnCourse(Dirs, [k EXCEPT !.pc = pc])
<1>1. PICK l : l = [k EXCEPT !.pc = pc]
  OBVIOUS
<1>2. /\ l.pc = pc /\ l.stage = k.stage /\ l.goal = k.goal /\ l.attempt = k.attempt
      /\ l.request = k.request /\ l.run = k.run /\ l.key = k.key /\ l.reuse = k.reuse
  BY <1>1 DEF Locals
<1>3. NamedRun(l, l.attempt) = NamedRun(k, k.attempt) /\ (HasTarget(l) <=> HasTarget(k))
  BY <1>2 DEF NamedRun, RunsOf, HasTarget
<1>4. AtBuild(l)
  BY <1>2, <1>3 DEF AtBuild
<1>5. Reached(Dirs, l)
  BY <1>2 DEF Reached, Late
<1> QED BY <1>1, <1>4, <1>5 DEF OnCourse

Last(p) ==
  \/ InspectLockfile(p) \/ ReinspectLockfile(p) \/ VetWritable(p) \/ OpenRun(p) \/ OpenLock(p)
LEMMA LastStays ==
  ASSUME NEW p, NEW k, Footing(p, k), Last(p)
  PROVE  Stays(p)
<1>1. /\ k.pc \in {"lock", "relock", "vet", "openRun", "openLock"} /\ Prepare(p) /\ UNCHANGED tree
      /\ k \in Locals /\ k = proc[p] /\ k.pc # "failed"
  BY DEF Last, InspectLockfile, ReinspectLockfile, VetWritable, OpenRun, OpenLock, Open, At, Reads,
         Prepare, Footing
<1>2. AtBuild(k) /\ Reached(Dirs, k) /\ k.pc \in Late
  <2>1. OnCourse(Dirs, k)
    BY <1>1 DEF Footing
  <2> QED BY <1>1, <2>1 DEF OnCourse, AtBase, AtFresh, AtRuns, Late
<1>3. ASSUME NEW pc \in Late, Goto(p, pc),
             pc = "newLock" => ~Exists(Lockfile),
             pc \in {"relock", "vet", "openRun", "openLock", "mounted"} =>
               IsA(Lockfile, "file") /\ tree[Lockfile].names = 1,
             pc \in {"openRun", "openLock", "mounted"} => PlainTree(k.run)
      PROVE  Stays(p)
  <2>1. OnCourse(Dirs, [k EXCEPT !.pc = pc])
    BY <1>1, <1>2, <1>3, LaterCourse
  <2>2. k.pc # "check"
    BY <1>1
  <2> QED BY <1>1, <1>3, <2>1, <2>2, GoesOnReading
<1>4. ASSUME Fail(p), ~Acceptable(k) PROVE Stays(p)
  <2>1. k.pc # "check"
    BY <1>1
  <2> QED BY <1>1, <1>4, <2>1, GivesUp
<1>5. /\ Lstat(Lockfile) = IF Exists(Lockfile) THEN tree[Lockfile].kind ELSE "absent"
      /\ ValidLockfile <=> IsA(Lockfile, "file") /\ tree[Lockfile].names = 1
  BY SeesLockfile
<1>6. CASE InspectLockfile(p)
  <2>1. CASE ValidLockfile /\ Goto(p, "vet")
    BY <1>3, <1>5, <2>1 DEF Late
  <2>2. CASE Lstat(Lockfile) = "absent" /\ Goto(p, "newLock")
    <3>1. ~Exists(Lockfile)
      BY <1>5, <2>2, TreeTypes DEF Footing, Exists
    <3> QED BY <1>3, <2>2, <3>1 DEF Late
  <2>3. CASE ~ValidLockfile /\ Lstat(Lockfile) # "absent" /\ Fail(p)
    <3>1. ~Acceptable(k)
      BY <1>5, <2>3 DEF Acceptable
    <3> QED BY <1>4, <2>3, <3>1
  <2> QED BY <1>6, <2>1, <2>2, <2>3 DEF InspectLockfile
<1>7. ASSUME k.pc \in {"relock", "vet", "openRun", "openLock"}
      PROVE  IsA(Lockfile, "file") /\ tree[Lockfile].names = 1
  BY <1>2, <1>7 DEF AtBuild
<1>8. CASE ReinspectLockfile(p)
  <2>1. k.pc = "relock"
    BY <1>1, <1>8 DEF ReinspectLockfile, At
  <2>2. ValidLockfile /\ Goto(p, "vet")
    BY <1>5, <1>7, <1>8, <2>1 DEF ReinspectLockfile
  <2> QED BY <1>3, <1>5, <2>2 DEF Late
<1>9. CASE VetWritable(p)
  <2>1. k.pc = "vet"
    BY <1>1, <1>9 DEF VetWritable, At
  <2>2. IsA(Lockfile, "file") /\ tree[Lockfile].names = 1
    BY <1>7, <2>1
  <2>3. Vetted(Lockfile) /\ (PlainTree(k.run) <=> Vetted(k.run))
    BY <1>2, <2>2, LockfileGood, RunGood
  <2>4. CASE PlainTree(k.run)
    <3>1. Goto(p, "openRun")
      BY <1>1, <1>9, <2>3, <2>4 DEF VetWritable
    <3> QED BY <1>3, <2>2, <2>4, <3>1 DEF Late
  <2>5. CASE ~PlainTree(k.run)
    <3>1. Fail(p)
      BY <1>1, <1>9, <2>3, <2>5 DEF VetWritable
    <3>2. PICK run, goal : OnRun(k, run, goal)
      BY <1>2, BuildGround
    <3>3. k.reuse /\ ~PlainTree(Follow(k.request))
      BY <2>5, <3>2 DEF OnRun
    <3>4. ~Acceptable(k)
      BY <3>3 DEF Acceptable, TargetFits
    <3> QED BY <1>4, <3>1, <3>4
  <2> QED BY <2>4, <2>5
<1>10. CASE OpenRun(p) \/ OpenLock(p)
  <2>1. k.pc \in {"openRun", "openLock"}
    BY <1>1, <1>10 DEF OpenRun, OpenLock, Open, At
  <2>2. IsA(Lockfile, "file") /\ tree[Lockfile].names = 1 /\ PlainTree(k.run)
    BY <1>2, <1>7, <2>1 DEF AtBuild
  <2>3. Opens(Lockfile) /\ Opens(k.run)
    BY <1>2, <2>2, LockfileGood, RunGood
  <2>4. \E pc \in {"openLock", "mounted"} : Goto(p, pc)
    BY <1>1, <1>10, <2>3 DEF OpenRun, OpenLock, Open
  <2> QED BY <1>3, <2>2, <2>4 DEF Late
<1> QED BY <1>6, <1>8, <1>9, <1>10 DEF Last

LEMMA CreateLockfileStays ==
  ASSUME NEW p, NEW k, Footing(p, k), CreateLockfile(p)
  PROVE  Stays(p)
<1>1. /\ k.pc = "newLock" /\ Prepare(p) /\ k \in Locals /\ k = proc[p] /\ k.pc # "failed"
      /\ PrepInv /\ p \in Procs /\ k.request \in Seq(Names)
  BY DEF CreateLockfile, At, Prepare, Footing
<1>2. AtBuild(k) /\ Reached(Dirs, k) /\ k.pc \in Late
  <2>1. OnCourse(Dirs, k)
    BY <1>1 DEF Footing
  <2> QED BY <1>1, <2>1 DEF OnCourse, AtBase, AtFresh, AtRuns, Late
<1>3. ~Exists(Lockfile) /\ Entry(Lockfile) = Lockfile /\ CanMake(Lockfile) /\ NoTraversal(Lockfile)
  BY <1>1, <1>2, SeesLockfile DEF AtBuild
<1>4. Put(Lockfile, File(1, p)) /\ Goto(p, "relock")
  BY <1>3 DEF CreateLockfile
<1>5. PICK l : l = [k EXCEPT !.pc = "relock"]
  OBVIOUS
<1>6. PICK m : m = [k EXCEPT !.pc = "lock"]
  OBVIOUS
<1>7. /\ l.pc = "relock" /\ l.stage = k.stage /\ l.goal = k.goal /\ l.attempt = k.attempt
      /\ l.request = k.request /\ l.run = k.run /\ l.key = k.key /\ l.reuse = k.reuse
      /\ m.pc = "lock" /\ m.stage = k.stage /\ m.goal = k.goal /\ m.attempt = k.attempt
      /\ m.request = k.request /\ m.run = k.run /\ m.key = k.key /\ m.reuse = k.reuse
  BY <1>1, <1>5, <1>6 DEF Locals
<1>8. PICK D : D = Dirs
  OBVIOUS
<1>9. OnCourse(D, m)
  <2>1. OnCourse(Dirs, m)
    BY <1>1, <1>2, <1>6, LaterCourse DEF Late
  <2> QED BY <1>8, <2>1
<1>10. D \subseteq Dirs'
  BY <1>3, <1>4, <1>8 DEF Put, Dirs, Exists
<1>11. OnCourse(Dirs, m)'
  <2>1. m.request \in Seq(Names)
        /\ m.pc \notin {"make", "newLock", "openRun", "openLock", "mounted"}
    BY <1>1, <1>7
  <2> QED BY <1>1, <1>9, <1>10, <2>1, CourseKept
<1>12. IsA(Lockfile, "file")' /\ tree'[Lockfile].names = 1
  BY <1>4 DEF Put, IsA, Exists, File
<1>13. OnCourse(Dirs, l)'
  <2>1. AtBuild(m)' /\ Reached(Dirs, m)'
    BY <1>7, <1>11 DEF OnCourse, AtBase, AtFresh, AtRuns
  <2>2. NamedRun(l, l.attempt)' = NamedRun(m, m.attempt)' /\ (HasTarget(l)' <=> HasTarget(m)')
        /\ Follow(l.request)' = Follow(m.request)'
    BY <1>7 DEF NamedRun, RunsOf, HasTarget
  <2>3. AtBuild(l)'
    BY <1>7, <1>12, <2>1, <2>2 DEF AtBuild, Late
  <2>4. Reached(Dirs, l)'
    BY <1>7, <2>1 DEF Reached, Late
  <2> QED BY <2>3, <2>4 DEF OnCourse
<1>14. l.reuse \/ Claimed(l)
  <2>1. ASSUME ~k.reuse PROVE Claimed(k)
    <3>1. PICK run, goal : OnRun(k, run, goal)
      BY <1>2, BuildGround
    <3> QED BY <2>1, <3>1 DEF OnRun
  <2> QED BY <1>1, <1>7, <2>1 DEF Claimed
<1>15. Go(p, l) /\ (Claimed(k) => Claimed(l)) /\ l.pc # "failed"
  BY <1>1, <1>4, <1>5, <1>7 DEF Goto, Claimed
<1> QED BY <1>1, <1>3, <1>4, <1>7, <1>13, <1>14, <1>15, MakesStay

LEMMA PrepareStays ==
  ASSUME NEW p, NEW k, Footing(p, k), Prepare(p)
  PROVE  Stays(p)
BY ValidateStays, InspectStays, MakeStays, ConfirmStays, ClaimStays, CheckRunStays,
   CreateLockfileStays, LastStays DEF Prepare, Last

\* What can be served depends on the request and the tree alone.
LEMMA AcceptableSame ==
  ASSUME UNCHANGED tree, NEW l
  PROVE  /\ Acceptable(l)' <=> Acceptable(l)
         /\ OnCourse(Dirs, l)' <=> OnCourse(Dirs, l)
<1>1. ASSUME NEW r PROVE Follow(r)' = Follow(r) /\ Entry(r)' = Entry(r)
  BY DEF Follow, Entry, IsA, Exists
<1>2. ASSUME NEW q PROVE /\ (Exists(q)' <=> Exists(q)) /\ (FreeOrDir(q)' <=> FreeOrDir(q))
                         /\ (PlainTree(q)' <=> PlainTree(q)) /\ (OfHost(q)' <=> OfHost(q))
                         /\ \A kind : IsA(q, kind)' <=> IsA(q, kind)
  BY DEF Exists, FreeOrDir, PlainTree, OfHost, IsA
<1>3. RequestIsPlain(l.request)' <=> RequestIsPlain(l.request)
  BY <1>1, <1>2 DEF RequestIsPlain
<1>4. RequestFits(l.request)' <=> RequestFits(l.request)
  BY <1>1, <1>2 DEF RequestFits
<1>5. RunsOf(l)' = RunsOf(l)
  BY <1>1 DEF RunsOf
<1>6. Taken(l)' = Taken(l)
  BY <1>5 DEF Taken, Exists
<1>7. \A i : NamedRun(l, i)' = NamedRun(l, i)
  BY <1>5 DEF NamedRun
<1>8. TargetFits(l)' <=> TargetFits(l)
  BY <1>1, <1>5, <1>6 DEF TargetFits, PlainTree, FreeOrDir, IsA, Exists
<1>9. Acceptable(l)' <=> Acceptable(l)
  BY <1>4, <1>8 DEF Acceptable, IsA, Exists
<1>10. HasTarget(l)' <=> HasTarget(l)
  BY <1>1, <1>3 DEF HasTarget, IsA, Exists
<1>11. Dirs' = Dirs
  BY DEF Dirs
<1>12. Reached(Dirs, l)' <=> Reached(Dirs, l)
  BY <1>11 DEF Reached, Exists
<1>13. AtBase(l)' <=> AtBase(l)
  BY <1>1, <1>3 DEF AtBase
<1>14. AtFresh(l)' <=> AtFresh(l)
  BY <1>1, <1>10 DEF AtFresh
<1>15. AtRuns(l)' <=> AtRuns(l)
  BY <1>5, <1>7, <1>10 DEF AtRuns, OfHost, Exists
<1>16. AtBuild(l)' <=> AtBuild(l)
  BY <1>1, <1>7, <1>10 DEF AtBuild, PlainTree, IsA, Exists
<1> QED BY <1>9, <1>12, <1>13, <1>14, <1>15, <1>16 DEF OnCourse

LEMMA AloneStep ==
  ASSUME PrepInv, CalmInv, IsolationInv, ServeInv, AloneInv, NEW p \in Procs, Prepare(p)
  PROVE  AloneInv'
<1>1. moves' = moves /\ Keeps
  BY OthersStay, FollowKept
<1>2. Procs' = Procs
  <2>1. PICK k : Go(p, k)
    BY StepsSameRequest DEF SameRequest
  <2> QED BY <2>1 DEF Go, Procs
<1>3. SUFFICES ASSUME ByItself'
               PROVE  /\ \A q \in DOMAIN tree' : NoTraversal(q)
                      /\ \A r \in Procs : /\ MadePlain(r)' /\ NoRunYet(r)'
                                          /\ IF proc'[r].pc = "failed" THEN ~Acceptable(proc[r])'
                                             ELSE OnCourse(Dirs, proc[r])'
  BY <1>2 DEF AloneInv
<1>4. PICK k : k = proc[p]
  OBVIOUS
<1>5. Footing(p, k)
  <2>1. AloneHere
    BY <1>1, <1>2, <1>3 DEF AloneHere, ByItself
  <2> QED BY <1>4, <2>1, AllAlone
<1>6. PICK l : Continues(p, l)
  BY <1>5, PrepareStays DEF Stays
<1>7. proc'[p] = l
  BY <1>6 DEF Continues, Go, Procs
<1>8. \A q \in DOMAIN tree' : NoTraversal(q)
  BY <1>1, <1>5, <1>6 DEF Footing, Continues, Keeps
<1>9. MadePlain(p)'
  <2>1. ASSUME NEW q \in DOMAIN tree', tree'[q].by = p
        PROVE  tree'[q] = Dir(p) \/ (q = Lockfile /\ tree'[q] = File(1, p))
    <3>1. CASE q \in DOMAIN tree
      BY <1>1, <1>5, <2>1, <3>1 DEF Footing, MadePlain, Keeps
    <3>2. CASE q \notin DOMAIN tree
      BY <1>6, <2>1, <3>2 DEF Continues
    <3> QED BY <3>1, <3>2
  <2> QED BY <2>1 DEF MadePlain
<1>10. NoRunYet(p)'
  <2>1. SUFFICES ASSUME ~l.reuse, ~Claimed(l), NEW q \in DOMAIN tree', tree'[q].by = p
                 PROVE  ~AmongRuns(q)
    BY <1>7 DEF NoRunYet
  <2>2. CASE q \in DOMAIN tree
    <3>1. ~k.reuse /\ ~Claimed(k) /\ tree[q].by = p
      BY <1>1, <1>4, <1>6, <2>1, <2>2 DEF Continues, Keeps
    <3> QED BY <1>4, <1>5, <2>2, <3>1 DEF Footing, NoRunYet
  <2>3. CASE q \notin DOMAIN tree
    BY <1>6, <2>1, <2>3 DEF Continues
  <2> QED BY <2>2, <2>3
<1>11. IF l.pc = "failed" THEN ~Acceptable(l)' ELSE OnCourse(Dirs, l)'
  <2>1. CASE l.pc = "failed"
    <3>1. UNCHANGED tree /\ ~Acceptable(l)
      BY <1>6, <2>1 DEF Continues
    <3>2. ~Acceptable(l)'
      BY <3>1, AcceptableSame
    <3> QED BY <2>1, <3>2
  <2>2. CASE l.pc # "failed"
    BY <1>6, <2>2 DEF Continues
  <2> QED BY <2>1, <2>2
<1>12. IF proc'[p].pc = "failed" THEN ~Acceptable(proc[p])' ELSE OnCourse(Dirs, proc[p])'
  <2>1. Acceptable(proc[p])' <=> Acceptable(l)'
    BY <1>7 DEF Acceptable, RequestFits, TargetFits, RunsOf, Taken, Follow, Entry
  <2>2. OnCourse(Dirs, proc[p])' <=> OnCourse(Dirs, l)'
    BY <1>7 DEF OnCourse, Reached, AtBase, AtFresh, AtRuns, AtBuild, HasTarget, NamedRun, RunsOf,
                Follow, RequestIsPlain, Entry
  <2> QED BY <1>7, <1>11, <2>1, <2>2
<1>13. Procs = {p}
  BY <1>5 DEF Footing
<1> QED BY <1>8, <1>9, <1>10, <1>12, <1>13

LEMMA InitAlone == Init => AloneInv
<1>1. SUFFICES ASSUME Init PROVE AloneInv
  OBVIOUS
<1>2. PICK s \in Scenes :
        /\ tree \in s.trees
        /\ proc \in [s.procs -> {Start(r, u, k) : r \in s.requests, u \in s.reuse, k \in s.keys}]
  BY <1>1 DEF Init
<1>3. Procs = s.procs /\ Host \notin Procs
  <2>1. Host \notin s.procs
    BY PrepAssumption
  <2> QED BY <1>2, <2>1 DEF Procs
<1>4. \A q \in DOMAIN tree : NoTraversal(q)
  BY <1>2, SceneAssumption
<1>5. \A q \in DOMAIN tree : tree[q].by = Host
  <2>1. \A t \in s.trees : t \in [DOMAIN t -> EntriesBy({Host})]
    BY PrepAssumption
  <2>2. tree \in [DOMAIN tree -> EntriesBy({Host})]
    <3>1. tree \in s.trees
      BY <1>2
    <3> QED BY <2>1, <3>1, Zenon
  <2>3. \A q \in DOMAIN tree : tree[q] \in EntriesBy({Host})
    BY <2>2
  <2> QED BY <2>3 DEF EntriesBy
<1>6. ASSUME NEW p \in Procs PROVE MadePlain(p) /\ NoRunYet(p)
  BY <1>3, <1>5, <1>6 DEF MadePlain, NoRunYet
<1>7. ASSUME NEW p \in Procs PROVE proc[p].pc # "failed" /\ OnCourse(Dirs, proc[p])
  <2>1. PICK r \in s.requests, u \in s.reuse, k \in s.keys : proc[p] = Start(r, u, k)
    BY <1>2, <1>3
  <2>2. AtBase(proc[p]) /\ proc[p].pc = "validate"
    BY <2>1 DEF Start, AtBase
  <2>3. Reached(Dirs, proc[p])
    BY <2>2 DEF Reached, Late
  <2> QED BY <2>2, <2>3 DEF OnCourse
<1> QED BY <1>4, <1>6, <1>7 DEF AloneInv

-----------------------------------------------------------------------------
(* Theorems *)

LEMMA InitInv == Init => PrepInv
<1>1. SUFFICES ASSUME Init PROVE PrepInv
  OBVIOUS
<1>2. PICK s \in Scenes :
        /\ tree \in s.trees
        /\ proc \in [s.procs -> {Start(r, u, k) : r \in s.requests, u \in s.reuse, k \in s.keys}]
        /\ opened = [p \in s.procs |-> {}]
        /\ others = [deeds |-> s.deeds, places |-> s.places, targets |-> s.targets,
                     moves |-> s.moves]
  BY <1>1 DEF Init
<1>3. Procs = s.procs
  BY <1>2 DEF Procs
<1>4. /\ s.requests \subseteq Seq(Names) /\ s.reuse \subseteq BOOLEAN
      /\ s.targets \subseteq Seq(Names) /\ s.places \subseteq Seq(Names) \ {Root}
      /\ Root \in DOMAIN tree /\ tree \in [DOMAIN tree -> EntriesBy({Host})]
      /\ s.keys \subseteq DOMAIN RunNames
      /\ \A k \in DOMAIN RunNames : RunNames[k] \in Seq(Names) \ {<< >>}
  <2>1. /\ s.requests \subseteq Seq(Names) /\ s.reuse \subseteq BOOLEAN
        /\ s.targets \subseteq Seq(Names) /\ s.places \subseteq Seq(Names) \ {Root}
        /\ s.keys \subseteq DOMAIN RunNames
    BY <1>2, PrepAssumption
  <2>2. Root \in DOMAIN tree /\ tree \in [DOMAIN tree -> EntriesBy({Host})]
    <3>1. \A t \in s.trees : Root \in DOMAIN t /\ t \in [DOMAIN t -> EntriesBy({Host})]
      BY PrepAssumption
    <3>2. tree \in s.trees
      BY <1>2
    <3> QED BY <3>1, <3>2, Zenon
  <2>3. \A k \in DOMAIN RunNames : RunNames[k] \in Seq(Names) \ {<< >>}
    BY PrepAssumption
  <2> QED BY <2>1, <2>2, <2>3
<1>5. TreeInv
  <2>1. \A x \in DOMAIN tree : tree[x] \in EntriesBy(Procs \cup {Host})
    <3>1. \A x \in DOMAIN tree : tree[x] \in EntriesBy({Host})
      BY <1>4
    <3> QED BY <3>1 DEF EntriesBy
  <2> QED BY <1>4, <2>1 DEF TreeInv
<1>6. ASSUME NEW p \in Procs PROVE LocalInv(proc[p])
  <2>1. PICK r \in s.requests, u \in s.reuse, k \in s.keys : proc[p] = Start(r, u, k)
    BY <1>2, <1>3
  <2>2. 1 \in DOMAIN RunNames[k]
    <3>1. RunNames[k] \in Seq(Names) \ {<< >>}
      BY <1>4
    <3> QED BY <3>1
  <2>3. r \in Seq(Names) /\ u \in BOOLEAN /\ k \in DOMAIN RunNames
    BY <1>4
  <2> QED BY <2>1, <2>2, <2>3, Fixed DEF Start, LocalInv, Locals, Places, Stages
<1>7. MountsStayInside
  BY <1>2, <1>3 DEF MountsStayInside
<1>8. proc = [p \in Procs |-> proc[p]] /\ opened = [p \in Procs |-> opened[p]]
  BY <1>2, <1>3
<1> QED BY <1>2, <1>4, <1>5, <1>6, <1>7, <1>8 DEF PrepInv

LEMMA InitCalm == Init => CalmInv
<1>1. SUFFICES ASSUME Init PROVE CalmInv
  OBVIOUS
<1>2. PICK s \in Scenes :
        /\ tree \in s.trees
        /\ proc \in [s.procs -> {Start(r, u, k) : r \in s.requests, u \in s.reuse, k \in s.keys}]
        /\ others = [deeds |-> s.deeds, places |-> s.places, targets |-> s.targets,
                     moves |-> s.moves]
        /\ moves = 0
  BY <1>1 DEF Init
<1>3. Procs = s.procs /\ Host \notin Procs
  <2>1. Host \notin s.procs
    BY PrepAssumption
  <2> QED BY <1>2, <2>1 DEF Procs
<1>4. WorkspaceInv
  BY <1>2, WorkspaceAssumption DEF WorkspaceInv, IsA, Exists, IsDirectory
<1>5. ASSUME NEW p \in Procs PROVE WayInv(Links, proc[p])
  <2>1. proc[p].pc = "validate"
    BY <1>2, <1>3 DEF Start
  <2> QED BY <2>1 DEF WayInv
<1>6. CreatesOnlyInside
  <2>1. \A t \in s.trees : t \in [DOMAIN t -> EntriesBy({Host})]
    BY PrepAssumption
  <2>2. tree \in [DOMAIN tree -> EntriesBy({Host})]
    <3>1. tree \in s.trees
      BY <1>2
    <3> QED BY <2>1, <3>1, Zenon
  <2>3. \A q \in DOMAIN tree : tree[q] \in EntriesBy({Host})
    BY <2>2
  <2>4. \A q \in DOMAIN tree : tree[q].by = Host
    BY <2>3 DEF EntriesBy
  <2> QED BY <1>3, <2>4 DEF CreatesOnlyInside
<1> QED BY <1>2, <1>3, <1>4, <1>5, <1>6 DEF CalmInv

LEMMA StepKeeps ==
  ASSUME PrepInv, Next
  PROVE  PrepInv' /\ ((\E p \in Procs : proc'[p] # proc[p]) => Keeps)
<1>1. CASE \E p \in Procs : Prepare(p)
  BY <1>1, PrepareFine DEF Fine
<1>2. CASE Disturb
  BY <1>2, DisturbKeeps
<1> QED BY <1>1, <1>2 DEF Next

\* Between any two steps every process works, and has its run, inside the
\* workspace (validate_target_dir's result is what is created, claimed and
\* mounted).
THEOREM PrepInvariant == Spec => []PrepInv
<1>1. PrepInv /\ UNCHANGED vars => PrepInv'
  <2>1. SUFFICES ASSUME PrepInv, UNCHANGED vars PROVE PrepInv'
    OBVIOUS
  <2>2. UNCHANGED <<tree, proc, opened, others, moves>> /\ Procs' = Procs
    BY <2>1 DEF vars, Procs
  <2>3. TreeInv' /\ MountsStayInside'
    BY <2>1, <2>2 DEF PrepInv, TreeInv, MountsStayInside
  <2> QED BY <2>1, <2>2, <2>3 DEF PrepInv
<1>2. PrepInv /\ [Next]_vars => PrepInv'
  BY <1>1, StepKeeps
<1> QED BY InitInv, <1>2, PTL DEF Spec

\* As long as nobody else makes symbolic links, no process passes one on its way
\* to what it creates, and so creates it inside the workspace
\* (create_directory_without_symlinks, create_dir, create_new).
THEOREM CalmInvariant == Spec => []CalmInv
<1>1. PrepInv /\ CalmInv /\ UNCHANGED vars => CalmInv'
  <2>1. SUFFICES ASSUME CalmInv, UNCHANGED vars PROVE CalmInv'
    OBVIOUS
  <2>2. UNCHANGED <<tree, proc, others, moves>> /\ Procs' = Procs /\ Links' = Links
        /\ (Calm' <=> Calm)
    BY <2>1 DEF vars, Procs, Links, Calm
  <2>3. WorkspaceInv' /\ CreatesOnlyInside'
    BY <2>1, <2>2 DEF CalmInv, WorkspaceInv, IsA, Exists, CreatesOnlyInside
  <2> QED BY <2>1, <2>2, <2>3 DEF CalmInv
<1>2. PrepInv /\ CalmInv /\ [Next]_vars => CalmInv'
  BY <1>1, CalmStep
<1> QED BY InitCalm, PrepInvariant, <1>2, PTL DEF Spec

\* Whatever symbolic links lead in and out of the workspace, cargo-cage makes
\* its directories and its lockfile strictly inside it, as long as nobody else
\* makes such links meanwhile (validate_target_dir, create_dir, create_new).
THEOREM CreatesInside == Spec => []CreatesOnlyInside
<1>1. CalmInv => CreatesOnlyInside
  BY DEF CalmInv
<1> QED BY <1>1, CalmInvariant, PTL

\* What a process makes among the runs is in a run of its own, and nobody else's
\* comes below a run it has claimed (prepare_fresh_target_dir).
THEOREM IsolationInvariant == Spec => []IsolationInv
<1>1. PrepInv /\ CalmInv /\ IsolationInv /\ Next => IsolationInv'
  BY PrepareApart, DisturbApart DEF Next
<1>2. PrepInv /\ CalmInv /\ IsolationInv /\ UNCHANGED vars => IsolationInv'
  <2>1. SUFFICES ASSUME IsolationInv, UNCHANGED vars PROVE IsolationInv'
    OBVIOUS
  <2>2. UNCHANGED <<tree, proc, others, moves>>
    BY <2>1 DEF vars
  <2> QED BY <2>1, <2>2 DEF IsolationInv, Apart, ApartInv, ClosedInv, TrunkInv, RunInv, Links,
       Procs, IsA, Exists
<1>3. PrepInv /\ CalmInv /\ IsolationInv /\ [Next]_vars => IsolationInv'
  BY <1>1, <1>2
<1> QED BY InitApart, PrepInvariant, CalmInvariant, <1>3, PTL DEF Spec

\* An isolated build starts in a directory its own process has made, with
\* nothing in it but what that process put there, whatever names the other
\* processes try and whatever others do that do not work among the runs
\* (prepare_fresh_target_dir, create_dir).
THEOREM IsolatedRunsAreOwn == Spec => []IsolatedRunIsOwn
<1>1. PrepInv /\ IsolationInv => IsolatedRunIsOwn
  BY RunsAreOwn
<1> QED BY <1>1, PrepInvariant, IsolationInvariant, PTL

\* Whatever other programs change between the checks by name and the opening,
\* what a sandbox gets for writing lies in the workspace, and a file has one
\* name (open_mount_source, validate_opened_mount_kind).
THEOREM MountsAreInside == Spec => []MountsStayInside
<1>1. PrepInv => MountsStayInside
  BY DEF PrepInv
<1> QED BY <1>1, PrepInvariant, PTL

\* No step of any cargo-cage process replaces, truncates or removes what is
\* there, whoever has put it there and when (create_dir, create_new).
THEOREM NothingIsReplaced == Spec => KeepsWhatExists
<1>1. PrepInv /\ [Next]_vars =>
        [\A p \in Procs : proc'[p] # proc[p] =>
           \A q \in DOMAIN tree : q \in DOMAIN tree' /\ tree'[q] = tree[q]]_vars
  BY StepKeeps DEF Keeps
<1> QED BY <1>1, PrepInvariant, PTL DEF Spec, KeepsWhatExists

\* In a workspace that is ready for them, isolated builds find their directories
\* and stay on the way to a mounted run, whatever steps of other processes come
\* in between, and make nothing but their runs
\* (prepare_target_dir, prepare_fresh_target_dir, prepare_lockfile).
THEOREM ServeInvariant == Spec => []ServeInv
<1>1. PrepInv /\ CalmInv /\ IsolationInv /\ ServeInv /\ Next => ServeInv'
  <2>1. SUFFICES ASSUME PrepInv, CalmInv, IsolationInv, ServeInv, Next PROVE ServeInv'
    OBVIOUS
  <2>2. CASE \E p \in Procs : Prepare(p)
    BY <2>1, <2>2, ServeStep
  <2>3. CASE Disturb
    <3>1. moves' = moves + 1 /\ moves \in Nat /\ Procs' = Procs
      BY <2>1, <2>3, OthersMove DEF CalmInv, Procs
    <3>2. moves' # 0
      BY <3>1
    <3> QED BY <2>1, <3>1, <3>2 DEF ServeInv, Serving
  <2> QED BY <2>1, <2>2, <2>3 DEF Next
<1>2. ServeInv /\ UNCHANGED vars => ServeInv'
  <2>1. SUFFICES ASSUME ServeInv, UNCHANGED vars PROVE ServeInv'
    OBVIOUS
  <2>2. UNCHANGED <<tree, proc, others, moves>> /\ Procs' = Procs
    BY <2>1 DEF vars, Procs
  <2>3. ASSUME NEW l PROVE (Ready(l)' <=> Ready(l)) /\ (OnTrack(l)' <=> OnTrack(l))
    <3>1. ASSUME NEW r PROVE Follow(r)' = Follow(r) /\ Entry(r)' = Entry(r)
      BY <2>2 DEF Follow, Entry, IsA, Exists
    <3>2. RequestIsPlain(l.request)' <=> RequestIsPlain(l.request)
      BY <2>2, <3>1 DEF RequestIsPlain, IsA, Exists
    <3>3. RunsOf(l)' = RunsOf(l)
      BY <3>1 DEF RunsOf
    <3>4. Taken(l)' = Taken(l)
      BY <2>2, <3>3 DEF Taken, Exists
    <3>5. \A i : NamedRun(l, i)' = NamedRun(l, i)
      BY <3>3 DEF NamedRun
    <3>6. Ready(l)' <=> Ready(l)
      BY <2>2, <3>2, <3>3, <3>4 DEF Ready, LockfileIsPlain, OfHost, IsA, Exists
    <3>7. OnTrack(l)' <=> OnTrack(l)
      BY <2>2, <3>1, <3>3, <3>5 DEF OnTrack, OnBase, OnFresh, OnRuns, OnBuild, IsA, Exists
    <3> QED BY <3>6, <3>7
  <2>4. ASSUME NEW p \in Procs
        PROVE  (Ready(proc[p])' <=> Ready(proc[p])) /\ (OnTrack(proc[p])' <=> OnTrack(proc[p]))
    <3>1. PICK l : l = proc[p]
      OBVIOUS
    <3>2. proc'[p] = l
      BY <2>2, <3>1
    <3>3. Ready(proc[p])' <=> Ready(l)'
      BY <3>2 DEF Ready, RequestIsPlain, RunsOf, Taken, Follow, Entry
    <3>4. OnTrack(proc[p])' <=> OnTrack(l)'
      BY <3>2 DEF OnTrack, OnBase, OnFresh, OnRuns, OnBuild, NamedRun, RunsOf, Follow
    <3>5. (Ready(l)' <=> Ready(l)) /\ (OnTrack(l)' <=> OnTrack(l))
      BY <2>3
    <3>6. (Ready(proc[p]) <=> Ready(l)) /\ (OnTrack(proc[p]) <=> OnTrack(l))
      BY <3>1
    <3> QED BY <3>3, <3>4, <3>5, <3>6
  <2>5. MadeOnly' <=> MadeOnly
    BY <2>2 DEF MadeOnly
  <2>6. Serving' <=> Serving
    BY <2>2, <2>4 DEF Serving
  <2> QED BY <2>1, <2>2, <2>4, <2>5, <2>6 DEF ServeInv
<1>3. PrepInv /\ CalmInv /\ IsolationInv /\ ServeInv /\ [Next]_vars => ServeInv'
  BY <1>1, <1>2
<1> QED BY InitServe, PrepInvariant, CalmInvariant, IsolationInvariant, <1>3, PTL DEF Spec

\* Once the shared directories and the lockfile are there, isolated builds do
\* not fail each other, even if they try the same run names, as long as there is
\* a name for each of them (prepare_fresh_target_dir's attempts).
THEOREM PreparedBuildsSucceed == Spec => []PreparedServesAll
<1>1. ServeInv => PreparedServesAll
  <2>1. SUFFICES ASSUME ServeInv, moves = 0, NEW p \in Procs, proc[p].pc = "failed",
                        \A q \in Procs : Prepared(proc[q])
                 PROVE  FALSE
    BY DEF PreparedServesAll
  <2>2. Serving
    BY <2>1, PreparedIsReady DEF Serving
  <2>3. OnTrack(proc[p])
    BY <2>1, <2>2 DEF ServeInv
  <2> QED BY <2>1, <2>3 DEF OnTrack, OnBase, OnFresh, OnRuns, OnBuild
<1> QED BY <1>1, ServeInvariant, PTL

\* A process that is alone has always got as far as its request lets it: each
\* stage has found or made what the next one relies on, and it has given up only
\* where the request cannot be served (prepare_target_dir,
\* prepare_fresh_target_dir, prepare_lockfile, validate_writable_tree).
THEOREM AloneInvariant == Spec => []AloneInv
<1>1. PrepInv /\ CalmInv /\ IsolationInv /\ ServeInv /\ AloneInv /\ Next => AloneInv'
  <2>1. SUFFICES ASSUME PrepInv, CalmInv, IsolationInv, ServeInv, AloneInv, Next PROVE AloneInv'
    OBVIOUS
  <2>2. CASE \E p \in Procs : Prepare(p)
    BY <2>1, <2>2, AloneStep
  <2>3. CASE Disturb
    <3>1. moves' = moves + 1 /\ moves \in Nat
      BY <2>1, <2>3, OthersMove DEF CalmInv
    <3>2. moves' # 0
      BY <3>1
    <3> QED BY <3>2 DEF AloneInv, ByItself
  <2> QED BY <2>1, <2>2, <2>3 DEF Next
<1>2. AloneInv /\ UNCHANGED vars => AloneInv'
  <2>1. SUFFICES ASSUME AloneInv, UNCHANGED vars PROVE AloneInv'
    OBVIOUS
  <2>2. tree' = tree /\ proc' = proc /\ moves' = moves /\ Procs' = Procs
    BY <2>1 DEF vars, Procs
  <2>3. ASSUME NEW p \in Procs
        PROVE  /\ Acceptable(proc[p])' <=> Acceptable(proc[p])
               /\ OnCourse(Dirs, proc[p])' <=> OnCourse(Dirs, proc[p])
    <3>1. PICK l : l = proc[p]
      OBVIOUS
    <3>2. proc'[p] = l
      BY <2>2, <3>1
    <3>3. Acceptable(proc[p])' <=> Acceptable(l)'
      BY <3>2 DEF Acceptable, RequestFits, TargetFits, RunsOf, Taken, Follow, Entry
    <3>4. OnCourse(Dirs, proc[p])' <=> OnCourse(Dirs, l)'
      BY <3>2 DEF OnCourse, Reached, AtBase, AtFresh, AtRuns, AtBuild, HasTarget, NamedRun, RunsOf,
                  Follow, RequestIsPlain, Entry
    <3>5. (Acceptable(l)' <=> Acceptable(l)) /\ (OnCourse(Dirs, l)' <=> OnCourse(Dirs, l))
      BY <2>2, AcceptableSame
    <3> QED BY <3>1, <3>3, <3>4, <3>5
  <2>4. ByItself' <=> ByItself
    BY <2>2 DEF ByItself
  <2>5. \A p \in Procs : (MadePlain(p)' <=> MadePlain(p)) /\ (NoRunYet(p)' <=> NoRunYet(p))
    BY <2>2 DEF MadePlain, NoRunYet
  <2> QED BY <2>1, <2>2, <2>3, <2>4, <2>5 DEF AloneInv
<1>3. PrepInv /\ CalmInv /\ IsolationInv /\ ServeInv /\ AloneInv /\ [Next]_vars => AloneInv'
  BY <1>1, <1>2
<1> QED BY InitAlone, PrepInvariant, CalmInvariant, IsolationInvariant, ServeInvariant, <1>3, PTL
        DEF Spec

\* A process that is alone in its workspace prepares the build exactly when the
\* request, the target and the lockfile allow it: no acceptable request is
\* refused by one of the checks, and none that is not gets to the sandbox
\* (validate_target_dir, create_directory_without_symlinks, prepare_lockfile,
\* validate_writable_tree, open_mount_source).
THEOREM AloneIsExact == Spec => []AloneSucceedsIffAcceptable
<1>1. PrepInv /\ CalmInv /\ IsolationInv /\ ServeInv /\ AloneInv => AloneSucceedsIffAcceptable
  <2>1. SUFFICES ASSUME PrepInv, CalmInv, IsolationInv, ServeInv, AloneInv, ByItself,
                        NEW p \in Procs
                 PROVE  /\ proc[p].pc = "mounted" => Acceptable(proc[p])
                        /\ proc[p].pc = "failed" => ~Acceptable(proc[p])
    BY DEF AloneSucceedsIffAcceptable, ByItself
  <2>2. PICK k : k = proc[p]
    OBVIOUS
  <2>3. Footing(p, k)
    BY <2>1, <2>2, AllAlone DEF AloneHere
  <2>4. ASSUME k.pc = "mounted" PROVE Acceptable(k)
    <3>1. OnCourse(Dirs, k)
      BY <2>3, <2>4 DEF Footing
    <3>2. AtBuild(k) /\ Reached(Dirs, k)
      BY <2>4, <3>1 DEF OnCourse, AtBase, AtFresh, AtRuns
    <3>3. /\ IsA(Lockfile, "file") /\ tree[Lockfile].names = 1 /\ PlainTree(k.run)
          /\ k.goal \in Dirs /\ HasTarget(k)
      BY <2>4, <3>2 DEF AtBuild, Reached, Late
    <3>4. RequestFits(k.request)
      BY <2>3, <3>3, TargetFitsRequest DEF Footing
    <3>5. PICK run, goal : OnRun(k, run, goal)
      BY <2>3, <3>2, BuildGround
    <3>6. TargetFits(k)
      <4>1. CASE k.reuse
        <5>1. PlainTree(Follow(k.request)) /\ k.goal = Append(Follow(k.request), BuildName)
          BY <3>3, <3>5, <4>1 DEF OnRun
        <5>2. FreeOrDir(k.goal)
          BY <3>3 DEF FreeOrDir, Dirs, IsA, Exists
        <5> QED BY <4>1, <5>1, <5>2 DEF TargetFits
      <4>2. CASE ~k.reuse
        BY <3>5, <4>2 DEF OnRun
      <4> QED BY <4>1, <4>2
    <3> QED BY <3>3, <3>4, <3>6 DEF Acceptable
  <2>5. k.pc = "failed" => ~Acceptable(k)
    BY <2>1, <2>2 DEF AloneInv
  <2> QED BY <2>2, <2>4, <2>5
<1> QED BY <1>1, PrepInvariant, CalmInvariant, IsolationInvariant, ServeInvariant, AloneInvariant, PTL
=============================================================================
