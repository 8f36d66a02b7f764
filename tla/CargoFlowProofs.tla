---------------------------- MODULE CargoFlowProofs ----------------------------
(***************************************************************************)
(* Theorems about CargoFlow, for every tree, command line, backend answer  *)
(* and any number of changes by other programs.                            *)
(***************************************************************************)
EXTENDS CargoFlowInv, FiniteSetTheorems, SequenceTheorems, WellFoundedInduction, TLAPS

-----------------------------------------------------------------------------
(* Numbers *)

Below == OpToRel(<, Nat)

\* A set of numbers has a least one; with it what a recursive function does is
\* proved by the least argument where it would do something else.
LEMMA Least ==
  ASSUME NEW T, T \subseteq Nat, T # {}
  PROVE  \E m \in T : \A k \in T : m <= k
<1>1. \A x, y \in Nat : x < y => <<x, y>> \in Below
  BY DEF Below, OpToRel
<1>2. \E x \in T : \A y \in T : ~(<<y, x>> \in Below)
  <2>1. IsWellFoundedOn(Below, Nat)
    BY NatLessThanWellFounded DEF Below
  <2> QED BY <2>1, WFMin, Zenon
<1>3. PICK m \in T : \A y \in T : ~(<<y, m>> \in Below)
  BY <1>2
<1>4. ASSUME NEW k \in T PROVE m <= k
  <2>1. ~(k < m)
    BY <1>1, <1>3
  <2> QED BY <2>1
<1> QED BY <1>4

LEMMA Greatest ==
  ASSUME NEW T, NEW n \in Nat, T \subseteq 0..n, T # {}
  PROVE  \E m \in T : \A k \in T : k <= m
<1> DEFINE R == {n - k : k \in T}
<1>1. PICK r \in R : \A s \in R : r <= s
  <2>1. \A k \in T : n - k \in Nat
    OBVIOUS
  <2>2. R \subseteq Nat /\ R # {}
    BY <2>1
  <2> HIDE DEF R
  <2> QED BY <2>2, Least
<1>2. PICK m \in T : r = n - m
  OBVIOUS
<1>3. ASSUME NEW k \in T PROVE k <= m
  <2>1. r <= n - k
    BY <1>1
  <2> QED BY <2>1, <1>2
<1> QED BY <1>3

-----------------------------------------------------------------------------
(* Paths *)

LEMMA StartsWithItself ==
  ASSUME NEW p \in Seq(Names)
  PROVE  StartsWith(p, p)
BY DEF StartsWith

LEMMA StartsWithChain ==
  ASSUME NEW p \in Seq(Names), NEW q \in Seq(Names), NEW r \in Seq(Names),
         StartsWith(p, q), StartsWith(q, r)
  PROVE  StartsWith(p, r)
BY DEF StartsWith

LEMMA PrefixProperties ==
  ASSUME NEW p \in Seq(Names), NEW q \in Prefixes(p)
  PROVE  /\ q \in Seq(Names) \ {<< >>} /\ StartsWith(p, q)
         /\ Prefixes(q) \subseteq Prefixes(p)
<1>1. PICK n \in 1..Len(p) : q = SubSeq(p, 1, n)
  BY DEF Prefixes
<1>2. q \in Seq(Names) /\ Len(q) = n
  BY <1>1
<1>3. StartsWith(p, q)
  BY <1>1, <1>2 DEF StartsWith
<1>4. \A m \in 1..n : m \in 1..Len(p) /\ SubSeq(q, 1, m) = SubSeq(p, 1, m)
  BY <1>1
<1>5. Prefixes(q) \subseteq Prefixes(p)
  BY <1>2, <1>4 DEF Prefixes
<1>6. q # << >>
  BY <1>1, <1>2
<1> QED BY <1>2, <1>3, <1>5, <1>6

LEMMA StartsWithPrefix ==
  ASSUME NEW p \in Seq(Names), NEW q \in Seq(Names) \ {<< >>}
  PROVE  StartsWith(p, q) => q \in Prefixes(p)
<1>1. SUFFICES ASSUME StartsWith(p, q) PROVE q \in Prefixes(p)
  OBVIOUS
<1>2. Len(q) \in 1..Len(p)
  BY <1>1 DEF StartsWith
<1>3. q = SubSeq(p, 1, Len(q))
  BY <1>1 DEF StartsWith
<1> QED BY <1>2, <1>3 DEF Prefixes

LEMMA ChildProperties ==
  ASSUME NEW p \in Seq(Names), NEW x \in Names
  PROVE  /\ Child(p, x) \in Seq(Names) \ {<< >>}
         /\ StartsWith(Child(p, x), p) /\ Child(p, x) # p
         /\ Prefixes(Child(p, x)) = Prefixes(p) \cup {Child(p, x)}
         /\ Child(p, x)[Len(Child(p, x))] = x
<1> DEFINE c == Append(p, x)
<1>1. c \in Seq(Names) /\ Len(c) = Len(p) + 1
  OBVIOUS
<1>2. \A n \in 1..Len(p) : SubSeq(c, 1, n) = SubSeq(p, 1, n)
  OBVIOUS
<1>3. SubSeq(c, 1, Len(p)) = p /\ SubSeq(c, 1, Len(c)) = c
  OBVIOUS
<1>4. 1..Len(c) = 1..Len(p) \cup {Len(c)}
  BY <1>1
<1>5. Prefixes(c) = Prefixes(p) \cup {c}
  <2> HIDE DEF c
  <2> QED BY <1>2, <1>3, <1>4 DEF Prefixes
<1>6. StartsWith(c, p)
  <2>1. Len(p) <= Len(c)
    BY <1>1
  <2> HIDE DEF c
  <2> QED BY <1>3, <2>1 DEF StartsWith
<1>7. c # p /\ c # << >>
  BY <1>1
<1>8. c[Len(c)] = x
  OBVIOUS
<1> QED BY <1>1, <1>5, <1>6, <1>7, <1>8 DEF Child

LEMMA ParentProperties ==
  ASSUME NEW p \in Seq(Names)
  PROVE  Parent(p) \in Seq(Names)
<1>1. CASE p = << >>
  BY <1>1 DEF Parent
<1>2. CASE p # << >>
  BY <1>2 DEF Parent
<1> QED BY <1>1, <1>2

\* What a walk computes on the way: where the first i names of p lead.
WalkStep(links, p, f, i) ==
  IF i = 0 THEN << >>
  ELSE IF p[i] = ".." THEN Parent(f[i - 1])
  ELSE LET q == Append(f[i - 1], p[i]) IN IF q \in DOMAIN links THEN links[q] ELSE q
Walked(links, p) == CHOOSE f : f = [i \in 0..Len(p) |-> WalkStep(links, p, f, i)]

\* A walk over links that lead to paths leads, at each of its names, to a path.
LEMMA Walks ==
  ASSUME NEW links, \A q \in DOMAIN links : links[q] \in Seq(Names), NEW p \in Seq(Names)
  PROVE  /\ Walked(links, p) = [i \in 0..Len(p) |-> WalkStep(links, p, Walked(links, p), i)]
         /\ Walk(links, p) = Walked(links, p)[Len(p)]
         /\ \A i \in 0..Len(p) : Walked(links, p)[i] \in Seq(Names)
<1> DEFINE Step(f, i) == WalkStep(links, p, f, i)
<1> DEFINE walked == Walked(links, p)
<1> USE DEF WalkStep
<1>1. ASSUME NEW r \in Seq(Names), NEW i \in 1..Len(p)
      PROVE  (IF p[i] = ".." THEN Parent(r)
              ELSE LET q == Append(r, p[i]) IN IF q \in DOMAIN links THEN links[q] ELSE q)
               \in Seq(Names)
  <2>1. Append(r, p[i]) \in Seq(Names) /\ Parent(r) \in Seq(Names)
    BY ParentProperties
  <2> QED BY <2>1
<1>2. ASSUME NEW n \in 0..Len(p)
      PROVE  \E f \in [0..n -> Seq(Names)] : \A i \in 0..n : f[i] = Step(f, i)
  <2> DEFINE Has(m) == \E f \in [0..m -> Seq(Names)] : \A i \in 0..m : f[i] = Step(f, i)
  <2> DEFINE T == {m \in 0..Len(p) : ~Has(m)}
  <2>1. SUFFICES ASSUME T # {} PROVE FALSE
    OBVIOUS
  <2>2. PICK m \in T : \A k \in T : m <= k
    <3>1. T \subseteq Nat
      OBVIOUS
    <3> HIDE DEF T
    <3> QED BY <2>1, <3>1, Least
  <2>3. m \in 0..Len(p) /\ ~Has(m)
    OBVIOUS
  <2>4. CASE m = 0
    <3> DEFINE f == [i \in 0..0 |-> << >>]
    <3>1. f \in [0..0 -> Seq(Names)]
      OBVIOUS
    <3>2. \A i \in 0..0 : f[i] = Step(f, i)
      OBVIOUS
    <3>3. Has(0)
      <4> HIDE DEF f, Step
      <4> QED BY <3>1, <3>2
    <3> QED BY <2>3, <2>4, <3>3
  <2>5. CASE m # 0
    <3>1. m - 1 \in 0..Len(p) /\ m \in 1..Len(p)
      BY <2>3, <2>5
    <3>2. Has(m - 1)
      <4>1. m - 1 \notin T
        <5> HIDE DEF T
        <5> QED BY <2>2, <2>3, <2>5
      <4> HIDE DEF Has
      <4> QED BY <3>1, <4>1
    <3>3. PICK f \in [0..(m - 1) -> Seq(Names)] : \A i \in 0..(m - 1) : f[i] = Step(f, i)
      <4> HIDE DEF Step
      <4> QED BY <3>2
    <3> DEFINE g == [i \in 0..m |-> IF i = m THEN Step(f, m) ELSE f[i]]
    <3>4. Step(f, m) \in Seq(Names)
      <4>1. f[m - 1] \in Seq(Names)
        BY <3>1
      <4> QED BY <1>1, <2>5, <3>1, <4>1
    <3>5. g \in [0..m -> Seq(Names)]
      <4>1. ASSUME NEW i \in 0..m, i # m PROVE i \in 0..(m - 1)
        BY <3>1, <4>1
      <4>2. \A i \in 0..m : g[i] \in Seq(Names)
        <5> HIDE DEF Step
        <5> QED BY <3>4, <4>1
      <4> HIDE DEF Step
      <4> QED BY <4>2
    <3>6. ASSUME NEW i \in 0..m PROVE g[i] = Step(g, i)
      <4>1. CASE i = 0
        <5>1. g[0] = f[0] /\ f[0] = Step(f, 0)
          <6> HIDE DEF Step
          <6> QED BY <2>5, <3>1, <3>3
        <5> QED BY <4>1, <5>1
      <4>2. CASE i # 0
        <5>1. g[i - 1] = f[i - 1]
          <6> HIDE DEF Step
          <6> QED BY <3>1, <4>2
        <5>2. Step(g, i) = Step(f, i)
          <6> HIDE DEF g
          <6> QED BY <4>2, <5>1
        <5>3. g[i] = Step(f, i)
          <6> HIDE DEF Step
          <6>1. CASE i = m
            BY <6>1
          <6>2. CASE i # m
            <7>1. i \in 0..(m - 1) /\ g[i] = f[i]
              BY <3>1, <6>2
            <7> QED BY <3>3, <7>1
          <6> QED BY <6>1, <6>2
        <5> QED BY <5>2, <5>3
      <4> QED BY <4>1, <4>2
    <3>7. Has(m)
      <4> HIDE DEF g, Step
      <4> QED BY <3>5, <3>6
    <3> QED BY <2>3, <3>7
  <2> QED BY <2>4, <2>5
<1>3. walked = [i \in 0..Len(p) |-> Step(walked, i)]
  <2>1. PICK f \in [0..Len(p) -> Seq(Names)] : \A i \in 0..Len(p) : f[i] = Step(f, i)
    <3>1. Len(p) \in 0..Len(p)
      OBVIOUS
    <3> HIDE DEF Step
    <3> QED BY <1>2, <3>1
  <2>2. f = [i \in 0..Len(p) |-> Step(f, i)]
    <3> HIDE DEF Step
    <3> QED BY <2>1
  <2> HIDE DEF WalkStep
  <2> QED BY <2>2 DEF Walked
<1>4. ASSUME NEW n \in 0..Len(p) PROVE walked[n] \in Seq(Names)
  <2> HIDE DEF walked
  <2> DEFINE T == {j \in 0..Len(p) : walked[j] \notin Seq(Names)}
  <2>1. SUFFICES ASSUME T # {} PROVE FALSE
    OBVIOUS
  <2>2. PICK m \in T : \A k \in T : m <= k
    <3>1. T \subseteq Nat
      OBVIOUS
    <3> HIDE DEF T
    <3> QED BY <2>1, <3>1, Least
  <2>3. walked[m] = Step(walked, m) /\ m \in 0..Len(p)
    <3> HIDE DEF Step
    <3> QED BY <1>3
  <2>4. m # 0
    <3>1. << >> \in Seq(Names)
      OBVIOUS
    <3>2. walked[m] \notin Seq(Names)
      BY <2>2
    <3> QED BY <2>3, <3>1, <3>2
  <2>5. m - 1 \in 0..Len(p) /\ walked[m - 1] \in Seq(Names)
    BY <2>2, <2>4
  <2>6. m \in 1..Len(p)
    BY <2>3, <2>4
  <2>7. Step(walked, m) \in Seq(Names)
    BY <1>1, <2>4, <2>5, <2>6
  <2>8. walked[m] \notin Seq(Names)
    BY <2>2
  <2> HIDE DEF Step
  <2> QED BY <2>3, <2>7, <2>8
<1>5. Walk(links, p) = walked[Len(p)]
  BY DEF Walk, Walked
<1> HIDE DEF walked, Step, WalkStep
<1>6. Walked(links, p) = [i \in 0..Len(p) |-> WalkStep(links, p, Walked(links, p), i)]
  <2> USE DEF walked, Step
  <2> QED BY <1>3
<1>7. /\ Walk(links, p) = Walked(links, p)[Len(p)]
      /\ \A i \in 0..Len(p) : Walked(links, p)[i] \in Seq(Names)
  BY <1>4, <1>5 DEF walked
<1> QED BY <1>6, <1>7

LEMMA WalkType ==
  ASSUME NEW links, \A q \in DOMAIN links : links[q] \in Seq(Names), NEW p \in Seq(Names)
  PROVE  Walk(links, p) \in Seq(Names)
<1>1. Len(p) \in 0..Len(p)
  OBVIOUS
<1> QED BY <1>1, Walks

\* A path without links and ".." leads to itself.
LEMMA PlainWalk ==
  ASSUME NEW links, \A q \in DOMAIN links : links[q] \in Seq(Names), NEW p \in Seq(Names),
         NoTraversal(p), \A q \in Prefixes(p) : q \notin DOMAIN links
  PROVE  Walk(links, p) = p
<1> DEFINE at == Walked(links, p)
<1>1. /\ at = [i \in 0..Len(p) |-> WalkStep(links, p, at, i)]
      /\ Walk(links, p) = at[Len(p)]
  BY Walks
<1> HIDE DEF at
<1>2. ASSUME NEW i \in 1..Len(p)
      PROVE  /\ p[i] # ".." /\ SubSeq(p, 1, i) = Append(SubSeq(p, 1, i - 1), p[i])
             /\ SubSeq(p, 1, i) \notin DOMAIN links
  <2>1. p[i] # ".." /\ SubSeq(p, 1, i) \in Prefixes(p)
    BY DEF NoTraversal, Prefixes
  <2>2. SubSeq(p, 1, i) = Append(SubSeq(p, 1, i - 1), p[i])
    OBVIOUS
  <2> QED BY <2>1, <2>2
<1>3. ASSUME NEW i \in 0..Len(p) PROVE at[i] = SubSeq(p, 1, i)
  <2> DEFINE T == {j \in 0..Len(p) : at[j] # SubSeq(p, 1, j)}
  <2>1. SUFFICES ASSUME T # {} PROVE FALSE
    OBVIOUS
  <2>2. PICK m \in T : \A k \in T : m <= k
    <3> T \subseteq Nat OBVIOUS
    <3> HIDE DEF T
    <3> QED BY <2>1, Least
  <2>3. m \in 0..Len(p) /\ at[m] = WalkStep(links, p, at, m)
    BY <1>1
  <2>4. m # 0
    <3>1. SubSeq(p, 1, 0) = << >>
      OBVIOUS
    <3> QED BY <2>2, <2>3, <3>1 DEF WalkStep
  <2>5. m \in 1..Len(p) /\ m - 1 \in 0..Len(p)
    BY <2>3, <2>4
  <2>6. at[m - 1] = SubSeq(p, 1, m - 1)
    BY <2>2, <2>5
  <2>7. at[m] = SubSeq(p, 1, m)
    BY <1>2, <2>3, <2>4, <2>5, <2>6 DEF WalkStep
  <2> QED BY <2>2, <2>7
<1>4. SubSeq(p, 1, Len(p)) = p /\ Len(p) \in 0..Len(p)
  OBVIOUS
<1> QED BY <1>1, <1>3, <1>4

LEMMA PrefixesAreNested ==
  ASSUME NEW p \in Seq(Names), NEW q \in Seq(Names), NEW r \in Seq(Names),
         StartsWith(p, q), StartsWith(p, r), Len(q) <= Len(r)
  PROVE  StartsWith(r, q)
BY DEF StartsWith

LEMMA NoTraversalAbove ==
  ASSUME NEW p \in Seq(Names), NEW q \in Seq(Names), StartsWith(p, q), NoTraversal(p)
  PROVE  NoTraversal(q)
<1>1. ASSUME NEW i \in DOMAIN q PROVE i \in DOMAIN p /\ q[i] = p[i]
  BY DEF StartsWith
<1> QED BY <1>1 DEF NoTraversal

LEMMA ConcatStartsWith ==
  ASSUME NEW p \in Seq(Names), NEW q \in Seq(Names)
  PROVE  p \o q \in Seq(Names) /\ StartsWith(p \o q, p)
<1>1. /\ p \o q \in Seq(Names) /\ Len(p) <= Len(p \o q)
      /\ \A i \in 1..Len(p) : (p \o q)[i] = p[i]
  OBVIOUS
<1>2. SubSeq(p \o q, 1, Len(p)) = p
  BY <1>1
<1> QED BY <1>1, <1>2 DEF StartsWith

-----------------------------------------------------------------------------
(* The command line *)

LEMMA FixedNames ==
  /\ {"Cargo.toml", "Cargo.lock", "target", "build", ".cargo-cage", "runs", "run"}
       \subseteq Names
  /\ NoPath \in Paths /\ Rel(<<"--target-dir">>) \in Paths
  /\ Rel(<<"--manifest-path">>) \in Paths /\ Rel(<<"--">>) \in Paths
<1>1. /\ {"Cargo.toml", "Cargo.lock", "target", "build", ".cargo-cage", "runs", "run",
          "--target-dir", "--manifest-path", "--", "no such path"} \subseteq Names
  BY FlowAssumption
<1>2. \A x \in Names : Rel(<<x>>) \in Paths
  BY DEF Rel, Paths
<1> QED BY <1>1, <1>2 DEF NoPath

LEMMA InvocationType ==
  ASSUME NEW args \in Seq(Arguments)
  PROVE  LET i == parse_invocation(args) IN
         /\ i.is \in {"usage", "help", "doctor", "cargo"}
         /\ i.is = "cargo" => i.args \in Seq(Arguments)
<1>1. ASSUME NEW n \in {1, 2}, NEW reuse \in BOOLEAN
      PROVE  LET i == Invocation(args, n, reuse) IN
             /\ i.is \in {"usage", "help", "doctor", "cargo"}
             /\ i.is = "cargo" => i.args \in Seq(Arguments)
  <2>1. n <= Len(args) => From(args, n + 1) \in Seq(Arguments)
    BY DEF From
  <2> QED BY <2>1 DEF Invocation, Usage, Help, Doctor, Cargo
<1> QED BY <1>1 DEF parse_invocation, Usage

\* An option that is not at the very end has a path for its value.
LEMMA LastValueType ==
  ASSUME NEW args \in Seq(Arguments), NEW option \in {"target", "manifest"},
         ~Lacking(args, option)
  PROVE  LastValue(args, option) \in Paths
<1> DEFINE occ == Occurrences(args, option)
<1> DEFINE last == CHOOSE i \in occ : \A j \in occ : j <= i
<1>1. CASE occ = {}
  BY <1>1, FixedNames DEF LastValue
<1>2. CASE occ # {}
  <2>1. occ \subseteq 1..Len(args)
    BY DEF Occurrences
  <2>2. \E i \in occ : \A j \in occ : j <= i
    <3>1. occ \subseteq 0..Len(args) /\ Len(args) \in Nat
      BY <2>1
    <3> HIDE DEF occ
    <3> QED BY <1>2, <3>1, Greatest
  <2>3. last \in occ
    <3> HIDE DEF occ
    <3> QED BY <2>2
  <2>4. args[last] \in Arguments /\ last \in 1..Len(args)
    <3>1. last \in 1..Len(args)
      BY <2>1, <2>3
    <3> HIDE DEF last
    <3> QED BY <3>1
  <2>5. CASE args[last].kind = option
    <3>1. ReadsAt(args, {option}, last, option)
      <4>1. ReadsAt(args, {option}, last, option)
              \/ ReadsAt(args, {option}, last, WithEquals(option))
        <5> HIDE DEF last
        <5> QED BY <2>3 DEF Occurrences
      <4> HIDE DEF last
      <4> QED BY <4>1, <2>5 DEF ReadsAt, WithEquals
    <3>2. last # Len(args)
      <4> HIDE DEF last
      <4> QED BY <3>1 DEF Lacking
    <3>3. args[last + 1] \in Arguments
      <4> HIDE DEF last
      <4> QED BY <2>4, <3>2
    <3>4. AsPath(args[last + 1]) \in Paths
      <4> HIDE DEF last
      <4> QED BY <3>3, FixedNames DEF AsPath, Arguments
    <3>5. LastValue(args, option) = AsPath(args[last + 1])
      BY <1>2, <2>5 DEF LastValue
    <3> QED BY <3>4, <3>5
  <2>6. CASE args[last].kind # option
    <3>1. args[last].value \in Paths
      <4> HIDE DEF last
      <4> QED BY <2>4 DEF Arguments
    <3>2. LastValue(args, option) = args[last].value
      BY <1>2, <2>6 DEF LastValue
    <3> QED BY <3>1, <3>2
  <2> QED BY <2>5, <2>6
<1> QED BY <1>1, <1>2

LEMMA JoinType ==
  ASSUME NEW p \in Seq(Names), NEW v \in Paths
  PROVE  Join(p, v) \in Seq(Names)
BY DEF Join, Paths

-----------------------------------------------------------------------------
(* The host and what is derived from it *)

LEMMA HostType ==
  ASSUME TypeInv
  PROVE  /\ host.cwd \in Seq(Names) \ {<< >>} /\ host.fromEnv \in Paths
         /\ host.wrong \subseteq Seq(Names)
         /\ DOMAIN host.rootOf \subseteq Seq(Names)
         /\ \A d \in DOMAIN host.rootOf : host.rootOf[d] \in DOMAIN host.rootOf
         /\ host.statuses \subseteq Nat \cup {NoCode} /\ NoCode \notin Nat
         /\ \A p \in DOMAIN host.fs : p[Len(p)] # "run"
<1>1. host \in {c.host : c \in Cases}
  BY DEF TypeInv
<1>2. /\ host.statuses \subseteq Nat \cup {NoCode}
      /\ DOMAIN host.fs \subseteq Seq(Names) \ {<< >>}
      /\ \A p \in DOMAIN host.fs : p[Len(p)] # "run"
      /\ host.cwd \in DOMAIN host.fs
      /\ host.fromEnv \in Paths
      /\ host.wrong \subseteq Seq(Names)
      /\ \A d \in DOMAIN host.rootOf :
           host.rootOf[d] \in DOMAIN host.rootOf /\ d \in DOMAIN host.fs
  BY <1>1, FlowAssumption
<1> QED BY <1>2, FlowAssumption

LEMMA ManifestType ==
  ASSUME TypeInv, ~Lacking(Args, "manifest")
  PROVE  Manifest \in Seq(Names) /\ Base \in Seq(Names)
<1>1. manifest_path_arg(Args) \in Paths
  BY LastValueType DEF TypeInv, manifest_path_arg
<1>2. Manifest \in Seq(Names)
  BY <1>1, HostType, JoinType DEF Manifest
<1> QED BY <1>2, HostType, ParentProperties DEF Base

LEMMA TargetType ==
  ASSUME TypeInv, ~Lacking(Args, "target")
  PROVE  Target \in Seq(Names)
<1>1. LastValue(Args, "target") \in Paths
  BY LastValueType DEF TypeInv
<1>2. Append(found.workspace, "target") \in Seq(Names)
  BY FixedNames DEF TypeInv, Locations
<1> QED BY <1>1, <1>2, HostType, JoinType DEF Target, target_dir_arg

\* Whatever Cargo answers is a path: there is a nearest package if there is any.
LEMMA LocatedType ==
  ASSUME TypeInv, ~Lacking(Args, "manifest")
  PROVE  Located \subseteq Seq(Names)
<1> DEFINE packages == {d \in DOMAIN host.rootOf :
                          Visible(d) /\ IsA(Child(d, "Cargo.toml"), "file")}
<1> DEFINE above == {d \in packages : StartsWith(Base, d)}
<1> DEFINE nearest == CHOOSE d \in above : \A e \in above : Len(e) <= Len(d)
<1>1. SUFFICES ASSUME above # {} PROVE nearest \in above
  <2>1. above = {} => Located = {}
    BY DEF Located
  <2>2. above # {} =>
          Located = {IF host.rootOf[nearest] \in packages THEN host.rootOf[nearest]
                     ELSE nearest}
    BY DEF Located
  <2>3. above \subseteq DOMAIN host.rootOf
    OBVIOUS
  <2> HIDE DEF nearest, above
  <2> QED BY <1>1, <2>1, <2>2, <2>3, HostType
<1>2. Base \in Seq(Names) /\ above \subseteq Seq(Names)
  BY ManifestType, HostType
<1>3. \A d \in above : Len(d) \in 0..Len(Base)
  BY <1>2 DEF StartsWith
<1> DEFINE T == {Len(d) : d \in above}
<1>4. PICK m \in T : \A k \in T : k <= m
  <2>1. T \subseteq 0..Len(Base) /\ T # {} /\ Len(Base) \in Nat
    BY <1>1, <1>2, <1>3
  <2> HIDE DEF T
  <2> QED BY <2>1, Greatest
<1>5. PICK d \in above : Len(d) = m
  BY <1>4
<1>6. \A e \in above : Len(e) <= Len(d)
  BY <1>4, <1>5
<1> HIDE DEF above
<1> QED BY <1>5, <1>6

-----------------------------------------------------------------------------
(* The tree *)

LEMMA LinkTypes ==
  ASSUME TreeInv
  PROVE  \A q \in DOMAIN Links : Links[q] \in Seq(Names)
BY DEF TreeInv, Links, LinksOf

LEMMA LandedType ==
  ASSUME TreeInv, NEW p \in Seq(Names)
  PROVE  Landed(p) \in Seq(Names)
BY LinkTypes, WalkType DEF Landed

Grows == \A p \in DOMAIN fs : p \in DOMAIN fs' /\ fs'[p] = fs[p]

\* A tree that grows by directories and files has the links it had.
LEMMA SameLinks ==
  ASSUME Grows, \A q \in DOMAIN fs' \ DOMAIN fs : fs'[q] \in {Dir, File}
  PROVE  Links' = Links
<1>1. \A q \in DOMAIN fs' \ DOMAIN fs : fs'[q].kind # "link"
  BY DEF Dir, File
<1>2. {q \in DOMAIN fs' : fs'[q].kind = "link"} = {q \in DOMAIN fs : fs[q].kind = "link"}
  BY <1>1 DEF Grows
<1>3. \A q \in {q \in DOMAIN fs : fs[q].kind = "link"} : fs'[q].to = fs[q].to
  BY DEF Grows
<1> QED BY <1>2, <1>3 DEF Links, LinksOf

LEMMA CreatedLinks ==
  ASSUME NEW p, fs' = Created(p)
  PROVE  Grows /\ Links' = Links
<1>1. Grows /\ \A q \in DOMAIN fs' \ DOMAIN fs : fs'[q] = Dir
  BY DEF Created, Grows
<1> QED BY <1>1, SameLinks

LEMMA CreatedTree ==
  ASSUME TreeInv, NEW p \in Seq(Names), fs' = Created(p)
  PROVE  TreeInv' /\ DOMAIN fs' = DOMAIN fs \cup Prefixes(p)
<1>1. DOMAIN fs' = DOMAIN fs \cup Prefixes(p)
  BY DEF Created
<1>2. ASSUME NEW q \in DOMAIN fs' PROVE IsFile(q) /\ Prefixes(q) \subseteq DOMAIN fs'
  BY <1>1, PrefixProperties DEF TreeInv, IsFile
<1>3. ASSUME NEW q \in DOMAIN fs' PROVE fs'[q].to \in Seq(Names)
  <2>1. Dir.to \in Seq(Names)
    BY DEF Dir
  <2> QED BY <2>1 DEF TreeInv, Created
<1> QED BY <1>1, <1>2, <1>3 DEF TreeInv

LEMMA WorkspaceType ==
  ASSUME TypeInv, TreeInv
  PROVE  found.workspace \in Seq(Names) /\ Workspace \in Seq(Names)
BY LandedType DEF TypeInv, Locations, Workspace

\* A directory is there with all above it.
LEMMA WorkspaceThere ==
  ASSUME TypeInv, TreeInv, KindAt(Workspace) = "dir"
  PROVE  Prefixes(Workspace) \subseteq DOMAIN fs
<1>1. CASE Workspace = << >>
  <2>1. 1..Len(Workspace) = {}
    BY <1>1
  <2> QED BY <2>1 DEF Prefixes
<1>2. CASE Workspace # << >>
  BY <1>2 DEF KindAt, TreeInv
<1> QED BY <1>1, <1>2

\* What is made on the way to a directory below one inside the workspace is
\* inside the workspace.
LEMMA NewInside ==
  ASSUME TypeInv, TreeInv, NEW base \in Seq(Names), NEW p \in Seq(Names),
         KindAt(Workspace) = "dir", Inside(base), StartsWith(p, base),
         NEW q \in Prefixes(p), q \notin DOMAIN fs
  PROVE  Inside(q)
<1>1. PICK ws \in Seq(Names) : ws = Workspace
  BY WorkspaceType
<1>2. StartsWith(base, ws)
  BY <1>1 DEF Inside
<1>3. Prefixes(ws) \subseteq DOMAIN fs
  BY <1>1, WorkspaceThere
<1>4. q \in Seq(Names) \ {<< >>} /\ StartsWith(p, q) /\ StartsWith(p, ws)
  BY <1>1, <1>2, PrefixProperties, StartsWithChain
<1>5. ~(Len(q) <= Len(ws))
  <2>1. SUFFICES ASSUME Len(q) <= Len(ws) PROVE FALSE
    OBVIOUS
  <2>2. StartsWith(ws, q)
    BY <1>1, <1>4, <2>1, PrefixesAreNested
  <2>3. q \in Prefixes(ws)
    BY <1>1, <1>4, <2>2, StartsWithPrefix
  <2> QED BY <1>3, <2>3
<1>6. StartsWith(q, ws) /\ q # ws
  <2>1. Len(ws) <= Len(q)
    BY <1>1, <1>4, <1>5
  <2>2. StartsWith(q, ws)
    BY <1>1, <1>4, <2>1, PrefixesAreNested
  <2> QED BY <1>5, <2>2, <1>1
<1> QED BY <1>1, <1>6 DEF Inside

\* A valid target leads into the workspace, which is a directory.
LEMMA ValidTargetLeads ==
  ASSUME NEW p, ValidTarget(p)
  PROVE  KindAt(Workspace) = "dir" /\ Inside(Landed(p))
BY DEF ValidTarget, IsA, Workspace

-----------------------------------------------------------------------------
(* The steps *)

\* What a step may do to the tree.
MakesOnlyOwn ==
  fs' # fs /\ moves' = moves =>
    /\ inv.is = "cargo" /\ Len(runs) = 1 /\ runs[1].status = 0
    /\ Contains(found.workspace) /\ (moves = 0 => Workspace = found.workspace)
    /\ \A p \in DOMAIN fs : p \in DOMAIN fs' /\ fs'[p] = fs[p]
    /\ \A p \in DOMAIN fs' \ DOMAIN fs : Inside(p)

LEMMA SameScene ==
  ASSUME UNCHANGED <<host, inv>>
  PROVE  /\ Args' = Args /\ (Isolated' <=> Isolated)
         /\ \A d : Contains(d)' <=> Contains(d)
BY DEF Args, Isolated, Contains, Manifest, HasManifest

\* Where the links stay as they are, the workspace leads where it led.
LEMMA WorkspaceStays ==
  ASSUME UNCHANGED <<host, inv, moves>>, Links' = Links, found'.workspace = found.workspace,
         Contains(found.workspace), moves = 0 => Workspace = found.workspace
  PROVE  /\ Contains(found.workspace)'
         /\ (moves = 0 => Workspace = found.workspace)'
<1>1. Contains(found.workspace)'
  BY SameScene DEF Contains, Manifest, HasManifest
<1>2. Workspace' = Workspace
  BY DEF Workspace, Landed
<1> QED BY <1>1, <1>2

LEMMA InitInv == Init => FlowInv
<1>1. SUFFICES ASSUME Init PROVE FlowInv
  OBVIOUS
<1>2. PICK c \in Cases : host = c.host /\ argv \in c.lines
  BY <1>1 DEF Init
<1>3. Args = << >> /\ argv \in Seq(Arguments) /\ host \in {d.host : d \in Cases}
  BY <1>1, <1>2, FlowAssumption DEF Init, Args, Usage
<1>4. TreeInv
  <2>1. /\ DOMAIN host.fs \subseteq Seq(Names) \ {<< >>}
        /\ \A p \in DOMAIN host.fs :
             /\ host.fs[p].to \in Seq(Names)
             /\ \A q \in Prefixes(p) \ {p} : q \in DOMAIN host.fs
    BY <1>3, FlowAssumption
  <2> QED BY <1>1, <2>1 DEF Init, TreeInv, IsFile
<1>5. TypeInv
  BY <1>1, <1>3 DEF Init, TypeInv, Usage, NothingFound, None, Locations, Places
<1> QED BY <1>1, <1>4, <1>5 DEF Init, FlowInv, RequestInv, FailedInv, RunsInv,
  ArgsInv, WorkspaceInv, TargetInv, PolicyInv, EndInv, Building, Preparing,
  AfterDiscovery, NoRequest, Usage

LEMMA ParseKeeps ==
  ASSUME FlowInv, ParseArguments
  PROVE  FlowInv' /\ MakesOnlyOwn
<1>1. /\ inv'.is \in {"usage", "help", "doctor", "cargo"}
      /\ inv'.is = "cargo" => inv'.args \in Seq(Arguments)
  BY InvocationType DEF FlowInv, TypeInv, ParseArguments
<1>2. Args' \in Seq(Arguments)
  BY <1>1 DEF Args
<1>3. TypeInv'
  BY <1>1, <1>2 DEF FlowInv, TypeInv, ParseArguments, At, Goto, Exit, Places
<1>4. TreeInv' /\ MakesOnlyOwn
  BY <1>1, <1>3 DEF FlowInv, TreeInv, ParseArguments, At, MakesOnlyOwn
<1>5. RunsInv' /\ FailedInv'
  BY <1>1, <1>3 DEF FlowInv, TypeInv, ParseArguments, At, Goto, Exit, RunsInv, FailedInv, AfterDiscovery, Preparing
<1>6. RequestInv' /\ ArgsInv'
  BY <1>1, <1>3 DEF FlowInv, TypeInv, ParseArguments, At, Goto, Exit, RunsInv, RequestInv, ArgsInv, AfterDiscovery
<1>7. WorkspaceInv' /\ TargetInv' /\ PolicyInv'
  BY <1>1, <1>3 DEF FlowInv, TypeInv, ParseArguments, At, Goto, Exit, WorkspaceInv, TargetInv, PolicyInv,
     Building, Preparing
<1>8. EndInv'
  <2>1. runs' = << >>
    BY <1>1, <1>3 DEF FlowInv, RunsInv, ParseArguments, At, TypeInv
  <2>2. ~Built' /\ Len(runs') = 0
    BY <2>1 DEF Built
  <2>3. SuccessIsEarned'
    BY <1>1, <1>3, <2>1, <2>2 DEF FlowInv, TypeInv, ParseArguments, At, Goto, Exit, SuccessIsEarned
  <2> QED BY <2>2, <2>3 DEF EndInv, BuildWritesOnlyItsOwn
<1> QED BY <1>3, <1>4, <1>5, <1>6, <1>7, <1>8 DEF FlowInv

LEMMA EarlyKeeps ==
  ASSUME FlowInv, MakeBackend \/ ResolveTools
  PROVE  FlowInv' /\ MakesOnlyOwn
<1>1. /\ UNCHANGED <<host, argv, fs, inv, found, request, runs, failed, moves>>
      /\ pc \in {"backend", "tools"}
      /\ Goto("tools") \/ Goto("discover") \/ Exit(1)
  BY DEF MakeBackend, ResolveTools, At
<1>2. Args' = Args
  BY <1>1 DEF Args
<1>3. TypeInv'
  BY <1>1, <1>2 DEF FlowInv, TypeInv, Goto, Exit, Places
<1>4. TreeInv' /\ MakesOnlyOwn
  BY <1>1, <1>2, <1>3 DEF FlowInv, TreeInv, MakesOnlyOwn
<1>5. RunsInv' /\ FailedInv'
  BY <1>1, <1>2, <1>3 DEF FlowInv, TypeInv, Goto, Exit, RunsInv, FailedInv, AfterDiscovery, Preparing
<1>6. RequestInv' /\ ArgsInv'
  BY <1>1, <1>2, <1>3 DEF FlowInv, TypeInv, Goto, Exit, RunsInv, RequestInv, ArgsInv, AfterDiscovery
<1>7. WorkspaceInv' /\ TargetInv' /\ PolicyInv'
  BY <1>1, <1>2, <1>3 DEF FlowInv, TypeInv, Goto, Exit, WorkspaceInv, TargetInv, PolicyInv,
     Building, Preparing
<1>8. EndInv'
  <2>1. runs' = << >>
    BY <1>1, <1>2, <1>3 DEF FlowInv, RunsInv, TypeInv
  <2>2. ~Built' /\ Len(runs') = 0
    BY <2>1 DEF Built
  <2>3. SuccessIsEarned'
    BY <1>1, <1>2, <1>3, <2>1, <2>2 DEF FlowInv, TypeInv, Goto, Exit, SuccessIsEarned
  <2> QED BY <2>2, <2>3 DEF EndInv, BuildWritesOnlyItsOwn
<1> QED BY <1>3, <1>4, <1>5, <1>6, <1>7, <1>8 DEF FlowInv

LEMMA DiscoverKeeps ==
  ASSUME FlowInv, Discover
  PROVE  FlowInv' /\ MakesOnlyOwn
<1>1. /\ UNCHANGED <<host, argv, fs, inv, found, runs, failed, moves>>
      /\ pc = "discover"
      /\ \/ Goto("run") /\ request'.what = "discovery" /\ ~Lacking(Args, "manifest")
         \/ Exit(1)
  BY DEF Discover, At, Request
<1>2. Args' = Args
  BY <1>1 DEF Args
<1>3. TypeInv'
  BY <1>1, <1>2 DEF FlowInv, TypeInv, Goto, Exit, Places
<1>4. TreeInv' /\ MakesOnlyOwn
  BY <1>1, <1>2, <1>3 DEF FlowInv, TreeInv, MakesOnlyOwn
<1>5. RunsInv' /\ FailedInv'
  BY <1>1, <1>2, <1>3 DEF FlowInv, TypeInv, Goto, Exit, RunsInv, FailedInv, AfterDiscovery, Preparing
<1>6. RequestInv' /\ ArgsInv'
  BY <1>1, <1>2, <1>3 DEF FlowInv, TypeInv, Goto, Exit, RunsInv, RequestInv, ArgsInv, AfterDiscovery
<1>7. WorkspaceInv' /\ TargetInv' /\ PolicyInv'
  BY <1>1, <1>2, <1>3 DEF FlowInv, TypeInv, Goto, Exit, WorkspaceInv, TargetInv, PolicyInv,
     Building, Preparing
<1>8. EndInv'
  <2>1. runs' = << >>
    BY <1>1, <1>2, <1>3 DEF FlowInv, RunsInv, TypeInv
  <2>2. ~Built' /\ Len(runs') = 0
    BY <2>1 DEF Built
  <2>3. SuccessIsEarned'
    BY <1>1, <1>2, <1>3, <2>1, <2>2 DEF FlowInv, TypeInv, Goto, Exit, SuccessIsEarned
  <2> QED BY <2>2, <2>3 DEF EndInv, BuildWritesOnlyItsOwn
<1> QED BY <1>3, <1>4, <1>5, <1>6, <1>7, <1>8 DEF FlowInv

\* To give up before the second sandboxed program is no success.
LEMMA GivingUp ==
  ASSUME Len(runs') \in {0, 1}, exit' = 1
  PROVE  EndInv'
<1>1. ~Built'
  BY DEF Built
<1> QED BY <1>1 DEF EndInv, SuccessIsEarned, BuildWritesOnlyItsOwn

LEMMA ExitKeeps ==
  ASSUME FlowInv, UNCHANGED <<host, argv, fs, inv, found, runs, failed, moves>>,
         Len(runs) \in {0, 1}, pc' = "exited", exit' = 1
  PROVE  FlowInv' /\ MakesOnlyOwn
<1>1. Args' = Args
  BY SameScene
<1>2. TypeInv' /\ TreeInv' /\ MakesOnlyOwn
  BY <1>1 DEF FlowInv, TypeInv, Places, TreeInv, MakesOnlyOwn
<1>3. RunsInv' /\ FailedInv' /\ RequestInv' /\ ArgsInv' /\ WorkspaceInv' /\ TargetInv'
      /\ PolicyInv'
  BY DEF FlowInv, RunsInv, FailedInv, RequestInv, ArgsInv, AfterDiscovery,
     Preparing, WorkspaceInv, TargetInv, PolicyInv, Building
<1> QED BY <1>2, <1>3, GivingUp DEF FlowInv

LEMMA TakeAnswerKeeps ==
  ASSUME FlowInv, TakeAnswer
  PROVE  FlowInv' /\ MakesOnlyOwn
<1>0. PICK d : d = found.answer
  OBVIOUS
<1>1. /\ UNCHANGED <<host, argv, fs, inv, request, runs, failed, moves>>
      /\ pc = "answer" /\ Discovered /\ Len(runs) = 1
      /\ d \in Seq(Names) /\ found \in Locations
      /\ inv.is \in {"doctor", "cargo"}
  BY <1>0 DEF FlowInv, TypeInv, Locations, TakeAnswer, At, RunsInv, AfterDiscovery, Discovered,
         FailedInv
<1>2. /\ Args' = Args
      /\ \A e : Contains(e)' <=> Contains(e)
      /\ Discovered'
  BY <1>1, SameScene DEF Discovered
<1>3. \/ /\ AcceptAnswer(d) /\ found' = [found EXCEPT !.workspace = d]
         /\ pc' = IF inv.is = "doctor" THEN "check target" ELSE "target"
         /\ exit' = exit
      \/ pc' = "exited" /\ exit' = 1 /\ found' = found
  BY <1>0 DEF TakeAnswer, Goto, Exit
<1>4. TypeInv'
  <2>1. found' \in Locations
    BY <1>1, <1>3 DEF Locations
  <2>2. TypeInv
    BY DEF FlowInv
  <2>3. pc' \in Places /\ (exit' = -1 <=> pc' # "exited")
    <3>1. exit = -1
      BY <1>1, <2>2 DEF TypeInv
    <3>2. \/ pc' = "exited" /\ exit' = 1
          \/ pc' \in {"check target", "target"} /\ exit' = exit
      BY <1>3
    <3>3. CASE pc' = "exited" /\ exit' = 1
      BY <3>3 DEF Places, AfterDiscovery
    <3>4. CASE pc' \in {"check target", "target"} /\ exit' = exit
      BY <3>1, <3>4 DEF Places, AfterDiscovery
    <3> QED BY <3>2, <3>3, <3>4
  <2> QED BY <1>1, <1>2, <2>1, <2>2, <2>3 DEF TypeInv
<1>5. AcceptAnswer(d) => Contains(d) /\ Landed(d) = d
  <2>1. SUFFICES ASSUME AcceptAnswer(d) PROVE Landed(d) = d
    BY DEF AcceptAnswer
  <2> DEFINE manifest == Child(d, "Cargo.toml")
  <2>2. /\ manifest \in Seq(Names) /\ StartsWith(manifest, d)
        /\ Prefixes(manifest) = Prefixes(d) \cup {manifest}
        /\ manifest # d
    BY <1>1, FixedNames, ChildProperties
  <2>3. NoTraversal(manifest) /\ \A q \in Prefixes(manifest) \ {manifest} : KindAt(q) = "dir"
    BY <2>1 DEF AcceptAnswer, Real
  <2> HIDE DEF manifest
  <2>4. NoTraversal(d)
    BY <1>1, <2>2, <2>3, NoTraversalAbove
  <2>5. ASSUME NEW q \in Prefixes(d) PROVE q \notin DOMAIN Links
    <3>1. q # manifest
      <4>1. Len(q) <= Len(d) /\ StartsWith(d, q) /\ q \in Seq(Names)
        BY <1>1, PrefixProperties DEF StartsWith
      <4>2. q = manifest => StartsWith(manifest, d) /\ Len(d) <= Len(q)
        BY <1>1, <2>2 DEF StartsWith
      <4>3. q = manifest => Len(q) = Len(d)
        BY <1>1, <4>1, <4>2
      <4>4. q = manifest => manifest = d
        BY <1>1, <2>2, <4>1, <4>3 DEF StartsWith
      <4> QED BY <2>2, <4>4
    <3>2. KindAt(q) = "dir" /\ q # << >>
      BY <1>1, <2>2, <2>3, <3>1, PrefixProperties
    <3> QED BY <3>2 DEF KindAt, Links, LinksOf
  <2>6. \A q \in DOMAIN Links : Links[q] \in Seq(Names)
    BY LinkTypes DEF FlowInv
  <2> QED BY <1>1, <2>4, <2>5, <2>6, PlainWalk DEF Landed
<1>6. WorkspaceInv' /\ TargetInv' /\ PolicyInv'
  <2>1. CASE pc' = "target"
    <3>1. found'.workspace = d /\ AcceptAnswer(d)
      BY <1>1, <1>3, <2>1 DEF Locations
    <3>2. Contains(found.workspace)' /\ Workspace' = found'.workspace
      <4>1. Contains(d)'
        BY <1>2, <1>5, <3>1
      <4>2. Links' = Links
        BY <1>1 DEF Links
      <4>3. Workspace' = d
        BY <1>5, <3>1, <4>2 DEF Workspace, Landed
      <4> QED BY <3>1, <4>1, <4>3 DEF Contains, Manifest, HasManifest
    <3> QED BY <2>1, <3>2 DEF WorkspaceInv, TargetInv, PolicyInv, Building
  <2>2. CASE pc' # "target"
    BY <1>3, <2>2 DEF WorkspaceInv, TargetInv, PolicyInv, Building, Preparing
  <2> QED BY <2>1, <2>2
<1>7. TreeInv' /\ MakesOnlyOwn
  BY <1>1 DEF FlowInv, TreeInv, MakesOnlyOwn
<1>8. RunsInv' /\ FailedInv' /\ RequestInv' /\ ArgsInv'
  BY <1>1, <1>2, <1>3 DEF FlowInv, RunsInv, FailedInv, RequestInv, ArgsInv, AfterDiscovery,
     Preparing
<1>9. EndInv'
  <2>1. CASE pc' # "exited"
    BY <2>1 DEF EndInv
  <2>2. CASE pc' = "exited"
    <3>1. exit' = 1
      BY <1>3, <2>2
    <3> QED BY <1>1, <3>1, GivingUp
  <2> QED BY <2>1, <2>2
<1> QED BY <1>4, <1>6, <1>7, <1>8, <1>9 DEF FlowInv

LEMMA PrepareTargetKeeps ==
  ASSUME FlowInv, PrepareTarget
  PROVE  FlowInv' /\ MakesOnlyOwn
<1>1. /\ UNCHANGED <<host, argv, inv, request, runs, failed, moves>>
      /\ pc = "target" /\ Discovered /\ Len(runs) = 1 /\ inv.is = "cargo"
      /\ found \in Locations /\ TypeInv /\ TreeInv
      /\ Contains(found.workspace) /\ (moves = 0 => Workspace = found.workspace)
  BY DEF FlowInv, TypeInv, PrepareTarget, At, RunsInv, AfterDiscovery, Preparing, Discovered,
         WorkspaceInv
<1>2. /\ Args' = Args /\ Discovered'
      /\ \A e : Contains(e)' <=> Contains(e)
  BY <1>1, SameScene DEF Discovered
<1> DEFINE T == Landed(Target)
<1>3. CASE ~(~Lacking(Args, "target") /\ ValidTarget(Target) /\ CanCreate(T))
  <2>1. pc' = "exited" /\ exit' = 1 /\ UNCHANGED <<fs, found>>
    BY <1>3 DEF PrepareTarget, Exit
  <2> QED BY <1>1, <2>1, ExitKeeps
<1>4. CASE ~Lacking(Args, "target") /\ ValidTarget(Target) /\ CanCreate(T)
  <2>1. /\ pc' \in {"fresh", "build dir"} /\ exit' = exit
        /\ fs' = Created(T) /\ found' = [found EXCEPT !.base = T, !.target = T]
        /\ (pc' = "build dir" => ~Isolated)
    BY <1>4 DEF PrepareTarget, Goto
  <2>2. T \in Seq(Names)
    BY <1>1, <1>4, TargetType, LandedType
  <2>3. KindAt(Workspace) = "dir" /\ Inside(T)
    BY <1>4, ValidTargetLeads
  <2> HIDE DEF T
  <2>4. TreeInv' /\ DOMAIN fs' = DOMAIN fs \cup Prefixes(T) /\ Grows /\ Links' = Links
    BY <1>1, <2>1, <2>2, CreatedTree, CreatedLinks
  <2>5. \A q \in Prefixes(T) \ DOMAIN fs : Inside(q)
    BY <1>1, <2>2, <2>3, NewInside, StartsWithItself
  <2>6. found' \in Locations /\ found'.workspace = found.workspace
    BY <1>1, <2>1, <2>2 DEF Locations
  <2>7. TypeInv'
    BY <1>1, <1>2, <2>1, <2>6 DEF TypeInv, Places, AfterDiscovery
  <2>8. MakesOnlyOwn
    BY <1>1, <2>4, <2>5 DEF MakesOnlyOwn, Grows, Discovered
  <2>9. WorkspaceInv'
    BY <1>1, <2>4, <2>6, WorkspaceStays DEF WorkspaceInv
  <2>10. TargetInv' /\ PolicyInv' /\ EndInv'
    BY <1>1, <1>2, <2>1 DEF TargetInv, PolicyInv, Building, EndInv, Isolated
  <2>11. RunsInv' /\ FailedInv' /\ RequestInv' /\ ArgsInv'
    BY <1>1, <1>2, <2>1 DEF FlowInv, RunsInv, FailedInv, RequestInv, ArgsInv, AfterDiscovery,
       Preparing
  <2> QED BY <2>4, <2>7, <2>8, <2>9, <2>10, <2>11 DEF FlowInv
<1> QED BY <1>3, <1>4

LEMMA RunProperties ==
  ASSUME NEW base \in Seq(Names)
  PROVE  /\ Run(base) \in Seq(Names) /\ StartsWith(Run(base), base)
         /\ Run(base)[Len(Run(base))] = "run"
<1>1. {".cargo-cage", "runs", "run"} \subseteq Names
  BY FixedNames
<1>2. <<".cargo-cage", "runs">> \in Seq(Names)
  BY <1>1
<1>3. Runs(base) \in Seq(Names) /\ StartsWith(Runs(base), base)
  BY <1>2, ConcatStartsWith DEF Runs
<1>4. /\ Run(base) \in Seq(Names) /\ StartsWith(Run(base), Runs(base))
      /\ Run(base)[Len(Run(base))] = "run"
  BY <1>1, <1>3, ChildProperties DEF Run
<1> QED BY <1>3, <1>4, StartsWithChain

\* The places of a build, and what they share.
LEMMA PreparingFacts ==
  ASSUME FlowInv, pc \in Preparing \ {"target"}
  PROVE  /\ TypeInv /\ TreeInv /\ exit = -1 /\ inv.is = "cargo" /\ ~failed
         /\ Discovered /\ Len(runs) = 1 /\ ~Lacking(Args, "manifest")
         /\ found \in Locations /\ found.workspace \in Seq(Names)
         /\ Contains(found.workspace) /\ (moves = 0 => Workspace = found.workspace)
<1>1. TypeInv /\ TreeInv /\ exit = -1 /\ inv.is = "cargo" /\ ~failed
  BY DEF FlowInv, TypeInv, RunsInv, FailedInv, Preparing
<1>2. Discovered /\ ~Lacking(Args, "manifest")
  BY DEF FlowInv, RunsInv, ArgsInv, Preparing, AfterDiscovery
<1>3. Contains(found.workspace) /\ (moves = 0 => Workspace = found.workspace)
  BY DEF FlowInv, WorkspaceInv
<1>4. found \in Locations /\ found.workspace \in Seq(Names)
  BY DEF FlowInv, TypeInv, Locations
<1> QED BY <1>1, <1>2, <1>3, <1>4 DEF Discovered

\* A step from one place of a build to the next, which may change the tree.
LEMMA PreparingKeeps ==
  ASSUME FlowInv, pc \in Preparing \ {"target"}, pc' \in Preparing \ {"target"},
         UNCHANGED <<host, argv, inv, request, runs, failed, exit, moves>>,
         found' \in Locations, found'.workspace = found.workspace,
         TreeInv', Links' = Links, TargetInv'
  PROVE  FlowInv'
<1>1. Args' = Args
  BY SameScene
<1>2. TypeInv' /\ exit' = -1
  BY <1>1, PreparingFacts DEF TypeInv, Places, AfterDiscovery, Preparing
<1>3. RunsInv' /\ FailedInv' /\ RequestInv' /\ ArgsInv'
  BY <1>1, PreparingFacts DEF RunsInv, FailedInv, RequestInv, ArgsInv, Preparing,
     AfterDiscovery, Discovered
<1>4. WorkspaceInv' /\ PolicyInv' /\ EndInv'
  <2>1. WorkspaceInv'
    BY PreparingFacts, WorkspaceStays DEF WorkspaceInv
  <2> QED BY <2>1 DEF PolicyInv, EndInv, Building, Preparing
<1> QED BY <1>2, <1>3, <1>4 DEF FlowInv

LEMMA GrowingIsOwn ==
  ASSUME FlowInv, pc \in Preparing \ {"target"}, Grows,
         \A q \in DOMAIN fs' \ DOMAIN fs : Inside(q)
  PROVE  MakesOnlyOwn
BY PreparingFacts DEF MakesOnlyOwn, Grows, Discovered

LEMMA PrepareFreshKeeps ==
  ASSUME FlowInv, PrepareFresh
  PROVE  FlowInv' /\ MakesOnlyOwn
<1> DEFINE base == Landed(found.base)
<1>1. /\ UNCHANGED <<host, argv, inv, request, runs, failed, moves>>
      /\ pc = "fresh" /\ pc \in Preparing \ {"target"}
      /\ TypeInv /\ TreeInv /\ found.base \in Seq(Names)
  BY DEF FlowInv, TypeInv, Locations, PrepareFresh, At, Preparing
<1>2. CASE pc' = "exited" /\ exit' = 1 /\ UNCHANGED <<fs, found>>
  BY <1>1, <1>2, PreparingFacts, ExitKeeps
<1>3. CASE /\ ValidTarget(found.base) /\ fs' = Created(Run(base))
           /\ found' = [found EXCEPT !.target = Run(base)]
           /\ pc' = "build dir" /\ exit' = exit
  <2>0. base \in Seq(Names) /\ KindAt(Workspace) = "dir" /\ Inside(base)
    BY <1>1, <1>3, LandedType, ValidTargetLeads
  <2>1. PICK r : r = Run(base)
    OBVIOUS
  <2>2. r \in Seq(Names) /\ StartsWith(r, base) /\ r[Len(r)] = "run"
    BY <2>0, <2>1, RunProperties
  <2>3. fs' = Created(r) /\ found' = [found EXCEPT !.target = r]
    BY <1>3, <2>1
  <2> HIDE DEF base
  <2>4. TreeInv' /\ DOMAIN fs' = DOMAIN fs \cup Prefixes(r) /\ Grows /\ Links' = Links
    BY <1>1, <2>2, <2>3, CreatedTree, CreatedLinks
  <2>5. \A q \in Prefixes(r) \ DOMAIN fs : Inside(q)
    BY <1>1, <2>0, <2>2, NewInside
  <2>6. found' \in Locations /\ found'.workspace = found.workspace /\ found'.target = r
    BY <1>1, <2>2, <2>3, PreparingFacts DEF Locations
  <2>7. r \notin DOMAIN host.fs
    BY <1>1, <2>2, PreparingFacts, HostType
  <2>8. TargetInv'
    BY <1>1, <2>6, <2>7 DEF TargetInv
  <2> QED BY <1>1, <1>3, <2>4, <2>5, <2>6, <2>8, PreparingKeeps, GrowingIsOwn DEF Preparing
<1> QED BY <1>2, <1>3 DEF PrepareFresh, Goto, Exit

LEMMA PrepareBuildDirKeeps ==
  ASSUME FlowInv, PrepareBuildDir
  PROVE  FlowInv' /\ MakesOnlyOwn
<1> DEFINE given == Child(found.target, "build")
<1> DEFINE p == Landed(given)
<1>1. /\ UNCHANGED <<host, argv, inv, found, request, runs, failed, moves>>
      /\ pc = "build dir" /\ pc \in Preparing \ {"target"}
      /\ TypeInv /\ TreeInv /\ found.target \in Seq(Names)
  BY DEF FlowInv, TypeInv, Locations, PrepareBuildDir, At, Preparing
<1>2. CASE pc' = "exited" /\ exit' = 1 /\ UNCHANGED fs
  BY <1>1, <1>2, PreparingFacts, ExitKeeps
<1>3. CASE ValidTarget(given) /\ fs' = Created(p) /\ pc' = "lockfile" /\ exit' = exit
  <2>1. given \in Seq(Names)
    BY <1>1, FixedNames, ChildProperties
  <2>2. p \in Seq(Names) /\ KindAt(Workspace) = "dir" /\ Inside(p)
    <3> HIDE DEF given
    <3> QED BY <1>1, <1>3, <2>1, LandedType, ValidTargetLeads
  <2> HIDE DEF given, p
  <2>3. TreeInv' /\ DOMAIN fs' = DOMAIN fs \cup Prefixes(p) /\ Grows /\ Links' = Links
    BY <1>1, <1>3, <2>2, CreatedTree, CreatedLinks
  <2>4. \A q \in Prefixes(p) \ DOMAIN fs : Inside(q)
    BY <1>1, <2>2, NewInside, StartsWithItself
  <2>5. TargetInv'
    BY <1>1, SameScene DEF FlowInv, TargetInv
  <2> QED BY <1>1, <1>3, <2>3, <2>4, <2>5, PreparingFacts, PreparingKeeps, GrowingIsOwn
          DEF Preparing
<1> QED BY <1>2, <1>3 DEF PrepareBuildDir, Goto, Exit

\* The lockfile's entry is in the workspace.
LEMMA LockfileEntry ==
  ASSUME TypeInv, TreeInv, Reached(Lockfile)
  PROVE  KindAt(Workspace) = "dir" /\ Entry(Lockfile) = Child(Workspace, "Cargo.lock")
<1>1. found.workspace \in Seq(Names)
  BY WorkspaceType
<1>2. PICK ws \in Seq(Names) : ws = found.workspace
  BY <1>1
<1>3. /\ Lockfile = Append(ws, "Cargo.lock") /\ Len(Lockfile) = Len(ws) + 1
      /\ Lockfile # << >> /\ Lockfile[Len(Lockfile)] = "Cargo.lock"
      /\ SubSeq(Lockfile, 1, Len(Lockfile) - 1) = ws
  <2>1. Lockfile = Append(ws, "Cargo.lock") /\ "Cargo.lock" \in Names
    BY <1>2, FixedNames DEF Lockfile, Child
  <2>2. PICK x \in Names : x = "Cargo.lock"
    BY <2>1
  <2>3. /\ Len(Append(ws, x)) = Len(ws) + 1 /\ Append(ws, x) # << >>
        /\ Append(ws, x)[Len(ws) + 1] = x
        /\ SubSeq(Append(ws, x), 1, Len(ws)) = ws
    OBVIOUS
  <2>4. Len(ws) \in Nat /\ Len(ws) + 1 - 1 = Len(ws)
    OBVIOUS
  <2> QED BY <2>1, <2>2, <2>3, <2>4
<1>4. Parent(Lockfile) = ws
  BY <1>3 DEF Parent
<1>5. KindAt(Landed(ws)) = "dir"
  <2>1. Len(Lockfile) - 1 \in 0..(Len(Lockfile) - 1)
    BY <1>3
  <2> QED BY <1>3, <2>1 DEF Reached
<1>6. Entry(Lockfile) = Child(Landed(ws), "Cargo.lock")
  BY <1>3, <1>4 DEF Entry
<1> QED BY <1>2, <1>5, <1>6 DEF Workspace

LEMMA PrepareLockfileKeeps ==
  ASSUME FlowInv, PrepareLockfile
  PROVE  FlowInv' /\ MakesOnlyOwn
<1>1. /\ UNCHANGED <<host, argv, inv, found, request, runs, failed, moves>>
      /\ pc = "lockfile" /\ pc \in Preparing \ {"target"} /\ TypeInv /\ TreeInv
  BY DEF FlowInv, PrepareLockfile, At, Preparing
<1>2. CASE pc' = "exited" /\ exit' = 1 /\ UNCHANGED fs
  BY <1>1, <1>2, PreparingFacts, ExitKeeps
<1>3. CASE /\ LockfileUsable /\ pc' = "request" /\ exit' = exit
           /\ fs' = [q \in DOMAIN fs \cup {Entry(Lockfile)} |->
                       IF q \in DOMAIN fs THEN fs[q] ELSE File]
  <2>1. PICK ws \in Seq(Names) : ws = Workspace
    BY <1>1, WorkspaceType
  <2>2. PICK lock : lock = Entry(Lockfile)
    OBVIOUS
  <2>3. KindAt(Workspace) = "dir" /\ lock = Child(ws, "Cargo.lock")
    BY <1>1, <1>3, <2>1, <2>2, LockfileEntry DEF LockfileUsable, LockfileIs
  <2>4. /\ lock \in Seq(Names) \ {<< >>} /\ StartsWith(lock, ws) /\ lock # ws
        /\ Prefixes(lock) = Prefixes(ws) \cup {lock}
    BY <2>3, FixedNames, ChildProperties
  <2>5. Prefixes(lock) \subseteq DOMAIN fs \cup {lock}
    BY <1>1, <2>1, <2>3, <2>4, WorkspaceThere
  <2>6. fs' = [q \in DOMAIN fs \cup {lock} |-> IF q \in DOMAIN fs THEN fs[q] ELSE File]
    BY <1>3, <2>2
  <2>7. Grows /\ DOMAIN fs' = DOMAIN fs \cup {lock} /\ Links' = Links
    <3>1. Grows /\ \A q \in DOMAIN fs' \ DOMAIN fs : fs'[q] = File
      BY <2>6 DEF Grows
    <3> QED BY <2>6, <3>1, SameLinks
  <2>8. TreeInv'
    <3>1. \A q \in DOMAIN fs' : IsFile(q) /\ Prefixes(q) \subseteq DOMAIN fs'
      BY <1>1, <2>4, <2>5, <2>7 DEF TreeInv, IsFile
    <3>2. File.to \in Seq(Names)
      BY DEF File
    <3>3. \A q \in DOMAIN fs' : fs'[q].to \in Seq(Names)
      BY <1>1, <2>6, <3>2 DEF TreeInv
    <3> QED BY <3>1, <3>3 DEF TreeInv
  <2>9. \A q \in DOMAIN fs' \ DOMAIN fs : Inside(q)
    BY <2>1, <2>4, <2>7 DEF Inside
  <2>10. TargetInv'
    BY <1>1, SameScene DEF FlowInv, TargetInv
  <2> QED BY <1>1, <1>3, <2>7, <2>8, <2>9, <2>10, PreparingFacts, PreparingKeeps, GrowingIsOwn
          DEF Preparing
<1> QED BY <1>2, <1>3 DEF PrepareLockfile, Goto, Exit

LEMMA BuildRequestKeeps ==
  ASSUME FlowInv, BuildRequest
  PROVE  FlowInv' /\ MakesOnlyOwn
<1>1. /\ UNCHANGED <<host, argv, fs, inv, runs, failed, moves>>
      /\ pc = "request" /\ pc \in Preparing \ {"target"}
  BY DEF BuildRequest, At, Preparing
<1>2. CASE pc' = "exited" /\ exit' = 1 /\ UNCHANGED found
  BY <1>1, <1>2, PreparingFacts, ExitKeeps
<1>3. CASE /\ found' = [found EXCEPT !.cwd = sandbox_current_dir]
           /\ request'.what = "build" /\ request'.cwd = sandbox_current_dir
           /\ request'.writable = {found.target, Lockfile}
           /\ pc' = "run" /\ exit' = exit
  <2> DEFINE d == sandbox_current_dir
  <2>1. d \in Seq(Names) /\ StartsWith(d, found.workspace)
    <3>1. host.cwd \in Seq(Names)
      BY HostType DEF FlowInv
    <3>2. HasManifest => Parent(Manifest) \in Seq(Names)
      BY <1>1, ManifestType, ParentProperties, PreparingFacts
    <3>3. found.workspace \in Seq(Names) /\ StartsWith(found.workspace, found.workspace)
      BY <1>1, PreparingFacts, StartsWithItself
    <3> QED BY <3>1, <3>2, <3>3 DEF sandbox_current_dir
  <2> HIDE DEF d
  <2>2. /\ found' \in Locations /\ found'.workspace = found.workspace
        /\ found'.target = found.target
    <3>1. found' = [found EXCEPT !.cwd = d]
      BY <1>3 DEF d
    <3> QED BY <1>1, <2>1, <3>1, PreparingFacts DEF Locations
  <2>3. Args' = Args /\ (Isolated' <=> Isolated)
    BY <1>1, SameScene
  <2>4. TypeInv' /\ TreeInv' /\ MakesOnlyOwn
    BY <1>1, <1>3, <2>2, <2>3, PreparingFacts DEF TypeInv, TreeInv, Places, MakesOnlyOwn
  <2>5. RunsInv' /\ FailedInv' /\ RequestInv' /\ ArgsInv'
    BY <1>1, <1>3, <2>3, PreparingFacts DEF RunsInv, FailedInv, RequestInv, ArgsInv,
       Preparing, AfterDiscovery, Discovered
  <2>6. WorkspaceInv' /\ TargetInv'
    BY <1>1, <1>3, <2>2, <2>3, PreparingFacts DEF FlowInv, WorkspaceInv, TargetInv, Building,
       Preparing
  <2>7. PolicyInv' /\ EndInv'
    <3>1. Lockfile' = Lockfile
      BY <2>2 DEF Lockfile
    <3>2. OwnRequest(request)'
      BY <1>3, <2>1, <2>2, <3>1 DEF OwnRequest, d
    <3> QED BY <1>3, <3>2 DEF PolicyInv, EndInv
  <2> QED BY <2>4, <2>5, <2>6, <2>7 DEF FlowInv
<1> QED BY <1>2, <1>3 DEF BuildRequest, Goto, Exit, Request

LEMMA CheckTargetKeeps ==
  ASSUME FlowInv, CheckTarget
  PROVE  FlowInv' /\ MakesOnlyOwn
<1>1. /\ UNCHANGED <<host, argv, fs, inv, request, runs, moves>>
      /\ pc = "check target" /\ pc' = "check lockfile" /\ exit' = exit
      /\ \/ found' = found
         \/ \E t \in {Landed(Target), None} :
              found' = [found EXCEPT !.base = Landed(Target), !.target = t]
  BY DEF CheckTarget, At, Goto
<1>2. inv.is = "doctor" /\ Discovered /\ TypeInv /\ TreeInv /\ exit = -1
  BY <1>1 DEF FlowInv, RunsInv, TypeInv, AfterDiscovery
<1>3. Args = << >> /\ Args' = Args
  BY <1>1, <1>2 DEF Args
<1>4. Landed(Target) \in Seq(Names)
  <2>1. ~Lacking(Args, "target")
    BY <1>3 DEF Lacking, ReadsAt
  <2> QED BY <1>2, <2>1, TargetType, LandedType
<1>5. found' \in Locations
  <2>1. None \in Seq(Names)
    BY DEF None
  <2>2. PICK t : t = Landed(Target)
    OBVIOUS
  <2> QED BY <1>1, <1>2, <1>4, <2>1, <2>2 DEF TypeInv, Locations
<1>6. TypeInv' /\ TreeInv' /\ MakesOnlyOwn
  BY <1>1, <1>2, <1>3, <1>5 DEF TypeInv, TreeInv, Places, AfterDiscovery, MakesOnlyOwn
<1>7. RunsInv' /\ FailedInv' /\ RequestInv' /\ ArgsInv'
  BY <1>1, <1>2, <1>3 DEF FlowInv, RunsInv, FailedInv, RequestInv, ArgsInv, Preparing,
     AfterDiscovery, Discovered
<1>8. WorkspaceInv' /\ TargetInv' /\ PolicyInv' /\ EndInv'
  BY <1>1 DEF WorkspaceInv, TargetInv, PolicyInv, EndInv, Building, Preparing
<1> QED BY <1>6, <1>7, <1>8 DEF FlowInv

LEMMA CheckLockfileKeeps ==
  ASSUME FlowInv, CheckLockfile
  PROVE  FlowInv' /\ MakesOnlyOwn
<1>1. /\ UNCHANGED <<host, argv, fs, inv, found, runs, moves>>
      /\ pc = "check lockfile" /\ pc' = "run" /\ exit' = exit
      /\ request'.what = "probe"
  BY DEF CheckLockfile, At, Goto, Request
<1>2. inv.is = "doctor" /\ Discovered /\ TypeInv /\ TreeInv /\ exit = -1
  BY <1>1 DEF FlowInv, RunsInv, TypeInv, AfterDiscovery
<1>3. Args' = Args
  BY <1>1 DEF Args
<1>4. TypeInv' /\ TreeInv' /\ MakesOnlyOwn
  BY <1>1, <1>2, <1>3 DEF TypeInv, TreeInv, Places, MakesOnlyOwn
<1>5. RunsInv' /\ FailedInv' /\ RequestInv' /\ ArgsInv'
  BY <1>1, <1>2, <1>3 DEF FlowInv, RunsInv, FailedInv, RequestInv, ArgsInv, Preparing,
     AfterDiscovery, Discovered
<1>6. WorkspaceInv' /\ TargetInv' /\ PolicyInv' /\ EndInv'
  BY <1>1 DEF WorkspaceInv, TargetInv, PolicyInv, EndInv, Building, Preparing
<1> QED BY <1>4, <1>5, <1>6 DEF FlowInv

LEMMA VerdictKeeps ==
  ASSUME FlowInv, Verdict
  PROVE  FlowInv' /\ MakesOnlyOwn
<1>1. /\ UNCHANGED <<host, argv, fs, inv, found, request, runs, failed, moves>>
      /\ pc = "verdict" /\ pc' = "exited" /\ exit' = IF failed THEN 1 ELSE 0
  BY DEF Verdict, At, Exit
<1>2. /\ inv.is = "doctor" /\ Len(runs) = 2 /\ runs[1].status = 0
      /\ runs[2].request.what = "probe" /\ (failed \/ runs[2].status = 0)
      /\ TypeInv /\ TreeInv
  BY <1>1 DEF FlowInv, RunsInv
<1>3. Args' = Args
  BY <1>1 DEF Args
<1>4. TypeInv' /\ TreeInv' /\ MakesOnlyOwn
  BY <1>1, <1>2, <1>3 DEF TypeInv, TreeInv, Places, MakesOnlyOwn
<1>5. RunsInv' /\ FailedInv' /\ RequestInv' /\ ArgsInv'
  BY <1>1, <1>2 DEF RunsInv, FailedInv, RequestInv, ArgsInv, Preparing, AfterDiscovery
<1>6. WorkspaceInv' /\ TargetInv' /\ PolicyInv'
  BY <1>1 DEF WorkspaceInv, TargetInv, PolicyInv, Building, Preparing
<1>7. EndInv'
  <2>1. ~Built'
    BY <1>1, <1>2 DEF Built
  <2>2. SuccessIsEarned'
    BY <1>1, <1>2, <2>1 DEF SuccessIsEarned
  <2> QED BY <1>1, <1>2, <2>1, <2>2 DEF EndInv, BuildWritesOnlyItsOwn
<1> QED BY <1>4, <1>5, <1>6, <1>7 DEF FlowInv

LEMMA DisturbKeeps ==
  ASSUME FlowInv, Disturb
  PROVE  FlowInv' /\ MakesOnlyOwn
<1>1. /\ UNCHANGED <<host, argv, pc, inv, found, request, runs, failed, exit>>
      /\ moves' = moves + 1 /\ pc # "exited"
  BY DEF Disturb
<1>2. MakesOnlyOwn
  BY <1>1 DEF FlowInv, TypeInv, MakesOnlyOwn
<1>3. TreeInv'
  <2>1. PICK p \in DOMAIN fs :
          /\ \/ DOMAIN fs' = {q \in DOMAIN fs : ~StartsWith(q, p)}
             \/ DOMAIN fs' = {q \in DOMAIN fs : ~StartsWith(q, p)} \cup {p}
          /\ \A q \in DOMAIN fs' : fs'[q] = fs[q] \/ fs'[q] \in Entries
    BY DEF Disturb
  <2>3. \A q \in DOMAIN fs' : fs'[q].to \in Seq(Names)
    <3>1. \A e \in Entries : e.to \in Seq(Names)
      BY FlowAssumption
    <3> QED BY <2>1, <3>1 DEF FlowInv, TreeInv
  <2>2. ASSUME NEW q \in DOMAIN fs' PROVE IsFile(q) /\ Prefixes(q) \subseteq DOMAIN fs'
    <3>1. IsFile(q) /\ IsFile(p) /\ Prefixes(q) \subseteq DOMAIN fs
      BY <2>1 DEF FlowInv, TreeInv
    <3>2. ASSUME NEW r \in Prefixes(q), r \notin DOMAIN fs' PROVE FALSE
      <4>1. r \in DOMAIN fs /\ StartsWith(r, p) /\ StartsWith(q, r) /\ r \in Seq(Names)
        BY <2>1, <3>1, <3>2, PrefixProperties DEF IsFile
      <4>2. StartsWith(q, p)
        BY <3>1, <4>1, StartsWithChain DEF IsFile
      <4>3. q = p /\ r # p
        BY <2>1, <3>2, <4>2
      <4> QED BY <3>1, <4>1, <4>3 DEF StartsWith, IsFile
    <3> QED BY <3>1, <3>2
  <2> QED BY <2>2, <2>3 DEF TreeInv
<1>4. Args' = Args /\ (Isolated' <=> Isolated) /\ (\A e : Contains(e)' <=> Contains(e))
  BY <1>1, SameScene
<1>5. TypeInv'
  <2>1. moves' \in Nat
    BY <1>1 DEF FlowInv, TypeInv
  <2> QED BY <1>1, <1>4, <2>1 DEF FlowInv, TypeInv
<1>8. RequestInv' /\ FailedInv' /\ RunsInv' /\ ArgsInv'
  BY <1>1, <1>4 DEF FlowInv, RequestInv, FailedInv, RunsInv, ArgsInv, Discovered
<1>6. WorkspaceInv'
  <2>1. Contains(found.workspace)' <=> Contains(found.workspace)
    BY <1>1 DEF Contains, Manifest, HasManifest, Args
  <2>2. moves' # 0
    BY <1>1 DEF FlowInv, TypeInv
  <2> QED BY <1>1, <2>1, <2>2 DEF FlowInv, WorkspaceInv
<1>7. TargetInv' /\ PolicyInv' /\ EndInv'
  BY <1>1, <1>4 DEF FlowInv, TargetInv, PolicyInv, EndInv, Building, OwnRequest, Lockfile
<1> QED BY <1>2, <1>3, <1>5, <1>6, <1>7, <1>8 DEF FlowInv

LEMMA AppendToShort ==
  /\ \A x : Append(<< >>, x) = <<x>>
  /\ \A x, y : Append(<<x>>, y) = <<x, y>>
<1>1. ASSUME NEW x PROVE Append(<< >>, x) = <<x>>
  <2>1. << >> \in Seq({x}) /\ x \in {x}
    OBVIOUS
  <2> QED BY <2>1
<1>2. ASSUME NEW x, NEW y PROVE Append(<<x>>, y) = <<x, y>>
  <2> DEFINE a == Append(<<x>>, y)
  <2>1. <<x>> \in Seq({x, y}) /\ y \in {x, y} /\ Len(<<x>>) = 1
    OBVIOUS
  <2>2. a \in Seq({x, y}) /\ Len(a) = 2 /\ a[1] = x /\ a[2] = y
    BY <2>1, AppendProperties
  <2>3. <<x, y>> \in Seq({x, y}) /\ Len(<<x, y>>) = 2
    OBVIOUS
  <2>4. <<x, y>>[1] = x /\ <<x, y>>[2] = y
    OBVIOUS
  <2> HIDE DEF a
  <2>5. a = <<x, y>>
    BY <2>2, <2>3, <2>4, SeqEqual
  <2> QED BY <2>5 DEF a
<1> QED BY <1>1, <1>2

LEMMA BackendRunsKeeps ==
  ASSUME FlowInv, BackendRuns
  PROVE  FlowInv' /\ MakesOnlyOwn
<1> DEFINE w == request.what
<1>1. /\ UNCHANGED <<host, argv, fs, inv, request, moves>> /\ pc = "run"
      /\ TypeInv /\ TreeInv /\ exit = -1 /\ ~Lacking(Args, "manifest")
  BY DEF BackendRuns, At, FlowInv, TypeInv, ArgsInv
<1>2. Args' = Args /\ (Isolated' <=> Isolated)
  BY <1>1, SameScene
<1>3. TreeInv' /\ MakesOnlyOwn
  BY <1>1 DEF TreeInv, MakesOnlyOwn
<1>4. PICK ran \in BOOLEAN, status \in Nat \cup {NoCode} :
        /\ runs' = Append(runs, [request |-> request, ran |-> ran, status |-> status])
        /\ failed' = (failed \/ (w = "probe" /\ status # 0))
        /\ ran => After(w, status)
        /\ ~ran => status = NoCode /\ IF w = "probe" THEN Goto("verdict") ELSE Exit(1)
        /\ IF ran /\ w = "discovery" /\ status = 0
             THEN \E d \in Located \cup host.wrong : found' = [found EXCEPT !.answer = d]
             ELSE found' = found
  <2>1. host.statuses \subseteq Nat \cup {NoCode} /\ NoCode # 0
    BY <1>1, HostType
  <2> QED BY <2>1 DEF BackendRuns
<1>5. NoCode \notin Nat
  BY FlowAssumption
<1> DEFINE run == [request |-> request, ran |-> ran, status |-> status]
<1>6. CASE w = "discovery" /\ runs = << >>
  <2>1. runs' = <<run>> /\ Len(runs') = 1
    <3>1. runs' = Append(runs, run)
      BY <1>4
    <3> HIDE DEF run
    <3> QED BY <1>6, <3>1, AppendToShort
  <2>9. failed' <=> failed
    BY <1>4, <1>6
  <2>2. CASE ran /\ status = 0
    <3>1. pc' = "answer" /\ exit' = exit
      BY <1>4, <1>6, <2>2 DEF After, Goto
    <3>2. PICK d \in Located \cup host.wrong : found' = [found EXCEPT !.answer = d]
      BY <1>4, <1>6, <2>2
    <3>3. d \in Seq(Names)
      BY <1>1, <3>2, LocatedType, HostType
    <3>4. found' \in Locations
      BY <1>1, <3>2, <3>3 DEF TypeInv, Locations
    <3>5. Discovered'
      BY <2>1, <2>2 DEF Discovered
    <3>6. TypeInv'
      BY <1>1, <1>2, <3>1, <3>4 DEF TypeInv, Places, AfterDiscovery
    <3>7. RunsInv' /\ FailedInv' /\ RequestInv' /\ ArgsInv'
      BY <1>1, <1>2, <1>6, <2>9, <3>1, <3>5 DEF FlowInv, RunsInv, FailedInv, RequestInv, ArgsInv,
         Preparing, AfterDiscovery
    <3>8. WorkspaceInv' /\ TargetInv' /\ PolicyInv' /\ EndInv'
      BY <3>1 DEF WorkspaceInv, TargetInv, PolicyInv, EndInv, Building, Preparing
    <3> QED BY <1>3, <3>6, <3>7, <3>8 DEF FlowInv
  <2>3. CASE ~(ran /\ status = 0)
    <3>1. pc' = "exited" /\ exit' = 1 /\ found' = found
      BY <1>4, <1>6, <2>3 DEF After, Exit
    <3>2. TypeInv'
      BY <1>1, <1>2, <3>1 DEF TypeInv, Places
    <3>3. RunsInv' /\ FailedInv' /\ RequestInv' /\ ArgsInv' /\ WorkspaceInv' /\ TargetInv'
          /\ PolicyInv'
      BY <1>1, <2>9, <3>1 DEF FlowInv, RunsInv, FailedInv, RequestInv, ArgsInv,
         AfterDiscovery, Preparing, WorkspaceInv, TargetInv, PolicyInv, Building
    <3> QED BY <1>3, <2>1, <3>1, <3>2, <3>3, GivingUp DEF FlowInv
  <2> QED BY <2>2, <2>3
<1>7. CASE w = "probe" /\ inv.is = "doctor" /\ Discovered
  <2>1. pc' = "verdict" /\ exit' = exit /\ found' = found
    BY <1>4, <1>7 DEF After, Goto
  <2>2. runs' = <<runs[1], run>> /\ Len(runs') = 2
    <3>1. runs' = Append(runs, run) /\ runs = <<runs[1]>>
      BY <1>4, <1>7 DEF Discovered
    <3> HIDE DEF run
    <3>2. PICK r : r = runs[1]
      OBVIOUS
    <3>3. runs' = <<r, run>>
      BY <3>1, <3>2, AppendToShort
    <3> QED BY <3>2, <3>3
  <2>3. TypeInv'
    BY <1>1, <1>2, <2>1 DEF TypeInv, Places
  <2>4. failed' \/ runs'[2].status = 0
    <3>1. CASE status = 0
      <4>1. runs'[2] = run /\ run.status = status
        BY <2>2
      <4> QED BY <3>1, <4>1
    <3>2. CASE status # 0
      <4>1. failed' = (failed \/ (w = "probe" /\ status # 0))
        BY <1>4
      <4>2. w = "probe" /\ status # 0
        BY <1>7, <3>2
      <4>3. failed' = TRUE
        BY <4>1, <4>2
      <4> QED BY <4>3
    <3> QED BY <3>1, <3>2
  <2>5. RunsInv' /\ FailedInv' /\ RequestInv' /\ ArgsInv'
    BY <1>1, <1>2, <1>7, <2>1, <2>2, <2>4 DEF RunsInv, FailedInv, RequestInv, ArgsInv,
       AfterDiscovery, Preparing, Discovered
  <2>6. WorkspaceInv' /\ TargetInv' /\ PolicyInv' /\ EndInv'
    BY <2>1 DEF WorkspaceInv, TargetInv, PolicyInv, EndInv, Building, Preparing
  <2> QED BY <1>3, <2>3, <2>5, <2>6 DEF FlowInv
<1>8. CASE w = "build" /\ inv.is = "cargo" /\ Discovered
  <2>1. /\ pc' = "exited" /\ found' = found
        /\ exit' = IF status \in Nat THEN status ELSE 1
    BY <1>4, <1>5, <1>8 DEF After, Exit
  <2>2. runs' = <<runs[1], run>> /\ Len(runs') = 2
    <3>1. runs' = Append(runs, run) /\ runs = <<runs[1]>>
      BY <1>4, <1>8 DEF Discovered
    <3> HIDE DEF run
    <3>2. PICK r : r = runs[1]
      OBVIOUS
    <3>3. runs' = <<r, run>>
      BY <3>1, <3>2, AppendToShort
    <3> QED BY <3>2, <3>3
  <2>3. TypeInv'
    BY <1>1, <1>2, <2>1 DEF TypeInv, Places
  <2>4. ~failed'
    BY <1>4, <1>8 DEF FlowInv, FailedInv
  <2>5. RunsInv' /\ FailedInv' /\ RequestInv' /\ ArgsInv' /\ WorkspaceInv' /\ TargetInv'
        /\ PolicyInv'
    BY <2>1, <2>4 DEF RunsInv, FailedInv, RequestInv, ArgsInv,
       AfterDiscovery, Preparing, WorkspaceInv, TargetInv, PolicyInv, Building
  <2>6. SuccessIsEarned'
    BY <1>1, <1>5, <1>8, <2>1, <2>2, <2>4 DEF SuccessIsEarned, Discovered, Built
  <2>7. BuildWritesOnlyItsOwn'
    <3>1. OwnRequest(request) /\ (Isolated => found.target \notin DOMAIN host.fs)
      BY <1>1, <1>8 DEF FlowInv, PolicyInv, TargetInv, Building
    <3>2. runs'[2].request = request
      BY <2>2
    <3>3. Lockfile' = Lockfile
      BY <2>1 DEF Lockfile
    <3> QED BY <1>1, <1>2, <2>1, <3>1, <3>2, <3>3 DEF BuildWritesOnlyItsOwn, OwnRequest
  <2> QED BY <1>3, <2>2, <2>3, <2>5, <2>6, <2>7 DEF FlowInv, EndInv
<1> QED BY <1>1, <1>6, <1>7, <1>8 DEF FlowInv, RequestInv

-----------------------------------------------------------------------------
(* How a loop meets each argument *)

RoleStep(args, Known, f, i) ==
  IF i <= 1 THEN "read"
  ELSE IF f[i - 1] = "read" /\ args[i - 1].kind = "end" THEN "rest"
  ELSE IF f[i - 1] = "rest" THEN "rest"
  ELSE IF f[i - 1] = "read" /\ args[i - 1].kind \in Known THEN "value"
  ELSE "read"
Roled(args, Known) == CHOOSE f : f = [i \in 0..Len(args) |-> RoleStep(args, Known, f, i)]

LEMMA RolesAre ==
  ASSUME NEW S, NEW args \in Seq(S), NEW Known
  PROVE  Roles(args, Known)
           = [i \in 0..Len(args) |-> RoleStep(args, Known, Roles(args, Known), i)]
<1> DEFINE Step(f, i) == RoleStep(args, Known, f, i)
<1> DEFINE R == {"read", "rest", "value"}
<1>0. Len(args) \in Nat
  OBVIOUS
<1>1. \A f, i : Step(f, i) \in R
  BY DEF RoleStep
<1>2. ASSUME NEW n \in 0..Len(args)
      PROVE  \E f \in [0..n -> R] : \A i \in 0..n : f[i] = Step(f, i)
  <2> DEFINE Has(m) == \E f \in [0..m -> R] : \A i \in 0..m : f[i] = Step(f, i)
  <2> DEFINE T == {m \in 0..Len(args) : ~Has(m)}
  <2>1. SUFFICES ASSUME T # {} PROVE FALSE
    OBVIOUS
  <2>2. PICK m \in T : \A k \in T : m <= k
    <3>1. T \subseteq Nat
      OBVIOUS
    <3> HIDE DEF T
    <3> QED BY <2>1, <3>1, Least
  <2>3. m \in 0..Len(args) /\ ~Has(m)
    OBVIOUS
  <2>4. CASE m = 0
    <3> DEFINE f == [i \in 0..0 |-> "read"]
    <3>1. f \in [0..0 -> R]
      OBVIOUS
    <3>2. \A i \in 0..0 : f[i] = Step(f, i)
      BY DEF RoleStep
    <3>3. Has(0)
      <4> HIDE DEF f, Step
      <4> QED BY <3>1, <3>2
    <3> QED BY <2>3, <2>4, <3>3
  <2>5. CASE m # 0
    <3>1. m - 1 \in 0..Len(args) /\ m \in 1..Len(args)
      BY <1>0, <2>3, <2>5
    <3>2. Has(m - 1)
      <4>1. m - 1 \notin T
        <5> HIDE DEF T
        <5> QED BY <2>2, <2>3, <2>5
      <4> HIDE DEF Has
      <4> QED BY <3>1, <4>1
    <3>3. PICK f \in [0..(m - 1) -> R] : \A i \in 0..(m - 1) : f[i] = Step(f, i)
      <4> HIDE DEF Step, R
      <4> QED BY <3>2
    <3> DEFINE g == [i \in 0..m |-> IF i = m THEN Step(f, m) ELSE f[i]]
    <3>4. Step(f, m) \in R
      BY <1>1
    <3>5. g \in [0..m -> R]
      <4>1. ASSUME NEW i \in 0..m, i # m PROVE i \in 0..(m - 1)
        BY <3>1, <4>1
      <4> HIDE DEF Step, R
      <4>2. \A i \in 0..m : g[i] \in R
        BY <3>4, <4>1
      <4> QED BY <4>2
    <3>6. ASSUME NEW i \in 0..m PROVE g[i] = Step(g, i)
      <4>1. Step(g, i) = Step(f, i)
        <5>1. i > 1 => g[i - 1] = f[i - 1]
          <6> HIDE DEF Step
          <6> QED BY <3>1
        <5> HIDE DEF g
        <5> QED BY <5>1, <3>1 DEF RoleStep
      <4>2. g[i] = Step(f, i)
        <5> HIDE DEF Step
        <5>1. CASE i = m
          BY <5>1
        <5>2. CASE i # m
          <6>1. i \in 0..(m - 1) /\ g[i] = f[i]
            BY <3>1, <5>2
          <6> QED BY <3>3, <6>1
        <5> QED BY <5>1, <5>2
      <4> HIDE DEF Step, g
      <4> QED BY <4>1, <4>2
    <3>7. Has(m)
      <4> HIDE DEF g, Step, R
      <4> QED BY <3>5, <3>6
    <3> QED BY <2>3, <3>7
  <2> QED BY <2>4, <2>5
<1>3. Roled(args, Known) = [i \in 0..Len(args) |-> Step(Roled(args, Known), i)]
  <2>1. PICK f \in [0..Len(args) -> R] : \A i \in 0..Len(args) : f[i] = Step(f, i)
    <3>1. Len(args) \in 0..Len(args)
      BY <1>0
    <3> HIDE DEF Step, R
    <3> QED BY <1>2, <3>1
  <2>2. f = [i \in 0..Len(args) |-> Step(f, i)]
    <3> HIDE DEF Step, R
    <3> QED BY <2>1
  <2> QED BY <2>2 DEF Roled
<1>4. Roles(args, Known) = Roled(args, Known)
  BY DEF Roles, Roled, RoleStep
<1> QED BY <1>3, <1>4

\* The loop's step from one argument to the next.
LEMMA RoleOf ==
  ASSUME NEW S, NEW args \in Seq(S), NEW Known, NEW i \in 0..Len(args)
  PROVE  /\ Roles(args, Known)[i] = RoleStep(args, Known, Roles(args, Known), i)
         /\ Roles(args, Known)[i] \in {"read", "rest", "value"}
<1>1. PICK f : f = Roles(args, Known)
  OBVIOUS
<1>2. f = [j \in 0..Len(args) |-> RoleStep(args, Known, f, j)]
  BY <1>1, RolesAre
<1>3. f[i] = RoleStep(args, Known, f, i)
  BY <1>2
<1>4. RoleStep(args, Known, f, i) \in {"read", "rest", "value"}
  BY DEF RoleStep
<1> QED BY <1>1, <1>3, <1>4

\* The kinds of the arguments are all that a loop looks at.
LEMMA SameKinds ==
  ASSUME NEW S, NEW a \in Seq(S), NEW T, NEW b \in Seq(T), NEW Known, Len(b) = Len(a),
         \A i \in 1..Len(a) : b[i].kind = a[i].kind
  PROVE  Roles(b, Known) = Roles(a, Known)
<1>1. ASSUME NEW f, NEW i \in 0..Len(a) PROVE RoleStep(b, Known, f, i) = RoleStep(a, Known, f, i)
  <2>1. i > 1 => i - 1 \in 1..Len(a)
    OBVIOUS
  <2> QED BY <2>1 DEF RoleStep
<1>2. ASSUME NEW f
      PROVE  [i \in 0..Len(b) |-> RoleStep(b, Known, f, i)]
               = [i \in 0..Len(a) |-> RoleStep(a, Known, f, i)]
  BY <1>1
<1>3. \A f : f = [i \in 0..Len(b) |-> RoleStep(b, Known, f, i)]
               <=> f = [i \in 0..Len(a) |-> RoleStep(a, Known, f, i)]
  BY <1>2
<1>4. Roled(a, Known) = Roled(b, Known)
  BY <1>3 DEF Roled
<1> QED BY <1>4 DEF Roles, Roled, RoleStep

\* If Cargo accepts the arguments, a loop that knows one of the options meets
\* each argument as Cargo does, but for the other option's value.
Agree(args, o, i) ==
  LET cargo == Roles(args, Both)[i]
      loop == Roles(args, {o})[i]
  IN  /\ cargo = "read" => loop = "read"
      /\ cargo = "rest" => loop = "rest"
      /\ cargo = "value" => args[i].kind = "word" /\ loop \in {"read", "value"}
      /\ cargo \in {"read", "rest", "value"}
LEMMA LoopsAgree ==
  ASSUME NEW S, NEW args \in Seq(S), CargoAccepts(args), NEW o \in Both,
         NEW n \in 1..Len(args)
  PROVE  Agree(args, o, n)
<1> DEFINE T == {i \in 1..Len(args) : ~Agree(args, o, i)}
<1>1. SUFFICES ASSUME T # {} PROVE FALSE
  OBVIOUS
<1>2. PICK m \in T : \A k \in T : m <= k
  <2>1. T \subseteq Nat
    OBVIOUS
  <2> HIDE DEF T
  <2> QED BY <1>1, <2>1, Least
<1>3. m \in 1..Len(args) /\ ~Agree(args, o, m)
  OBVIOUS
<1>4. PICK f : f = Roles(args, Both)
  OBVIOUS
<1>5. PICK g : g = Roles(args, {o})
  OBVIOUS
<1>6. /\ f[m] = RoleStep(args, Both, f, m) /\ g[m] = RoleStep(args, {o}, g, m)
      /\ f[m] \in {"read", "rest", "value"}
  BY <1>3, <1>4, <1>5, RoleOf
<1>7. m # 1
  BY <1>3, <1>4, <1>5, <1>6 DEF Agree, RoleStep
<1>8. m - 1 \in 1..Len(args) /\ m > 1
  BY <1>3, <1>7
<1>9. Agree(args, o, m - 1)
  <2>1. m - 1 \notin T
    <3> HIDE DEF T
    <3> QED BY <1>2, <1>3, <1>8
  <2> QED BY <1>8, <2>1
<1>10. f[m - 1] = "read" /\ args[m - 1].kind \in Both => args[m].kind = "word"
  <2>1. f[m - 1] = "read" /\ args[m - 1].kind \in Both => CargoReads(args, m - 1, Both)
    BY <1>4 DEF CargoReads
  <2>2. CargoReads(args, m - 1, Both) => args[(m - 1) + 1].kind = "word"
    BY <1>8 DEF CargoAccepts
  <2>3. (m - 1) + 1 = m
    BY <1>3
  <2> QED BY <2>1, <2>2, <2>3
<1>11. Agree(args, o, m)
  <2>1. /\ f[m - 1] = "read" => g[m - 1] = "read"
        /\ f[m - 1] = "rest" => g[m - 1] = "rest"
        /\ f[m - 1] = "value" => args[m - 1].kind = "word" /\ g[m - 1] \in {"read", "value"}
        /\ f[m - 1] \in {"read", "rest", "value"}
    BY <1>4, <1>5, <1>9 DEF Agree
  <2>2. /\ f[m] = "read" => g[m] = "read"
        /\ f[m] = "rest" => g[m] = "rest"
        /\ f[m] = "value" => args[m].kind = "word" /\ g[m] \in {"read", "value"}
    BY <1>6, <1>8, <1>10, <2>1 DEF RoleStep, Both
  <2> QED BY <1>4, <1>5, <1>6, <2>2 DEF Agree
<1> QED BY <1>3, <1>11

\* Where Cargo reads an option, with its value apart or with "=".
ReadAt(args, o) == {i \in DOMAIN args : CargoReads(args, i, {o, WithEquals(o)})}

LEMMA OptionOnce ==
  ASSUME NEW S, NEW args \in Seq(S), CargoAccepts(args), NEW o \in Both,
         NEW i \in ReadAt(args, o), NEW j \in ReadAt(args, o)
  PROVE  i = j
<1>1. ReadAt(args, o) \subseteq 1..Len(args) /\ Cardinality(ReadAt(args, o)) <= 1
  <2>1. ReadAt(args, o) \subseteq 1..Len(args)
    BY DEF ReadAt
  <2>2. Cardinality({k \in DOMAIN args : CargoReads(args, k, {o, WithEquals(o)})}) <= 1
    BY DEF CargoAccepts
  <2> QED BY <2>1, <2>2 DEF ReadAt
<1>2. IsFiniteSet(ReadAt(args, o))
  <2>1. IsFiniteSet(1..Len(args))
    BY FS_Interval
  <2> QED BY <1>1, <2>1, FS_Subset
<1>3. SUFFICES ASSUME i # j PROVE FALSE
  OBVIOUS
<1>4. Cardinality({i, j}) = 2
  <2>1. IsFiniteSet({i}) /\ Cardinality({i}) = 1
    BY FS_Singleton
  <2>2. j \notin {i}
    BY <1>3
  <2>3. Cardinality({i} \cup {j}) = 2
    <3>1. Cardinality({i} \cup {j}) = IF j \in {i} THEN Cardinality({i}) ELSE Cardinality({i}) + 1
      BY <2>1, FS_AddElement
    <3>2. Cardinality({i} \cup {j}) = Cardinality({i}) + 1
      BY <2>2, <3>1
    <3> QED BY <2>1, <3>2
  <2>4. {i} \cup {j} = {i, j}
    OBVIOUS
  <2> QED BY <2>3, <2>4
<1>5. Cardinality({i, j}) <= Cardinality(ReadAt(args, o))
  <2>1. {i, j} \subseteq ReadAt(args, o)
    OBVIOUS
  <2> QED BY <1>2, <2>1, FS_Subset
<1>6. Cardinality(ReadAt(args, o)) \in Nat
  BY <1>2, FS_CardinalityType
<1> QED BY <1>1, <1>4, <1>5, <1>6

\* Cargo's value of an option that it reads at i.
LEMMA CargoValueAt ==
  ASSUME NEW S, NEW args \in Seq(S), CargoAccepts(args), NEW o \in Both
  PROVE  /\ ReadAt(args, o) = {} => CargoValue(args, o) = NoPath
         /\ \A i \in ReadAt(args, o) :
              /\ i \in 1..Len(args) /\ args[i].kind \in {o, WithEquals(o)}
              /\ args[i].kind = o =>
                   /\ i + 1 \in 1..Len(args) /\ args[i + 1].kind = "word"
                   /\ Roles(args, Both)[i + 1] = "value"
                   /\ CargoValue(args, o) = args[i + 1].value
              /\ args[i].kind = WithEquals(o) =>
                   Roles(args, Both)[i] = "read" /\ CargoValue(args, o) = args[i].value
<1> DEFINE apart == {i \in DOMAIN args : CargoReads(args, i, {o})}
<1> DEFINE equal == {i \in DOMAIN args : CargoReads(args, i, {WithEquals(o)})}
<1>1. WithEquals(o) # o /\ o \in {"target", "manifest"}
  BY DEF WithEquals, Both
<1>2. apart \subseteq ReadAt(args, o) /\ equal \subseteq ReadAt(args, o)
  BY DEF ReadAt, CargoReads
<1>3. ASSUME NEW i \in ReadAt(args, o)
      PROVE  /\ i \in 1..Len(args) /\ Roles(args, Both)[i] = "read"
             /\ args[i].kind \in {o, WithEquals(o)}
             /\ args[i].kind = o => CargoReads(args, i, {o})
             /\ args[i].kind = WithEquals(o) => CargoReads(args, i, {WithEquals(o)})
  BY <1>3 DEF ReadAt, CargoReads
<1>4. ReadAt(args, o) = {} => CargoValue(args, o) = NoPath
  BY <1>2 DEF CargoValue
<1>5. ASSUME NEW i \in ReadAt(args, o), args[i].kind = o
      PROVE  /\ i + 1 \in 1..Len(args) /\ args[i + 1].kind = "word"
             /\ Roles(args, Both)[i + 1] = "value"
             /\ CargoValue(args, o) = args[i + 1].value
  <2>1. i \in 1..Len(args) /\ CargoReads(args, i, Both) /\ i \in apart
    BY <1>3, <1>5 DEF CargoReads
  <2>2. i < Len(args) /\ args[i + 1].kind = "word"
    BY <2>1 DEF CargoAccepts
  <2>3. Roles(args, Both)[i + 1] = "value"
    <3>1. Roles(args, Both)[i + 1] = RoleStep(args, Both, Roles(args, Both), i + 1)
      BY <2>1, <2>2, RoleOf
    <3>2. (i + 1) - 1 = i /\ i + 1 > 1
      BY <2>1
    <3>3. Roles(args, Both)[i] = "read"
      BY <1>3
    <3>4. PICK f : f = Roles(args, Both)
      OBVIOUS
    <3>5. args[i].kind \in Both /\ args[i].kind # "end"
      BY <1>1, <1>5 DEF Both
    <3>6. RoleStep(args, Both, f, i + 1) = "value"
      <4>1. PICK n : n = i + 1
        OBVIOUS
      <4>2. n > 1 /\ n - 1 = i
        BY <2>1, <4>1
      <4>3. ~(n <= 1)
        BY <2>1, <4>1
      <4>4. RoleStep(args, Both, f, n) = "value"
        BY <3>3, <3>4, <3>5, <4>2, <4>3 DEF RoleStep
      <4> QED BY <4>1, <4>4
    <3> QED BY <3>1, <3>4, <3>6
  <2>4. (CHOOSE k \in DOMAIN args : CargoReads(args, k, {o})) = i
    <3>1. \A k \in DOMAIN args : CargoReads(args, k, {o}) => k = i
      BY <1>2, OptionOnce
    <3> QED BY <2>1, <3>1
  <2>5. CargoValue(args, o) = args[i + 1].value
    BY <2>1, <2>4 DEF CargoValue
  <2> QED BY <2>1, <2>2, <2>3, <2>5
<1>6. ASSUME NEW i \in ReadAt(args, o), args[i].kind = WithEquals(o)
      PROVE  Roles(args, Both)[i] = "read" /\ CargoValue(args, o) = args[i].value
  <2>1. i \in 1..Len(args) /\ i \in equal /\ Roles(args, Both)[i] = "read"
    <3>1. i \in 1..Len(args) /\ Roles(args, Both)[i] = "read" /\ CargoReads(args, i, {WithEquals(o)})
      BY <1>3, <1>6
    <3> QED BY <3>1
  <2>2. ~ \E k \in DOMAIN args : CargoReads(args, k, {o})
    <3>1. SUFFICES ASSUME NEW k \in DOMAIN args, CargoReads(args, k, {o}) PROVE FALSE
      OBVIOUS
    <3>2. k = i
      BY <1>2, <3>1, OptionOnce
    <3> QED BY <1>1, <1>6, <3>1, <3>2 DEF CargoReads
  <2>3. (CHOOSE k \in DOMAIN args : CargoReads(args, k, {WithEquals(o)})) = i
    <3>1. \A k \in DOMAIN args : CargoReads(args, k, {WithEquals(o)}) => k = i
      BY <1>2, OptionOnce
    <3> QED BY <2>1, <3>1
  <2>4. CargoValue(args, o) = args[i].value
    BY <2>1, <2>2, <2>3 DEF CargoValue
  <2> QED BY <2>1, <2>4
<1> QED BY <1>3, <1>4, <1>5, <1>6

\* cargo-cage's loop finds the value that Cargo does.
LEMMA SameValue ==
  ASSUME NEW S, NEW args \in Seq(S), CargoAccepts(args), NEW o \in Both
  PROVE  LastValue(args, o) = CargoValue(args, o)
<1>1. WithEquals(o) \in {"target=", "manifest="} /\ o \in {"target", "manifest"}
  BY DEF WithEquals, Both
<1>2. ASSUME NEW i \in DOMAIN args, NEW kind \in {o, WithEquals(o)}
      PROVE  ReadsAt(args, {o}, i, kind) <=> CargoReads(args, i, {kind})
  <2>1. Agree(args, o, i)
    BY LoopsAgree
  <2>2. kind # "word"
    BY <1>1
  <2> QED BY <2>1, <2>2 DEF Agree, ReadsAt, CargoReads
<1>3. Occurrences(args, o) = ReadAt(args, o)
  <2>1. \A i \in DOMAIN args :
          CargoReads(args, i, {o, WithEquals(o)})
            <=> CargoReads(args, i, {o}) \/ CargoReads(args, i, {WithEquals(o)})
    BY DEF CargoReads
  <2> QED BY <1>2, <2>1 DEF Occurrences, ReadAt
<1>4. CASE ReadAt(args, o) = {}
  BY <1>3, <1>4, CargoValueAt DEF LastValue
<1>5. ASSUME NEW i \in ReadAt(args, o) PROVE LastValue(args, o) = CargoValue(args, o)
  <2>1. (CHOOSE k \in Occurrences(args, o) : \A j \in Occurrences(args, o) : j <= k) = i
    <3>1. \A k \in ReadAt(args, o) : k = i
      BY OptionOnce
    <3>2. i \in Int
      BY CargoValueAt
    <3>3. \A j \in ReadAt(args, o) : j <= i
      BY <3>1, <3>2
    <3> QED BY <1>3, <3>1, <3>3
  <2>2. args[i].kind \in {o, WithEquals(o)}
    BY CargoValueAt
  <2>3. CASE args[i].kind = o
    <3>1. args[i + 1].kind = "word" /\ CargoValue(args, o) = args[i + 1].value
      BY <2>3, CargoValueAt
    <3>2. LastValue(args, o) = AsPath(args[i + 1])
      BY <1>3, <2>1, <2>3 DEF LastValue
    <3> QED BY <3>1, <3>2 DEF AsPath
  <2>4. CASE args[i].kind # o
    <3>1. CargoValue(args, o) = args[i].value
      BY <2>2, <2>4, CargoValueAt
    <3>2. LastValue(args, o) = args[i].value
      BY <1>3, <2>1, <2>4 DEF LastValue
    <3> QED BY <3>1, <3>2
  <2> QED BY <2>3, <2>4
<1> QED BY <1>4, <1>5

\* An argument has a value unless it is an option by itself.
LEMMA GivenValue ==
  ASSUME NEW args \in Seq(Arguments), CargoAccepts(args), NEW o \in Both
  PROVE  /\ CargoValue(args, o) = NoPath <=> ReadAt(args, o) = {}
         /\ ReadAt(args, o) # {} => CargoValue(args, o) \in Paths
<1>1. ReadAt(args, o) = {} => CargoValue(args, o) = NoPath
  BY CargoValueAt
<1>2. ASSUME NEW i \in ReadAt(args, o)
      PROVE  CargoValue(args, o) # NoPath /\ CargoValue(args, o) \in Paths
  <2>1. args[i].kind \in {o, WithEquals(o)} /\ i \in 1..Len(args)
    BY CargoValueAt
  <2>2. CASE args[i].kind = o
    <3>1. i + 1 \in 1..Len(args) /\ args[i + 1].kind = "word"
          /\ CargoValue(args, o) = args[i + 1].value
      BY <2>2, CargoValueAt
    <3>2. args[i + 1] \in Arguments
      BY <3>1
    <3> QED BY <3>1, <3>2 DEF Arguments
  <2>3. CASE args[i].kind = WithEquals(o)
    <3>1. CargoValue(args, o) = args[i].value
      BY <2>3, CargoValueAt
    <3>2. args[i] \in Arguments /\ WithEquals(o) \in {"target=", "manifest="}
      BY <2>1 DEF WithEquals
    <3> QED BY <2>3, <3>1, <3>2 DEF Arguments
  <2> QED BY <2>1, <2>2, <2>3
<1> QED BY <1>1, <1>2

-----------------------------------------------------------------------------
(* What is passed on *)

\* What becomes of each argument, for what Cargo makes of it.
Becomes(args, i, moved, force, target, manifest, new) ==
  LET role == Roles(args, Both)[i]
      old == args[i]
  IN
  /\ new.kind = old.kind
  /\ role = "rest" => new = old
  /\ role = "read" /\ old.kind \notin {"target=", "manifest="} => new = old
  /\ role = "read" /\ old.kind = "manifest=" =>
       new.value = IF moved /\ ~old.value.root THEN Abs(manifest) ELSE old.value
  /\ role = "read" /\ old.kind = "target=" /\ old.value # Empty =>
       new.value = IF force \/ ~old.value.root THEN Abs(target) ELSE old.value
  /\ role = "value" /\ args[i - 1].kind = "manifest" =>
       new.value = IF moved /\ ~old.value.root THEN Abs(manifest) ELSE old.value
  /\ role = "value" /\ args[i - 1].kind = "target" =>
       new.value = IF force \/ ~old.value.root THEN Abs(target) ELSE old.value

LEMMA RewrittenBecomes ==
  ASSUME NEW S, NEW args \in Seq(S), CargoAccepts(args), NEW i \in 1..Len(args),
         NEW moved \in BOOLEAN, NEW force \in BOOLEAN, NEW target, NEW manifest
  PROVE  Becomes(args, i, moved, force, target, manifest,
                 Rewritten(args, i, moved, force, target, manifest))
<1>1. Agree(args, "target", i)
  BY LoopsAgree DEF Both
<1>2. PICK role : role = Roles(args, Both)[i]
  OBVIOUS
<1>3. role \in {"read", "rest", "value"} /\ (role = "value" => args[i].kind = "word")
  BY <1>1, <1>2 DEF Agree
<1>4. PICK new : new = Rewritten(args, i, moved, force, target, manifest)
  OBVIOUS
<1>5. CASE role = "rest"
  <2>1. new = args[i]
    BY <1>2, <1>4, <1>5 DEF Rewritten
  <2> QED BY <1>2, <1>4, <1>5, <2>1 DEF Becomes
<1>6. CASE role = "read"
  <2>1. /\ args[i].kind \notin {"target=", "manifest="} => new = args[i]
        /\ args[i].kind = "manifest=" =>
             new = IF moved /\ ~args[i].value.root THEN ManifestIs(Abs(manifest)) ELSE args[i]
        /\ args[i].kind = "target=" =>
             new = IF args[i].value # Empty /\ (force \/ ~args[i].value.root)
                     THEN TargetIs(Abs(target)) ELSE args[i]
    BY <1>2, <1>4, <1>6 DEF Rewritten
  <2> QED BY <1>2, <1>4, <1>6, <2>1 DEF Becomes, ManifestIs, TargetIs
<1>7. CASE role = "value"
  <2>1. AsPath(args[i]) = args[i].value
    BY <1>3, <1>7 DEF AsPath
  <2>2. /\ args[i - 1].kind = "manifest" =>
             new = IF moved /\ ~args[i].value.root THEN Value(Abs(manifest)) ELSE args[i]
        /\ args[i - 1].kind = "target" =>
             new = IF force \/ ~args[i].value.root THEN Value(Abs(target)) ELSE args[i]
        /\ args[i - 1].kind \notin Both => new = args[i]
    BY <1>2, <1>4, <1>7, <2>1 DEF Rewritten, Both
  <2> QED BY <1>2, <1>3, <1>4, <1>7, <2>2 DEF Becomes, Value, Both
<1> QED BY <1>3, <1>5, <1>6, <1>7

Rewrites(args, moved, force, target, manifest, passed) ==
  /\ passed \in Seq({passed[i] : i \in 1..Len(args)}) /\ Len(passed) = Len(args)
  /\ \A i \in 1..Len(args) : Becomes(args, i, moved, force, target, manifest, passed[i])

LEMMA PassedRewrites ==
  ASSUME NEW S, NEW args \in Seq(S), CargoAccepts(args), NEW cwd, NEW there, NEW target,
         NEW force \in BOOLEAN
  PROVE  Rewrites(args, cwd # there, force, target, Join(cwd, manifest_path_arg(args)),
                  rewrite_relative_cargo_paths(args, cwd, there, target, force))
<1>1. PICK manifest : manifest = Join(cwd, manifest_path_arg(args))
  OBVIOUS
<1>2. PICK moved \in BOOLEAN : moved = (cwd # there)
  OBVIOUS
<1>3. PICK passed : passed = rewrite_relative_cargo_paths(args, cwd, there, target, force)
  OBVIOUS
<1>4. passed = [i \in 1..Len(args) |-> Rewritten(args, i, moved, force, target, manifest)]
  BY <1>1, <1>2, <1>3 DEF rewrite_relative_cargo_paths
<1>5. passed \in Seq({passed[i] : i \in 1..Len(args)}) /\ Len(passed) = Len(args)
  BY <1>4
<1>6. ASSUME NEW i \in 1..Len(args)
      PROVE  Becomes(args, i, moved, force, target, manifest, passed[i])
  <2>1. passed[i] = Rewritten(args, i, moved, force, target, manifest)
    BY <1>4
  <2>2. Becomes(args, i, moved, force, target, manifest,
                Rewritten(args, i, moved, force, target, manifest))
    BY RewrittenBecomes
  <2> QED BY <2>1, <2>2
<1>7. Rewrites(args, moved, force, target, manifest, passed)
  BY <1>5, <1>6 DEF Rewrites
<1> QED BY <1>1, <1>2, <1>3, <1>7

\* Cargo reads the same arguments in what is passed on.
LEMMA PassedReads ==
  ASSUME NEW S, NEW args \in Seq(S), CargoAccepts(args), NEW moved, NEW force,
         NEW target, NEW manifest, NEW passed,
         Rewrites(args, moved, force, target, manifest, passed)
  PROVE  /\ DOMAIN passed = DOMAIN args /\ Len(passed) = Len(args)
         /\ \A i \in 1..Len(args) : passed[i].kind = args[i].kind
         /\ \A kinds : \A i \in DOMAIN args :
              CargoReads(passed, i, kinds) <=> CargoReads(args, i, kinds)
         /\ CargoAccepts(passed)
         /\ \A o \in Both : ReadAt(passed, o) = ReadAt(args, o)
<1>1. PICK T : passed \in Seq(T)
  BY DEF Rewrites
<1>2. /\ Len(passed) = Len(args) /\ DOMAIN passed = DOMAIN args /\ DOMAIN args = 1..Len(args)
      /\ \A i \in 1..Len(args) : passed[i].kind = args[i].kind
  BY <1>1 DEF Rewrites, Becomes
<1>3. Roles(passed, Both) = Roles(args, Both)
  BY <1>1, <1>2, SameKinds
<1>4. ASSUME NEW kinds, NEW i \in DOMAIN args
      PROVE  CargoReads(passed, i, kinds) <=> CargoReads(args, i, kinds)
  BY <1>2, <1>3 DEF CargoReads
<1>5. CargoAccepts(passed)
  <2>1. ASSUME NEW i \in DOMAIN passed, CargoReads(passed, i, Both)
        PROVE  i < Len(passed) /\ passed[i + 1].kind = "word"
    <3>1. i < Len(args) /\ args[i + 1].kind = "word"
      BY <1>2, <1>4, <2>1 DEF CargoAccepts
    <3>2. i + 1 \in 1..Len(args)
      BY <1>2, <2>1, <3>1
    <3> QED BY <1>2, <3>1, <3>2
  <2>2. ASSUME NEW o \in Both
        PROVE  Cardinality({i \in DOMAIN passed : CargoReads(passed, i, {o, WithEquals(o)})}) <= 1
    <3>1. {i \in DOMAIN passed : CargoReads(passed, i, {o, WithEquals(o)})}
            = {i \in DOMAIN args : CargoReads(args, i, {o, WithEquals(o)})}
      BY <1>2, <1>4
    <3>2. Cardinality({i \in DOMAIN args : CargoReads(args, i, {o, WithEquals(o)})}) <= 1
      BY DEF CargoAccepts
    <3> QED BY <3>1, <3>2
  <2> QED BY <2>1, <2>2 DEF CargoAccepts
<1>6. ASSUME NEW o \in Both PROVE ReadAt(passed, o) = ReadAt(args, o)
  BY <1>2, <1>4 DEF ReadAt
<1> QED BY <1>2, <1>4, <1>5, <1>6

\* What Cargo leaves to the program it runs is left as it was.
LEMMA RestIsKept ==
  ASSUME NEW S, NEW args \in Seq(S), CargoAccepts(args), NEW moved, NEW force,
         NEW target, NEW manifest, NEW passed,
         Rewrites(args, moved, force, target, manifest, passed)
  PROVE  CargoPassesOn(passed) = CargoPassesOn(args)
<1>1. PICK ends : ends = {i \in DOMAIN args : CargoReads(args, i, {"end"})}
  OBVIOUS
<1>2. {i \in DOMAIN passed : CargoReads(passed, i, {"end"})} = ends
  <2>1. DOMAIN passed = DOMAIN args
    BY PassedReads
  <2>2. \A i \in DOMAIN args : CargoReads(passed, i, {"end"}) <=> CargoReads(args, i, {"end"})
    BY PassedReads
  <2> QED BY <1>1, <2>1, <2>2
<1>3. CASE ends = {}
  BY <1>1, <1>2, <1>3 DEF CargoPassesOn
<1>4. CASE ends # {}
  <2>1. PICK e : e = CHOOSE i \in ends : TRUE
    OBVIOUS
  <2>2. e \in 1..Len(args) /\ CargoReads(args, e, {"end"})
    BY <1>1, <1>4, <2>1
  <2>3. ASSUME NEW n \in 1..Len(args), e < n PROVE Roles(args, Both)[n] = "rest"
    <3> DEFINE T == {i \in 1..Len(args) : e < i /\ Roles(args, Both)[i] # "rest"}
    <3>1. SUFFICES ASSUME T # {} PROVE FALSE
      BY <2>3
    <3>2. PICK m \in T : \A k \in T : m <= k
      <4>1. T \subseteq Nat
        OBVIOUS
      <4> HIDE DEF T
      <4> QED BY <3>1, <4>1, Least
    <3>3. m \in 1..Len(args) /\ e < m /\ Roles(args, Both)[m] # "rest"
      OBVIOUS
    <3>4. PICK f : f = Roles(args, Both)
      OBVIOUS
    <3>5. f[m] = RoleStep(args, Both, f, m)
      BY <3>3, <3>4, RoleOf
    <3>6. m - 1 \in 1..Len(args) /\ ~(m <= 1)
      BY <2>2, <3>3
    <3>7. CASE m - 1 = e
      <4>1. f[m - 1] = "read" /\ args[m - 1].kind = "end"
        BY <2>2, <3>4, <3>7 DEF CargoReads
      <4>2. f[m] = "rest"
        BY <3>5, <3>6, <4>1 DEF RoleStep
      <4> QED BY <3>3, <3>4, <4>2
    <3>8. CASE m - 1 # e
      <4>1. m - 1 \notin T
        <5> HIDE DEF T
        <5> QED BY <3>2, <3>3
      <4>2. f[m - 1] = "rest"
        BY <2>2, <3>3, <3>4, <3>6, <3>8, <4>1
      <4>3. f[m] = "rest"
        BY <3>5, <3>6, <4>2 DEF RoleStep
      <4> QED BY <3>3, <3>4, <4>3
    <3> QED BY <3>7, <3>8
  <2>4. ASSUME NEW i \in 1..Len(args), e <= i PROVE passed[i] = args[i]
    <3>1. Becomes(args, i, moved, force, target, manifest, passed[i])
      BY DEF Rewrites
    <3>2. CASE e < i
      BY <2>3, <3>1, <3>2 DEF Becomes
    <3>3. CASE i = e
      BY <2>2, <3>1, <3>3 DEF Becomes, CargoReads
    <3> QED BY <2>2, <2>4, <3>2, <3>3
  <2>5. From(passed, e) = From(args, e)
    <3>1. PICK T : passed \in Seq(T)
      BY DEF Rewrites
    <3>2. Len(passed) = Len(args) /\ e \in 1..Len(args)
      BY <2>2, PassedReads
    <3>3. PICK a : a = SubSeq(args, e, Len(args))
      OBVIOUS
    <3>4. PICK b : b = SubSeq(passed, e, Len(args))
      OBVIOUS
    <3>5. /\ a \in Seq(S) /\ Len(a) = Len(args) - e + 1
          /\ \A i \in 1..Len(a) : a[i] = args[e + i - 1]
      BY <3>2, <3>3
    <3>6. /\ b \in Seq(T) /\ Len(b) = Len(args) - e + 1
          /\ \A i \in 1..Len(b) : b[i] = passed[e + i - 1]
      BY <3>1, <3>2, <3>4
    <3>7. ASSUME NEW i \in 1..Len(a) PROVE a[i] = b[i]
      <4>1. e + i - 1 \in 1..Len(args) /\ e <= e + i - 1
        BY <3>2, <3>5
      <4> QED BY <2>4, <3>5, <3>6, <4>1
    <3>8. a \in Seq(S \cup T) /\ b \in Seq(S \cup T)
      BY <3>5, <3>6
    <3>9. a = b
      BY <3>5, <3>6, <3>7, <3>8, SeqEqual
    <3> QED BY <3>2, <3>3, <3>4, <3>9 DEF From
  <2> QED BY <1>1, <1>2, <1>4, <2>1, <2>5 DEF CargoPassesOn
<1> QED BY <1>3, <1>4

\* The values that Cargo reads in what is passed on.
LEMMA PassedValue ==
  ASSUME NEW S, NEW args \in Seq(S), CargoAccepts(args), NEW moved, NEW force,
         NEW target, NEW manifest, NEW passed,
         Rewrites(args, moved, force, target, manifest, passed),
         NEW o \in Both, NEW i \in ReadAt(args, o), NEW v, v = CargoValue(args, o)
  PROVE  /\ o = "manifest" =>
              CargoValue(passed, o) = IF moved /\ ~v.root THEN Abs(manifest) ELSE v
         /\ o = "target" /\ v # Empty =>
              CargoValue(passed, o) = IF force \/ ~v.root THEN Abs(target) ELSE v
<1>1. PICK T : passed \in Seq(T)
  BY DEF Rewrites
<1>2. /\ Len(passed) = Len(args) /\ CargoAccepts(passed) /\ i \in ReadAt(passed, o)
      /\ \A j \in 1..Len(args) : passed[j].kind = args[j].kind
  BY PassedReads
<1>3. i \in 1..Len(args) /\ args[i].kind \in {o, WithEquals(o)}
  BY CargoValueAt
<1>4. o \in {"manifest", "target"}
      /\ WithEquals(o) = IF o = "target" THEN "target=" ELSE "manifest="
  BY DEF Both, WithEquals
<1>5. CASE args[i].kind = o
  <2>1. PICK n : n = i + 1
    OBVIOUS
  <2>2. /\ n \in 1..Len(args) /\ Roles(args, Both)[n] = "value" /\ v = args[n].value
    BY <1>5, <2>1, CargoValueAt
  <2>3. CargoValue(passed, o) = passed[n].value
    BY <1>1, <1>2, <1>3, <1>5, <2>1, CargoValueAt
  <2>4. args[n - 1].kind = o
    <3>1. n - 1 = i
      BY <1>3, <2>1
    <3> QED BY <1>5, <3>1
  <2>5. Becomes(args, n, moved, force, target, manifest, passed[n])
    BY <2>2 DEF Rewrites
  <2> QED BY <1>4, <2>2, <2>3, <2>4, <2>5 DEF Becomes
<1>6. CASE args[i].kind = WithEquals(o)
  <2>1. Roles(args, Both)[i] = "read" /\ v = args[i].value
    BY <1>6, CargoValueAt
  <2>2. CargoValue(passed, o) = passed[i].value
    BY <1>1, <1>2, <1>3, <1>6, CargoValueAt
  <2>3. Becomes(args, i, moved, force, target, manifest, passed[i])
    BY <1>3 DEF Rewrites
  <2> QED BY <1>4, <1>6, <2>1, <2>2, <2>3 DEF Becomes
<1> QED BY <1>3, <1>5, <1>6

-----------------------------------------------------------------------------
(* What a build is asked for *)

\* The request of a build says from its working directory, and for its target,
\* what its caller has said.
LEMMA RequestMeans ==
  ASSUME TypeInv, CargoAccepts(Args), NEW there, NEW build,
         build.cwd = there,
         build.args = rewrite_relative_cargo_paths(Args, host.cwd, there, found.target, Isolated),
         ~HasManifest => there = host.cwd,
         ~Isolated /\ moves = 0 => Landed(Target) = found.target
  PROVE  MeansTheSame(build)
<1>1. PICK args \in Seq(Arguments) : args = Args
  BY DEF TypeInv
<1>2. PICK passed : passed = build.args
  OBVIOUS
<1>3. PICK manifest : manifest = Join(host.cwd, manifest_path_arg(args))
  OBVIOUS
<1>4. PICK moved : moved = (host.cwd # there)
  OBVIOUS
<1>5. Isolated \in BOOLEAN
  BY DEF Isolated
<1>6. CargoAccepts(args)
  BY <1>1
<1>7. Rewrites(args, moved, Isolated, found.target, manifest, passed)
  BY <1>1, <1>2, <1>3, <1>4, <1>5, <1>6, PassedRewrites
<1>8. "manifest" \in Both /\ "target" \in Both
  BY DEF Both
<1>9. PICK m : m = CargoValue(args, "manifest")
  OBVIOUS
<1>10. PICK t : t = CargoValue(args, "target")
  OBVIOUS
<1>11. manifest_path_arg(args) = m /\ LastValue(args, "target") = t
  BY <1>6, <1>8, <1>9, <1>10, SameValue DEF manifest_path_arg
<1>12. CargoAccepts(passed) /\ CargoPassesOn(passed) = CargoPassesOn(args)
       /\ \A o \in Both : ReadAt(passed, o) = ReadAt(args, o)
  BY <1>6, <1>7, PassedReads, RestIsKept
<1>13. ASSUME NEW i \in DOMAIN args, CargoReads(args, i, {"word", "option"})
       PROVE  passed[i] = args[i]
  <2>1. Becomes(args, i, moved, Isolated, found.target, manifest, passed[i])
    BY <1>7 DEF Rewrites
  <2> QED BY <1>13, <2>1 DEF Becomes, CargoReads
<1>14. /\ m = NoPath <=> ReadAt(args, "manifest") = {}
       /\ t = NoPath <=> ReadAt(args, "target") = {}
  BY <1>6, <1>8, <1>9, <1>10, GivenValue
<1>15. \A o \in Both : ReadAt(args, o) = {} => CargoValue(passed, o) = NoPath
  <2>1. PICK T : passed \in Seq(T)
    BY <1>7 DEF Rewrites
  <2> QED BY <1>12, <2>1, CargoValueAt
<1>16. IF m = NoPath
         THEN CargoValue(passed, "manifest") = NoPath /\ there = host.cwd
         ELSE Join(there, CargoValue(passed, "manifest")) = Join(host.cwd, m)
  <2>1. CASE m = NoPath
    <3>1. ~HasManifest
      BY <1>1, <1>11, <2>1 DEF HasManifest
    <3> QED BY <1>8, <1>14, <1>15, <2>1, <3>1
  <2>2. CASE m # NoPath
    <3>1. PICK i \in ReadAt(args, "manifest") : TRUE
      BY <1>14, <2>2
    <3>2. CargoValue(passed, "manifest") = IF moved /\ ~m.root THEN Abs(manifest) ELSE m
      BY <1>6, <1>7, <1>8, <1>9, <3>1, PassedValue
    <3>3. Abs(manifest).root /\ Abs(manifest).names = manifest
      BY DEF Abs
    <3>4. manifest = Join(host.cwd, m)
      BY <1>3, <1>11
    <3> QED BY <1>4, <2>2, <3>2, <3>3, <3>4 DEF Join
  <2> QED BY <2>1, <2>2
<1>17. IF t = NoPath THEN CargoValue(passed, "target") = NoPath
       ELSE t # Empty =>
         /\ Join(there, CargoValue(passed, "target")) =
              IF ~Isolated /\ t.root THEN t.names ELSE found.target
         /\ ~Isolated /\ moves = 0 => Landed(Join(host.cwd, t)) = found.target
  <2>1. CASE t = NoPath
    BY <1>8, <1>14, <1>15, <2>1
  <2>2. ASSUME t # NoPath, t # Empty
        PROVE  /\ Join(there, CargoValue(passed, "target")) =
                    IF ~Isolated /\ t.root THEN t.names ELSE found.target
               /\ ~Isolated /\ moves = 0 => Landed(Join(host.cwd, t)) = found.target
    <3>1. PICK i \in ReadAt(args, "target") : TRUE
      BY <1>14, <2>2
    <3>2. CargoValue(passed, "target") = IF Isolated \/ ~t.root THEN Abs(found.target) ELSE t
      BY <1>6, <1>7, <1>8, <1>10, <2>2, <3>1, PassedValue
    <3>3. Abs(found.target).root /\ Abs(found.target).names = found.target
      BY DEF Abs
    <3>4. Join(there, CargoValue(passed, "target")) =
            IF ~Isolated /\ t.root THEN t.names ELSE found.target
      BY <3>2, <3>3 DEF Join
    <3>5. Target = Join(host.cwd, t)
      BY <1>1, <1>11, <2>2 DEF Target, target_dir_arg
    <3> QED BY <3>4, <3>5
  <2> QED BY <2>1, <2>2
<1> QED BY <1>1, <1>2, <1>9, <1>10, <1>12, <1>13, <1>16, <1>17 DEF MeansTheSame

LEMMA NotYetBuilt ==
  ASSUME FlowInv, pc # "exited"
  PROVE  ~Built
<1>1. CASE pc \in {"arguments", "backend", "tools", "discover"}
  <2>1. runs = << >>
    BY <1>1 DEF FlowInv, RunsInv
  <2> QED BY <2>1 DEF Built
<1>2. CASE pc \in AfterDiscovery
  <2>1. Discovered
    BY <1>2 DEF FlowInv, RunsInv
  <2>2. PICK r : runs = <<r>>
    BY <2>1 DEF Discovered
  <2> QED BY <2>2 DEF Built
<1>3. CASE pc = "run"
  <2>1. runs = << >> \/ Discovered
    BY <1>3 DEF FlowInv, RequestInv
  <2>2. CASE runs = << >>
    BY <2>2 DEF Built
  <2>3. CASE Discovered
    <3>1. PICK r : runs = <<r>>
      BY <2>3 DEF Discovered
    <3> QED BY <3>1 DEF Built
  <2> QED BY <2>1, <2>2, <2>3
<1>4. CASE pc = "verdict"
  BY <1>4 DEF FlowInv, RunsInv, Built
<1> QED BY <1>1, <1>2, <1>3, <1>4 DEF FlowInv, TypeInv, Places

\* A step that is not another program's leaves the links as they are.
Undisturbed == moves' = 0 => moves = 0 /\ Links' = Links
LEMMA StepsAreUndisturbed ==
  ASSUME FlowInv, Next
  PROVE  Undisturbed
<1>1. CASE PrepareTarget \/ PrepareFresh \/ PrepareBuildDir
  <2>1. moves' = moves /\ (fs' = fs \/ \E p : fs' = Created(p))
    BY <1>1 DEF PrepareTarget, PrepareFresh, PrepareBuildDir
  <2>2. CASE fs' = fs
    BY <2>1, <2>2 DEF Undisturbed, Links
  <2>3. CASE \E p : fs' = Created(p)
    BY <2>1, <2>3, CreatedLinks DEF Undisturbed
  <2> QED BY <2>1, <2>2, <2>3
<1>2. CASE PrepareLockfile
  <2>1. PICK lock : lock = Entry(Lockfile)
    OBVIOUS
  <2>2. /\ moves' = moves
        /\ \/ fs' = fs
           \/ fs' = [q \in DOMAIN fs \cup {lock} |-> IF q \in DOMAIN fs THEN fs[q] ELSE File]
    BY <1>2, <2>1 DEF PrepareLockfile
  <2>3. CASE fs' = fs
    BY <2>2, <2>3 DEF Undisturbed, Links
  <2>4. CASE fs' = [q \in DOMAIN fs \cup {lock} |-> IF q \in DOMAIN fs THEN fs[q] ELSE File]
    <3>1. Grows /\ \A q \in DOMAIN fs' \ DOMAIN fs : fs'[q] = File
      BY <2>4 DEF Grows
    <3> QED BY <2>2, <3>1, SameLinks DEF Undisturbed
  <2> QED BY <2>2, <2>3, <2>4
<1>3. CASE \/ ParseArguments \/ MakeBackend \/ ResolveTools \/ Discover \/ BackendRuns
           \/ TakeAnswer \/ BuildRequest \/ CheckTarget \/ CheckLockfile \/ Verdict
  <2>1. fs' = fs /\ moves' = moves
    BY <1>3 DEF ParseArguments, MakeBackend, ResolveTools, Discover, BackendRuns, TakeAnswer,
       BuildRequest, CheckTarget, CheckLockfile, Verdict
  <2> QED BY <2>1 DEF Undisturbed, Links
<1>4. CASE Disturb
  BY <1>4 DEF Disturb, FlowInv, TypeInv, Undisturbed
<1> QED BY <1>1, <1>2, <1>3, <1>4 DEF Next, Program

\* What a request means depends on the caller, the target and, as long as
\* nobody else changes the tree, its links.
LEMMA SameMeaning ==
  ASSUME UNCHANGED <<host, inv>>, found'.target = found.target, Undisturbed, NEW r,
         MeansTheSame(r)
  PROVE  MeansTheSame(r)'
<1>1. Args' = Args /\ (Isolated' <=> Isolated) /\ host' = host
  BY SameScene
<1>2. ASSUME moves' = 0, NEW p PROVE moves = 0 /\ Landed(p)' = Landed(p)
  BY <1>2 DEF Undisturbed, Landed
<1> QED BY <1>1, <1>2 DEF MeansTheSame

\* Where the caller's target leads.
TargetLeads == moves = 0 => Landed(Target) = found.target
LEMMA TargetStillLeads ==
  ASSUME UNCHANGED <<host, inv>>, found'.workspace = found.workspace,
         found'.target = found.target, Undisturbed, TargetLeads
  PROVE  TargetLeads'
<1>1. Target' = Target
  BY SameScene DEF Target
<1>2. PICK t : t = Target
  OBVIOUS
<1>3. moves' = 0 => moves = 0 /\ Landed(t)' = Landed(t)
  BY DEF Undisturbed, Landed
<1>4. moves' = 0 => Landed(t)' = found'.target
  BY <1>2, <1>3 DEF TargetLeads
<1>5. Landed(Target)' = Landed(t)'
  BY <1>1, <1>2 DEF Landed
<1> QED BY <1>4, <1>5 DEF TargetLeads

LEMMA StillNotBuilt ==
  ASSUME FlowInv, pc # "exited", runs' = runs
  PROVE  CargoSeesWhatWasMeant'
BY NotYetBuilt DEF Built, CargoSeesWhatWasMeant

\* A step to where no build has been asked for.
LEMMA QuietMeans ==
  ASSUME FlowInv, pc # "exited", runs' = runs, UNCHANGED <<host, inv>>, ~Building',
         Isolated \/ pc' \notin {"fresh", "build dir", "lockfile", "request"},
         pc' = "fresh" => Isolated
  PROVE  MeaningInv'
<1>1. CargoSeesWhatWasMeant'
  BY StillNotBuilt
<1>2. Isolated' <=> Isolated
  BY SameScene
<1> QED BY <1>1, <1>2 DEF MeaningInv

\* A step that leaves the request and the target as they are.
LEMMA StillMeans ==
  ASSUME FlowInv, MeaningInv, pc # "exited", runs' = runs, UNCHANGED <<host, inv>>,
         found' = found, request' = request, Building' => Building, Undisturbed,
         pc' \in {"build dir", "lockfile", "request"} => pc \in {"build dir", "lockfile", "request"},
         pc' = "fresh" => pc = "fresh"
  PROVE  MeaningInv'
<1>1. CargoSeesWhatWasMeant'
  BY StillNotBuilt
<1>2. Args' = Args /\ (Isolated' <=> Isolated) /\ (TargetLeads => TargetLeads')
  BY SameScene, TargetStillLeads
<1>3. MeansTheSame(request) => MeansTheSame(request)'
  <2>1. PICK r : r = request
    OBVIOUS
  <2>2. (MeansTheSame(r) => MeansTheSame(r)') /\ request' = r
    BY <2>1, SameMeaning
  <2> QED BY <2>1, <2>2 DEF MeansTheSame
<1> QED BY <1>1, <1>2, <1>3 DEF MeaningInv, TargetLeads

LEMMA PrepareTargetMeans ==
  ASSUME FlowInv, MeaningInv, PrepareTarget
  PROVE  MeaningInv'
<1>1. /\ UNCHANGED <<host, inv, request>> /\ runs' = runs /\ pc = "target" /\ found \in Locations
      /\ Undisturbed
  BY StepsAreUndisturbed DEF PrepareTarget, At, FlowInv, TypeInv, Next, Program
<1>2. CASE pc' = "exited"
  BY <1>1, <1>2, QuietMeans DEF Building
<1>3. CASE pc' # "exited"
  <2>1. PICK t : t = Landed(Target)
    OBVIOUS
  <2>2. /\ found' = [found EXCEPT !.base = t, !.target = t]
        /\ pc' = IF Isolated THEN "fresh" ELSE "build dir"
    BY <1>3, <2>1 DEF PrepareTarget, Goto, Exit
  <2>3. found'.target = t /\ found'.workspace = found.workspace
    BY <1>1, <2>2 DEF Locations
  <2>4. Target' = Target /\ (Isolated' <=> Isolated)
    BY <1>1, <2>3, SameScene DEF Target
  <2>5. moves' = 0 => Landed(Target)' = found'.target
    <3>1. moves' = 0 => Landed(Target)' = Landed(Target)
      BY <1>1, <2>4 DEF Undisturbed, Landed
    <3> QED BY <2>1, <2>3, <3>1
  <2> QED BY <2>2, <2>4, <2>5 DEF MeaningInv, Building
<1> QED BY <1>2, <1>3

LEMMA BuildRequestMeans ==
  ASSUME FlowInv, MeaningInv, BuildRequest
  PROVE  MeaningInv'
<1>1. /\ UNCHANGED <<host, inv>> /\ runs' = runs /\ pc = "request" /\ found \in Locations /\ TypeInv
      /\ Contains(found.workspace) /\ Undisturbed
  BY StepsAreUndisturbed
     DEF BuildRequest, At, FlowInv, TypeInv, WorkspaceInv, Preparing, Next, Program
<1>2. CASE pc' = "exited"
  BY <1>1, <1>2, QuietMeans DEF Building
<1>3. CASE pc' # "exited"
  <2>1. PICK there : there = sandbox_current_dir
    OBVIOUS
  <2>2. PICK build : build = request'
    OBVIOUS
  <2>3. /\ found' = [found EXCEPT !.cwd = there] /\ pc' = "run"
        /\ build.cwd = there
        /\ build.args = rewrite_relative_cargo_paths(Args, host.cwd, there, found.target, Isolated)
    BY <1>3, <2>1, <2>2 DEF BuildRequest, Goto, Exit, Request
  <2>4. found'.target = found.target /\ found'.workspace = found.workspace
    BY <1>1, <2>3 DEF Locations
  <2>5. ~HasManifest => there = host.cwd
    BY <1>1, <2>1 DEF Contains, sandbox_current_dir
  <2>6. ~Isolated => TargetLeads
    BY <1>1 DEF MeaningInv, TargetLeads
  <2>7. (Isolated' <=> Isolated) /\ Args' = Args /\ (TargetLeads => TargetLeads')
    BY <1>1, <2>4, TargetStillLeads, SameScene
  <2>8. CargoAccepts(Args)' => MeansTheSame(request)'
    <3>1. SUFFICES ASSUME CargoAccepts(Args) PROVE MeansTheSame(request)'
      BY <2>7
    <3>2. MeansTheSame(build)
      BY <1>1, <2>3, <2>5, <2>6, <3>1, RequestMeans DEF TargetLeads
    <3>3. MeansTheSame(build)'
      BY <1>1, <2>4, <3>2, SameMeaning
    <3> QED BY <2>2, <3>3 DEF MeansTheSame
  <2>9. ~Isolated' => (moves = 0 => Landed(Target) = found.target)'
    BY <2>6, <2>7 DEF TargetLeads
  <2> QED BY <2>3, <2>8, <2>9 DEF MeaningInv
<1> QED BY <1>2, <1>3

LEMMA BackendRunsMeans ==
  ASSUME FlowInv, MeaningInv, BackendRuns
  PROVE  MeaningInv'
<1>1. /\ UNCHANGED <<host, inv, request>> /\ pc = "run"
      /\ pc' \in {"answer", "exited", "verdict"}
      /\ \E ran, status : runs' = Append(runs, [request |-> request, ran |-> ran, status |-> status])
      /\ Undisturbed
  BY StepsAreUndisturbed
     DEF BackendRuns, At, After, Goto, Exit, FlowInv, RequestInv, Next, Program
<1>2. CargoSeesWhatWasMeant'
  <2>1. SUFFICES ASSUME Built', CargoAccepts(Args') PROVE MeansTheSame(runs[2].request)'
    BY DEF CargoSeesWhatWasMeant
  <2>2. PICK run : runs' = Append(runs, run) /\ run.request = request
    <3>1. PICK ran, status : runs' = Append(runs, [request |-> request, ran |-> ran, status |-> status])
      BY <1>1
    <3>2. [request |-> request, ran |-> ran, status |-> status].request = request
      OBVIOUS
    <3> QED BY <3>1, <3>2
  <2>3. Discovered /\ request.what \in {"probe", "build"}
    <3>1. runs # << >>
      <4>1. SUFFICES ASSUME runs = << >> PROVE FALSE
        OBVIOUS
      <4>2. runs' = <<run>>
        BY <2>2, <4>1, AppendToShort
      <4> QED BY <2>1, <4>2 DEF Built
    <3> QED BY <1>1, <3>1 DEF FlowInv, RequestInv
  <2>4. runs'[2] = run
    <3>1. PICK r : runs = <<r>>
      BY <2>3 DEF Discovered
    <3>2. runs' = <<r, run>>
      BY <2>2, <3>1, AppendToShort
    <3> QED BY <3>2
  <2>5. request.what = "build"
    BY <2>1, <2>2, <2>4 DEF Built
  <2>6. UNCHANGED found
    BY <2>5 DEF BackendRuns
  <2>7. MeansTheSame(request)
    <3>1. Args' = Args
      BY <1>1, SameScene
    <3> QED BY <1>1, <2>1, <2>5, <3>1 DEF MeaningInv, Building
  <2>8. PICK r : r = request
    OBVIOUS
  <2>9. MeansTheSame(r)' /\ runs'[2].request = r
    BY <1>1, <2>2, <2>4, <2>6, <2>7, <2>8, SameMeaning
  <2> QED BY <2>9 DEF MeansTheSame
<1> QED BY <1>1, <1>2 DEF MeaningInv, Building

LEMMA StepMeans ==
  ASSUME FlowInv, MeaningInv, Next
  PROVE  MeaningInv'
<1>1. CASE ParseArguments
  <2>1. pc' \in {"backend", "exited"} /\ runs' = runs /\ pc # "exited"
    BY <1>1 DEF ParseArguments, At, Goto, Exit, FlowInv, TypeInv
  <2>2. ~Built'
    <3>1. ~Built
      BY <2>1, NotYetBuilt
    <3> QED BY <2>1, <3>1 DEF Built
  <2> QED BY <2>1, <2>2 DEF MeaningInv, Building, CargoSeesWhatWasMeant
<1>2. CASE MakeBackend \/ ResolveTools
  <2>1. /\ UNCHANGED <<host, inv>> /\ runs' = runs /\ pc # "exited"
        /\ pc' \in {"tools", "discover", "exited"}
    BY <1>2 DEF MakeBackend, ResolveTools, At, Goto, Exit
  <2> QED BY <2>1, QuietMeans DEF Building
<1>3. CASE Discover
  <2>1. /\ UNCHANGED <<host, inv>> /\ runs' = runs /\ pc = "discover"
        /\ \/ pc' = "exited"
           \/ pc' = "run" /\ request' = Request("discovery", << >>, host.cwd, {host.cwd, Base},
                                               discovery_writable_paths)
    BY <1>3 DEF Discover, At, Goto, Exit
  <2>2. \A a, c, r, w : Request("discovery", a, c, r, w).what = "discovery"
    BY DEF Request
  <2>3. pc' \in {"exited", "run"} /\ ~Building'
    BY <2>1, <2>2 DEF Building
  <2> QED BY <2>1, <2>3, QuietMeans
<1>4. CASE TakeAnswer
  <2>1. /\ UNCHANGED <<host, inv>> /\ runs' = runs /\ pc = "answer"
        /\ pc' \in {"check target", "target", "exited"}
    BY <1>4 DEF TakeAnswer, At, Goto, Exit
  <2> QED BY <2>1, QuietMeans DEF Building
<1>5. CASE PrepareFresh
  <2>1. /\ UNCHANGED <<host, inv>> /\ runs' = runs /\ pc = "fresh"
        /\ pc' \in {"build dir", "exited"}
    BY <1>5 DEF PrepareFresh, At, Goto, Exit
  <2>2. Isolated
    BY <2>1 DEF MeaningInv
  <2> QED BY <2>1, <2>2, QuietMeans DEF Building
<1>0. Undisturbed
  BY StepsAreUndisturbed
<1>6. CASE PrepareBuildDir \/ PrepareLockfile
  <2>1. /\ UNCHANGED <<host, inv>> /\ runs' = runs /\ found' = found /\ request' = request
        /\ pc \in {"build dir", "lockfile"} /\ pc' \in {"lockfile", "request", "exited"}
    BY <1>6 DEF PrepareBuildDir, PrepareLockfile, At, Goto, Exit
  <2> QED BY <1>0, <2>1, StillMeans DEF Building
<1>7. CASE CheckTarget \/ Verdict
  <2>1. /\ UNCHANGED <<host, inv>> /\ runs' = runs /\ pc \in {"check target", "verdict"}
        /\ pc' \in {"check lockfile", "exited"}
    BY <1>7 DEF CheckTarget, Verdict, At, Goto, Exit
  <2> QED BY <2>1, QuietMeans DEF Building
<1>8. CASE CheckLockfile
  <2>1. /\ UNCHANGED <<host, inv>> /\ runs' = runs /\ pc = "check lockfile" /\ pc' = "run"
        /\ request'.what = "probe"
    BY <1>8 DEF CheckLockfile, At, Goto, Request
  <2> QED BY <2>1, QuietMeans DEF Building
<1>9. CASE Disturb
  <2>1. /\ UNCHANGED <<host, inv>> /\ runs' = runs /\ pc' = pc /\ found' = found
        /\ request' = request /\ pc # "exited"
    BY <1>9 DEF Disturb
  <2> QED BY <1>0, <2>1, StillMeans DEF Building
<1> QED BY <1>1, <1>2, <1>3, <1>4, <1>5, <1>6, <1>7, <1>8, <1>9, PrepareTargetMeans,
      BuildRequestMeans, BackendRunsMeans DEF Next, Program

-----------------------------------------------------------------------------
(* Theorems *)

\* Every action of cargo-cage, and of other programs, keeps FlowInv, and
\* cargo-cage creates nothing but its own.
LEMMA StepKeeps ==
  ASSUME FlowInv, Next
  PROVE  FlowInv' /\ MakesOnlyOwn
<1>1. CASE Program
  BY <1>1, ParseKeeps, EarlyKeeps, DiscoverKeeps, BackendRunsKeeps, TakeAnswerKeeps,
     PrepareTargetKeeps, PrepareFreshKeeps, PrepareBuildDirKeeps, PrepareLockfileKeeps,
     BuildRequestKeeps, CheckTargetKeeps, CheckLockfileKeeps, VerdictKeeps DEF Program
<1>2. CASE Disturb
  BY <1>2, DisturbKeeps
<1> QED BY <1>1, <1>2 DEF Next

\* At each place of cargo-cage the programs that have run, what has been
\* checked and what will be asked of the backend are those FlowInv names.
THEOREM FlowInvariant == Spec => []FlowInv
<1>1. FlowInv /\ [Next]_vars => FlowInv'
  <2>1. CASE Next
    BY <2>1, StepKeeps
  <2>2. ASSUME FlowInv, UNCHANGED vars PROVE FlowInv'
    <3>1. UNCHANGED <<host, argv, pc, fs, inv, found, request, runs, failed, exit, moves>>
      BY <2>2 DEF vars
    <3>2. Args' = Args /\ (Isolated' <=> Isolated) /\ (\A e : Contains(e)' <=> Contains(e))
      BY <3>1, SameScene
    <3>3. TypeInv' /\ TreeInv' /\ RequestInv' /\ FailedInv' /\ RunsInv' /\ ArgsInv'
      BY <2>2, <3>1, <3>2 DEF FlowInv, TypeInv, TreeInv, RequestInv, FailedInv, RunsInv,
         ArgsInv, Discovered
    <3>4. WorkspaceInv' /\ TargetInv' /\ PolicyInv'
      BY <2>2, <3>1, <3>2 DEF FlowInv, WorkspaceInv, Workspace, Landed, Links, TargetInv,
         PolicyInv, Building, OwnRequest, Lockfile
    <3>5. EndInv'
      BY <2>2, <3>1, <3>2 DEF FlowInv, EndInv, SuccessIsEarned, BuildWritesOnlyItsOwn,
         Built, Lockfile
    <3> QED BY <3>3, <3>4, <3>5 DEF FlowInv
  <2> QED BY <2>1, <2>2
<1> QED BY InitInv, <1>1, PTL DEF Spec

\* cargo-cage reports success only for a build, or doctor's probe, that ran
\* and succeeded after a successful discovery, and passes on the exit code of
\* a failing Cargo (run_cargo, run_doctor, exit_code).
THEOREM SuccessMustBeEarned == Spec => []SuccessIsEarned
<1>1. FlowInv => SuccessIsEarned
  <2>1. CASE pc = "exited"
    BY <2>1 DEF FlowInv, EndInv
  <2>2. CASE pc # "exited"
    BY <2>2 DEF FlowInv, TypeInv, SuccessIsEarned
  <2> QED BY <2>1, <2>2
<1> QED BY <1>1, FlowInvariant, PTL

\* Whatever other programs do between its steps, a build that cargo-cage runs
\* can write to its target and the workspace's lockfile alone, and an isolated
\* target was not there at the start (run_cargo's policy).
THEOREM BuildsWriteTheirOwn == Spec => []BuildWritesOnlyItsOwn
<1>1. FlowInv => BuildWritesOnlyItsOwn
  <2>1. CASE pc = "exited"
    BY <2>1 DEF FlowInv, EndInv
  <2>2. ASSUME FlowInv, pc # "exited" PROVE ~Built
    BY <2>2, NotYetBuilt
  <2>3. FlowInv /\ ~Built => BuildWritesOnlyItsOwn
    BY DEF BuildWritesOnlyItsOwn
  <2> QED BY <2>1, <2>2, <2>3
<1> QED BY <1>1, FlowInvariant, PTL

\* Every step of cargo-cage that changes the tree is a build's, after a
\* successful discovery; it changes nothing that was there, and what it
\* creates is inside a workspace that contains the caller's directory or
\* manifest, over whatever links the target is given, or where others have
\* made that workspace lead.
THEOREM CreatesOwn == Spec => CreatesInOwnWorkspace
<1>1. FlowInv /\ [Next]_vars => [MakesOnlyOwn]_vars
  BY StepKeeps
<1>2. MakesOnlyOwn <=>
        (fs' # fs /\ moves' = moves =>
           /\ inv.is = "cargo" /\ Len(runs) = 1 /\ runs[1].status = 0
           /\ Contains(found.workspace) /\ (moves = 0 => Workspace = found.workspace)
           /\ \A p \in DOMAIN fs : p \in DOMAIN fs' /\ fs'[p] = fs[p]
           /\ \A p \in DOMAIN fs' \ DOMAIN fs : Inside(p))
  BY DEF MakesOnlyOwn
<1> QED BY <1>1, <1>2, FlowInvariant, PTL DEF Spec, CreatesInOwnWorkspace

\* Whatever Cargo accepts on its command line, what a build is asked to read
\* from it in the sandbox is what its caller has written, for any command line
\* and wherever the build is started (rewrite_relative_cargo_paths, the loops
\* of manifest_path_arg and target_dir_arg, sandbox_current_dir).  A shared
\* target is where the caller's argument leads over whatever links there are,
\* until others change the tree (prepare_target_dir).
THEOREM MeaningInvariant == Spec => []MeaningInv
<1>1. Init => MeaningInv
  BY DEF Init, MeaningInv, Building
<1>2. FlowInv /\ MeaningInv /\ [Next]_vars => MeaningInv'
  <2>1. CASE Next
    BY <2>1, StepMeans
  <2>2. ASSUME FlowInv, MeaningInv, UNCHANGED vars PROVE MeaningInv'
    <3>1. UNCHANGED <<host, pc, inv, found, request, runs, moves>> /\ Undisturbed
      BY <2>2 DEF vars, Undisturbed, Links
    <3>2. Args' = Args /\ (Isolated' <=> Isolated) /\ (TargetLeads => TargetLeads')
      BY <3>1, SameScene, TargetStillLeads
    <3>3. \A r : MeansTheSame(r) => MeansTheSame(r)'
      BY <3>1, SameMeaning
    <3>4. (MeansTheSame(request) => MeansTheSame(request)') /\ (Building' <=> Building)
      <4>1. PICK r : r = request
        OBVIOUS
      <4>2. (MeansTheSame(r) => MeansTheSame(r)') /\ request' = r
        BY <3>1, <3>3, <4>1
      <4> QED BY <3>1, <4>1, <4>2 DEF MeansTheSame, Building
    <3>5. CargoSeesWhatWasMeant => CargoSeesWhatWasMeant'
      <4>1. PICK r : r = runs[2].request
        OBVIOUS
      <4>2. (MeansTheSame(r) => MeansTheSame(r)') /\ runs'[2].request = r
        BY <3>1, <3>3, <4>1
      <4>3. MeansTheSame(runs[2].request) => MeansTheSame(runs[2].request)'
        BY <4>1, <4>2 DEF MeansTheSame
      <4> QED BY <3>1, <3>2, <4>3 DEF CargoSeesWhatWasMeant, Built
    <3> QED BY <2>2, <3>1, <3>2, <3>4, <3>5 DEF MeaningInv, TargetLeads
  <2> QED BY <2>1, <2>2
<1> QED BY <1>1, <1>2, FlowInvariant, PTL DEF Spec

\* If Cargo accepts what the caller has written, it reads in the sandbox the
\* manifest and the arguments that the caller means, and the target that is
\* mounted; only an absolute target of a build without isolation is the
\* caller's own argument, which leads to what is mounted outside the sandbox
\* (rewrite_relative_cargo_paths, prepare_target_dir).
THEOREM CargoSeesTheSame == Spec => []CargoSeesWhatWasMeant
<1>1. FlowInv /\ MeaningInv => CargoSeesWhatWasMeant
  <2>1. CASE pc = "exited"
    BY <2>1 DEF MeaningInv
  <2>2. CASE pc # "exited"
    BY <2>2, NotYetBuilt DEF CargoSeesWhatWasMeant
  <2> QED BY <2>1, <2>2
<1> QED BY <1>1, FlowInvariant, MeaningInvariant, PTL
=============================================================================
