------------------------- MODULE TreeValidationProofs -------------------------
(***************************************************************************)
(* Theorems about TreeValidation, for every host, every set of trees to be *)
(* mounted and every order in which directories are read.                  *)
(***************************************************************************)
EXTENDS TreeValidationInv, FiniteSetTheorems, WellFoundedInduction, TLAPS

-----------------------------------------------------------------------------
(* Paths *)

LessThan == OpToRel(<, Nat)

\* A set of numbers has a least one.
LEMMA Least ==
  ASSUME NEW T, T \subseteq Nat, T # {}
  PROVE  \E m \in T : \A k \in T : m <= k
<1>1. \A x, y \in Nat : x < y => <<x, y>> \in LessThan
  BY DEF LessThan, OpToRel
<1>2. \E x \in T : \A y \in T : ~(<<y, x>> \in LessThan)
  <2>1. IsWellFoundedOn(LessThan, Nat)
    BY NatLessThanWellFounded DEF LessThan
  <2> QED BY <2>1, WFMin, Zenon
<1>3. PICK m \in T : \A y \in T : ~(<<y, m>> \in LessThan)
  BY <1>2
<1>4. ASSUME NEW k \in T PROVE m <= k
  <2>1. ~(k < m)
    BY <1>1, <1>3
  <2> QED BY <2>1
<1> QED BY <1>4

Path == Seq(STRING)

LEMMA PrefixReflexive ==
  ASSUME NEW p \in Path
  PROVE  StartsWith(p, p)
BY DEF StartsWith, Path

LEMMA PrefixTransitive ==
  ASSUME NEW p \in Path, NEW q \in Path, NEW r \in Path,
         StartsWith(p, q), StartsWith(q, r)
  PROVE  StartsWith(p, r)
BY DEF StartsWith, Path

\* Two beginnings of one path are the same if they are as long.
LEMMA PrefixOfLength ==
  ASSUME NEW p \in Path, NEW q \in Path, NEW r \in Path,
         StartsWith(p, q), StartsWith(p, r), Len(r) <= Len(q)
  PROVE  StartsWith(q, r) /\ (Len(r) = Len(q) => r = q)
<1>1. /\ Len(q) <= Len(p) /\ SubSeq(p, 1, Len(q)) = q
      /\ Len(r) <= Len(p) /\ SubSeq(p, 1, Len(r)) = r
      /\ Len(p) \in Nat /\ Len(q) \in Nat /\ Len(r) \in Nat
  BY DEF StartsWith, Path
<1>2. \A i \in 1..Len(q) : q[i] = p[i]
  BY <1>1 DEF Path
<1>3. \A i \in 1..Len(r) : r[i] = p[i]
  BY <1>1 DEF Path
<1>4. SubSeq(q, 1, Len(r)) = r
  <2>1. \A i \in 1..Len(r) : q[i] = r[i]
    BY <1>1, <1>2, <1>3
  <2> QED BY <1>1, <2>1 DEF Path
<1>5. Len(r) = Len(q) => r = q
  BY <1>1 DEF Path
<1> QED BY <1>1, <1>4, <1>5 DEF StartsWith

\* On the way from d down to p there is an entry of d.
LEMMA NextBelow ==
  ASSUME NEW p \in Path, NEW d \in Path, StartsWith(p, d), p # d
  PROVE  LET e == SubSeq(p, 1, Len(d) + 1) IN
         /\ e \in Path /\ e # << >> /\ Parent(e) = d /\ StartsWith(p, e) /\ StartsWith(e, d)
         /\ Len(e) \in 1..Len(p) /\ (Len(e) = Len(p) => e = p)
<1> DEFINE e == SubSeq(p, 1, Len(d) + 1)
<1>1. Len(d) < Len(p)
  <2>1. Len(d) <= Len(p) /\ SubSeq(p, 1, Len(d)) = d /\ Len(d) \in Nat /\ Len(p) \in Nat
    BY DEF StartsWith, Path
  <2>2. CASE Len(d) = Len(p)
    BY <2>1, <2>2 DEF Path
  <2> QED BY <2>1, <2>2
<1>2. /\ e \in Path /\ Len(e) = Len(d) + 1
      /\ \A i \in 1..(Len(d) + 1) : e[i] = p[i]
  BY <1>1 DEF Path
<1>3. Parent(e) = d
  <2>1. Len(e) - 1 = Len(d)
    BY <1>2 DEF Path
  <2>2. SubSeq(e, 1, Len(d)) = SubSeq(p, 1, Len(d))
    BY <1>1 DEF Path
  <2> HIDE DEF e
  <2> QED BY <2>1, <2>2 DEF Parent, StartsWith
<1>4. StartsWith(p, e) /\ StartsWith(e, d)
  <2>1. SubSeq(p, 1, Len(e)) = e
    BY <1>2
  <2>2. SubSeq(e, 1, Len(d)) = d
    BY <1>3, <1>2 DEF Parent, Path
  <2> HIDE DEF e
  <2> QED BY <1>1, <1>2, <2>1, <2>2 DEF StartsWith, Path
<1>5. Len(e) = Len(p) => e = p
  BY <1>1, <1>2 DEF Path
<1>6. e # << >> /\ Len(e) \in 1..Len(p)
  <2> HIDE DEF e
  <2> QED BY <1>1, <1>2 DEF Path
<1> HIDE DEF e
<1> QED BY <1>2, <1>3, <1>4, <1>5, <1>6 DEF e

-----------------------------------------------------------------------------
(* Hosts and requests *)

LEMMA PathsArePaths == Paths \subseteq Path /\ IsFiniteSet(Paths)
BY HostAssumption DEF Path

LEMMA Kinds ==
  ASSUME host \in Hosts, NEW p \in Paths
  PROVE  /\ host[p].kind \in {"absent", "dir", "file", "link", "special"}
         /\ host[p].kind = "absent" <=> host[p] = Absent
         /\ host[p].kind = "dir" <=> host[p] = Dir
         /\ host[p].kind = "file" => host[p] = File(host[p].ino)
<1>1. \/ host[p] \in {Absent, Dir, Special}
      \/ host[p] = File(host[p].ino) \/ host[p] = Link(host[p].to)
  BY HostAssumption
<1>2. CASE host[p] \in {Absent, Dir, Special}
  BY <1>2 DEF Absent, Dir, Special
<1>3. CASE host[p] = File(host[p].ino)
  BY <1>3 DEF Absent, Dir, File
<1>4. CASE host[p] = Link(host[p].to)
  BY <1>4 DEF Absent, Dir, Link
<1> QED BY <1>1, <1>2, <1>3, <1>4

\* Above what exists there are directories.
LEMMA DirsAbove ==
  ASSUME host \in Hosts, NEW p \in Paths, host[p] # Absent,
         NEW q \in Path, StartsWith(p, q)
  PROVE  q \in Paths /\ (q # p => host[q] = Dir)
<1>1. p \in Path
  BY PathsArePaths
<1>2. q = SubSeq(p, 1, Len(q)) /\ Len(q) \in 0..Len(p)
  BY <1>1 DEF StartsWith, Path
<1>3. CASE Len(q) = Len(p)
  <2>1. q = p
    BY <1>1, <1>2, <1>3 DEF Path
  <2> QED BY <2>1
<1>4. CASE Len(q) # Len(p)
  <2>1. Len(q) \in 0..(Len(p) - 1)
    BY <1>1, <1>2, <1>4 DEF Path
  <2>2. SubSeq(p, 1, Len(q)) \in Paths /\ host[SubSeq(p, 1, Len(q))] = Dir
    BY <2>1, HostAssumption
  <2> QED BY <1>2, <2>2
<1> QED BY <1>3, <1>4

LEMMA RequestTypes ==
  ASSUME request \in Requests
  PROVE  /\ request.writable \subseteq Paths /\ request.readOnly \subseteq Paths
         /\ request.caches \subseteq Paths
         /\ \A t \in Trees(request) : t.root \in Paths
<1>1. /\ request.writable \subseteq Paths /\ request.readOnly \subseteq Paths
      /\ request.caches \subseteq Paths
  BY HostAssumption
<1> QED BY <1>1 DEF Trees, Tree, unique_mount_roots

\* What is excluded stays excluded further down.
LEMMA ExcludedBelow ==
  ASSUME request \in Requests, NEW t, NEW p \in Path, NEW q \in Path,
         StartsWith(p, q), IsExcluded(q, t)
  PROVE  IsExcluded(p, t)
<1>1. PICK w \in Excluded(t) : StartsWith(q, w)
  BY DEF IsExcluded
<1>2. w \in Path
  BY RequestTypes, PathsArePaths DEF Excluded
<1>3. StartsWith(p, w)
  BY <1>2, <1>1, PrefixTransitive
<1> QED BY <1>3 DEF IsExcluded

\* Below a read-only path there is one that is mounted for it.
LEMMA CoveringRoot ==
  ASSUME request \in Requests, NEW p \in Paths, Below(p, request.readOnly)
  PROVE  \E r \in unique_mount_roots(request.readOnly) : StartsWith(p, r)
<1> DEFINE above == {q \in request.readOnly : StartsWith(p, q)}
<1> DEFINE T == {Len(q) : q \in above}
<1>1. above \subseteq Path /\ above # {} /\ p \in Path
  BY RequestTypes, PathsArePaths DEF Below
<1>2. PICK n \in T : \A k \in T : n <= k
  <2>1. T \subseteq Nat /\ T # {}
    <3>1. \A q \in above : Len(q) \in Nat
      BY <1>1 DEF Path
    <3> HIDE DEF above
    <3> QED BY <1>1, <3>1
  <2> HIDE DEF T
  <2> QED BY <2>1, Least
<1>3. PICK r \in above : Len(r) = n
  <2> HIDE DEF above
  <2> QED OBVIOUS
<1>4. ASSUME NEW q \in request.readOnly \ {r}, StartsWith(r, q)
      PROVE  FALSE
  <2>1. q \in Path /\ r \in Path
    BY <1>1, RequestTypes, PathsArePaths
  <2>2. StartsWith(p, q)
    BY <1>1, <1>3, <1>4, <2>1, PrefixTransitive
  <2>3. Len(r) <= Len(q)
    BY <1>2, <1>3, <2>2
  <2>4. Len(q) <= Len(r) /\ Len(q) \in Nat /\ Len(r) \in Nat
    BY <1>4, <2>1 DEF StartsWith, Path
  <2>5. q = r
    BY <1>1, <1>3, <2>1, <2>2, <2>3, <2>4, PrefixOfLength
  <2> QED BY <1>4, <2>5
<1> QED BY <1>3, <1>4 DEF unique_mount_roots

-----------------------------------------------------------------------------
(* The walk *)

\* Names of a file: what hard links are counted for.
NamesOf(i) == {p \in Paths : host[p].kind = "file" /\ host[p].ino = i}
Found(i)   == {p \in files : host[p].ino = i}

\* The counts agree exactly when the walk has found every name.
LEMMA CountsAgree ==
  ASSUME WalkInv, NEW i
  PROVE  Nlink(i) = Count(i) <=> Found(i) = NamesOf(i)
<1>1. IsFiniteSet(NamesOf(i))
  BY PathsArePaths, FS_Subset DEF NamesOf
<1>2. Found(i) \subseteq NamesOf(i)
  BY DEF WalkInv, Found, NamesOf, Subjects
<1>3. Cardinality(Found(i)) = Cardinality(NamesOf(i)) <=> Found(i) = NamesOf(i)
  BY <1>1, <1>2, FS_Subset
<1> QED BY <1>3 DEF Nlink, Count, Found, NamesOf

\* When nothing is ahead and every name has been found, the tree is clean.
LEMMA WalkEndsClean ==
  ASSUME ValidationInv, phase = "walk", dirs = {}, entries = {}, NoAliasOutside
  PROVE  Clean(tree)
<1>1. RootFits(tree) /\ WalkInv /\ host \in Hosts
  BY DEF ValidationInv
<1>2. ASSUME NEW p \in Subjects(tree)
      PROVE  Harmless(tree, p)
  <2>1. Passed(p) /\ p \in Paths
    BY <1>1, <1>2 DEF WalkInv, Ahead, Subjects
  <2>2. CASE host[p].kind = "file"
    <3>1. p \in files
      BY <2>1, <2>2 DEF Passed
    <3>2. Found(host[p].ino) = NamesOf(host[p].ino)
      BY <1>1, <3>1, CountsAgree DEF NoAliasOutside
    <3>3. ASSUME NEW q \in Paths, SameFile(p, q)
          PROVE  StartsWith(q, tree.root) /\ ~IsExcluded(q, tree)
      <4>1. q \in NamesOf(host[p].ino)
        BY <3>3 DEF SameFile, NamesOf
      <4>2. q \in files
        BY <3>2, <4>1 DEF Found
      <4> QED BY <1>1, <4>2 DEF WalkInv, Subjects
    <3> QED BY <2>2, <3>3 DEF Harmless
  <2>3. CASE host[p].kind = "link"
    <3>1. LinkAllowed(p)
      BY <2>1, <2>3 DEF Passed
    <3> QED BY <2>3, <3>1 DEF Harmless, LinkAllowed
  <2>4. CASE host[p].kind \notin {"file", "link"}
    BY <2>1, <2>4 DEF Passed, Harmless
  <2> QED BY <2>2, <2>3, <2>4
<1> QED BY <1>1, <1>2 DEF Clean

\* When a name has not been found, the tree has a file that is not harmless.
LEMMA AliasIsCause ==
  ASSUME ValidationInv, phase = "walk", dirs = {}, entries = {}, ~NoAliasOutside
  PROVE  ~Mountable(tree)
<1>1. WalkInv /\ host \in Hosts
  BY DEF ValidationInv
<1>2. PICK p \in files : Nlink(host[p].ino) # Count(host[p].ino)
  BY DEF NoAliasOutside
<1>3. p \in Subjects(tree) /\ host[p].kind = "file" /\ p \in Paths
  BY <1>1 DEF WalkInv, Subjects
<1>4. PICK q \in NamesOf(host[p].ino) : q \notin Found(host[p].ino)
  <2>1. Found(host[p].ino) # NamesOf(host[p].ino)
    BY <1>1, <1>2, CountsAgree
  <2>2. Found(host[p].ino) \subseteq NamesOf(host[p].ino)
    BY <1>1 DEF WalkInv, Found, NamesOf, Subjects
  <2> QED BY <2>1, <2>2
<1>5. q \in Paths /\ host[q].kind = "file" /\ host[q].ino = host[p].ino /\ q \notin files
  BY <1>4 DEF NamesOf, Found
<1>6. SameFile(p, q)
  <2>1. host[q] = File(host[q].ino) /\ host[p] = File(host[p].ino)
    BY <1>1, <1>3, <1>5, Kinds
  <2> QED BY <1>3, <1>5, <2>1 DEF SameFile
<1>7. SUFFICES ASSUME Mountable(tree) PROVE FALSE
  OBVIOUS
<1>8. StartsWith(q, tree.root) /\ ~IsExcluded(q, tree)
  <2>1. Harmless(tree, p)
    BY <1>3, <1>7 DEF Mountable, Subjects
  <2> QED BY <1>3, <1>5, <1>6, <2>1 DEF Harmless
<1>9. q \in Subjects(tree)
  BY <1>1, <1>5, <1>8, Kinds DEF Subjects
<1> QED BY <1>1, <1>5, <1>9 DEF WalkInv, Passed, Ahead

-----------------------------------------------------------------------------
(* The steps *)

\* A step that keeps host and request keeps what is said of them.
Steady == UNCHANGED <<host, request>>

LEMMA SteadyFacts ==
  ASSUME Steady
  PROVE  /\ \A t : (RootFits(t)' <=> RootFits(t)) /\ (Mountable(t)' <=> Mountable(t))
         /\ \A t : Subjects(t)' = Subjects(t) /\ (Clean(t)' <=> Clean(t))
         /\ \A p, t : IsExcluded(p, t)' <=> IsExcluded(p, t)
         /\ Trees(request)' = Trees(request)
<1>1. \A p : Resolves(p)' <=> Resolves(p)
  BY DEF Steady, Resolves, Final
<1>2. \A p : Final(p)' = Final(p)
  BY DEF Steady, Final
<1>3. \A p, t : IsExcluded(p, t)' <=> IsExcluded(p, t)
  BY DEF Steady, IsExcluded, Excluded
<1>4. \A t, p : Harmless(t, p)' <=> Harmless(t, p)
  BY <1>1, <1>2, <1>3 DEF Steady, Harmless, SameFile
<1>5. \A t : RootFits(t)' <=> RootFits(t)
  BY DEF Steady, RootFits
<1>6. \A t : Subjects(t)' = Subjects(t)
  BY <1>3 DEF Steady, Subjects
<1>7. \A t : Mountable(t)' <=> Mountable(t)
  BY <1>3, <1>4 DEF Steady, Mountable
<1>8. \A t : Clean(t)' <=> Clean(t)
  BY <1>4, <1>5, <1>6 DEF Clean
<1> QED BY <1>3, <1>5, <1>6, <1>7, <1>8 DEF Steady

\* A step that leaves the walked trees as they are, and refuses nothing
\* without a cause, keeps the rest of the invariant.
LEMMA StepFine ==
  ASSUME ValidationInv, Steady,
         phase' \in {"next", "root", "walk", "accepted", "refused"},
         todo' \subseteq todo,
         phase' \in {"next", "root"} => entries' = {},
         phase' \in {"root", "walk"} => tree' \in Trees(request),
         phase' = "walk" => RootFits(tree)' /\ WalkInv',
         phase' # "refused" => \A t \in Behind' : t \in Behind \/ Clean(t),
         phase' = "accepted" => todo' = {},
         phase' = "refused" => phase = "refused" \/ \E t \in Trees(request) : ~Mountable(t),
         phase = "refused" => phase' = "refused"
  PROVE  ValidationInv'
<1>1. \A t : Clean(t)' <=> Clean(t)
  BY SteadyFacts
<1>2. RefusedForCause'
  BY SteadyFacts DEF ValidationInv, RefusedForCause
<1>3. phase' # "refused" => \A t \in Behind' : Clean(t)'
  <2>1. SUFFICES ASSUME phase' # "refused", NEW t \in Behind' PROVE Clean(t)
    BY <1>1
  <2> QED BY <2>1 DEF ValidationInv
<1>4. Trees(request)' = Trees(request)
  BY SteadyFacts
<1> QED BY <1>2, <1>3, <1>4 DEF ValidationInv, Steady

LEMMA NextTreeFine ==
  ASSUME ValidationInv, NextTree
  PROVE  ValidationInv'
<1>1. Steady /\ phase = "next" /\ entries' = entries /\ entries = {}
  BY DEF NextTree, Steady, ValidationInv
<1>2. Trees(request)' = Trees(request)
  BY <1>1, SteadyFacts
<1>3. CASE todo = {} /\ phase' = "accepted" /\ UNCHANGED <<todo, tree>>
  <2>1. Behind' \subseteq Behind
    BY <1>1, <1>2, <1>3 DEF Behind
  <2> QED BY <1>1, <1>3, <2>1, StepFine
<1>4. ASSUME NEW t \in todo, tree' = t, todo' = todo \ {t}, phase' = "root"
      PROVE  ValidationInv'
  <2>1. Behind' \subseteq Behind
    BY <1>1, <1>2, <1>4 DEF Behind
  <2>2. t \in Trees(request)
    BY DEF ValidationInv
  <2> QED BY <1>1, <1>4, <2>1, <2>2, StepFine
<1> QED BY <1>3, <1>4 DEF NextTree

LEMMA OpenRootFine ==
  ASSUME ValidationInv, OpenRoot
  PROVE  ValidationInv'
<1>1. /\ Steady /\ phase = "root" /\ entries = {} /\ tree \in Trees(request)
      /\ host \in Hosts /\ request \in Requests
  BY DEF OpenRoot, Steady, ValidationInv
<1>2. /\ Trees(request)' = Trees(request)
      /\ \A t : (RootFits(t)' <=> RootFits(t)) /\ Subjects(t)' = Subjects(t)
  BY <1>1, SteadyFacts
<1>3. tree.root \in Paths /\ tree.root \in Path /\ StartsWith(tree.root, tree.root)
  BY <1>1, RequestTypes, PathsArePaths, PrefixReflexive
<1>4. ASSUME UNCHANGED <<todo, tree, entries>>, phase' = "walk",
             RootFits(tree), WalkInv'
      PROVE  ValidationInv'
  <2>1. Behind' \subseteq Behind
    BY <1>1, <1>2, <1>4 DEF Behind
  <2> QED BY <1>1, <1>2, <1>4, <2>1, StepFine
<1>5. CASE /\ host[tree.root].kind = "file" /\ tree.kind = "writable"
           /\ files' = {tree.root} /\ dirs' = {} /\ phase' = "walk"
           /\ UNCHANGED <<todo, tree, entries>>
  <2>1. RootFits(tree)
    BY <1>5 DEF RootFits
  <2>2. host[tree.root] # Absent /\ host[tree.root] # Dir
    BY <1>1, <1>3, <1>5, Kinds
  <2>3. tree.root \in Subjects(tree)
    BY <1>3, <1>5, <2>2 DEF Subjects, IsExcluded, Excluded
  <2>4. ASSUME NEW p \in Subjects(tree)
        PROVE  p = tree.root
    <3>1. p \in Paths /\ host[p] # Absent /\ StartsWith(p, tree.root)
      BY DEF Subjects
    <3> QED BY <1>1, <1>3, <2>2, <3>1, DirsAbove
  <2>5. WalkInv'
    BY <1>1, <1>2, <1>5, <2>3, <2>4 DEF WalkInv, Passed, Steady
  <2> QED BY <1>4, <1>5, <2>1, <2>5
<1>6. CASE /\ host[tree.root] = Dir
           /\ dirs' = {tree.root} /\ files' = {} /\ phase' = "walk"
           /\ UNCHANGED <<todo, tree, entries>>
  <2>1. RootFits(tree)
    BY <1>6 DEF RootFits
  <2>2. ASSUME NEW p \in Subjects(tree)
        PROVE  (Passed(p) \/ Ahead(p))'
    <3>1. p \in Paths /\ StartsWith(p, tree.root)
      BY DEF Subjects
    <3>2. CASE p = tree.root
      BY <1>1, <1>6, <3>2 DEF Passed, Dir, Steady
    <3>3. CASE p # tree.root
      BY <1>6, <3>1, <3>3 DEF Ahead
    <3> QED BY <3>2, <3>3
  <2>3. WalkInv'
    BY <1>1, <1>2, <1>3, <1>6, <2>2 DEF WalkInv
  <2> QED BY <1>4, <1>6, <2>1, <2>3
<1>7. CASE /\ ~(host[tree.root].kind = "file" /\ tree.kind = "writable")
           /\ ~(host[tree.root] = Dir /\ ~NestedMount)
           /\ Refuse
  <2>1. ~Mountable(tree)
    BY <1>7 DEF Mountable, NestedMount
  <2>2. phase' = "refused" /\ todo' = todo
    BY <1>7 DEF Refuse
  <2> QED BY <1>1, <2>1, <2>2, StepFine
<1> QED BY <1>5, <1>6, <1>7 DEF OpenRoot

\* What keeps walking the same tree keeps everything but the walk itself.
LEMMA WalksOn ==
  ASSUME ValidationInv, Steady, phase = "walk", phase' = "walk",
         UNCHANGED <<todo, tree>>, WalkInv'
  PROVE  ValidationInv'
<1>1. tree \in Trees(request) /\ RootFits(tree)
  BY DEF ValidationInv
<1>2. Trees(request)' = Trees(request) /\ RootFits(tree)'
  <2>1. \A t : RootFits(t)' <=> RootFits(t)
    BY SteadyFacts
  <2> QED BY <1>1, <2>1, SteadyFacts
<1>3. Behind' \subseteq Behind
  BY <1>2 DEF Behind
<1> QED BY <1>1, <1>2, <1>3, StepFine

\* What has been found to be in order stays so while the same files are known.
LEMMA PassedOn ==
  ASSUME Steady, tree' = tree, files \subseteq files', NEW p, Passed(p)
  PROVE  Passed(p)'
<1>1. LinkAllowed(p)' <=> LinkAllowed(p)
  BY DEF LinkAllowed, Resolves, Final, Steady
<1> QED BY <1>1 DEF Passed, Steady

LEMMA ReadDirectoryFine ==
  ASSUME ValidationInv, ReadDirectory
  PROVE  ValidationInv'
<1>1. /\ Steady /\ phase = "walk" /\ phase' = "walk" /\ entries = {}
      /\ UNCHANGED <<todo, tree, files>>
      /\ WalkInv /\ host \in Hosts /\ tree \in Trees(request) /\ request \in Requests
  BY DEF ReadDirectory, Steady, ValidationInv
<1>2. PICK d \in dirs : dirs' = dirs \ {d} /\ entries' = Children(d)
  BY DEF ReadDirectory
<1>3. Subjects(tree)' = Subjects(tree)
  <2>1. \A t : Subjects(t)' = Subjects(t)
    BY <1>1, SteadyFacts
  <2> QED BY <1>1, <2>1
<1>4. /\ tree.root \in Path
      /\ \A q \in Paths : q \in Path
      /\ d \in Path /\ StartsWith(d, tree.root)
  BY <1>1, <1>2, RequestTypes, PathsArePaths DEF WalkInv
<1>5. entries' \subseteq {p \in Paths : host[p] # Absent /\ StartsWith(p, tree.root)}
  <2>1. SUFFICES ASSUME NEW p \in Paths, p # << >>, Parent(p) = d, host[p] # Absent
                 PROVE  StartsWith(p, tree.root)
    BY <1>2 DEF Children
  <2>2. StartsWith(p, d)
    <3>1. Len(p) \in Nat \ {0} /\ d = SubSeq(p, 1, Len(p) - 1) /\ p \in Path
      BY <1>4, <2>1 DEF Parent, Path
    <3>2. Len(d) = Len(p) - 1
      <4>1. PICK k \in Nat : k = Len(p) - 1
        BY <3>1
      <4>2. k \in 0..Len(p)
        BY <3>1, <4>1
      <4>3. Len(SubSeq(p, 1, k)) = k
        BY <3>1, <4>2 DEF Path
      <4> QED BY <3>1, <4>1, <4>3
    <3> QED BY <3>1, <3>2 DEF StartsWith
  <2> QED BY <1>4, <2>2, PrefixTransitive
<1>6. ASSUME NEW p \in Subjects(tree)
      PROVE  (Passed(p) \/ Ahead(p))'
  <2>1. p \in Paths /\ host[p] # Absent /\ p \in Path
    BY <1>4 DEF Subjects
  <2>2. CASE Passed(p)
    BY <1>1, <2>2, PassedOn
  <2>3. CASE \E c \in dirs \ {d} : StartsWith(p, c) /\ p # c
    BY <1>2, <2>3 DEF Ahead
  <2>4. CASE StartsWith(p, d) /\ p # d
    <3> DEFINE e == SubSeq(p, 1, Len(d) + 1)
    <3>1. /\ e \in Path /\ e # << >> /\ Parent(e) = d /\ StartsWith(p, e)
          /\ Len(e) \in 1..Len(p)
      BY <1>4, <2>1, <2>4, NextBelow
    <3> HIDE DEF e
    <3>2. e \in Paths /\ (e # p => host[e] = Dir)
      BY <1>1, <2>1, <3>1, DirsAbove
    <3>3. e \in Children(d)
      BY <2>1, <3>1, <3>2 DEF Children, Dir, Absent
    <3> QED BY <1>2, <3>1, <3>3 DEF Ahead
  <2> QED BY <1>1, <2>2, <2>3, <2>4 DEF WalkInv, Ahead
<1>7. WalkInv'
  BY <1>1, <1>2, <1>3, <1>5, <1>6 DEF WalkInv, Steady
<1> QED BY <1>1, <1>7, WalksOn

LEMMA VisitEntryFine ==
  ASSUME ValidationInv, VisitEntry
  PROVE  ValidationInv'
<1>1. /\ Steady /\ phase = "walk" /\ tree \in Trees(request)
      /\ WalkInv /\ host \in Hosts /\ request \in Requests
  BY DEF VisitEntry, Steady, ValidationInv
<1>2. PICK e \in entries :
        LET node == host[e]
            skip == IsExcluded(e, tree) \/ (node.kind = "link" /\ LinkAllowed(e))
        IN
        \/ /\ skip \/ node.kind \in {"dir", "file"}
           /\ entries' = entries \ {e}
           /\ dirs'  = IF ~skip /\ node.kind = "dir" THEN dirs \cup {e} ELSE dirs
           /\ files' = IF ~skip /\ node.kind = "file" THEN files \cup {e} ELSE files
           /\ UNCHANGED <<todo, tree, phase>>
        \/ ~skip /\ node.kind \notin {"dir", "file"} /\ Refuse
  BY DEF VisitEntry
<1> DEFINE skip == IsExcluded(e, tree) \/ (host[e].kind = "link" /\ LinkAllowed(e))
<1>3. /\ e \in Paths /\ host[e] # Absent /\ StartsWith(e, tree.root)
      /\ \A q \in Paths : q \in Path
  BY <1>1, PathsArePaths DEF WalkInv
<1>4. CASE ~skip /\ host[e].kind \notin {"dir", "file"} /\ Refuse
  <2>1. host[e].kind \in {"link", "special"}
    BY <1>1, <1>3, <1>4, Kinds
  <2>2. ~Harmless(tree, e)
    BY <1>4, <2>1 DEF Harmless, LinkAllowed
  <2>3. ~Mountable(tree)
    BY <1>3, <1>4, <2>2 DEF Mountable
  <2>4. phase' = "refused" /\ todo' = todo
    BY <1>4 DEF Refuse
  <2> QED BY <1>1, <2>3, <2>4, StepFine
<1>5. CASE /\ skip \/ host[e].kind \in {"dir", "file"}
           /\ entries' = entries \ {e}
           /\ dirs'  = IF ~skip /\ host[e].kind = "dir" THEN dirs \cup {e} ELSE dirs
           /\ files' = IF ~skip /\ host[e].kind = "file" THEN files \cup {e} ELSE files
           /\ UNCHANGED <<todo, tree, phase>>
  <2>1. /\ files \subseteq files' /\ dirs \subseteq dirs'
        /\ dirs' \subseteq dirs \cup {e} /\ files' \subseteq files \cup {e}
        /\ e \in files' => e \in files \/ (~skip /\ host[e].kind = "file")
    <3> HIDE DEF skip
    <3> QED BY <1>5
  <2>2. Subjects(tree)' = Subjects(tree)
    <3>1. \A t : Subjects(t)' = Subjects(t)
      BY <1>1, SteadyFacts
    <3> QED BY <1>5, <3>1
  <2>3. files' \subseteq {p \in Subjects(tree) : host[p].kind = "file"}
    <3>1. ~skip => e \in Subjects(tree)
      BY <1>3 DEF Subjects
    <3> HIDE DEF skip
    <3> QED BY <1>1, <2>1, <3>1 DEF WalkInv
  <2>4. ASSUME NEW p \in Subjects(tree)
        PROVE  (Passed(p) \/ Ahead(p))'
    <3>1. /\ p \in Paths /\ host[p] # Absent /\ ~IsExcluded(p, tree)
          /\ StartsWith(p, tree.root) /\ p \in Path /\ e \in Path
      BY <1>3 DEF Subjects
    <3>2. CASE Passed(p)
      BY <1>1, <1>5, <2>1, <3>2, PassedOn
    <3>3. CASE \E d \in dirs : StartsWith(p, d) /\ p # d
      BY <2>1, <3>3 DEF Ahead
    <3>4. CASE \E c \in entries \ {e} : StartsWith(p, c)
      BY <1>5, <3>4 DEF Ahead
    <3>5. CASE p = e
      <4>1. CASE skip
        <5>1. host[p].kind = "link" /\ LinkAllowed(p)
          BY <3>1, <3>5, <4>1
        <5>2. Passed(p)
          BY <5>1 DEF Passed
        <5> QED BY <1>1, <1>5, <2>1, <5>2, PassedOn
      <4>2. CASE ~skip
        <5>1. host[p].kind \in {"dir", "file"}
          BY <1>5, <3>5, <4>2
        <5>2. host[p].kind = "file" => p \in files'
          <6> HIDE DEF skip
          <6> QED BY <1>5, <3>5, <4>2
        <5> QED BY <1>1, <5>1, <5>2 DEF Passed, Steady
      <4> QED BY <4>1, <4>2
    <3>6. CASE StartsWith(p, e) /\ p # e
      <4>1. host[e] = Dir
        BY <1>1, <3>1, <3>6, DirsAbove
      <4>2. ~IsExcluded(e, tree)
        BY <1>1, <3>1, <3>6, ExcludedBelow
      <4>3. ~skip /\ host[e].kind = "dir"
        BY <4>1, <4>2 DEF Dir
      <4>4. e \in dirs'
        <5> HIDE DEF skip
        <5> QED BY <1>5, <4>3
      <4> QED BY <3>6, <4>4 DEF Ahead
    <3> QED BY <1>1, <3>2, <3>3, <3>4, <3>5, <3>6 DEF WalkInv, Ahead
  <2>5. WalkInv'
    <3>1. dirs' \subseteq {p \in Paths : StartsWith(p, tree.root)}
      BY <1>1, <1>3, <2>1 DEF WalkInv
    <3>2. entries' \subseteq entries /\ tree' = tree /\ host' = host
      BY <1>1, <1>5 DEF Steady
    <3> HIDE DEF skip
    <3> QED BY <1>1, <2>2, <2>3, <2>4, <3>1, <3>2 DEF WalkInv
  <2> QED BY <1>1, <1>5, <2>5, WalksOn
<1> QED BY <1>2, <1>4, <1>5

LEMMA EndWalkFine ==
  ASSUME ValidationInv, EndWalk
  PROVE  ValidationInv'
<1>1. /\ Steady /\ phase = "walk" /\ dirs = {} /\ entries = {}
      /\ tree \in Trees(request)
  BY DEF EndWalk, Steady, ValidationInv
<1>2. CASE NoAliasOutside /\ phase' = "next" /\ UNCHANGED <<todo, tree, entries>>
  <2>1. Clean(tree)
    BY <1>1, <1>2, WalkEndsClean
  <2>2. Behind' \subseteq Behind \cup {tree}
    <3>1. Trees(request)' = Trees(request)
      BY <1>1, SteadyFacts
    <3> QED BY <1>1, <1>2, <3>1 DEF Behind
  <2> QED BY <1>1, <1>2, <2>1, <2>2, StepFine
<1>3. CASE ~NoAliasOutside /\ Refuse
  <2>1. ~Mountable(tree)
    BY <1>1, <1>3, AliasIsCause
  <2>2. phase' = "refused" /\ todo' = todo
    BY <1>3 DEF Refuse
  <2> QED BY <1>1, <2>1, <2>2, StepFine
<1> QED BY <1>2, <1>3 DEF EndWalk

LEMMA StepKeeps ==
  ASSUME ValidationInv, [Next]_vars
  PROVE  ValidationInv'
<1>1. CASE UNCHANGED vars
  <2>1. Steady /\ UNCHANGED <<todo, tree, dirs, entries, files, phase>>
    BY <1>1 DEF vars, Steady
  <2>2. \A p : Passed(p)' <=> Passed(p)
    BY <2>1 DEF Passed, LinkAllowed, Resolves, Final, Steady
  <2>3. WalkInv' <=> WalkInv
    BY <2>1, <2>2, SteadyFacts DEF WalkInv, Ahead, Steady
  <2>4. Behind' = Behind
    BY <2>1 DEF Behind, Trees, Steady
  <2>5. RootFits(tree)' <=> RootFits(tree)
    BY <2>1 DEF RootFits, Steady
  <2> QED BY <2>1, <2>3, <2>4, <2>5, StepFine DEF ValidationInv, RefusedForCause
<1> QED BY <1>1, NextTreeFine, OpenRootFine, ReadDirectoryFine, VisitEntryFine, EndWalkFine
        DEF Next

-----------------------------------------------------------------------------
(* What clean trees mean *)

LEMMA CleanWrites ==
  ASSUME host \in Hosts, request \in Requests, \A t \in Trees(request) : Clean(t)
  PROVE  WritesStayInside
<1> SUFFICES ASSUME NEW w \in request.writable, NEW p \in Paths, NEW q \in Paths,
                    StartsWith(p, w), SameFile(p, q)
             PROVE  StartsWith(q, w)
  BY DEF WritesStayInside
<1> DEFINE t == Tree(w, "writable")
<1>1. t \in Trees(request) /\ t.root = w /\ t.kind = "writable"
  BY DEF Trees, Tree
<1>2. p \in Subjects(t)
  BY <1>1, Kinds DEF Subjects, SameFile, IsExcluded, Excluded
<1>3. Harmless(t, p)
  BY <1>1, <1>2 DEF Clean
<1> QED BY <1>1, <1>3 DEF Harmless, SameFile

\* A symbolic link in a writable tree would have been refused.
LEMMA NoLinkInWritable ==
  ASSUME host \in Hosts, request \in Requests, \A t \in Trees(request) : Clean(t),
         NEW p \in Paths, host[p].kind = "link"
  PROVE  ~Below(p, request.writable)
<1> SUFFICES ASSUME NEW w \in request.writable, StartsWith(p, w)
             PROVE  FALSE
  BY DEF Below
<1> DEFINE t == Tree(w, "writable")
<1>1. t \in Trees(request) /\ t.root = w /\ t.kind = "writable"
  BY DEF Trees, Tree
<1>2. p \in Subjects(t)
  BY <1>1, Kinds DEF Subjects, IsExcluded, Excluded
<1>3. Harmless(t, p)
  BY <1>1, <1>2 DEF Clean
<1> QED BY <1>1, <1>3 DEF Harmless

LEMMA CleanReads ==
  ASSUME host \in Hosts, request \in Requests, \A t \in Trees(request) : Clean(t)
  PROVE  ReadsStayInside
<1>1. ASSUME NEW p \in Paths, Below(p, request.readOnly), ~Below(p, request.writable),
             host[p] # Absent
      PROVE  \E t \in Trees(request) :
               t.kind = "readOnly" /\ t.root \in request.readOnly /\ Harmless(t, p)
  <2>1. PICK r \in unique_mount_roots(request.readOnly) : StartsWith(p, r)
    BY <1>1, CoveringRoot
  <2> DEFINE t == Tree(r, "readOnly")
  <2>2. t \in Trees(request) /\ t.root = r /\ t.kind = "readOnly"
    BY DEF Trees, Tree
  <2>3. r \in request.readOnly
    BY DEF unique_mount_roots
  <2>4. p \in Subjects(t)
    BY <1>1, <2>1, <2>2 DEF Subjects, IsExcluded, Excluded, Below
  <2>5. Harmless(t, p)
    BY <2>2, <2>4 DEF Clean
  <2> HIDE DEF t
  <2> QED BY <2>2, <2>3, <2>5
<1>2. ASSUME NEW p \in Paths, NEW q \in Paths, Below(p, request.readOnly),
             ~Below(p, request.writable), SameFile(p, q)
      PROVE  Below(q, request.readOnly) /\ ~Below(q, request.writable)
  <2>1. host[p] # Absent /\ host[p].kind = "file"
    BY <1>2, Kinds DEF SameFile
  <2>2. PICK t \in Trees(request) :
               t.kind = "readOnly" /\ t.root \in request.readOnly /\ Harmless(t, p)
    BY <1>1, <1>2, <2>1
  <2>3. StartsWith(q, t.root) /\ ~IsExcluded(q, t)
    BY <1>2, <2>1, <2>2 DEF Harmless
  <2> QED BY <2>2, <2>3 DEF Below, IsExcluded, Excluded
<1>3. ASSUME NEW p \in Paths, Below(p, request.readOnly), host[p].kind = "link"
      PROVE  Resolves(p) /\ Below(Final(p), request.readOnly)
  <2>1. host[p] # Absent /\ ~Below(p, request.writable)
    BY <1>3, NoLinkInWritable, Kinds
  <2>2. PICK t \in Trees(request) :
               t.kind = "readOnly" /\ t.root \in request.readOnly /\ Harmless(t, p)
    BY <1>1, <1>3, <2>1
  <2> QED BY <1>3, <2>2 DEF Harmless, Below
<1>4. ASSUME NEW c \in request.caches, NEW p \in Paths, NEW q \in Paths, StartsWith(p, c)
      PROVE  /\ host[p].kind \in {"absent", "dir", "file"}
             /\ SameFile(p, q) => StartsWith(q, c)
  <2> DEFINE t == Tree(c, "cache")
  <2>1. t \in Trees(request) /\ t.root = c /\ t.kind = "cache"
    BY DEF Trees, Tree
  <2>2. CASE host[p] = Absent
    BY <2>2 DEF Absent, SameFile
  <2>3. CASE host[p] # Absent
    <3>1. p \in Subjects(t)
      BY <1>4, <2>1, <2>3 DEF Subjects, IsExcluded, Excluded
    <3>2. Harmless(t, p)
      BY <2>1, <3>1 DEF Clean
    <3>3. host[p].kind \in {"absent", "dir", "file", "link", "special"}
      BY Kinds
    <3> QED BY <2>1, <3>2, <3>3 DEF Harmless, SameFile
  <2> QED BY <2>2, <2>3
<1> QED BY <1>2, <1>3, <1>4 DEF ReadsStayInside

\* How far a walk has come, and what the walks that are over have established
\* (validate_tree, validate_hardlink_aliases).
THEOREM ValidationInvariant == Spec => []ValidationInv
<1>1. Init => ValidationInv
  <2> SUFFICES ASSUME Init PROVE ValidationInv
    OBVIOUS
  <2>1. Behind = {}
    BY DEF Init, Behind
  <2> QED BY <2>1 DEF Init, ValidationInv, RefusedForCause
<1> QED BY <1>1, StepKeeps, PTL DEF Spec

\* After every accepted validation what can be changed through a writable mount
\* has no name outside it, and what can be read through a read-only mount or a
\* cache belongs there, in whatever order the directories were read.
THEOREM AccessAlwaysInside == Spec => []AccessStaysInside
<1>1. ValidationInv => AccessStaysInside
  <2>1. SUFFICES ASSUME ValidationInv, phase = "accepted"
                 PROVE  WritesStayInside /\ ReadsStayInside
    BY DEF AccessStaysInside
  <2>2. \A t \in Trees(request) : Clean(t)
    BY <2>1 DEF ValidationInv, Behind
  <2> QED BY <2>1, <2>2, CleanWrites, CleanReads DEF ValidationInv
<1> QED BY <1>1, ValidationInvariant, PTL

\* Nothing is refused but a request with a tree that is not harmless.
THEOREM RefusalsHaveCause == Spec => []RefusedForCause
<1>1. ValidationInv => RefusedForCause
  BY DEF ValidationInv
<1> QED BY <1>1, ValidationInvariant, PTL
=============================================================================
