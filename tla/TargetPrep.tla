------------------------------ MODULE TargetPrep ------------------------------
(***************************************************************************)
(* How cargo-cage makes the two places a build may write to: the target    *)
(* directory (prepare_target_dir, prepare_fresh_target_dir) and Cargo.lock *)
(* (prepare_lockfile), up to the moment the backend has validated them by  *)
(* name and holds a descriptor for each.                                   *)
(*                                                                         *)
(* Several cargo-cage processes work in one workspace, and other programs  *)
(* (a native Cargo, its user) change it in between.  tree maps every path  *)
(* that exists to what is there.  A path is the sequence of its            *)
(* components; a symbolic link is given by the canonical path it leads to. *)
(* Each system call that changes the tree is a step of its own, and so is  *)
(* the inspection before it.                                               *)
(***************************************************************************)
EXTENDS Integers, Sequences, FiniteSets

CONSTANTS
  Names,         (* what a path component can be                            *)
  Workspace,     (* the workspace, a canonical path                         *)
  RunNames,      (* RunNames[k][i]: the i-th run name tried with key k, where
                    a key is the clock, the process and the sequence number *)
  Scenes         (* who works in the workspace.  A scene has
                    procs, trees       cargo-cage processes, and what they find
                    requests           target directories they may be asked for
                    reuse              the modes: TRUE is --reuse-target
                    keys               the keys their run names are made of
                    deeds              what other programs do: "remove",
                                       "create", "link" and "name",
                    places, targets    where, and where their links lead
                    moves              bound on the changes they make       *)

Root == << >>
None == <<"..">>
BuildName == "build"
CageName  == ".cargo-cage"
RunsName  == "runs"
Lockfile  == Append(Workspace, "Cargo.lock")

StartsWith(p, q) == Len(q) <= Len(p) /\ SubSeq(p, 1, Len(q)) = q
Inside(p) == StartsWith(p, Workspace) /\ p # Workspace
Prefix(p, i) == SubSeq(p, 1, i)
Parent(p) == Prefix(p, Len(p) - 1)
NoTraversal(p) == \A i \in 1..Len(p) : p[i] # ".."

Host == "host"
Dir(by)     == [kind |-> "dir", to |-> Root, names |-> 1, by |-> by]
File(n, by) == [kind |-> "file", to |-> Root, names |-> n, by |-> by]
Link(t, by) == [kind |-> "link", to |-> t, names |-> 1, by |-> by]
EntriesBy(owners) ==
  [kind : {"dir", "file", "link"}, to : Seq(Names), names : Nat, by : owners]

ASSUME PrepAssumption ==
  /\ Workspace \in Seq(Names)
  /\ {"..", "Cargo.lock", BuildName, CageName, RunsName} \subseteq Names
  /\ \A s \in Scenes :
       /\ Host \notin s.procs /\ s.moves \in Nat /\ s.reuse \subseteq BOOLEAN
       /\ s.requests \subseteq Seq(Names) /\ s.targets \subseteq Seq(Names)
       /\ s.places \subseteq Seq(Names) \ {Root}
       /\ \A t \in s.trees : Root \in DOMAIN t /\ t \in [DOMAIN t -> EntriesBy({Host})]
       /\ \A t \in s.targets, q \in s.places : ~StartsWith(t, q)
       /\ s.keys \subseteq DOMAIN RunNames
  /\ \A k \in DOMAIN RunNames : RunNames[k] \in Seq(Names) \ {<< >>}
  /\ \A k, l \in DOMAIN RunNames : \A i \in DOMAIN RunNames[k], j \in DOMAIN RunNames[l] :
       RunNames[k][i] = RunNames[l][j] => k = l /\ i = j

\* Everything is in a directory, and the workspace is one that goes by its
\* canonical path and stays where it is.
IsDirectory(t, q) == q \in DOMAIN t /\ t[q].kind = "dir"
ASSUME WorkspaceAssumption ==
  \A s \in Scenes :
    /\ \A t \in s.trees :
         /\ DOMAIN t \subseteq Seq(Names)
         /\ \A q \in DOMAIN t \ {Root} : IsDirectory(t, Parent(q))
         /\ \A i \in 0..Len(Workspace) : IsDirectory(t, Prefix(Workspace, i))
    /\ \A q \in s.places : ~StartsWith(Workspace, q)

\* No directory has an entry with the name "..", and finitely many work there.
ASSUME SceneAssumption ==
  \A s \in Scenes :
    /\ IsFiniteSet(s.procs)
    /\ \A t \in s.trees : \A q \in DOMAIN t : NoTraversal(q)

\* Nobody asks for a run, or makes a link to one, before it is there: its name
\* has the clock in it.
RunNamesOf(k) == {RunNames[k][i] : i \in DOMAIN RunNames[k]}
AllRunNames == UNION {RunNamesOf(k) : k \in DOMAIN RunNames}
AmongRuns(q) == \E i \in DOMAIN q : q[i] \in AllRunNames
ASSUME RunNameAssumption ==
  /\ {"..", "Cargo.lock", BuildName, CageName, RunsName} \cap AllRunNames = {}
  /\ ~AmongRuns(Workspace)
  /\ \A s \in Scenes :
       /\ \A q \in s.requests : ~AmongRuns(q)
       /\ \A t \in s.trees : \A q \in DOMAIN t :
            t[q].kind = "link" => ~AmongRuns(t[q].to)

VARIABLES
  tree,     \* what is at each path that exists; "by" says who put it there
  proc,     \* where each process is, and its local variables
  opened,   \* what each process has opened for its writable mounts
  others,   \* what other programs do in this scene
  moves     \* how often they have changed the tree
vars == <<tree, proc, opened, others, moves>>

Procs == DOMAIN proc

-----------------------------------------------------------------------------
(* Path resolution by the kernel *)

Exists(q) == q \in DOMAIN tree
IsA(q, kind) == Exists(q) /\ tree[q].kind = kind

\* Where p leads when every symbolic link in it is followed.
Follow(p) ==
  LET land[i \in 0..Len(p)] ==
        IF i = 0 THEN Root
        ELSE LET q == Append(land[i - 1], p[i])
             IN  IF IsA(q, "link") THEN tree[q].to ELSE q
  IN  land[Len(p)]

\* The entry p itself stands for: its last component is not followed.
Entry(p) == IF p = Root THEN Root ELSE Append(Follow(Parent(p)), p[Len(p)])

ThroughFile(p) == \E i \in 0..(Len(p) - 1) : IsA(Follow(Prefix(p, i)), "file")

\* fs::symlink_metadata
Lstat(p) ==
  IF ThroughFile(p) THEN "notdir"
  ELSE IF Exists(Entry(p)) THEN tree[Entry(p)].kind ELSE "absent"

\* fs::canonicalize succeeds
Resolves(p) == ~ThroughFile(p) /\ Exists(Follow(p))

CanMake(p) == IsA(Follow(Parent(p)), "dir") /\ ~Exists(Entry(p))
Put(q, e) == tree' = [x \in DOMAIN tree \cup {q} |-> IF x = q THEN e ELSE tree[x]]

-----------------------------------------------------------------------------
(* validate_target_dir *)

\* canonicalize_with_missing_components
Deepest(p) ==
  CHOOSE i \in 0..Len(p) :
    /\ Lstat(Prefix(p, i)) # "absent"
    /\ \A j \in (i + 1)..Len(p) : Lstat(Prefix(p, j)) = "absent"
Existing(p)     == Prefix(p, Deepest(p))
Canonical(p) == Follow(Existing(p)) \o SubSeq(p, Deepest(p) + 1, Len(p))

Placed(p) ==
  /\ Lstat(Existing(p)) \in {"dir", "file"}
  /\ Resolves(Existing(p))
  /\ Inside(Canonical(p))

\* validate_target_symlink_components
ComponentsAccepted(p) ==
  \A i \in 1..Len(p) :
    LET q == Prefix(p, i) IN
    /\ Lstat(q) # "notdir"
    /\ Lstat(q) = "link" =>
         /\ Resolves(q)
         /\ ~StartsWith(Follow(Parent(q)), Workspace)
         /\ ~StartsWith(Follow(q), Workspace)
    /\ i < Len(p) /\ Lstat(q) # "absent" => IsA(Follow(q), "dir")

AcceptsLexically(p) ==
  NoTraversal(p) /\ StartsWith(p, Workspace) /\ p # Workspace
AcceptsAliases(p) == NoTraversal(p) /\ Placed(p)
Accepts(p) == NoTraversal(p) /\ Placed(p) /\ ComponentsAccepted(p)

-----------------------------------------------------------------------------
(* The callers *)

\* stage: base and build are calls of prepare_target_dir, fresh and runs the
\* two directories prepare_fresh_target_dir makes before it claims a run.
Start(r, u, k) ==
  [pc |-> "validate", stage |-> "base", goal |-> r, depth |-> 1, attempt |-> 1,
   request |-> r, reuse |-> u, key |-> k, base |-> None, run |-> None]

Init ==
  \E s \in Scenes :
    /\ tree \in s.trees
    /\ proc \in [s.procs -> {Start(r, u, k) : r \in s.requests, u \in s.reuse, k \in s.keys}]
    /\ opened = [p \in s.procs |-> {}]
    /\ others = [deeds |-> s.deeds, places |-> s.places, targets |-> s.targets,
                 moves |-> s.moves]
    /\ moves = 0

At(p, pc) == proc[p].pc = pc
Go(p, next) == proc' = [proc EXCEPT ![p] = next]
Goto(p, pc) == Go(p, [proc[p] EXCEPT !.pc = pc])
Fail(p) == Goto(p, "failed")
Quietly == UNCHANGED <<opened, others, moves>>
Reads == UNCHANGED <<tree, opened, others, moves>>

Creating(l, stage, goal) ==
  [l EXCEPT !.pc = "inspect", !.stage = stage, !.goal = goal, !.depth = 1]
Validating(l, stage, goal) ==
  [l EXCEPT !.pc = "validate", !.stage = stage, !.goal = goal]

Validate(p) ==
  /\ At(p, "validate")
  /\ LET l == proc[p] IN
     \/ Accepts(l.goal) /\ Go(p, Creating(l, l.stage, Canonical(l.goal)))
     \/ ~Accepts(l.goal) /\ Fail(p)
  /\ Reads

\* create_directory_without_symlinks, one component at a time.
Deeper(l) ==
  IF l.depth < Len(l.goal) THEN [l EXCEPT !.pc = "inspect", !.depth = @ + 1]
  ELSE CASE l.stage \in {"base", "build"} -> [l EXCEPT !.pc = "confirm"]
         [] l.stage = "fresh" ->
              Creating(l, "runs", l.goal \o <<CageName, RunsName>>)
         [] l.stage = "runs" -> [l EXCEPT !.pc = "claim"]

InspectComponent(p) ==
  /\ At(p, "inspect")
  /\ LET l == proc[p]
         found == Lstat(Prefix(l.goal, l.depth))
     IN  \/ found = "dir" /\ Go(p, Deeper(l))
         \/ found = "absent" /\ Goto(p, "make")
         \/ found \notin {"dir", "absent"} /\ Fail(p)
  /\ Reads

MakeComponent(p) ==
  /\ At(p, "make")
  /\ LET l == proc[p]
         q == Prefix(l.goal, l.depth)
     IN  \/ CanMake(q) /\ Put(Entry(q), Dir(p)) /\ Go(p, Deeper(l))
         \/ ~CanMake(q) /\ Fail(p) /\ UNCHANGED tree
  /\ Quietly

\* The end of prepare_target_dir, and what run_cargo does with its result.
Confirm(p) ==
  /\ At(p, "confirm")
  /\ LET l == proc[p]
         target == Follow(l.goal)
         ok == Resolves(l.goal) /\ Inside(target)
     IN  \/ ~ok /\ Fail(p)
         \/ ok /\ l.stage = "build" /\ Goto(p, "lock")
         \/ ok /\ l.stage = "base" /\ ~l.reuse
              /\ Go(p, Validating([l EXCEPT !.base = target], "fresh", target))
         \/ ok /\ l.stage = "base" /\ l.reuse
              /\ Go(p, Validating([l EXCEPT !.base = target, !.run = target],
                                  "build", Append(target, BuildName)))
  /\ Reads

Candidate(l) == Append(l.goal, RunNames[l.key][l.attempt])

TakeWhatExists(p) ==
  /\ At(p, "claim")
  /\ LET l == proc[p] IN
     /\ \/ CanMake(Candidate(l)) /\ Put(Entry(Candidate(l)), Dir(p))
        \/ ~CanMake(Candidate(l)) /\ UNCHANGED tree
     /\ Go(p, [l EXCEPT !.pc = "check"])
  /\ Quietly
GiveUpWhenTaken(p) ==
  /\ At(p, "claim")
  /\ LET l == proc[p] IN
     \/ CanMake(Candidate(l)) /\ Put(Entry(Candidate(l)), Dir(p))
          /\ Go(p, [l EXCEPT !.pc = "check"])
     \/ ~CanMake(Candidate(l)) /\ Fail(p) /\ UNCHANGED tree
  /\ Quietly
ClaimRun(p) ==
  /\ At(p, "claim")
  /\ LET l == proc[p]
         made  == CanMake(Candidate(l))
         taken == Exists(Entry(Candidate(l))) /\ ~ThroughFile(Candidate(l))
         more  == l.attempt < Len(RunNames[l.key])
     IN  \/ made /\ Put(Entry(Candidate(l)), Dir(p))
              /\ Go(p, [l EXCEPT !.pc = "check"])
         \/ taken /\ more /\ Go(p, [l EXCEPT !.attempt = @ + 1]) /\ UNCHANGED tree
         \/ ~made /\ ~(taken /\ more) /\ Fail(p) /\ UNCHANGED tree
  /\ Quietly

CheckRun(p) ==
  /\ At(p, "check")
  /\ LET l == proc[p]
         run == Candidate(l)
     IN  \/ Lstat(run) = "dir"
              /\ Go(p, Validating([l EXCEPT !.run = run], "build",
                                  Append(run, BuildName)))
         \/ Lstat(run) # "dir" /\ Fail(p)
  /\ Reads

-----------------------------------------------------------------------------
(* prepare_lockfile *)

ValidLockfile == Lstat(Lockfile) = "file" /\ tree[Entry(Lockfile)].names = 1

InspectLockfile(p) ==
  /\ At(p, "lock")
  /\ \/ ValidLockfile /\ Goto(p, "vet")
     \/ Lstat(Lockfile) = "absent" /\ Goto(p, "newLock")
     \/ ~ValidLockfile /\ Lstat(Lockfile) # "absent" /\ Fail(p)
  /\ Reads

CreateAndTruncate(p) ==
  /\ At(p, "newLock")
  /\ \/ ~IsA(Follow(Lockfile), "dir") /\ Put(Follow(Lockfile), File(1, p))
          /\ Goto(p, "relock")
     \/ IsA(Follow(Lockfile), "dir") /\ Fail(p) /\ UNCHANGED tree
  /\ Quietly
CreateLockfile(p) ==
  /\ At(p, "newLock")
  /\ \/ CanMake(Lockfile) /\ Put(Entry(Lockfile), File(1, p)) /\ Goto(p, "relock")
     \/ ~CanMake(Lockfile) /\ Fail(p) /\ UNCHANGED tree
  /\ Quietly

\* The second inspection passes over a file that has gone again.
ReinspectLockfile(p) ==
  /\ At(p, "relock")
  /\ \/ (ValidLockfile \/ Lstat(Lockfile) = "absent") /\ Goto(p, "vet")
     \/ ~ValidLockfile /\ Lstat(Lockfile) # "absent" /\ Fail(p)
  /\ Reads

-----------------------------------------------------------------------------
(* The backend: validation by name, then a descriptor for each mount *)

\* canonical_existing_path_without_symlinks
Real(p) ==
  /\ p # None
  /\ \A i \in 1..(Len(p) - 1) : Lstat(Prefix(p, i)) = "dir"
  /\ Lstat(p) \in {"dir", "file"}

\* validate_writable_tree; names counts links outside the tree, too.
PlainTree(q) ==
  \A x \in DOMAIN tree :
    StartsWith(x, q) => tree[x].kind # "link" /\ tree[x].names = 1
Vetted(q) == Real(q) /\ PlainTree(q)

VetWritable(p) ==
  /\ At(p, "vet")
  /\ LET ok == Vetted(proc[p].run) /\ Vetted(Lockfile) IN
     \/ ok /\ Goto(p, "openRun")
     \/ ~ok /\ Fail(p)
  /\ Reads

\* open_mount_source and validate_opened_mount_kind: openat2 follows no
\* symbolic link, and a file must have one name.
OpensByName(q) == Resolves(q) /\ tree[Follow(q)].kind \in {"dir", "file"}
Opens(q) == Real(q) /\ (Lstat(q) = "file" => tree[q].names = 1)

Open(p, q, from, to) ==
  /\ At(p, from)
  /\ \/ Opens(q) /\ Goto(p, to)
          /\ opened' = [opened EXCEPT
               ![p] = @ \cup {[place |-> Follow(q), names |-> tree[Follow(q)].names,
                               kind |-> tree[Follow(q)].kind]}]
     \/ ~Opens(q) /\ Fail(p) /\ UNCHANGED opened
  /\ UNCHANGED <<tree, others, moves>>
OpenRun(p)  == Open(p, proc[p].run, "openRun", "openLock")
OpenLock(p) == Open(p, Lockfile, "openLock", "mounted")

-----------------------------------------------------------------------------
(* Other programs, at any time *)

OtherMoves(what) ==
  /\ what \in others.deeds /\ moves < others.moves
  /\ moves' = moves + 1
  /\ UNCHANGED <<proc, opened, others>>

\* cargo clean, or rm -rf
RemoveTree(q) ==
  /\ OtherMoves("remove") /\ Exists(q)
  /\ tree' = [x \in {y \in DOMAIN tree : ~StartsWith(y, q)} |-> tree[x]]
CreateEntry(q) ==
  /\ OtherMoves("create") /\ IsA(Parent(q), "dir") /\ ~Exists(q)
  /\ \E e \in {Dir(Host), File(1, Host)} : Put(q, e)
MakeLink(q, t) ==
  /\ OtherMoves("link") /\ IsA(Parent(q), "dir") /\ ~Exists(q)
  /\ Put(q, Link(t, Host))
\* A second name for a file, as a backup by hard links makes it.
AddName(q) ==
  /\ OtherMoves("name") /\ IsA(q, "file")
  /\ tree' = [tree EXCEPT ![q].names = 2]

Prepare(p) ==
  \/ Validate(p) \/ InspectComponent(p) \/ MakeComponent(p) \/ Confirm(p)
  \/ ClaimRun(p) \/ CheckRun(p)
  \/ InspectLockfile(p) \/ CreateLockfile(p) \/ ReinspectLockfile(p)
  \/ VetWritable(p) \/ OpenRun(p) \/ OpenLock(p)

Disturb ==
  \E q \in others.places :
    \/ RemoveTree(q) \/ CreateEntry(q) \/ AddName(q)
    \/ \E t \in others.targets : MakeLink(q, t)

Next == (\E p \in Procs : Prepare(p)) \/ Disturb

Spec == Init /\ [][Next]_vars

-----------------------------------------------------------------------------
(* Properties *)

\* Whatever symbolic links lead in and out of the workspace, cargo-cage makes
\* its directories and its lockfile strictly inside it, as long as nobody else
\* makes such links meanwhile
\* (validate_target_dir, create_directory_without_symlinks, create_dir).
CreatesOnlyInside ==
  "link" \notin others.deeds \/ moves = 0 =>
    \A q \in DOMAIN tree : tree[q].by \in Procs => Inside(q)

\* However the tree changes between the checks by name and the opening, what
\* a sandbox gets for writing lies in the workspace, and a file has one name
\* (open_mount_source, validate_opened_mount_kind).
MountsStayInside ==
  \A p \in Procs : \A m \in opened[p] :
    Inside(m.place) /\ (m.kind = "file" => m.names = 1)

\* An isolated build starts in a directory its own process has made, with
\* nothing in it but what that process put there: no older build's artifacts
\* and no concurrent build's (prepare_fresh_target_dir).  Two processes that
\* choose the same name must be told apart by create_dir.  Only a program that
\* works among the runs themselves can put something else in its place.
IsolatedRunIsOwn ==
  \A p \in Procs :
    /\ proc[p].pc \in {"openLock", "mounted"} /\ ~proc[p].reuse
    /\ \/ moves = 0
       \/ /\ \A q \in Procs \ {p} : proc[q].key # proc[p].key
          /\ ~\E q \in others.places \cup others.targets : AmongRuns(q)
    => \A m \in opened[p], x \in DOMAIN tree :
         m.place = proc[p].run /\ StartsWith(x, m.place) => tree[x].by = p

\* No step of cargo-cage replaces, truncates or removes what is there already,
\* also when it has appeared after cargo-cage looked (create_dir, create_new).
KeepsWhatExists ==
  [][\A p \in Procs : proc'[p] # proc[p] =>
       \A q \in DOMAIN tree : q \in DOMAIN tree' /\ tree'[q] = tree[q]]_vars

\* What a request and a workspace have to be like, said without the order of
\* the checks: the target is inside the workspace, it and everything above it
\* that exists are directories, no symbolic link on the way lies in the
\* workspace or leads into it, the directories and the file to be made are
\* free or of the right kind, and a reused target can be mounted.
FreeOrDir(q) == Exists(q) => IsA(q, "dir")
RequestFits(r) ==
  /\ NoTraversal(r) /\ Inside(Follow(r))
  /\ \A i \in 1..Len(r) :
       LET q == Prefix(r, i) IN
       /\ Exists(Entry(q)) => IsA(Follow(q), "dir")
       /\ IsA(Entry(q), "link") =>
            ~StartsWith(Entry(q), Workspace) /\ ~StartsWith(Follow(q), Workspace)
RunsOf(l) == Follow(l.request) \o <<CageName, RunsName>>
Taken(l) ==
  {i \in DOMAIN RunNames[l.key] :
     LET q == Append(RunsOf(l), RunNames[l.key][i]) IN Exists(q) /\ tree[q].by = Host}
TargetFits(l) ==
  IF l.reuse THEN PlainTree(Follow(l.request))
                  /\ FreeOrDir(Append(Follow(l.request), BuildName))
  ELSE /\ FreeOrDir(Parent(RunsOf(l))) /\ FreeOrDir(RunsOf(l))
       /\ Taken(l) # DOMAIN RunNames[l.key]
Acceptable(l) ==
  /\ RequestFits(l.request) /\ TargetFits(l)
  /\ Exists(Lockfile) => IsA(Lockfile, "file") /\ tree[Lockfile].names = 1

\* A process that is alone in its workspace prepares the build exactly when
\* that is possible: the checks, the creation and the backend's own checks
\* agree about every path.
AloneSucceedsIffAcceptable ==
  moves = 0 /\ Cardinality(Procs) = 1 =>
    \A p \in Procs :
      /\ proc[p].pc = "mounted" => Acceptable(proc[p])
      /\ proc[p].pc = "failed" => ~Acceptable(proc[p])

\* Once the shared directories and the lockfile are there, isolated builds do
\* not fail each other, even if they try the same run names.
Prepared(l) ==
  /\ ~l.reuse /\ Acceptable(l)
  /\ \A q \in {RunsOf(l), Lockfile} : Exists(q) /\ tree[q].by = Host
  /\ Cardinality(Taken(l)) + Cardinality(Procs) <= Len(RunNames[l.key])
PreparedServesAll ==
  moves = 0 /\ (\E p \in Procs : proc[p].pc = "failed") =>
    \E p \in Procs : ~Prepared(proc[p])
=============================================================================
