---------------------------- MODULE TargetPrepInv ----------------------------
(***************************************************************************)
(* What is true between any two steps of TargetPrep of the directories a   *)
(* process works in.                                                       *)
(***************************************************************************)
EXTENDS TargetPrep

Stages == {"base", "fresh", "runs", "build"}
Places == {"validate", "inspect", "make", "confirm", "claim", "check", "lock", "newLock",
           "relock", "vet", "openRun", "openLock", "mounted", "failed"}
Locals ==
  [pc : Places, stage : Stages, goal : Seq(Names), depth : Nat, attempt : Nat,
   request : Seq(Names), reuse : BOOLEAN, key : DOMAIN RunNames,
   base : Seq(Names), run : Seq(Names)]

\* The tree has a root, and everything in it is somebody's.
TreeInv ==
  Root \in DOMAIN tree /\ tree \in [DOMAIN tree -> EntriesBy(Procs \cup {Host})]

\* Where a process works from a validation on is inside the workspace, and so
\* is its run once it has one.
LocalInv(l) ==
  /\ l \in Locals /\ l.attempt \in DOMAIN RunNames[l.key]
  /\ l.pc \in {"inspect", "make", "confirm", "claim", "check"} => Inside(l.goal)
  /\ l.run = None \/ Inside(l.run)

PrepInv ==
  /\ TreeInv
  /\ proc = [p \in Procs |-> proc[p]] /\ \A p \in Procs : LocalInv(proc[p])
  /\ opened = [p \in Procs |-> opened[p]]
  /\ others.targets \subseteq Seq(Names) /\ others.places \subseteq Seq(Names) \ {Root}
  /\ MountsStayInside

-----------------------------------------------------------------------------
(* While nobody else makes symbolic links *)

Calm == "link" \notin others.deeds \/ moves = 0

\* How far a process has come creating its goal: nothing it has passed is a
\* symbolic link, and it makes nothing at or above the workspace.
Links == {q \in DOMAIN tree : tree[q].kind = "link"}
PassesNone(links, p, n) == \A i \in 1..n : Prefix(p, i) \notin links
WayInv(links, l) ==
  /\ l.pc \in {"inspect", "make"} =>
       l.depth \in 1..Len(l.goal) /\ PassesNone(links, l.goal, l.depth - 1)
  /\ l.pc = "make" => Len(Workspace) < l.depth
  /\ l.pc = "claim" => PassesNone(links, l.goal, Len(l.goal))

WorkspaceInv ==
  /\ \A i \in 0..Len(Workspace) : IsA(Prefix(Workspace, i), "dir")
  /\ \A q \in others.places : ~StartsWith(Workspace, q)

CalmInv ==
  /\ moves \in Nat /\ Host \notin Procs /\ WorkspaceInv
  /\ Calm => \A p \in Procs : WayInv(Links, proc[p])
  /\ CreatesOnlyInside

-----------------------------------------------------------------------------
(* Runs and who makes what in them *)

\* Nobody else works among the runs, or has not begun to.
Apart == moves = 0 \/ \A q \in others.places \cup others.targets : ~AmongRuns(q)

Common == Names \ AllRunNames
NamesFor(k) == Common \cup RunNamesOf(k)
FreshRun(k, r) ==
  r # Root /\ Parent(r) \in Seq(Common) /\ r[Len(r)] \in RunNamesOf(k)

Claimed(l) == ~l.reuse /\ (l.pc = "check" \/ l.run # None)
RunOf(l) == IF l.pc = "check" THEN Candidate(l) ELSE l.run

\* A process works below names of the runs of its own key only, and only after
\* it has claimed one.
Late == {"lock", "newLock", "relock", "vet", "openRun", "openLock", "mounted"}
IsolatedBuild(l) == l.stage = "build" /\ ~l.reuse
NameInv(l) ==
  /\ l.pc \in {"inspect", "make"} => l.depth \in 1..Len(l.goal)
  /\ l.stage \in {"fresh", "runs"} => ~l.reuse
  /\ l.pc \in {"claim", "check"} => l.stage = "runs"
  /\ l.pc \in Late => l.stage = "build"
  /\ ~l.reuse /\ l.stage # "build" => l.run = None
  /\ IF IsolatedBuild(l)
     THEN /\ FreshRun(l.key, l.run) /\ l.goal \in Seq(NamesFor(l.key))
          /\ l.pc = "validate" => l.goal = Append(l.run, BuildName)
     ELSE l.goal \in Seq(Common)

ClosedInv ==
  /\ DOMAIN tree \subseteq Seq(Names)
  /\ \A q \in DOMAIN tree \ {Root} : IsA(Parent(q), "dir")

ApartInv ==
  /\ ClosedInv
  /\ \A q \in Links : tree[q].to \in Seq(Common)
  /\ \A p \in Procs : NameInv(proc[p])
  /\ \A q \in DOMAIN tree, p \in Procs : tree[q].by = p => q \in Seq(NamesFor(proc[p].key))
  /\ \A p \in Procs : Claimed(proc[p]) =>
       \A q \in DOMAIN tree : StartsWith(q, RunOf(proc[p])) => tree[q].by # Host

\* Until others change something, a claimed run stays its process's, and all
\* that a process has made in a run is in its own.
RunInv(p) ==
  LET l == proc[p] IN
  /\ Claimed(l) => IsA(RunOf(l), "dir") /\ tree[RunOf(l)].by = p
  /\ IsolatedBuild(l) /\ l.pc \in {"inspect", "make"} => l.goal = Append(l.run, BuildName)
TrunkInv ==
  \A q \in DOMAIN tree : \A i \in 1..Len(q) :
    tree[q].by \in Procs /\ Prefix(q, i - 1) \in Seq(Common) /\ q[i] \in AllRunNames =>
      Exists(Prefix(q, i)) /\ tree[Prefix(q, i)].by = tree[q].by

IsolationInv ==
  Apart => ApartInv /\ (moves = 0 => TrunkInv /\ \A p \in Procs : RunInv(p))

-----------------------------------------------------------------------------
(* Isolated builds in a workspace that is ready for them *)

\* What Prepared says of the part of the tree that is not cargo-cage's own, and
\* therefore says at any time.
OfHost(q) == Exists(q) /\ tree[q].by = Host
RequestIsPlain(r) ==
  /\ NoTraversal(r) /\ Inside(Follow(r))
  /\ \A i \in 1..Len(r) : IsA(Entry(Prefix(r, i)), "link") =>
       /\ ~StartsWith(Entry(Prefix(r, i)), Workspace)
       /\ ~StartsWith(Follow(Prefix(r, i)), Workspace)
LockfileIsPlain ==
  OfHost(Lockfile) /\ tree[Lockfile].kind = "file" /\ tree[Lockfile].names = 1
Ready(l) ==
  /\ ~l.reuse /\ RequestIsPlain(l.request) /\ LockfileIsPlain
  /\ OfHost(RunsOf(l)) /\ IsA(RunsOf(l), "dir")
  /\ Cardinality(Taken(l)) + Cardinality(Procs) <= Len(RunNames[l.key])

\* A process finds its directories, makes a run and the build directory in it,
\* and comes to no other step.
NamedRun(l, i) == Append(RunsOf(l), RunNames[l.key][i])
OnBase(l) ==
  /\ l.stage = "base" /\ l.attempt = 1
  /\ \/ l.pc = "validate" /\ l.goal = l.request
     \/ l.pc \in {"inspect", "confirm"} /\ l.goal = Follow(l.request)
OnFresh(l) ==
  /\ l.stage = "fresh" /\ l.attempt = 1
  /\ l.pc \in {"validate", "inspect"} /\ l.goal = Follow(l.request)
OnRuns(l) ==
  /\ l.stage = "runs" /\ l.pc \in {"inspect", "claim", "check"} /\ l.goal = RunsOf(l)
  /\ \A i \in 1..(l.attempt - 1) : Exists(NamedRun(l, i))
OnBuild(l) ==
  /\ l.stage = "build"
  /\ l.pc \in {"validate", "inspect", "make", "confirm",
              "lock", "vet", "openRun", "openLock", "mounted"}
  /\ l.run = NamedRun(l, l.attempt) /\ l.goal = Append(l.run, BuildName)
  /\ l.pc = "make" => l.depth = Len(l.goal) /\ ~Exists(l.goal)
  /\ l.pc = "confirm" => IsA(l.goal, "dir")
OnTrack(l) == OnBase(l) \/ OnFresh(l) \/ OnRuns(l) \/ OnBuild(l)
MadeOnly ==
  \A q \in DOMAIN tree : \A p \in Procs : tree[q].by = p =>
    /\ tree[q] = Dir(p) /\ Claimed(proc[p])
    /\ q \in {RunOf(proc[p]), Append(RunOf(proc[p]), BuildName)}

Serving == moves = 0 /\ \A p \in Procs : Ready(proc[p])
ServeInv ==
  /\ IsFiniteSet(Procs)
  /\ moves = 0 => \A q \in DOMAIN tree : tree[q].by = Host => NoTraversal(q)
  /\ Serving => MadeOnly /\ \A p \in Procs : OnTrack(proc[p])

-----------------------------------------------------------------------------
(* A process that is alone in its workspace *)

ByItself == moves = 0 /\ Cardinality(Procs) = 1

\* How far it has come: what it has passed are directories, and what it is about
\* to make is not there.
Dirs == {q \in DOMAIN tree : tree[q].kind = "dir"}
Reached(dirs, l) ==
  /\ l.pc \in {"inspect", "make"} => \A i \in 0..(l.depth - 1) : Prefix(l.goal, i) \in dirs
  /\ l.pc = "make" => ~Exists(Prefix(l.goal, l.depth))
  /\ l.pc \in {"confirm", "claim", "check"} \cup Late => l.goal \in dirs

\* What each stage knows of the request, and of what the stages before have made
\* for it.
HasTarget(l) == RequestIsPlain(l.request) /\ IsA(Follow(l.request), "dir")
AtBase(l) ==
  /\ l.stage = "base" /\ l.attempt = 1
  /\ \/ l.pc = "validate" /\ l.goal = l.request
     \/ /\ l.pc \in {"inspect", "make", "confirm"} /\ l.goal = Follow(l.request)
        /\ RequestIsPlain(l.request) /\ NoTraversal(l.goal)
AtFresh(l) ==
  /\ l.stage = "fresh" /\ l.attempt = 1 /\ HasTarget(l)
  /\ l.pc \in {"validate", "inspect"} /\ l.goal = Follow(l.request)
AtRuns(l) ==
  /\ l.stage = "runs" /\ HasTarget(l)
  /\ l.pc \in {"inspect", "make", "claim", "check"} /\ l.goal = RunsOf(l)
  /\ \A i \in 1..(l.attempt - 1) : OfHost(NamedRun(l, i))
AtBuild(l) ==
  /\ l.stage = "build" /\ HasTarget(l)
  /\ l.pc \in {"validate", "inspect", "make", "confirm"} \cup Late
  /\ l.run = (IF l.reuse THEN Follow(l.request) ELSE NamedRun(l, l.attempt))
  /\ l.goal = Append(l.run, BuildName)
  /\ l.pc = "newLock" => ~Exists(Lockfile)
  /\ l.pc \in {"relock", "vet", "openRun", "openLock", "mounted"} =>
       IsA(Lockfile, "file") /\ tree[Lockfile].names = 1
  /\ l.pc \in {"openRun", "openLock", "mounted"} => PlainTree(l.run)
OnCourse(dirs, l) ==
  Reached(dirs, l) /\ (AtBase(l) \/ AtFresh(l) \/ AtRuns(l) \/ AtBuild(l))

MadePlain(p) ==
  \A q \in DOMAIN tree : tree[q].by = p =>
    \/ tree[q] = Dir(p)
    \/ q = Lockfile /\ tree[q] = File(1, p)
NoRunYet(p) ==
  ~proc[p].reuse /\ ~Claimed(proc[p]) =>
    \A q \in DOMAIN tree : tree[q].by = p => ~AmongRuns(q)
AloneInv ==
  ByItself =>
    /\ \A q \in DOMAIN tree : NoTraversal(q)
    /\ \A p \in Procs : /\ MadePlain(p) /\ NoRunYet(p)
                        /\ IF proc[p].pc = "failed" THEN ~Acceptable(proc[p])
                           ELSE OnCourse(Dirs, proc[p])
=============================================================================
