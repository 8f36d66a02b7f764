------------------------------ MODULE CargoFlowInv ------------------------------
(***************************************************************************)
(* What is true between any two steps of CargoFlow: which programs have    *)
(* run and how they ended, and what has been checked, at each place.       *)
(***************************************************************************)
EXTENDS CargoFlow

AfterDiscovery == {"answer", "target", "fresh", "build dir", "lockfile", "request",
                   "check target", "check lockfile"}
Preparing == {"target", "fresh", "build dir", "lockfile", "request"}
Places == {"arguments", "backend", "tools", "discover", "run", "verdict", "exited"}
            \cup AfterDiscovery

Locations == [answer : Seq(Names), workspace : Seq(Names), base : Seq(Names),
              target : Seq(Names), cwd : Seq(Names)]
IsFile(p) == p \in Seq(Names) \ {<< >>}

\* The tree has something at every path above what it has, and links lead to
\* paths.
TreeInv ==
  \A p \in DOMAIN fs :
    IsFile(p) /\ Prefixes(p) \subseteq DOMAIN fs /\ fs[p].to \in Seq(Names)

TypeInv ==
  /\ host \in {c.host : c \in Cases}
  /\ pc \in Places /\ (exit = -1 <=> pc # "exited")
  /\ inv.is \in {"usage", "help", "doctor", "cargo"}
  /\ Args \in Seq(Arguments)
  /\ argv \in Seq(Arguments) /\ moves \in Nat
  /\ found \in Locations

\* Exactly the discovery has run, and succeeded.
Discovered == runs = <<runs[1]>> /\ runs[1].status = 0

\* The sandboxed program that comes next.
RequestInv ==
  pc = "run" =>
    \/ request.what = "discovery" /\ runs = << >>
    \/ request.what = "probe" /\ inv.is = "doctor" /\ Discovered
    \/ request.what = "build" /\ inv.is = "cargo" /\ Discovered

\* Doctor alone collects failures.
FailedInv ==
  /\ (pc = "arguments" \/ inv.is # "doctor") => ~failed
  /\ pc \notin {"arguments", "exited"} => inv.is \in {"doctor", "cargo"}

\* What has run before each place.
RunsInv ==
  /\ pc \in {"arguments", "backend", "tools", "discover"} => runs = << >>
  /\ pc \in AfterDiscovery => Discovered
  /\ pc \in Preparing => inv.is = "cargo"
  /\ pc \in {"check target", "check lockfile"} => inv.is = "doctor"
  /\ pc = "verdict" =>
       /\ inv.is = "doctor" /\ Len(runs) = 2 /\ runs[1].status = 0
       /\ runs[2].request.what = "probe"
       /\ failed \/ runs[2].status = 0

\* The options have their values.
ArgsInv ==
  pc \in AfterDiscovery \cup {"run", "verdict"} => ~Lacking(Args, "manifest")

Building == pc = "run" /\ request.what = "build"

\* The workspace of a build is the caller's, and nothing leads elsewhere on the
\* way to it unless others have changed the tree.
WorkspaceInv ==
  pc \in Preparing =>
    Contains(found.workspace) /\ (moves = 0 => Workspace = found.workspace)

\* The run of an isolated build is new.
TargetInv ==
  (Building \/ pc \in {"build dir", "lockfile", "request"}) /\ Isolated =>
    found.target \notin DOMAIN host.fs

\* The policy of a build.
OwnRequest(r) ==
  /\ r.writable = {found.target, Lockfile}
  /\ StartsWith(r.cwd, found.workspace)
PolicyInv == Building => OwnRequest(request)

EndInv == pc = "exited" => SuccessIsEarned /\ BuildWritesOnlyItsOwn
             /\ (Len(runs) \in 0..2)

FlowInv ==
  /\ TypeInv /\ TreeInv /\ RequestInv /\ FailedInv /\ RunsInv /\ ArgsInv
  /\ WorkspaceInv /\ TargetInv /\ PolicyInv /\ EndInv

\* A build is asked for what its caller has written, and the target it has
\* without isolation is where the caller's leads, until others change the tree.
MeaningInv ==
  /\ (Building \/ pc \in {"build dir", "lockfile", "request"}) /\ ~Isolated =>
       (moves = 0 => Landed(Target) = found.target)
  /\ pc = "fresh" => Isolated
  /\ Building /\ CargoAccepts(Args) => MeansTheSame(request)
  /\ pc = "exited" => CargoSeesWhatWasMeant
=============================================================================
