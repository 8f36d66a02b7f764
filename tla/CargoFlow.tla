------------------------------- MODULE CargoFlow ------------------------------
(***************************************************************************)
(* One execution of cargo-cage: main, run, run_cargo and run_doctor.  The  *)
(* command line is read, the workspace is discovered by a sandboxed Cargo, *)
(* target directories and the lockfile are prepared from what it answered, *)
(* and the requested command, or doctor's probe, runs in a second sandbox. *)
(*                                                                         *)
(* The backend is an abstract one, which refuses what it cannot mount and  *)
(* may fail at any time; TargetPrep looks closer at the preparation.       *)
(* The tree has symbolic links, which lead to canonical paths.  Between    *)
(* two steps other programs may change it.                                 *)
(***************************************************************************)
EXTENDS CargoArgs

CONSTANTS
  Names,   (* the components of paths                                        *)
  Cases,   (* hosts, each with the command lines that are tried on it.  A
              host also says
                 wrong     what Cargo may name as the workspace by mistake
                 statuses  how sandboxed programs end: an exit code, or NoCode
                 moves     how often other programs change the tree          *)
  NoCode,  (* the status of a program that was killed by a signal            *)
  Entries  (* what other programs may put in place of something              *)

StartsWith(p, q) == Len(q) <= Len(p) /\ SubSeq(p, 1, Len(q)) = q
Prefixes(p) == {SubSeq(p, 1, n) : n \in 1..Len(p)}
Parent(p) == SubSeq(p, 1, Len(p) - 1)
Child(p, name) == Append(p, name)

\* What a tree has at a path.  Only a link leads somewhere.
Dir == [kind |-> "dir", to |-> << >>]
File == [kind |-> "file", to |-> << >>]
Link(to) == [kind |-> "link", to |-> to]
\* The links of a tree, with where they lead; none leads through another.
LinksOf(tree) == [q \in {q \in DOMAIN tree : tree[q].kind = "link"} |-> tree[q].to]
LinksAreFinal(tree) ==
  LET links == LinksOf(tree) IN
  \A q \in DOMAIN links : Prefixes(links[q]) \cap DOMAIN links = {}

\* The paths of the command line, and its arguments.  NoPath stands for none:
\* nobody writes it.
Paths == [root : BOOLEAN, names : Seq(Names)]
Arguments ==
  {a \in [kind : {"word", "option", "target", "manifest", "target=", "manifest=", "end"},
          value : Paths] :
     a.kind \in {"word", "target=", "manifest="} => a.value # NoPath}

ASSUME FlowAssumption ==
  /\ Entries \subseteq [kind : {"file", "link"}, to : Seq(Names)] /\ NoCode \notin Nat
  /\ {"Cargo.toml", "Cargo.lock", "target", "build", ".cargo-cage", "runs", "run",
      "--target-dir", "--manifest-path", "--", "no such path"} \subseteq Names
  /\ \A c \in Cases : c.lines \subseteq Seq(Arguments)
  /\ \A h \in {c.host : c \in Cases} :
       /\ h.moves \in Nat /\ h.statuses \subseteq Nat \cup {NoCode}
       /\ DOMAIN h.fs \subseteq Seq(Names) \ {<< >>}
       /\ \A p \in DOMAIN h.fs :
            /\ h.fs[p] \in [kind : {"dir", "file", "link"}, to : Seq(Names)]
            /\ \A q \in Prefixes(p) \ {p} : q \in DOMAIN h.fs /\ h.fs[q] = Dir
            /\ p[Len(p)] # "run"
       /\ LinksAreFinal(h.fs)
       /\ h.cwd \in DOMAIN h.fs /\ h.fs[h.cwd] = Dir
       /\ h.fromEnv \in Paths
       /\ h.wrong \subseteq Seq(Names)
       /\ \A d \in DOMAIN h.rootOf :
            /\ h.fs[Child(d, "Cargo.toml")] = File /\ h.rootOf[d] \in DOMAIN h.rootOf
            /\ d \in DOMAIN h.fs

VARIABLES
  host,      \* the caller's situation, which does not change
  argv,      \* the arguments
  fs,        \* what is at each path that exists
  pc,        \* what comes next
  inv,       \* the parsed invocation
  found,     \* workspace, target base, target used, lockfile and working dir
  request,   \* the policy of the sandboxed program that comes next, or runs
  runs,      \* the sandboxed programs so far, with what became of them
  failed,    \* doctor has found something wrong
  exit,      \* exit code; -1 while running
  moves      \* changes by other programs so far
vars == <<host, argv, fs, pc, inv, found, request, runs, failed, exit, moves>>

None == << >>
NothingFound == [answer |-> None, workspace |-> None, base |-> None, target |-> None, cwd |-> None]
NoRequest == [what |-> "none", args |-> << >>, cwd |-> None,
              readOnly |-> {}, writable |-> {}]

Init ==
  /\ \E c \in Cases : host = c.host /\ argv \in c.lines
  /\ fs = host.fs /\ pc = "arguments" /\ inv = Usage
  /\ found = NothingFound /\ request = NoRequest
  /\ runs = << >> /\ failed = FALSE /\ exit = -1 /\ moves = 0

Goto(next) == pc' = next /\ UNCHANGED exit
Exit(code) == pc' = "exited" /\ exit' = code
At(where) == pc = where
Args == IF inv.is = "cargo" THEN inv.args ELSE << >>
Isolated == ~inv.reuse

-----------------------------------------------------------------------------
(* main *)

ParseArguments ==
  /\ At("arguments")
  /\ inv' = parse_invocation(argv)
  /\ \/ inv'.is = "usage" /\ Exit(1)
     \/ inv'.is = "help" /\ Exit(0)
     \/ inv'.is \in {"cargo", "doctor"} /\ Goto("backend")
  /\ UNCHANGED <<host, argv, fs, found, request, runs, failed, moves>>

MakeBackend ==
  /\ At("backend")
  /\ Goto("tools") \/ Exit(1)
  /\ UNCHANGED <<host, argv, fs, inv, found, request, runs, failed, moves>>

\* canonical_current_dir, resolve_cargo and resolve_toolchain; rustdoc is
\* needed by doc and by doctor.
NeedsRustdoc == inv.is = "doctor" \/ inv.command = "doc"
ResolveTools ==
  /\ At("tools")
  /\ IF host.tools = "all" \/ (host.tools = "no rustdoc" /\ ~NeedsRustdoc)
       THEN Goto("discover") ELSE Exit(1)
  /\ UNCHANGED <<host, argv, fs, inv, found, request, runs, failed, moves>>

-----------------------------------------------------------------------------
(* locate_workspace *)

\* Where a path leads: a link to its destination, ".." one up.
Walk(links, p) ==
  LET at[i \in 0..Len(p)] ==
        IF i = 0 THEN << >>
        ELSE IF p[i] = ".." THEN Parent(at[i - 1])
        ELSE LET q == Append(at[i - 1], p[i])
             IN  IF q \in DOMAIN links THEN links[q] ELSE q
  IN  at[Len(p)]
Links == LinksOf(fs)
Landed(p) == Walk(Links, p)
\* The same, but a link in the last place is not followed.
Entry(p) ==
  IF p = << >> \/ p[Len(p)] = ".." THEN Landed(p)
  ELSE Child(Landed(Parent(p)), p[Len(p)])
KindAt(q) ==
  IF q = << >> THEN "dir" ELSE IF q \in DOMAIN fs THEN fs[q].kind ELSE "absent"
\* There are directories all the way to the last name.
Reached(p) == \A n \in 0..(Len(p) - 1) : KindAt(Landed(SubSeq(p, 1, n))) = "dir"
Exists(p) == Reached(p) /\ KindAt(Entry(p)) # "absent"
IsLink(p) == Reached(p) /\ KindAt(Entry(p)) = "link"
IsA(p, kind) == Reached(p) /\ KindAt(Landed(p)) = kind
NoTraversal(p) == \A i \in DOMAIN p : p[i] # ".."
\* canonical_existing_path_without_symlinks
Real(p) ==
  /\ NoTraversal(p)
  /\ \A q \in Prefixes(p) \ {p} : KindAt(q) = "dir"
  /\ KindAt(p) \in {"dir", "file"}

Manifest == Join(host.cwd, manifest_path_arg(Args))
HasManifest == manifest_path_arg(Args) # NoPath
ManifestUsable ==
  HasManifest => Real(Manifest) /\ IsA(Manifest, "file")
\* The directories a discovery starts from.
Base == IF HasManifest THEN Parent(Manifest) ELSE host.cwd

\* Only what is there already and lies below such a directory.
discovery_writable_paths ==
  LET given == IF Lacking(Args, "target") THEN {}
               ELSE {target_dir_arg(Args, host.fromEnv, host.cwd, host.cwd)}
  IN  {p \in {Child(Base, "target")} \cup {g \in given : StartsWith(g, Base)} :
         Exists(p)}

Request(what, args, cwd, readOnly, writable) ==
  [what |-> what, args |-> args, cwd |-> cwd, readOnly |-> readOnly,
   writable |-> writable]

Discover ==
  /\ At("discover")
  /\ IF ~Lacking(Args, "manifest") /\ ManifestUsable
       THEN /\ request' = Request("discovery", << >>, host.cwd,
                                  {host.cwd, Base}, discovery_writable_paths)
            /\ Goto("run")
       ELSE Exit(1) /\ UNCHANGED request
  /\ UNCHANGED <<host, argv, fs, inv, found, runs, failed, moves>>

\* What Cargo's locate-project --workspace answers: the nearest manifest, and
\* its workspace root if that can be seen, too.
Visible(d) == \E m \in request.readOnly \cup request.writable : StartsWith(d, m)
Located ==
  LET packages == {d \in DOMAIN host.rootOf :
                     Visible(d) /\ IsA(Child(d, "Cargo.toml"), "file")}
      above == {d \in packages : StartsWith(Base, d)}
      nearest == CHOOSE d \in above : \A e \in above : Len(e) <= Len(d)
  IN  IF above = {} THEN {}
      ELSE {IF host.rootOf[nearest] \in packages THEN host.rootOf[nearest] ELSE nearest}

\* workspace_from_output
Contains(d) == StartsWith(IF HasManifest THEN Manifest ELSE host.cwd, d)
AcceptAnyAnswer(d) ==
  Real(Child(d, "Cargo.toml")) /\ IsA(Child(d, "Cargo.toml"), "file")
AcceptAnswer(d) ==
  /\ Real(Child(d, "Cargo.toml")) /\ IsA(Child(d, "Cargo.toml"), "file")
  /\ ManifestUsable /\ Contains(d)

TakeAnswer ==
  /\ At("answer")
  /\ LET d == found.answer IN
     \/ /\ AcceptAnswer(d) /\ found' = [found EXCEPT !.workspace = d]
        /\ Goto(IF inv.is = "doctor" THEN "check target" ELSE "target")
     \/ ~AcceptAnswer(d) /\ Exit(1) /\ UNCHANGED found
  /\ UNCHANGED <<host, argv, fs, inv, request, runs, failed, moves>>

-----------------------------------------------------------------------------
(* The abstract backend *)

\* SandboxPlan::from_request: everything mounted is real, writable trees hold
\* no links.
Mountable(r) ==
  /\ \A p \in r.writable :
       Real(p) /\ \A q \in DOMAIN Links : ~StartsWith(q, p)
  /\ \A p \in r.readOnly : Real(p) /\ KindAt(p) = "dir"

SignalIsSuccess(what, status) ==
  CASE what = "discovery" /\ status = 0 -> Goto("answer")
    [] what = "discovery" /\ status # 0 -> Exit(1)
    [] what = "build" -> Exit(IF status = NoCode THEN 0 ELSE status)
    [] what = "probe" -> Goto("verdict")
After(what, status) ==
  CASE what = "discovery" /\ status = 0 -> Goto("answer")
    [] what = "discovery" /\ status # 0 -> Exit(1)
    [] what = "build" -> Exit(IF status = NoCode THEN 1 ELSE status)
    [] what = "probe" -> Goto("verdict")

BackendRuns ==
  /\ At("run")
  /\ \/ /\ Mountable(request)
        /\ \E status \in host.statuses :
             /\ IF request.what = "discovery" /\ status = 0
                  THEN \E d \in Located \cup host.wrong :
                         found' = [found EXCEPT !.answer = d]
                  ELSE UNCHANGED found
             /\ runs' = Append(runs, [request |-> request, ran |-> TRUE, status |-> status])
             /\ failed' = (failed \/ (request.what = "probe" /\ status # 0))
             /\ After(request.what, status)
     \/ /\ runs' = Append(runs, [request |-> request, ran |-> FALSE, status |-> NoCode])
        /\ failed' = (failed \/ request.what = "probe")
        /\ IF request.what = "probe" THEN Goto("verdict") ELSE Exit(1)
        /\ UNCHANGED found
  /\ UNCHANGED <<host, argv, fs, inv, request, moves>>

-----------------------------------------------------------------------------
(* run_cargo: preparation *)

\* The workspace, where other programs have left it in its place.
Workspace == Landed(found.workspace)
Inside(p) == StartsWith(p, Workspace) /\ p # Workspace
\* validate_target_dir: what is there must be directories, and lead into the
\* workspace over links outside it at most.  The path it returns is Landed(p).
ValidTarget(p) ==
  /\ IsA(found.workspace, "dir") /\ NoTraversal(p) /\ Inside(Landed(p))
  /\ \A q \in Prefixes(p) \ {p} : Exists(q) => IsA(q, "dir")
  /\ \A q \in Prefixes(p) : IsLink(q) =>
       /\ \E r \in Prefixes(p) : Len(r) > Len(q) /\ Exists(r)
       /\ \A end \in {Parent(q), q} : ~StartsWith(Landed(end), Workspace)
\* create_directory_without_symlinks
CanCreate(p) ==
  /\ \A q \in Prefixes(p) : KindAt(q) \in {"dir", "absent"}
  /\ KindAt(p) = "dir" \/ host.writable
Created(p) == [q \in DOMAIN fs \cup Prefixes(p) |-> IF q \in DOMAIN fs THEN fs[q] ELSE Dir]

Target == target_dir_arg(Args, host.fromEnv, host.cwd, found.workspace)

PrepareTarget ==
  /\ At("target")
  /\ LET target == Landed(Target) IN
     IF ~Lacking(Args, "target") /\ ValidTarget(Target) /\ CanCreate(target)
       THEN /\ fs' = Created(target)
            /\ found' = [found EXCEPT !.base = target, !.target = target]
            /\ Goto(IF Isolated THEN "fresh" ELSE "build dir")
       ELSE Exit(1) /\ UNCHANGED <<fs, found>>
  /\ UNCHANGED <<host, argv, inv, request, runs, failed, moves>>

Runs(base) == base \o <<".cargo-cage", "runs">>
Run(base) == Child(Runs(base), "run")
ReuseRun ==
  /\ At("fresh")
  /\ LET runs_dir == Runs(Landed(found.base))
         ok == ValidTarget(found.base) /\ CanCreate(runs_dir)
     IN
     \/ /\ ok /\ fs' = Created(runs_dir)
        /\ found' = [found EXCEPT !.target = runs_dir]
        /\ Goto("build dir")
     \/ ~ok /\ Exit(1) /\ UNCHANGED <<fs, found>>
  /\ UNCHANGED <<host, argv, inv, request, runs, failed, moves>>
PrepareFresh ==
  /\ At("fresh")
  /\ LET base == Landed(found.base)
         ok == ValidTarget(found.base) /\ CanCreate(Runs(base)) /\ host.writable
     IN
     \/ /\ ok /\ fs' = Created(Run(base))
        /\ found' = [found EXCEPT !.target = Run(base)]
        /\ Goto("build dir")
     \/ ~ok /\ Exit(1) /\ UNCHANGED <<fs, found>>
  /\ UNCHANGED <<host, argv, inv, request, runs, failed, moves>>

PrepareBuildDir ==
  /\ At("build dir")
  /\ LET given == Child(found.target, "build")
         ok == ValidTarget(given) /\ CanCreate(Landed(given))
     IN
     \/ ok /\ fs' = Created(Landed(given)) /\ Goto("lockfile")
     \/ ~ok /\ Exit(1) /\ UNCHANGED fs
  /\ UNCHANGED <<host, argv, inv, found, request, runs, failed, moves>>

Lockfile == Child(found.workspace, "Cargo.lock")
LockfileIs(kind) == Reached(Lockfile) /\ KindAt(Entry(Lockfile)) = kind
LockfileUsable == LockfileIs("file") \/ (LockfileIs("absent") /\ host.writable)
PrepareLockfile ==
  /\ At("lockfile")
  /\ \/ /\ LockfileUsable /\ Goto("request")
        /\ fs' = [q \in DOMAIN fs \cup {Entry(Lockfile)} |->
                    IF q \in DOMAIN fs THEN fs[q] ELSE File]
     \/ ~LockfileUsable /\ Exit(1) /\ UNCHANGED fs
  /\ UNCHANGED <<host, argv, inv, found, request, runs, failed, moves>>

\* sandbox_current_dir
sandbox_current_dir ==
  IF StartsWith(host.cwd, found.workspace) THEN host.cwd
  ELSE IF HasManifest /\ StartsWith(Parent(Manifest), found.workspace)
    THEN Parent(Manifest)
    ELSE found.workspace

BuildRequest ==
  /\ At("request")
  /\ \/ /\ ManifestUsable \/ StartsWith(host.cwd, found.workspace)
        /\ found' = [found EXCEPT !.cwd = sandbox_current_dir]
        /\ request' =
             Request("build",
               rewrite_relative_cargo_paths(Args, host.cwd, sandbox_current_dir,
                                            found.target, Isolated),
               sandbox_current_dir,
               {found.workspace} \cup
                 (IF StartsWith(host.cwd, found.workspace) THEN {host.cwd} ELSE {}),
               {found.target, Lockfile})
        /\ Goto("run")
     \/ /\ ~ManifestUsable /\ ~StartsWith(host.cwd, found.workspace)
        /\ Exit(1) /\ UNCHANGED <<found, request>>
  /\ UNCHANGED <<host, argv, fs, inv, runs, failed, moves>>

-----------------------------------------------------------------------------
(* run_doctor *)

\* The build directory is looked for below the target; found.target is the
\* target if it is there already.
CheckTarget ==
  /\ At("check target")
  /\ LET target == Landed(Target) IN
     \/ /\ ValidTarget(Target)
        /\ failed' = (failed \/ ~ValidTarget(Child(target, "build")))
        /\ found' = [found EXCEPT !.base = target,
                                  !.target = IF Exists(target) THEN target ELSE None]
     \/ ~ValidTarget(Target) /\ failed' = TRUE /\ UNCHANGED found
  /\ Goto("check lockfile")
  /\ UNCHANGED <<host, argv, fs, inv, request, runs, moves>>

\* inspect_lockfile, and the policy of the probe: what is there already is
\* writable for it.  A workspace that is gone has no lockfile; a file in its
\* place is an error.
CheckLockfile ==
  /\ At("check lockfile")
  /\ failed' = (failed \/ (Exists(Lockfile) /\ ~LockfileIs("file"))
                  \/ \E q \in Prefixes(found.workspace) : IsA(q, "file"))
  /\ request' = Request("probe", << >>, host.cwd, {found.workspace, host.cwd},
       ({found.target} \ {None}) \cup (IF LockfileIs("file") THEN {Lockfile} ELSE {}))
  /\ Goto("run")
  /\ UNCHANGED <<host, argv, fs, inv, found, runs, moves>>

Verdict ==
  /\ At("verdict")
  /\ Exit(IF failed THEN 1 ELSE 0)
  /\ UNCHANGED <<host, argv, fs, inv, found, request, runs, failed, moves>>

-----------------------------------------------------------------------------
(* Other programs *)

Disturb ==
  /\ pc # "exited" /\ moves < host.moves /\ moves' = moves + 1
  /\ \E p \in DOMAIN fs \ {host.cwd} :
       /\ ~StartsWith(host.cwd, p)
       /\ LET rest == {q \in DOMAIN fs : ~StartsWith(q, p)} IN
          \/ fs' = [q \in rest |-> fs[q]]
          \/ \E e \in Entries :
               /\ fs' = [q \in rest \cup {p} |-> IF q = p THEN e ELSE fs[q]]
               /\ LinksAreFinal(fs')
  /\ UNCHANGED <<host, argv, pc, inv, found, request, runs, failed, exit>>

Program ==
  \/ ParseArguments \/ MakeBackend \/ ResolveTools \/ Discover \/ BackendRuns
  \/ TakeAnswer \/ PrepareTarget \/ PrepareFresh \/ PrepareBuildDir
  \/ PrepareLockfile \/ BuildRequest \/ CheckTarget \/ CheckLockfile \/ Verdict

Next == Program \/ Disturb
Spec == Init /\ [][Next]_vars

-----------------------------------------------------------------------------
(* Properties *)

Built == Len(runs) = 2 /\ runs[2].request.what = "build"

\* What Cargo reads in the sandbox is what the caller has written, from
\* another working directory and with another target: the same manifest, the
\* run's target if any, every other argument as it was.  A shared target is
\* where the caller's argument leads; an absolute one is passed on as it was
\* written, even if it leads there over links, and so is an empty
\* --target-dir=.
MeansTheSame(build) ==
  LET there == build.cwd
      passed == build.args
      manifest == CargoValue(Args, "manifest")
      target == CargoValue(Args, "target")
  IN
  /\ CargoAccepts(passed) /\ CargoPassesOn(passed) = CargoPassesOn(Args)
  /\ \A i \in DOMAIN Args :
       CargoReads(Args, i, {"word", "option"}) => passed[i] = Args[i]
  /\ IF manifest = NoPath
       THEN CargoValue(passed, "manifest") = NoPath /\ there = host.cwd
       ELSE Join(there, CargoValue(passed, "manifest")) = Join(host.cwd, manifest)
  /\ IF target = NoPath THEN CargoValue(passed, "target") = NoPath
     ELSE target # Empty =>
       /\ Join(there, CargoValue(passed, "target")) =
            IF ~Isolated /\ target.root THEN target.names ELSE found.target
       /\ ~Isolated /\ moves = 0 => Landed(Join(host.cwd, target)) = found.target
CargoSeesWhatWasMeant ==
  Built /\ CargoAccepts(Args) => MeansTheSame(runs[2].request)

\* A build that runs may write to its target and to the lockfile of the
\* workspace; by default that target was not there when cargo-cage began.
\* Whatever other programs do between the steps.
BuildWritesOnlyItsOwn ==
  Built =>
    /\ runs[2].request.writable = {found.target, Lockfile}
    /\ StartsWith(runs[2].request.cwd, found.workspace)
    /\ runs[2].ran /\ Isolated => found.target \notin DOMAIN host.fs

\* Success is reported only for a build, or a probe, that ran and succeeded
\* after a successful discovery; a failing Cargo's exit code is passed on.
SuccessIsEarned ==
  exit # -1 =>
    /\ exit = 0 /\ inv.is # "help" =>
         /\ Len(runs) = 2 /\ runs[1].status = 0 /\ runs[2].status = 0
         /\ ~failed
         /\ runs[2].request.what = IF inv.is = "doctor" THEN "probe" ELSE "build"
    /\ Built /\ runs[2].status \in Nat => exit = runs[2].status

\* Doctor creates nothing.  A build creates only what was not there, after
\* discovery, inside a workspace that contains the caller's directory or
\* manifest; a workspace that leads elsewhere by then has been moved by others.
CreatesInOwnWorkspace ==
  [][fs' # fs /\ moves' = moves =>
       /\ inv.is = "cargo" /\ Len(runs) = 1 /\ runs[1].status = 0
       /\ Contains(found.workspace) /\ (moves = 0 => Workspace = found.workspace)
       /\ \A p \in DOMAIN fs : p \in DOMAIN fs' /\ fs'[p] = fs[p]
       /\ \A p \in DOMAIN fs' \ DOMAIN fs : Inside(p)]_vars

\* lib.rs, run_doctor: "environment is ready for an offline sandboxed Cargo
\* command".  Where nothing has changed, a build can prepare its target.
ReadyMeansPreparable ==
  exit = 0 /\ inv.is = "doctor" /\ moves = 0 => CanCreate(Run(found.base))

\* README.md: "`--workspace`, `--package`, ... work as normal".  The workspace
\* is the one Cargo finds in the same directory.
WorkspaceAsNormal ==
  found.workspace # None /\ moves = 0 =>
    \E d \in DOMAIN host.rootOf :
      /\ StartsWith(Base, d) /\ found.workspace = host.rootOf[d]
      /\ \A e \in DOMAIN host.rootOf : StartsWith(Base, e) => Len(e) <= Len(d)
=============================================================================
