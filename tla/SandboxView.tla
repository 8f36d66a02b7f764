----------------------------- MODULE SandboxView -----------------------------
(***************************************************************************)
(* What a sandboxed program sees of the host: SandboxPlan::from_request    *)
(* validates the paths of a policy against each other,                     *)
(* PreparedMounts::open opens them, build_bwrap_args_with_mounts lays the  *)
(* mounts over one another in a fixed order, and the launcher adds one     *)
(* Landlock rule for each mount before it starts the program.              *)
(*                                                                         *)
(* A path is the sequence of its components.  view maps every path of the  *)
(* sandbox to what is found there while Bubblewrap works through its       *)
(* arguments; a mount hides everything below its destination.  The order   *)
(* of mounts of one kind is the policy's, hence arbitrary, except that     *)
(* private paths are sorted.  Trees are assumed to be what tree validation *)
(* leaves of them: no symbolic links, and no file with a name outside.     *)
(***************************************************************************)
EXTENDS Integers, Sequences

CONSTANTS
  Names,     (* what a path component can be                               *)
  Paths,     (* the absolute paths of the host and of the sandbox          *)
  Dirs,      (* directories of the host                                    *)
  Files,     (* regular files of the host                                  *)
  Links,     (* existing names that are, or lead through, a symbolic link  *)
  Runtime,   (* the runtime mounts: a source and the name it appears under *)
  Requests   (* the requests a caller may make                             *)

Root == << >>
Run  == <<"run">>
Proc == <<"proc">>
Dev  == <<"dev">>
FdScrubberShell    == <<"bin", "bash">>
CargoHomeInSandbox == <<"run", "cargo-cage-home">>
Launcher           == <<"run", "cargo-cage-landlock-launcher">>
LauncherContext    == <<"run", "cargo-cage-launcher-context">>
CacheNames == {"registry", "git"}
SandboxOwn == {Proc, Dev, CargoHomeInSandbox, Launcher, LauncherContext}

Host == Dirs \cup Files

StartsWith(p, q) == Len(q) <= Len(p) /\ \A i \in 1..Len(q) : p[i] = q[i]
Overlap(p, q)    == StartsWith(p, q) \/ StartsWith(q, p)
\* The path that p, seen below d, has below s when s is mounted on d.
Moved(p, d, s)   == s \o SubSeq(p, Len(d) + 1, Len(p))

ASSUME TreeAssumption ==
  /\ Paths \subseteq Seq(Names)
  /\ Dirs \subseteq Paths /\ Files \subseteq Paths /\ Links \subseteq Paths
  /\ Dirs \cap Files = {} /\ Links \cap Host = {}
  /\ {Root, Run} \subseteq Dirs
  /\ SandboxOwn \subseteq Paths
  /\ CacheNames \subseteq Names
  /\ \A c \in CacheNames : Append(CargoHomeInSandbox, c) \in Paths
  /\ \A p \in Host, q \in SandboxOwn : ~StartsWith(p, q)
  /\ \A m \in Runtime : m.source \in Dirs \ {Root} /\ m.dest \in Paths
  /\ \A m \in Runtime, q \in SandboxOwn \cup {Run} : ~Overlap(m.dest, q)

\* The directories above what exists exist; runtime_mounts names directories
\* of the root, each once, and takes what a link among them leads to.
ASSUME HostAssumption ==
  /\ \A p \in Host, q \in Paths : StartsWith(p, q) /\ p # q => q \in Dirs
  /\ \A m \in Runtime :
       /\ \E n \in Names : m.dest = <<n>>
       /\ m.source = m.dest \/ m.dest \in Links
  /\ \A m, n \in Runtime : m.dest = n.dest => m = n

ASSUME RequestAssumption ==
  \A r \in Requests :
    /\ r.writable \subseteq Paths /\ r.readOnly \subseteq Paths
    /\ r.private \subseteq Paths /\ r.hidden \subseteq Paths
    /\ r.cargoHome \subseteq Paths
    /\ \A g, h \in r.cargoHome : g = h
    /\ r.program \in Paths /\ r.currentDir \in Paths

VARIABLES
  request,   \* the request being carried out
  phase,     \* how far it has come
  todo,      \* the mounts of each kind that Bubblewrap has yet to make
  view       \* what is found at each path of the sandbox
vars == <<request, phase, todo, view>>

-----------------------------------------------------------------------------
(* SandboxPlan::from_request *)

\* Names that lead nowhere hide nothing and are no CARGO_HOME.
HiddenOf(r)    == r.hidden \cap Host
CargoHomeOf(r) == r.cargoHome \cap Dirs

PolicyPrivate(r) == r.private \cup {Run}
PrivateOf(r) ==
  PolicyPrivate(r) \cup
    {h \in CargoHomeOf(r) : \A v \in PolicyPrivate(r) : ~StartsWith(h, v)}

CachesOf(r) ==
  {c \in Dirs : \E h \in CargoHomeOf(r), n \in CacheNames : c = Append(h, n)}
CacheDestination(c) == Append(CargoHomeInSandbox, c[Len(c)])

ExistingPaths(r) ==
  /\ r.writable \subseteq Host
  /\ r.currentDir \in Dirs /\ r.readOnly \subseteq Dirs /\ r.private \subseteq Dirs
  /\ r.hidden \cap (Links \cup {Root}) = {}

\* The program may be named through a runtime mount such as /bin.
IsProgram(p) ==
  \/ p \in Files
  \/ p \in Links /\ \E m \in Runtime :
       StartsWith(p, m.dest) /\ Moved(p, m.dest, m.source) \in Files

ValidProgram(r) ==
  /\ IsProgram(r.program)
  /\ \E q \in {m.dest : m \in Runtime} \cup r.writable \cup r.readOnly :
       StartsWith(r.program, q)

CargoHomeBelowReadOnly(r) ==
  /\ r.cargoHome \cap (Files \cup Links \cup {Root}) = {}
  /\ \A h \in CargoHomeOf(r), m \in Runtime : ~StartsWith(m.dest, h)

ValidCargoHome(r) ==
  /\ r.cargoHome \cap (Files \cup Links \cup {Root}) = {}
  /\ \A h \in CargoHomeOf(r) :
       /\ \A v \in r.readOnly : ~Overlap(h, v)
       /\ \A m \in Runtime : ~StartsWith(m.dest, h)

ReadOnlyIgnoresHidden(r) ==
  \A v \in r.readOnly, p \in PrivateOf(r) : ~StartsWith(p, v)

ValidReadOnly(r) ==
  \A v \in r.readOnly :
    /\ \A p \in PrivateOf(r) : ~StartsWith(p, v)
    /\ \A h \in HiddenOf(r) : ~Overlap(v, h)

ReexposedBelowPrivate(w, p, r) ==
  \E v \in r.readOnly : StartsWith(w, v) /\ StartsWith(v, p)

WritableApart(r, Hides(_, _), Meets(_, _)) ==
  \A w \in r.writable :
    /\ w # Root
    /\ \A h \in HiddenOf(r) : ~Hides(w, h)
    /\ \A v \in r.readOnly : ~StartsWith(v, w)
    /\ \A p \in PrivateOf(r) : Meets(w, p) => ReexposedBelowPrivate(w, p, r)
WritableAboveHidden(r)  == WritableApart(r, StartsWith, Overlap)
Covers(w, p)            == StartsWith(p, w)
WritableBelowPrivate(r) == WritableApart(r, Overlap, Covers)

ValidWritable(r) ==
  \A w \in r.writable :
    /\ w # Root
    /\ \A h \in HiddenOf(r) : ~StartsWith(w, h) /\ ~StartsWith(h, w)
    /\ \A v \in r.readOnly : ~StartsWith(v, w)
    /\ \A p \in PrivateOf(r) :
         Overlap(w, p) => ReexposedBelowPrivate(w, p, r)

ValidCaches(r) ==
  /\ \A h \in CargoHomeOf(r), n \in CacheNames :
       Append(h, n) \notin Files \cup Links
  /\ \A c \in CachesOf(r) :
       /\ \A w \in r.writable : ~Overlap(c, w)
       /\ \A h \in HiddenOf(r) : ~Overlap(c, h)

Valid(r) ==
  /\ ExistingPaths(r) /\ ValidProgram(r) /\ ValidCargoHome(r)
  /\ ValidReadOnly(r) /\ ValidWritable(r) /\ ValidCaches(r)

-----------------------------------------------------------------------------
(* What Bubblewrap's operations do to the view *)

Absent == [kind |-> "absent", of |-> Root, mode |-> "ro"]
Fresh  == [kind |-> "fresh", of |-> Root, mode |-> "rw"]
Made(kind)     == [kind |-> kind, of |-> Root, mode |-> "ro"]
HostAt(q, mode) == [kind |-> "host", of |-> q, mode |-> mode]

\* Directories above a destination are made when nothing is there.
WithParents(d, p) ==
  IF StartsWith(d, p) /\ view[p] = Absent THEN Fresh ELSE view[p]

Place(d, content) ==
  view' = [p \in Paths |->
             IF StartsWith(p, d) THEN content[p] ELSE WithParents(d, p)]

Bind(s, d, mode) ==
  Place(d, [p \in Paths |-> IF Moved(p, d, s) \in Host
                              THEN HostAt(Moved(p, d, s), mode) ELSE Absent])
Put(d, content) ==
  Place(d, [p \in Paths |-> IF p = d THEN content ELSE Absent])
Tmpfs(d)   == Put(d, Fresh)
MakeDir(d) == view' = [p \in Paths |-> WithParents(d, p)]

-----------------------------------------------------------------------------
(* The order of build_bwrap_args_with_mounts *)

WritableBeforeReadOnly ==
  [runtime |-> 1, kernel |-> 2, private |-> 3, cargoHome |-> 4, writable |-> 5,
   caches |-> 6, maskDirs |-> 7, maskFiles |-> 8, readOnly |-> 9,
   context |-> 10, launcher |-> 11]
Rank == [runtime |-> 1, kernel |-> 2, private |-> 3, cargoHome |-> 4,
         readOnly |-> 5, caches |-> 6, maskDirs |-> 7, maskFiles |-> 8,
         writable |-> 9, context |-> 10, launcher |-> 11]
Stages == DOMAIN Rank

Plan(r) ==
  [runtime   |-> {m.dest : m \in Runtime},
   kernel    |-> {Proc, Dev},
   private   |-> PrivateOf(r),
   cargoHome |-> {CargoHomeInSandbox},
   readOnly  |-> r.readOnly,
   caches    |-> {CacheDestination(c) : c \in CachesOf(r)},
   maskDirs  |-> HiddenOf(r) \cap Dirs,
   maskFiles |-> HiddenOf(r) \cap Files,
   writable  |-> r.writable,
   context   |-> {LauncherContext},
   launcher  |-> {Launcher}]

\* d is the next argument, of stage s.
Take(s, d) ==
  /\ phase = "mounting"
  /\ \A t \in Stages : Rank[t] < Rank[s] => todo[t] = {}
  /\ d \in todo[s]
  /\ todo' = [todo EXCEPT ![s] = @ \ {d}]
  /\ UNCHANGED <<request, phase>>

Init ==
  /\ request \in Requests
  /\ phase = "request"
  /\ todo = [s \in Stages |-> {}]
  /\ view = [p \in Paths |-> IF p = Root THEN Fresh ELSE Absent]

\* Validation of the trees below the paths can refuse what Valid accepts.
FromRequest ==
  /\ phase = "request"
  /\ \/ Valid(request) /\ phase' = "planned"
     \/ phase' = "refused"
  /\ UNCHANGED <<request, todo, view>>

\* A source that was exchanged since its validation does not open.
OpenSources ==
  /\ phase = "planned"
  /\ \/ phase' = "mounting" /\ todo' = Plan(request)
     \/ phase' = "refused" /\ UNCHANGED todo
  /\ UNCHANGED <<request, view>>

MountRuntime ==
  \E m \in Runtime : Take("runtime", m.dest) /\ Bind(m.source, m.dest, "ro")

MountKernel == \E d \in {Proc, Dev} : Take("kernel", d) /\ Put(d, Made("kernel"))

MountPrivateUnordered ==
  \E d \in PrivateOf(request) : Take("private", d) /\ Tmpfs(d)

\* private_mount_order: outer paths before inner ones.
MountPrivate ==
  \E d \in PrivateOf(request) :
    /\ \A e \in todo.private : StartsWith(d, e) => e = d
    /\ Take("private", d) /\ Tmpfs(d)

MakeCargoHome ==
  Take("cargoHome", CargoHomeInSandbox) /\ MakeDir(CargoHomeInSandbox)

MountReadOnly ==
  \E d \in request.readOnly : Take("readOnly", d) /\ Bind(d, d, "ro")

MountCache ==
  \E c \in CachesOf(request) :
    Take("caches", CacheDestination(c)) /\ Bind(c, CacheDestination(c), "ro")

MaskDirectory == \E d \in HiddenOf(request) : Take("maskDirs", d) /\ Tmpfs(d)

MaskFile ==
  \E d \in HiddenOf(request) : Take("maskFiles", d) /\ Put(d, Made("null"))

MountWritable ==
  \E d \in request.writable : Take("writable", d) /\ Bind(d, d, "rw")

WriteContext ==
  Take("context", LauncherContext) /\ Put(LauncherContext, Made("context"))

MountLauncher == Take("launcher", Launcher) /\ Put(Launcher, Made("launcher"))

-----------------------------------------------------------------------------
(* run_internal_launcher *)

read_access     == {"ReadFile", "ReadDir"}
execute_access  == read_access \cup {"Execute"}
write_access    == execute_access \cup {"WriteFile", "MakeReg"}
private_access  == write_access \cup {"MakeSock"}
lockfile_access == {"ReadFile", "WriteFile"}
proc_access     == {"ReadFile", "ReadDir"}
device_access   == {"ReadFile", "ReadDir", "WriteFile"}

Rule(paths, access) == {[path |-> p, access |-> access] : p \in paths}

Rules(r) ==
  LET plan == Plan(r) IN
    Rule(plan.caches, read_access)
      \cup Rule(plan.runtime \cup r.readOnly, execute_access)
      \cup Rule(r.writable \cap Dirs, write_access)
      \cup Rule(r.writable \cap Files, lockfile_access)
      \cup Rule(PrivateOf(r) \cup {CargoHomeInSandbox}, private_access)
      \cup Rule({Proc}, proc_access) \cup Rule({Dev}, device_access)

\* Landlock joins the rights of all rules on the way up from p.
Allowed(right, p) ==
  \E rule \in Rules(request) :
    StartsWith(p, rule.path) /\ right \in rule.access

Exists(p) == view[p].kind # "absent"

\* Bubblewrap changes to the working directory and starts the shell; the
\* launcher checks its context, opens every rule's path and starts the program.
CanLaunch ==
  /\ Exists(request.currentDir) /\ Exists(FdScrubberShell)
  /\ view[LauncherContext].kind = "context"
  /\ \A rule \in Rules(request) : rule.path # Root /\ Exists(rule.path)
  /\ view[request.program].kind = "host" /\ Allowed("Execute", request.program)

Launch ==
  /\ phase = "mounting"
  /\ \A s \in Stages : todo[s] = {}
  /\ phase' = IF CanLaunch THEN "running" ELSE "failed"
  /\ UNCHANGED <<request, todo, view>>

Next ==
  \/ FromRequest \/ OpenSources
  \/ MountRuntime \/ MountKernel \/ MountPrivate \/ MakeCargoHome
  \/ MountReadOnly \/ MountCache \/ MaskDirectory \/ MaskFile
  \/ MountWritable \/ WriteContext \/ MountLauncher
  \/ Launch

Spec == Init /\ [][Next]_vars

-----------------------------------------------------------------------------
(* Properties *)

Content == {Absent, Fresh}
             \cup {Made(k) : k \in {"kernel", "null", "context", "launcher"}}
             \cup {HostAt(q, mode) : q \in Host, mode \in {"ro", "rw"}}

\* Every variable has its type; what is still to be mounted is in the plan.
TypeOK ==
  /\ request \in Requests
  /\ phase \in {"request", "planned", "refused", "mounting", "running",
                "failed"}
  /\ todo \in [Stages -> SUBSET Paths]
  /\ \A s \in Stages : todo[s] \subseteq Plan(request)[s]
  /\ view \in [Paths -> Content]

\* The host path q is visible at p.
Shows(p, q) == view[p].kind = "host" /\ view[p].of = q

\* A host path that also appears under another name of the runtime, as
\* /usr/bin does under /bin.
Doubled(q) == \E m \in Runtime : m.source # m.dest /\ Overlap(q, m.source)

\* Whatever the nesting of a policy's paths, the program finds nothing of a
\* hidden path at any place.  (It may have a second name below a runtime
\* mount, /bin for /usr/bin, which make_mask does not see.)
HiddenStaysHidden ==
  phase = "running" =>
    \A h \in HiddenOf(request), p \in Paths, q \in Host :
      StartsWith(q, h) /\ Shows(p, q) => Doubled(h)

\* The host files a program can change are exactly those at and below the
\* writable paths: the mount lets it, the Landlock rules let it, and no
\* later mount takes the path away.
WritableExactly ==
  phase = "running" =>
    {view[p].of : p \in {p \in Paths : /\ view[p].kind = "host" /\ view[p].mode = "rw"
                                       /\ Allowed("WriteFile", p)}}
      = {q \in Host : \E w \in request.writable : StartsWith(q, w)}

\* Below a private path the program finds only what the policy puts back: a
\* read-only path and what is in it, or the caches.
PrivateShowsOnlyTheChosen ==
  phase = "running" =>
    \A v \in PrivateOf(request), p \in Paths :
      StartsWith(p, v) /\ view[p].kind = "host" =>
        \/ \E e \in request.readOnly : StartsWith(p, e) /\ StartsWith(e, v)
        \/ \E c \in CachesOf(request) : StartsWith(p, CacheDestination(c))

\* Of CARGO_HOME, with its credentials and configuration, the program finds
\* only the caches, in the sandbox's own Cargo home, and cannot change them.
OnlyCachesOfCargoHome ==
  phase = "running" =>
    \A h \in CargoHomeOf(request), p \in Paths, q \in Host :
      StartsWith(q, h) /\ Shows(p, q) =>
        \/ Doubled(h)
        \/ /\ StartsWith(p, CargoHomeInSandbox) /\ view[p].mode = "ro"
           /\ \E c \in CachesOf(request) : StartsWith(q, c)

\* A read-only path is visible in full under its own name, below whatever
\* private path it lies.
ReadOnlyStaysVisible ==
  phase = "running" =>
    \A v \in request.readOnly, q \in Host : StartsWith(q, v) => Shows(q, q)

\* A path the mounts provide and no mask or private path takes away again.
Provided(p) ==
  /\ \E q \in {m.dest : m \in Runtime} \cup request.readOnly \cup request.writable :
       StartsWith(p, q)
  /\ \A h \in HiddenOf(request) : ~StartsWith(p, h)
  /\ \A v \in PrivateOf(request) :
       StartsWith(p, v) =>
         \E e \in request.readOnly : StartsWith(p, e) /\ StartsWith(e, v)

\* What from_request accepts can be started: every path a Landlock rule names
\* exists once all mounts are made.  from_request does not see that the host
\* has no shell where the sandbox starts it, that a policy takes away the shell,
\* the program or the working directory, that it hides a directory with a
\* private one in it, or that the program is a writable file, which no rule lets
\* the sandbox execute.
AcceptedMeansStartable ==
  phase = "failed" =>
    \/ ~IsProgram(FdScrubberShell)
    \/ \E p \in {FdScrubberShell, request.program, request.currentDir} :
         ~Provided(p)
    \/ \E h \in HiddenOf(request),
         v \in PrivateOf(request) \cup {CargoHomeInSandbox} :
         v # h /\ StartsWith(v, h)
    \/ Root \in request.private
    \/ request.program \in request.writable
=============================================================================
