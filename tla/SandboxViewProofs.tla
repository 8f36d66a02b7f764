-------------------------- MODULE SandboxViewProofs --------------------------
(***************************************************************************)
(* Theorems about SandboxView, for every host tree and every policy.       *)
(***************************************************************************)
EXTENDS SandboxViewInv, TLAPS

-----------------------------------------------------------------------------
(* Paths *)

LEMMA StartsWithItself ==
  ASSUME NEW p \in Seq(Names)
  PROVE  StartsWith(p, p)
BY DEF StartsWith

LEMMA StartsWithTransitive ==
  ASSUME NEW p \in Seq(Names), NEW q \in Seq(Names), NEW r \in Seq(Names),
         StartsWith(p, q), StartsWith(q, r)
  PROVE  StartsWith(p, r)
BY DEF StartsWith

\* Two paths above the same path overlap.
LEMMA AncestorsOverlap ==
  ASSUME NEW p \in Seq(Names), NEW q \in Seq(Names), NEW r \in Seq(Names),
         StartsWith(p, q), StartsWith(p, r)
  PROVE  Overlap(q, r)
<1>1. CASE Len(q) <= Len(r)
  BY <1>1 DEF StartsWith, Overlap
<1>2. CASE Len(r) <= Len(q)
  BY <1>2 DEF StartsWith, Overlap
<1> QED BY <1>1, <1>2

LEMMA MovedStartsWithSource ==
  ASSUME NEW p \in Seq(Names), NEW d \in Seq(Names), NEW s \in Seq(Names),
         StartsWith(p, d)
  PROVE  StartsWith(Moved(p, d, s), s)
<1>1. SubSeq(p, Len(d) + 1, Len(p)) \in Seq(Names)
  BY DEF StartsWith
<1> QED BY <1>1 DEF StartsWith, Moved

LEMMA MovedToItself ==
  ASSUME NEW p \in Seq(Names), NEW d \in Seq(Names), StartsWith(p, d)
  PROVE  Moved(p, d, d) = p
<1> DEFINE rest == SubSeq(p, Len(d) + 1, Len(p))
<1>1. /\ rest \in Seq(Names) /\ Len(rest) = Len(p) - Len(d)
      /\ \A i \in 1..Len(rest) : rest[i] = p[Len(d) + i]
  BY DEF StartsWith
<1>2. /\ d \o rest \in Seq(Names) /\ Len(d \o rest) = Len(p)
      /\ \A i \in 1..Len(p) : (d \o rest)[i] = p[i]
  <2>1. d \o rest \in Seq(Names) /\ Len(d \o rest) = Len(d) + Len(rest)
    BY <1>1
  <2>2. ASSUME NEW i \in 1..Len(p) PROVE (d \o rest)[i] = p[i]
    <3>1. CASE i <= Len(d)
      BY <3>1, <1>1, <2>1 DEF StartsWith
    <3>2. CASE i > Len(d)
      <4>1. i - Len(d) \in 1..Len(rest)
        BY <3>2, <1>1
      <4>2. (d \o rest)[i] = rest[i - Len(d)]
        BY <3>2, <4>1, <1>1, <2>1
      <4> QED BY <4>1, <4>2, <1>1
    <3> QED BY <3>1, <3>2
  <2> QED BY <2>1, <2>2, <1>1
<1> QED BY <1>2 DEF Moved

LEMMA MovedOfItself ==
  ASSUME NEW d \in Seq(Names), NEW s \in Seq(Names)
  PROVE  Moved(d, d, s) = s
<1>1. SubSeq(d, Len(d) + 1, Len(d)) = << >>
  OBVIOUS
<1>2. s \o << >> = s
  OBVIOUS
<1> QED BY <1>1, <1>2 DEF Moved

-----------------------------------------------------------------------------
(* Types *)

LEMMA PathsAreSequences == Paths \subseteq Seq(Names)
BY TreeAssumption

LEMMA RequestTypes ==
  ASSUME NEW r \in Requests
  PROVE  /\ r.writable \subseteq Paths /\ r.readOnly \subseteq Paths
         /\ PrivateOf(r) \subseteq Paths
         /\ HiddenOf(r) \subseteq Paths /\ HiddenOf(r) \subseteq Host
         /\ CargoHomeOf(r) \subseteq Paths
         /\ CachesOf(r) \subseteq Paths
BY TreeAssumption, RequestAssumption
   DEF PrivateOf, PolicyPrivate, HiddenOf, CargoHomeOf, CachesOf, Host

LEMMA CacheDestinations ==
  ASSUME NEW r \in Requests, NEW c \in CachesOf(r)
  PROVE  /\ CacheDestination(c) \in Paths
         /\ StartsWith(CacheDestination(c), CargoHomeInSandbox)
<1>1. PICK h \in CargoHomeOf(r), n \in CacheNames : c = Append(h, n)
  BY DEF CachesOf
<1>2. h \in Seq(Names)
  BY PathsAreSequences, RequestTypes
<1>3. n \in Names
  BY TreeAssumption
<1>6. c[Len(c)] = n
  <2>1. Len(c) = Len(h) + 1 /\ c[Len(h) + 1] = n
    BY <1>1, <1>2, <1>3
  <2> QED BY <2>1
<1>4. CargoHomeInSandbox \in Seq(Names)
  BY PathsAreSequences, TreeAssumption DEF SandboxOwn
<1>5. StartsWith(Append(CargoHomeInSandbox, n), CargoHomeInSandbox)
  BY <1>3, <1>4 DEF StartsWith
<1> QED BY <1>6, <1>5, TreeAssumption DEF CacheDestination

LEMMA StageNames ==
  /\ Stages = {"runtime", "kernel", "private", "cargoHome", "readOnly",
               "caches", "maskDirs", "maskFiles", "writable", "context",
               "launcher"}
  /\ Rank["runtime"] = 1 /\ Rank["kernel"] = 2 /\ Rank["private"] = 3
  /\ Rank["cargoHome"] = 4 /\ Rank["readOnly"] = 5 /\ Rank["caches"] = 6
  /\ Rank["maskDirs"] = 7 /\ Rank["maskFiles"] = 8 /\ Rank["writable"] = 9
  /\ Rank["context"] = 10 /\ Rank["launcher"] = 11
BY DEF Stages, Rank

LEMMA PlanType ==
  ASSUME NEW r \in Requests
  PROVE  Plan(r) \in [Stages -> SUBSET Paths]
<1>1. \A c \in CachesOf(r) : CacheDestination(c) \in Paths
  BY CacheDestinations
<1>2. {Run, Proc, Dev, CargoHomeInSandbox, Launcher, LauncherContext}
        \subseteq Paths
  BY TreeAssumption DEF SandboxOwn
<1>3. \A m \in Runtime : m.dest \in Paths
  BY TreeAssumption
<1> QED BY <1>1, <1>2, <1>3, RequestTypes, StageNames DEF Plan

-----------------------------------------------------------------------------
(* What one mount does *)

\* What is found below the destination d of a mount of stage s.
Below(s, d, p) ==
  /\ s = "runtime" =>
       \E m \in Runtime :
         /\ d = m.dest
         /\ view'[p] = IF Moved(p, d, m.source) \in Host
                         THEN HostAt(Moved(p, d, m.source), "ro") ELSE Absent
  /\ s = "readOnly" =>
       view'[p] = IF p \in Host THEN HostAt(p, "ro") ELSE Absent
  /\ s = "caches" =>
       \E c \in CachesOf(request) :
         /\ d = CacheDestination(c)
         /\ view'[p] = IF Moved(p, d, c) \in Host
                         THEN HostAt(Moved(p, d, c), "ro") ELSE Absent
  /\ s = "writable" =>
       view'[p] = IF p \in Host THEN HostAt(p, "rw") ELSE Absent
  /\ s = "cargoHome" =>
       /\ view'[p] = view[p] \/ view'[p] = Fresh
       /\ p = d => view'[p].kind # "absent"
  /\ s \in {"kernel", "private", "maskDirs", "maskFiles", "context", "launcher"}
       => /\ view'[p].kind # "host"
          /\ p = d => view'[p].kind # "absent"
  /\ s = "context" /\ p = d => view'[p].kind = "context"

Beside(p) ==
  \/ view'[p] = view[p]
  \/ view[p] = Absent /\ view'[p] = Fresh

Effect(s, d) ==
  /\ view' \in [Paths -> Content]
  /\ s = "private" => \A e \in todo.private : StartsWith(d, e) => e = d
  /\ \A p \in Paths : IF StartsWith(p, d) THEN Below(s, d, p) ELSE Beside(p)

LEMMA ContentTypes ==
  /\ Absent \in Content /\ Fresh \in Content
  /\ \A q \in Host, mode \in {"ro", "rw"} : HostAt(q, mode) \in Content
  /\ \A k \in {"kernel", "null", "context", "launcher"} : Made(k) \in Content
BY DEF Content

LEMMA ContentKinds ==
  /\ Absent.kind = "absent" /\ Fresh.kind = "fresh"
  /\ \A k : Made(k).kind = k
  /\ \A q, mode : HostAt(q, mode).kind = "host" /\ HostAt(q, mode).of = q
  /\ \A q, mode : HostAt(q, mode).mode = mode
BY DEF Absent, Fresh, Made, HostAt

LEMMA PlaceEffect ==
  ASSUME view \in [Paths -> Content], NEW d \in Paths,
         NEW content \in [Paths -> Content], Place(d, content)
  PROVE  /\ view' \in [Paths -> Content]
         /\ \A p \in Paths :
              IF StartsWith(p, d) THEN view'[p] = content[p] ELSE Beside(p)
BY ContentTypes DEF Place, WithParents, Beside

LEMMA BindEffect ==
  ASSUME view \in [Paths -> Content], NEW d \in Paths, NEW s \in Paths,
         NEW mode \in {"ro", "rw"}, Bind(s, d, mode)
  PROVE  /\ view' \in [Paths -> Content]
         /\ \A p \in Paths :
              IF StartsWith(p, d)
              THEN view'[p] = IF Moved(p, d, s) \in Host
                                THEN HostAt(Moved(p, d, s), mode) ELSE Absent
              ELSE Beside(p)
<1> DEFINE content == [p \in Paths |-> IF Moved(p, d, s) \in Host
                              THEN HostAt(Moved(p, d, s), mode) ELSE Absent]
<1>1. content \in [Paths -> Content]
  BY ContentTypes
<1>2. Place(d, content)
  BY DEF Bind
<1>3. \A p \in Paths : content[p] = IF Moved(p, d, s) \in Host
                              THEN HostAt(Moved(p, d, s), mode) ELSE Absent
  OBVIOUS
<1> HIDE DEF content
<1> QED BY <1>1, <1>2, <1>3, PlaceEffect

LEMMA PutEffect ==
  ASSUME view \in [Paths -> Content], NEW d \in Paths, NEW content \in Content,
         content.kind # "host", Put(d, content)
  PROVE  /\ view' \in [Paths -> Content]
         /\ \A p \in Paths :
              IF StartsWith(p, d)
              THEN view'[p].kind # "host" /\ (p = d => view'[p] = content)
              ELSE Beside(p)
<1> DEFINE new == [p \in Paths |-> IF p = d THEN content ELSE Absent]
<1>1. new \in [Paths -> Content]
  BY ContentTypes
<1>2. Place(d, new)
  BY DEF Put
<1>3. \A p \in Paths : new[p].kind # "host" /\ (p = d => new[p] = content)
  BY ContentKinds
<1> HIDE DEF new
<1> QED BY <1>1, <1>2, <1>3, PlaceEffect

LEMMA MakeDirEffect ==
  ASSUME view \in [Paths -> Content], NEW d \in Paths, MakeDir(d)
  PROVE  /\ view' \in [Paths -> Content]
         /\ \A p \in Paths : Beside(p)
         /\ StartsWith(d, d) => view'[d].kind # "absent"
<1>1. view' \in [Paths -> Content] /\ \A p \in Paths : Beside(p)
  BY ContentTypes DEF MakeDir, WithParents, Beside
<1>2. view[d].kind = "absent" => view[d] = Absent
  BY ContentKinds DEF Content
<1>3. StartsWith(d, d) => view'[d] = IF view[d] = Absent THEN Fresh ELSE view[d]
  BY DEF MakeDir, WithParents
<1> QED BY <1>1, <1>2, <1>3, ContentKinds

LEMMA BindToItselfEffect ==
  ASSUME view \in [Paths -> Content], NEW d \in Paths, NEW mode \in {"ro", "rw"},
         Bind(d, d, mode)
  PROVE  /\ view' \in [Paths -> Content]
         /\ \A p \in Paths :
              IF StartsWith(p, d)
              THEN view'[p] = IF p \in Host THEN HostAt(p, mode) ELSE Absent
              ELSE Beside(p)
<1>1. \A p \in Paths : StartsWith(p, d) => Moved(p, d, d) = p
  BY PathsAreSequences, MovedToItself
<1> QED BY <1>1, BindEffect

Quiet == (FromRequest \/ OpenSources \/ Launch) /\ UNCHANGED <<request, view>>

\* Every step but those around the mounts takes one argument of one stage.
LEMMA StepsAreMounts ==
  ASSUME TypeOK, Next
  PROVE  \/ Quiet
         \/ \E s \in Stages, d \in Paths : Take(s, d) /\ Effect(s, d)
<1> USE StageNames
<1>t. /\ view \in [Paths -> Content] /\ request \in Requests
      /\ \A s \in Stages : todo[s] \subseteq Paths
  BY DEF TypeOK
<1>p. {Run, Proc, Dev, CargoHomeInSandbox, Launcher, LauncherContext}
        \subseteq Paths
  BY TreeAssumption DEF SandboxOwn
<1>k. /\ \A k \in {"kernel", "null", "context", "launcher"} :
            /\ Made(k) \in Content /\ Made(k).kind # "host"
            /\ Made(k).kind # "absent"
      /\ Fresh \in Content /\ Fresh.kind # "host" /\ Fresh.kind # "absent"
      /\ Made("context").kind = "context"
  BY ContentTypes, ContentKinds
<1>1. CASE FromRequest \/ OpenSources \/ Launch
  BY <1>1 DEF Quiet, FromRequest, OpenSources, Launch
<1>2. CASE MountRuntime
  <2>1. PICK m \in Runtime : Take("runtime", m.dest) /\ Bind(m.source, m.dest, "ro")
    BY <1>2 DEF MountRuntime
  <2>2. m.dest \in Paths /\ m.source \in Paths
    BY TreeAssumption
  <2>3. Effect("runtime", m.dest)
    BY <2>1, <2>2, <1>t, BindEffect DEF Effect, Below
  <2> QED BY <2>1, <2>2, <2>3
<1>3. CASE MountKernel
  <2>1. PICK d \in {Proc, Dev} : Take("kernel", d) /\ Put(d, Made("kernel"))
    BY <1>3 DEF MountKernel
  <2>2. Effect("kernel", d)
    BY <2>1, <1>p, <1>k, <1>t, PutEffect DEF Effect, Below
  <2> QED BY <2>1, <2>2, <1>p
<1>4. CASE MountPrivate
  <2>1. PICK d \in PrivateOf(request) :
          /\ \A e \in todo.private : StartsWith(d, e) => e = d
          /\ Take("private", d) /\ Tmpfs(d)
    BY <1>4 DEF MountPrivate
  <2>2. d \in Paths
    BY RequestTypes, <1>t
  <2>3. Effect("private", d)
    BY <2>1, <2>2, <1>k, <1>t, PutEffect DEF Effect, Below, Tmpfs
  <2> QED BY <2>1, <2>2, <2>3
<1>5. CASE MakeCargoHome
  <2>1. Take("cargoHome", CargoHomeInSandbox) /\ MakeDir(CargoHomeInSandbox)
    BY <1>5 DEF MakeCargoHome
  <2>2. Effect("cargoHome", CargoHomeInSandbox)
    BY <2>1, <1>p, <1>t, MakeDirEffect, StartsWithItself, PathsAreSequences
       DEF Effect, Below, Beside
  <2> QED BY <2>1, <2>2, <1>p
<1>6. CASE MountReadOnly
  <2>1. PICK d \in request.readOnly : Take("readOnly", d) /\ Bind(d, d, "ro")
    BY <1>6 DEF MountReadOnly
  <2>2. d \in Paths
    BY RequestTypes, <1>t
  <2>3. Effect("readOnly", d)
    BY <2>1, <2>2, <1>t, BindToItselfEffect DEF Effect, Below
  <2> QED BY <2>1, <2>2, <2>3
<1>7. CASE MountCache
  <2>1. PICK c \in CachesOf(request) :
          /\ Take("caches", CacheDestination(c))
          /\ Bind(c, CacheDestination(c), "ro")
    BY <1>7 DEF MountCache
  <2>2. c \in Paths /\ CacheDestination(c) \in Paths
    BY RequestTypes, CacheDestinations, <1>t
  <2>3. Effect("caches", CacheDestination(c))
    BY <2>1, <2>2, <1>t, BindEffect DEF Effect, Below
  <2> QED BY <2>1, <2>2, <2>3
<1>8. CASE MaskDirectory
  <2>1. PICK d \in HiddenOf(request) : Take("maskDirs", d) /\ Tmpfs(d)
    BY <1>8 DEF MaskDirectory
  <2>2. d \in Paths
    BY RequestTypes, <1>t
  <2>3. Effect("maskDirs", d)
    BY <2>1, <2>2, <1>k, <1>t, PutEffect DEF Effect, Below, Tmpfs
  <2> QED BY <2>1, <2>2, <2>3
<1>9. CASE MaskFile
  <2>1. PICK d \in HiddenOf(request) : Take("maskFiles", d) /\ Put(d, Made("null"))
    BY <1>9 DEF MaskFile
  <2>2. d \in Paths
    BY RequestTypes, <1>t
  <2>3. Effect("maskFiles", d)
    BY <2>1, <2>2, <1>k, <1>t, PutEffect DEF Effect, Below
  <2> QED BY <2>1, <2>2, <2>3
<1>10. CASE MountWritable
  <2>1. PICK d \in request.writable : Take("writable", d) /\ Bind(d, d, "rw")
    BY <1>10 DEF MountWritable
  <2>2. d \in Paths
    BY RequestTypes, <1>t
  <2>3. Effect("writable", d)
    BY <2>1, <2>2, <1>t, BindToItselfEffect DEF Effect, Below
  <2> QED BY <2>1, <2>2, <2>3
<1>11. CASE WriteContext
  <2>1. Take("context", LauncherContext) /\ Put(LauncherContext, Made("context"))
    BY <1>11 DEF WriteContext
  <2>2. Effect("context", LauncherContext)
    BY <2>1, <1>p, <1>k, <1>t, PutEffect DEF Effect, Below
  <2> QED BY <2>1, <2>2, <1>p
<1>12. CASE MountLauncher
  <2>1. Take("launcher", Launcher) /\ Put(Launcher, Made("launcher"))
    BY <1>12 DEF MountLauncher
  <2>2. Effect("launcher", Launcher)
    BY <2>1, <1>p, <1>k, <1>t, PutEffect DEF Effect, Below
  <2> QED BY <2>1, <2>2, <1>p
<1> QED BY <1>1, <1>2, <1>3, <1>4, <1>5, <1>6, <1>7, <1>8, <1>9, <1>10, <1>11,
           <1>12 DEF Next

-----------------------------------------------------------------------------
(* Types and order *)

LEMMA InitTypes == Init => TypeOK
<1> SUFFICES ASSUME Init PROVE TypeOK
  OBVIOUS
<1>1. Plan(request) \in [Stages -> SUBSET Paths]
  BY PlanType DEF Init
<1>2. view \in [Paths -> Content]
  BY ContentTypes DEF Init
<1> QED BY <1>1, <1>2 DEF Init, TypeOK

LEMMA StepTypes == TypeOK /\ [Next]_vars => TypeOK'
<1> SUFFICES ASSUME TypeOK, [Next]_vars PROVE TypeOK'
  OBVIOUS
<1>1. Plan(request) \in [Stages -> SUBSET Paths]
  BY PlanType DEF TypeOK
<1>2. CASE Quiet
  <2>1. todo' = todo \/ todo' = Plan(request)
    BY <1>2 DEF Quiet, FromRequest, OpenSources, Launch
  <2>2. phase' \in {"request", "planned", "refused", "mounting", "running",
                    "failed"}
    BY <1>2 DEF Quiet, FromRequest, OpenSources, Launch
  <2>3. Plan(request)' = Plan(request)
    BY <1>2 DEF Quiet, Plan, PrivateOf, PolicyPrivate, CargoHomeOf, CachesOf,
       HiddenOf
  <2> QED BY <1>1, <1>2, <2>1, <2>2, <2>3 DEF Quiet, TypeOK
<1>3. ASSUME NEW s \in Stages, NEW d \in Paths, Take(s, d), Effect(s, d)
      PROVE  TypeOK'
  <2>1. request' = request /\ phase' = phase
    BY <1>3 DEF Take
  <2>2. todo' = [todo EXCEPT ![s] = @ \ {d}]
    BY <1>3 DEF Take
  <2>3. Plan(request)' = Plan(request)
    BY <2>1 DEF Plan, PrivateOf, PolicyPrivate, CargoHomeOf, CachesOf, HiddenOf
  <2> QED BY <1>1, <1>3, <2>1, <2>2, <2>3 DEF Effect, TypeOK
<1>4. CASE UNCHANGED vars
  BY <1>4 DEF vars, TypeOK, Plan, PrivateOf, PolicyPrivate, CargoHomeOf,
     CachesOf, HiddenOf
<1> QED BY <1>2, <1>3, <1>4, StepsAreMounts

\* Every variable keeps its type: what Bubblewrap has still to mount is always
\* part of the plan, and the view knows only existing host paths.
THEOREM ViewTypeCorrect == Spec => []TypeOK
BY InitTypes, StepTypes, PTL DEF Spec

\* The plan, and what it is made of, is a function of the request.
LEMMA RequestStays ==
  ASSUME Next
  PROVE  request' = request
BY DEF Next, FromRequest, OpenSources, Launch, MountRuntime, MountKernel,
   MountPrivate, MakeCargoHome, MountReadOnly, MountCache, MaskDirectory,
   MaskFile, MountWritable, WriteContext, MountLauncher, Take

LEMMA PlanStays ==
  ASSUME request' = request
  PROVE  /\ Plan(request)' = Plan(request)
         /\ PrivateOf(request)' = PrivateOf(request)
         /\ CachesOf(request)' = CachesOf(request)
         /\ HiddenOf(request)' = HiddenOf(request)
         /\ Valid(request)' = Valid(request)
BY DEF Plan, PrivateOf, PolicyPrivate, CargoHomeOf, CachesOf, HiddenOf, Valid,
   ExistingPaths, ValidProgram, ValidCargoHome, ValidReadOnly, ValidWritable,
   ValidCaches, ReexposedBelowPrivate

LEMMA OrderKept == TypeOK /\ OrderInv /\ [Next]_vars => OrderInv'
<1> SUFFICES ASSUME TypeOK, OrderInv, [Next]_vars PROVE OrderInv'
  OBVIOUS
<1>1. request' = request
  BY RequestStays DEF vars
<1>2. Plan(request)' = Plan(request) /\ Valid(request)' = Valid(request)
  BY <1>1, PlanStays
<1>3. CASE FromRequest
  BY <1>1, <1>2, <1>3 DEF FromRequest, OrderInv, Active
<1>4. CASE OpenSources
  BY <1>1, <1>2, <1>4 DEF OpenSources, OrderInv, Active
<1>5. CASE Launch
  BY <1>1, <1>2, <1>5 DEF Launch, OrderInv, Active
<1>6. ASSUME NEW s \in Stages, NEW d \in Paths, Take(s, d) PROVE OrderInv'
  <2>1. /\ phase = "mounting" /\ phase' = "mounting" /\ d \in todo[s]
        /\ \A t \in Stages : Rank[t] < Rank[s] => todo[t] = {}
        /\ \A t \in Stages : todo'[t] = IF t = s THEN todo[s] \ {d} ELSE todo[t]
    BY <1>6 DEF Take, TypeOK
  <2>2. ASSUME NEW r \in Stages, NEW t \in Stages,
               Rank[r] < Rank[t], todo'[t] # Plan(request)[t]
        PROVE  todo'[r] = {}
    <3>1. CASE t = s
      BY <2>1, <2>2, <3>1, StageNames
    <3>2. CASE t # s
      <4>1. todo[r] = {}
        BY <2>1, <2>2, <3>2 DEF OrderInv, Active
      <4> QED BY <2>1, <4>1
    <3> QED BY <3>1, <3>2
  <2> QED BY <1>2, <2>1, <2>2 DEF OrderInv, Active
<1>7. CASE UNCHANGED vars
  BY <1>1, <1>2, <1>7 DEF vars, OrderInv, Active
<1> QED BY <1>3, <1>4, <1>5, <1>6, <1>7, StepsAreMounts DEF Quiet

-----------------------------------------------------------------------------
(* What stays and what appears *)

\* The stage of a mount decides what it can find already mounted: once a path
\* of stage t has been mounted, only stages from t on are still to come.
LEMMA LaterStages ==
  ASSUME TypeOK, OrderInv, NEW s \in Stages, NEW d \in Paths, Take(s, d),
         NEW t \in Stages, todo[t] # Plan(request)[t]
  PROVE  Rank[s] >= Rank[t]
<1>1. d \in todo[s] /\ Active
  BY DEF Take, Active
<1>2. Rank[s] \in Int /\ Rank[t] \in Int
  BY StageNames
<1> QED BY <1>1, <1>2 DEF OrderInv

LEMMA TodoAfter ==
  ASSUME TypeOK, NEW s \in Stages, NEW d \in Paths, Take(s, d)
  PROVE  /\ d \in Plan(request)[s] /\ d \in todo[s]
         /\ \A t \in Stages : todo'[t] = IF t = s THEN todo[s] \ {d} ELSE todo[t]
BY DEF Take, TypeOK

LEMMA PlanParts ==
  /\ Plan(request)["private"] = PrivateOf(request)
  /\ Plan(request)["readOnly"] = request.readOnly
  /\ Plan(request)["maskDirs"] = HiddenOf(request) \cap Dirs
  /\ Plan(request)["maskFiles"] = HiddenOf(request) \cap Files
  /\ Plan(request)["writable"] = request.writable
  /\ Plan(request)["context"] = {LauncherContext}
  /\ Plan(request)["launcher"] = {Launcher}
BY DEF Plan

\* A host path that is visible after a mount was visible before it, or is
\* what the mount shows.
LEMMA Appearing ==
  ASSUME TypeOK, NEW s \in Stages, NEW d \in Paths, Take(s, d), Effect(s, d),
         NEW p \in Paths, IsHost(p)'
  PROVE  \/ view'[p] = view[p] /\ (StartsWith(p, d) => s = "cargoHome")
         \/ /\ s = "runtime" /\ StartsWith(p, d)
            /\ \E m \in Runtime :
                 d = m.dest /\ view'[p] = HostAt(Moved(p, d, m.source), "ro")
         \/ /\ s = "readOnly" /\ StartsWith(p, d) /\ d \in request.readOnly
            /\ view'[p] = HostAt(p, "ro")
         \/ /\ s = "caches" /\ StartsWith(p, d)
            /\ \E c \in CachesOf(request) :
                 /\ d = CacheDestination(c)
                 /\ view'[p] = HostAt(Moved(p, d, c), "ro")
         \/ /\ s = "writable" /\ StartsWith(p, d) /\ d \in request.writable
            /\ view'[p] = HostAt(p, "rw")
<1>1. view'[p].kind = "host"
  BY DEF IsHost
<1>2. view'[p] # Absent /\ view'[p] # Fresh
  BY <1>1, ContentKinds
<1>3. CASE ~StartsWith(p, d)
  BY <1>2, <1>3 DEF Effect, Beside
<1>4. CASE StartsWith(p, d)
  <2>1. Below(s, d, p)
    BY <1>4 DEF Effect
  <2>2. d \in Plan(request)[s]
    BY TodoAfter
  <2> QED BY <1>1, <1>2, <1>4, <2>1, <2>2, StageNames, PlanParts DEF Below
<1> QED BY <1>3, <1>4

LEMMA NamesKept ==
  ASSUME TypeOK, NameInv, [Next]_vars
  PROVE  NameInv'
<1>1. request' = request
  BY RequestStays DEF vars
<1>2. CachesOf(request)' = CachesOf(request)
  BY <1>1, PlanStays
<1>3. CASE UNCHANGED view
  BY <1>1, <1>2, <1>3 DEF NameInv, IsHost
<1>4. ASSUME NEW s \in Stages, NEW d \in Paths, Take(s, d), Effect(s, d),
             NEW p \in Paths, IsHost(p)'
      PROVE  \/ view'[p].of = p
             \/ /\ view'[p].mode = "ro"
                /\ \E c \in CachesOf(request) :
                     /\ StartsWith(view'[p].of, c)
                     /\ StartsWith(p, CacheDestination(c))
             \/ /\ view'[p].mode = "ro"
                /\ \E m \in Runtime :
                     m.source # m.dest /\ StartsWith(view'[p].of, m.source)
  <2>1. CASE view'[p] = view[p]
    BY <1>4, <2>1 DEF NameInv, IsHost
  <2>2. ASSUME StartsWith(p, d), NEW m \in Runtime, d = m.dest,
               view'[p] = HostAt(Moved(p, d, m.source), "ro")
        PROVE  \/ view'[p].of = p
               \/ /\ view'[p].mode = "ro"
                  /\ m.source # m.dest /\ StartsWith(view'[p].of, m.source)
    <3>1. m.source \in Seq(Names) /\ d \in Seq(Names) /\ p \in Seq(Names)
      BY PathsAreSequences, TreeAssumption
    <3>2. CASE m.source = m.dest
      BY <2>2, <3>1, <3>2, MovedToItself, ContentKinds
    <3>3. CASE m.source # m.dest
      BY <2>2, <3>1, <3>3, MovedStartsWithSource, ContentKinds
    <3> QED BY <3>2, <3>3
  <2>3. ASSUME StartsWith(p, d), NEW c \in CachesOf(request),
               d = CacheDestination(c), view'[p] = HostAt(Moved(p, d, c), "ro")
        PROVE  /\ view'[p].mode = "ro"
               /\ StartsWith(view'[p].of, c) /\ StartsWith(p, CacheDestination(c))
    <3>1. c \in Seq(Names) /\ d \in Seq(Names) /\ p \in Seq(Names)
      BY PathsAreSequences, RequestTypes DEF TypeOK
    <3> QED BY <2>3, <3>1, MovedStartsWithSource, ContentKinds
  <2>4. CASE view'[p] = HostAt(p, "ro") \/ view'[p] = HostAt(p, "rw")
    BY <2>4, ContentKinds
  <2> QED BY <1>4, <2>1, <2>2, <2>3, <2>4, Appearing
<1>5. ASSUME NEW s \in Stages, NEW d \in Paths, Take(s, d), Effect(s, d)
      PROVE  NameInv'
  BY <1>1, <1>2, <1>4, <1>5 DEF NameInv
<1> QED BY <1>3, <1>5, StepsAreMounts DEF Quiet, vars

LEMMA ReadWriteKept ==
  ASSUME TypeOK, ReadWriteInv, [Next]_vars
  PROVE  ReadWriteInv'
<1>1. request' = request
  BY RequestStays DEF vars
<1>2. CASE UNCHANGED view
  BY <1>1, <1>2 DEF ReadWriteInv, IsHost
<1>3. ASSUME NEW s \in Stages, NEW d \in Paths, Take(s, d), Effect(s, d),
             NEW p \in Paths, IsHost(p)', view'[p].mode = "rw"
      PROVE  view'[p].of = p /\ \E w \in request.writable : StartsWith(p, w)
  <2>1. CASE view'[p] = view[p]
    BY <1>3, <2>1 DEF ReadWriteInv, IsHost
  <2>2. CASE d \in request.writable /\ StartsWith(p, d) /\ view'[p] = HostAt(p, "rw")
    BY <2>2, ContentKinds
  <2>3. view'[p] # HostAt(p, "ro") /\ \A q : view'[p] # HostAt(q, "ro")
    BY <1>3, ContentKinds
  <2> QED BY <1>3, <2>1, <2>2, <2>3, Appearing
<1>4. ASSUME NEW s \in Stages, NEW d \in Paths, Take(s, d), Effect(s, d)
      PROVE  ReadWriteInv'
  BY <1>1, <1>3, <1>4 DEF ReadWriteInv
<1> QED BY <1>2, <1>4, StepsAreMounts DEF Quiet, vars

-----------------------------------------------------------------------------
(* What each finished mount keeps *)

LEMMA QuietTodo ==
  ASSUME TypeOK, Quiet, Active'
  PROVE  \/ Active /\ todo' = todo
         \/ ~Active /\ todo' = Plan(request)
BY DEF Quiet, FromRequest, OpenSources, Launch, Active

LEMMA MasksKept ==
  ASSUME TypeOK, OrderInv, MaskInv, [Next]_vars
  PROVE  MaskInv'
<1> DEFINE Masked(h) == h \notin todo["maskDirs"] \cup todo["maskFiles"]
<1>1. request' = request /\ HiddenOf(request)' = HiddenOf(request)
  BY RequestStays, PlanStays DEF vars
<1>2. HiddenOf(request) \subseteq Dirs \cup Files
  BY RequestTypes DEF TypeOK, Host
<1>3. CASE Quiet
  BY <1>1, <1>2, <1>3, QuietTodo, PlanParts DEF MaskInv, IsHost, Quiet
<1>4. ASSUME NEW s \in Stages, NEW d \in Paths, Take(s, d), Effect(s, d),
             NEW h \in HiddenOf(request),
             h \notin todo'["maskDirs"] \cup todo'["maskFiles"],
             NEW p \in Paths, StartsWith(p, h), IsHost(p)'
      PROVE  FALSE
  <2>1. Active /\ Valid(request)
    BY <1>4 DEF Take, Active, OrderInv
  <2>2. CASE h \in todo[s] \ todo'[s]
    <3>1. h = d
      BY <1>4, <2>2, TodoAfter
    <3>2. s \in {"maskDirs", "maskFiles"} \/ h \in todo'["maskDirs"] \cup todo'["maskFiles"]
            \/ Masked(h)
      BY <1>4, <2>2, TodoAfter, StageNames
    <3>3. s \in {"maskDirs", "maskFiles"} => FALSE
      BY <1>4, <3>1, Appearing
    <3>4. CASE Masked(h)
      <4>1. todo["maskDirs"] # Plan(request)["maskDirs"]
              \/ todo["maskFiles"] # Plan(request)["maskFiles"]
        BY <1>2, <3>4, PlanParts
      <4>2. Rank[s] >= 7
        BY <1>4, <4>1, LaterStages, StageNames
      <4>3. s \notin {"cargoHome", "runtime", "readOnly", "caches"}
        BY <4>2, StageNames
      <4>4. s = "writable" /\ d \in request.writable
        BY <1>4, <3>1, <4>3, Appearing
      <4>5. StartsWith(h, h)
        BY <1>4, PathsAreSequences, RequestTypes, StartsWithItself DEF TypeOK
      <4> QED BY <2>1, <3>1, <4>4, <4>5 DEF Valid, ValidWritable
    <3> QED BY <1>4, <3>2, <3>3, <3>4
  <2>3. CASE h \notin todo[s] \ todo'[s]
    <3>1. Masked(h)
      BY <1>4, <2>3, TodoAfter, StageNames
    <3>2. ~IsHost(p)
      BY <1>4, <2>1, <3>1 DEF MaskInv
    <3>3. todo["maskDirs"] # Plan(request)["maskDirs"]
            \/ todo["maskFiles"] # Plan(request)["maskFiles"]
      BY <1>2, <3>1, PlanParts
    <3>4. Rank[s] >= 7
      BY <1>4, <3>3, LaterStages, StageNames
    <3>5. s = "writable" /\ d \in request.writable /\ StartsWith(p, d)
      BY <1>4, <3>2, <3>4, Appearing, StageNames DEF IsHost
    <3>6. Overlap(d, h)
      BY <1>4, <3>5, AncestorsOverlap, PathsAreSequences, RequestTypes DEF TypeOK
    <3> QED BY <2>1, <3>5, <3>6 DEF Valid, ValidWritable, Overlap
  <2> QED BY <2>2, <2>3
<1>5. ASSUME NEW s \in Stages, NEW d \in Paths, Take(s, d), Effect(s, d)
      PROVE  MaskInv'
  BY <1>1, <1>4, <1>5 DEF MaskInv
<1>6. CASE UNCHANGED vars
  BY <1>1, <1>6 DEF vars, MaskInv, IsHost, Active
<1> QED BY <1>3, <1>5, <1>6, StepsAreMounts

LEMMA PrivateKept ==
  ASSUME TypeOK, OrderInv, PrivateInv, [Next]_vars
  PROVE  PrivateInv'
<1> DEFINE Chosen(p, v) ==
      \/ \E e \in request.readOnly : StartsWith(p, e) /\ StartsWith(e, v)
      \/ \E c \in CachesOf(request) : StartsWith(p, CacheDestination(c))
<1>1. /\ request' = request /\ PrivateOf(request)' = PrivateOf(request)
      /\ CachesOf(request)' = CachesOf(request)
  BY RequestStays, PlanStays DEF vars
<1>2. CASE Quiet
  BY <1>1, <1>2, QuietTodo, PlanParts DEF PrivateInv, IsHost, Quiet
<1>3. ASSUME NEW s \in Stages, NEW d \in Paths, Take(s, d), Effect(s, d),
             NEW v \in PrivateOf(request), v \notin todo'["private"],
             NEW p \in Paths, StartsWith(p, v), IsHost(p)'
      PROVE  Chosen(p, v)
  <2>1. Active /\ Valid(request)
    BY <1>3 DEF Take, Active, OrderInv
  <2>2. p \in Seq(Names) /\ v \in Seq(Names) /\ d \in Seq(Names)
    BY PathsAreSequences, RequestTypes DEF TypeOK
  <2>3. CASE v \in todo["private"]
    <3>1. s = "private" /\ d = v
      BY <1>3, <2>3, TodoAfter, StageNames
    <3> QED BY <1>3, <3>1, Appearing
  <2>4. CASE v \notin todo["private"]
    <3>1. Rank[s] >= 3
      BY <1>3, <2>4, LaterStages, StageNames, PlanParts
    <3>2. CASE view'[p] = view[p]
      BY <1>3, <2>1, <2>4, <3>2 DEF PrivateInv, IsHost
    <3>3. CASE s = "readOnly" /\ StartsWith(p, d) /\ d \in request.readOnly
      <4>1. Overlap(v, d)
        BY <1>3, <2>2, <3>3, AncestorsOverlap
      <4>2. StartsWith(d, v)
        BY <2>1, <3>3, <4>1 DEF Valid, ValidReadOnly, Overlap
      <4> QED BY <3>3, <4>2
    <3>4. CASE s = "caches" /\ StartsWith(p, d)
      BY <1>3, <3>4, Appearing, StageNames
    <3>5. CASE s = "writable" /\ StartsWith(p, d) /\ d \in request.writable
      <4>1. Overlap(d, v)
        BY <1>3, <2>2, <3>5, AncestorsOverlap
      <4>2. PICK e \in request.readOnly : StartsWith(d, e) /\ StartsWith(e, v)
        BY <2>1, <3>5, <4>1 DEF Valid, ValidWritable, ReexposedBelowPrivate
      <4>3. e \in Seq(Names)
        BY PathsAreSequences, RequestTypes DEF TypeOK
      <4>4. StartsWith(p, e)
        BY <2>2, <3>5, <4>2, <4>3, StartsWithTransitive
      <4> QED BY <4>2, <4>4
    <3> QED BY <1>3, <3>1, <3>2, <3>3, <3>4, <3>5, Appearing, StageNames
  <2> QED BY <2>3, <2>4
<1>4. ASSUME NEW s \in Stages, NEW d \in Paths, Take(s, d), Effect(s, d)
      PROVE  PrivateInv'
  BY <1>1, <1>3, <1>4 DEF PrivateInv
<1>5. CASE UNCHANGED vars
  BY <1>1, <1>5 DEF vars, PrivateInv, IsHost, Active
<1> QED BY <1>2, <1>4, <1>5, StepsAreMounts

LEMMA SandboxOwnIsApart ==
  ASSUME NEW q \in Host, NEW d \in Paths, NEW o \in SandboxOwn,
         StartsWith(d, o), StartsWith(q, d)
  PROVE  FALSE
<1>1. q \in Seq(Names) /\ d \in Seq(Names) /\ o \in Seq(Names)
  BY PathsAreSequences, TreeAssumption DEF Host
<1> QED BY <1>1, StartsWithTransitive, TreeAssumption

\* What mounts of the later stages leave of a host path that is visible under
\* its own name.
LEMMA LaterMountsKeep ==
  ASSUME TypeOK, OrderInv, NEW s \in Stages, NEW d \in Paths, Take(s, d),
         Effect(s, d), Rank[s] >= 5, NEW q \in Host, IsHost(q)
  PROVE  \/ view'[q] = view[q]
         \/ s = "readOnly" /\ StartsWith(q, d) /\ view'[q] = HostAt(q, "ro")
         \/ s = "writable" /\ StartsWith(q, d) /\ view'[q] = HostAt(q, "rw")
         \/ \E h \in HiddenOf(request) : StartsWith(q, h)
<1>1. q \in Paths
  BY TreeAssumption DEF Host
<1>2. CASE ~StartsWith(q, d)
  <2>1. view[q] # Absent
    BY ContentKinds DEF IsHost
  <2> QED BY <1>1, <1>2, <2>1 DEF Effect, Beside
<1>3. CASE StartsWith(q, d)
  <2>1. Below(s, d, q) /\ d \in Plan(request)[s]
    BY <1>1, <1>3, TodoAfter DEF Effect
  <2>2. CASE s = "readOnly" \/ s = "writable"
    BY <1>3, <2>1, <2>2 DEF Below
  <2>3. CASE s = "maskDirs" \/ s = "maskFiles"
    BY <1>3, <2>1, <2>3, PlanParts
  <2>4. CASE s = "context" \/ s = "launcher"
    <3>1. d \in SandboxOwn
      BY <2>1, <2>4, PlanParts DEF SandboxOwn
    <3>2. StartsWith(d, d)
      BY PathsAreSequences, StartsWithItself
    <3> QED BY <1>3, <3>1, <3>2, SandboxOwnIsApart
  <2>5. CASE s = "caches"
    <3>1. PICK c \in CachesOf(request) : d = CacheDestination(c)
      BY <2>1, <2>5 DEF Below
    <3>2. StartsWith(d, CargoHomeInSandbox) /\ CargoHomeInSandbox \in SandboxOwn
      BY <3>1, CacheDestinations DEF TypeOK, SandboxOwn
    <3> QED BY <1>3, <3>2, SandboxOwnIsApart
  <2> QED BY <2>2, <2>3, <2>4, <2>5, StageNames
<1> QED BY <1>2, <1>3

LEMMA ReadOnlyKept ==
  ASSUME TypeOK, OrderInv, ReadOnlyInv, [Next]_vars
  PROVE  ReadOnlyInv'
<1>1. request' = request
  BY RequestStays DEF vars
<1>2. CASE Quiet
  BY <1>1, <1>2, QuietTodo, PlanParts DEF ReadOnlyInv, Shows, Quiet
<1>3. ASSUME NEW s \in Stages, NEW d \in Paths, Take(s, d), Effect(s, d),
             NEW v \in request.readOnly, v \notin todo'["readOnly"],
             NEW q \in Host, StartsWith(q, v)
      PROVE  Shows(q, q)'
  <2>1. Active /\ Valid(request)
    BY <1>3 DEF Take, Active, OrderInv
  <2>2. q \in Paths
    BY TreeAssumption DEF Host
  <2>3. CASE v \in todo["readOnly"]
    <3>1. s = "readOnly" /\ d = v
      BY <1>3, <2>3, TodoAfter, StageNames
    <3>2. view'[q] = HostAt(q, "ro")
      BY <1>3, <2>2, <3>1 DEF Effect, Below
    <3> QED BY <3>2, ContentKinds DEF Shows
  <2>4. CASE v \notin todo["readOnly"]
    <3>1. Shows(q, q)
      BY <1>3, <2>1, <2>4 DEF ReadOnlyInv
    <3>2. Rank[s] >= 5
      BY <1>3, <2>4, LaterStages, StageNames, PlanParts
    <3>3. ASSUME NEW h \in HiddenOf(request), StartsWith(q, h) PROVE FALSE
      <4>1. Overlap(v, h)
        BY <1>3, <2>2, <3>3, AncestorsOverlap, PathsAreSequences, RequestTypes
           DEF TypeOK
      <4> QED BY <2>1, <4>1 DEF Valid, ValidReadOnly
    <3>4. view'[q] = view[q] \/ view'[q] = HostAt(q, "ro") \/ view'[q] = HostAt(q, "rw")
      BY <1>3, <3>1, <3>2, <3>3, LaterMountsKeep DEF Shows, IsHost
    <3> QED BY <3>1, <3>4, ContentKinds DEF Shows
  <2> QED BY <2>3, <2>4
<1>4. ASSUME NEW s \in Stages, NEW d \in Paths, Take(s, d), Effect(s, d)
      PROVE  ReadOnlyInv'
  BY <1>1, <1>3, <1>4 DEF ReadOnlyInv
<1>5. CASE UNCHANGED vars
  BY <1>1, <1>5 DEF vars, ReadOnlyInv, Shows, Active
<1> QED BY <1>2, <1>4, <1>5, StepsAreMounts

LEMMA WritableKept ==
  ASSUME TypeOK, OrderInv, WritableInv, [Next]_vars
  PROVE  WritableInv'
<1>1. request' = request
  BY RequestStays DEF vars
<1>2. CASE Quiet
  BY <1>1, <1>2, QuietTodo, PlanParts DEF WritableInv, Quiet
<1>3. ASSUME NEW s \in Stages, NEW d \in Paths, Take(s, d), Effect(s, d),
             NEW w \in request.writable, w \notin todo'["writable"],
             NEW q \in Host, StartsWith(q, w)
      PROVE  view'[q] = HostAt(q, "rw")
  <2>1. Active /\ Valid(request)
    BY <1>3 DEF Take, Active, OrderInv
  <2>2. q \in Paths
    BY TreeAssumption DEF Host
  <2>3. CASE w \in todo["writable"]
    <3>1. s = "writable" /\ d = w
      BY <1>3, <2>3, TodoAfter, StageNames
    <3> QED BY <1>3, <2>2, <3>1 DEF Effect, Below
  <2>4. CASE w \notin todo["writable"]
    <3>1. view[q] = HostAt(q, "rw")
      BY <1>3, <2>1, <2>4 DEF WritableInv
    <3>2. Rank[s] >= 9
      BY <1>3, <2>4, LaterStages, StageNames, PlanParts
    <3>3. ASSUME NEW h \in HiddenOf(request), StartsWith(q, h) PROVE FALSE
      <4>1. Overlap(w, h)
        BY <1>3, <2>2, <3>3, AncestorsOverlap, PathsAreSequences, RequestTypes
           DEF TypeOK
      <4> QED BY <2>1, <4>1 DEF Valid, ValidWritable, Overlap
    <3>4. s # "readOnly" /\ Rank[s] >= 5
      BY <3>2, StageNames
    <3>5. view'[q] = view[q] \/ view'[q] = HostAt(q, "rw")
      BY <1>3, <3>1, <3>3, <3>4, ContentKinds, LaterMountsKeep DEF IsHost
    <3> QED BY <3>1, <3>5
  <2> QED BY <2>3, <2>4
<1>4. ASSUME NEW s \in Stages, NEW d \in Paths, Take(s, d), Effect(s, d)
      PROVE  WritableInv'
  BY <1>1, <1>3, <1>4 DEF WritableInv
<1>5. CASE UNCHANGED vars
  BY <1>1, <1>5 DEF vars, WritableInv, Active
<1> QED BY <1>2, <1>4, <1>5, StepsAreMounts

-----------------------------------------------------------------------------
(* The invariant and what follows from it *)

LEMMA InitView == Init => ViewInv
<1> SUFFICES ASSUME Init PROVE ViewInv
  OBVIOUS
<1>1. \A p \in Paths : ~IsHost(p)
  BY ContentKinds DEF Init, IsHost
<1>2. ~Active /\ phase # "planned"
  BY DEF Init, Active
<1> QED BY <1>1, <1>2 DEF ViewInv, OrderInv, NameInv, MaskInv, PrivateInv,
           ReadOnlyInv, WritableInv, ReadWriteInv, Active

LEMMA StepView == TypeOK /\ ViewInv /\ [Next]_vars => ViewInv'
BY OrderKept, NamesKept, MasksKept, PrivateKept, ReadOnlyKept, WritableKept,
   ReadWriteKept DEF ViewInv

\* Once a mount of a validated plan is made, no later mount undoes it: masks
\* stay masks, private paths show only what is chosen, read-only and writable
\* paths stay in place.
THEOREM ViewInvariant == Spec => []ViewInv
<1>1. Init => TypeOK /\ ViewInv
  BY InitTypes, InitView
<1>2. (TypeOK /\ ViewInv) /\ [Next]_vars => (TypeOK /\ ViewInv)'
  BY StepTypes, StepView
<1> QED BY <1>1, <1>2, PTL DEF Spec

LEMMA RunningIsMounted ==
  ASSUME TypeOK, OrderInv, phase = "running"
  PROVE  /\ Active /\ Valid(request)
         /\ todo["private"] = {} /\ todo["readOnly"] = {} /\ todo["writable"] = {}
         /\ todo["maskDirs"] = {} /\ todo["maskFiles"] = {}
BY StageNames DEF OrderInv, Active

\* Whatever the nesting of a policy's paths, no host path at or below a hidden
\* path is visible anywhere, unless it has a second name below a runtime mount.
THEOREM HiddenPathsStayHidden == Spec => []HiddenStaysHidden
<1>1. TypeOK /\ ViewInv => HiddenStaysHidden
  <2> SUFFICES ASSUME TypeOK, ViewInv, phase = "running",
                      NEW h \in HiddenOf(request), NEW p \in Paths,
                      NEW q \in Host, StartsWith(q, h), Shows(p, q)
               PROVE  Doubled(h)
    BY DEF HiddenStaysHidden
  <2>1. Active /\ Valid(request)
    BY RunningIsMounted DEF ViewInv
  <2>2. /\ IsHost(p) /\ view[p].of = q /\ q \in Seq(Names) /\ h \in Seq(Names)
    BY PathsAreSequences, RequestTypes, TreeAssumption DEF Shows, IsHost, Host, TypeOK
  <2>3. CASE q = p
    BY <2>1, <2>2, <2>3, RunningIsMounted DEF ViewInv, MaskInv
  <2>4. ASSUME NEW c \in CachesOf(request), StartsWith(q, c) PROVE FALSE
    <3>1. Overlap(c, h)
      BY <2>2, <2>4, AncestorsOverlap, PathsAreSequences, RequestTypes DEF TypeOK
    <3> QED BY <2>1, <3>1 DEF Valid, ValidCaches
  <2>5. ASSUME NEW m \in Runtime, m.source # m.dest, StartsWith(q, m.source)
        PROVE  Doubled(h)
    <3>1. Overlap(h, m.source)
      BY <2>2, <2>5, AncestorsOverlap, PathsAreSequences, TreeAssumption
    <3> QED BY <2>5, <3>1 DEF Doubled
  <2> QED BY <2>2, <2>3, <2>4, <2>5 DEF ViewInv, NameInv
<1> QED BY <1>1, ViewTypeCorrect, ViewInvariant, PTL

\* Below a private path the program finds only the read-only paths the policy
\* puts back there, and the caches.
THEOREM PrivatePathsStayPrivate == Spec => []PrivateShowsOnlyTheChosen
<1>1. TypeOK /\ ViewInv => PrivateShowsOnlyTheChosen
  BY RunningIsMounted DEF ViewInv, PrivateInv, PrivateShowsOnlyTheChosen, IsHost
<1> QED BY <1>1, ViewTypeCorrect, ViewInvariant, PTL

\* A read-only path is visible in full under its own name.
THEOREM ReadOnlyPathsStayVisible == Spec => []ReadOnlyStaysVisible
<1>1. TypeOK /\ ViewInv => ReadOnlyStaysVisible
  BY RunningIsMounted DEF ViewInv, ReadOnlyInv, ReadOnlyStaysVisible
<1> QED BY <1>1, ViewTypeCorrect, ViewInvariant, PTL

LEMMA CargoHomeIsPrivate ==
  ASSUME NEW r \in Requests, NEW h \in CargoHomeOf(r)
  PROVE  \E v \in PrivateOf(r) : StartsWith(h, v)
<1>1. CASE \E v \in PolicyPrivate(r) : StartsWith(h, v)
  BY <1>1 DEF PrivateOf
<1>2. CASE \A v \in PolicyPrivate(r) : ~StartsWith(h, v)
  <2>1. h \in PrivateOf(r)
    BY <1>2 DEF PrivateOf
  <2> QED BY <2>1, StartsWithItself, PathsAreSequences, RequestTypes
<1> QED BY <1>1, <1>2

\* Of the caller's CARGO_HOME only the caches are visible, read-only and in the
\* sandbox's own Cargo home, unless it has a second name below a runtime mount.
THEOREM CargoHomeShowsCachesOnly == Spec => []OnlyCachesOfCargoHome
<1>1. TypeOK /\ ViewInv => OnlyCachesOfCargoHome
  <2> SUFFICES ASSUME TypeOK, ViewInv, phase = "running",
                      NEW h \in CargoHomeOf(request), NEW p \in Paths,
                      NEW q \in Host, StartsWith(q, h), Shows(p, q),
                      ~Doubled(h)
               PROVE  /\ StartsWith(p, CargoHomeInSandbox) /\ view[p].mode = "ro"
                      /\ \E c \in CachesOf(request) : StartsWith(q, c)
    BY DEF OnlyCachesOfCargoHome
  <2>1. Active /\ Valid(request)
    BY RunningIsMounted DEF ViewInv
  <2>2. /\ IsHost(p) /\ view[p].of = q
        /\ p \in Seq(Names) /\ q \in Seq(Names) /\ h \in Seq(Names)
        /\ CargoHomeInSandbox \in Seq(Names)
    BY PathsAreSequences, RequestTypes, TreeAssumption
       DEF Shows, IsHost, Host, TypeOK, SandboxOwn
  <2>3. CASE q = p
    <3>1. PICK v \in PrivateOf(request) : StartsWith(h, v)
      BY CargoHomeIsPrivate DEF TypeOK
    <3>2. v \in Seq(Names)
      BY PathsAreSequences, RequestTypes DEF TypeOK
    <3>3. StartsWith(p, v)
      BY <2>2, <2>3, <3>1, <3>2, StartsWithTransitive
    <3>4. ASSUME NEW e \in request.readOnly, StartsWith(p, e) PROVE FALSE
      <4>1. Overlap(h, e)
        BY <2>2, <2>3, <3>4, AncestorsOverlap, PathsAreSequences, RequestTypes
           DEF TypeOK
      <4> QED BY <2>1, <4>1 DEF Valid, ValidCargoHome
    <3>5. ASSUME NEW c \in CachesOf(request), StartsWith(p, CacheDestination(c))
          PROVE  FALSE
      BY <2>3, <3>5, CacheDestinations, SandboxOwnIsApart DEF TypeOK, SandboxOwn
    <3> QED BY <2>1, <2>2, <3>3, <3>4, <3>5, RunningIsMounted
            DEF ViewInv, PrivateInv
  <2>4. ASSUME view[p].mode = "ro", NEW c \in CachesOf(request), StartsWith(q, c),
               StartsWith(p, CacheDestination(c))
        PROVE  StartsWith(p, CargoHomeInSandbox)
    BY <2>2, <2>4, CacheDestinations, StartsWithTransitive, PathsAreSequences
       DEF TypeOK
  <2>5. ASSUME NEW m \in Runtime, m.source # m.dest, StartsWith(q, m.source)
        PROVE  FALSE
    <3>1. Overlap(h, m.source)
      BY <2>2, <2>5, AncestorsOverlap, PathsAreSequences, TreeAssumption
    <3> QED BY <2>5, <3>1 DEF Doubled
  <2> QED BY <2>2, <2>3, <2>4, <2>5 DEF ViewInv, NameInv
<1> QED BY <1>1, ViewTypeCorrect, ViewInvariant, PTL

LEMMA WritableIsAllowed ==
  ASSUME request.writable \subseteq Host, NEW w \in request.writable,
         NEW p \in Paths, StartsWith(p, w)
  PROVE  Allowed("WriteFile", p)
<1>1. CASE w \in Dirs
  <2> DEFINE rule == [path |-> w, access |-> write_access]
  <2>1. rule \in Rules(request)
    BY <1>1 DEF Rules, Rule
  <2>2. "WriteFile" \in rule.access /\ rule.path = w
    BY DEF write_access
  <2> QED BY <2>1, <2>2 DEF Allowed
<1>2. CASE w \in Files
  <2> DEFINE rule == [path |-> w, access |-> lockfile_access]
  <2>1. rule \in Rules(request)
    BY <1>2 DEF Rules, Rule
  <2>2. "WriteFile" \in rule.access /\ rule.path = w
    BY DEF lockfile_access
  <2> QED BY <2>1, <2>2 DEF Allowed
<1> QED BY <1>1, <1>2 DEF Host

\* The host files the program can change are exactly those at and below the
\* writable paths of the policy.
THEOREM ExactlyWritable == Spec => []WritableExactly
<1>1. TypeOK /\ ViewInv => WritableExactly
  <2> SUFFICES ASSUME TypeOK, ViewInv, phase = "running" PROVE WritableExactly
    BY DEF WritableExactly
  <2> DEFINE Changed == {p \in Paths : /\ view[p].kind = "host"
                                       /\ view[p].mode = "rw"
                                       /\ Allowed("WriteFile", p)}
             Meant == {q \in Host : \E w \in request.writable : StartsWith(q, w)}
  <2>1. Active /\ Valid(request) /\ todo["writable"] = {}
    BY RunningIsMounted DEF ViewInv
  <2>2. ASSUME NEW p \in Changed PROVE view[p].of \in Meant
    <3>1. /\ view[p].of = p
          /\ \E w \in request.writable : StartsWith(p, w)
      BY <2>2 DEF ViewInv, ReadWriteInv, IsHost
    <3>2. view[p] \in Content /\ view[p].kind = "host"
      BY <2>2 DEF TypeOK
    <3>3. view[p].of \in Host
      BY <3>2, ContentKinds DEF Content
    <3> QED BY <3>1, <3>3
  <2>3. ASSUME NEW q \in Meant PROVE q \in Changed /\ view[q].of = q
    <3>1. PICK w \in request.writable : StartsWith(q, w)
      OBVIOUS
    <3>2. view[q] = HostAt(q, "rw")
      BY <2>1, <3>1 DEF ViewInv, WritableInv
    <3>3. q \in Paths
      BY TreeAssumption DEF Host
    <3>4. Allowed("WriteFile", q)
      BY <2>1, <3>1, <3>3, WritableIsAllowed DEF Valid, ExistingPaths
    <3> QED BY <3>2, <3>3, <3>4, ContentKinds
  <2>4. {view[p].of : p \in Changed} = Meant
    BY <2>2, <2>3
  <2> QED BY <2>4 DEF WritableExactly
<1> QED BY <1>1, ViewTypeCorrect, ViewInvariant, PTL
-----------------------------------------------------------------------------
(* That what is accepted can be started *)

LEMMA ValidPathsExist ==
  ASSUME NEW r \in Requests, Valid(r)
  PROVE  /\ r.writable \subseteq Host /\ r.readOnly \subseteq Host
         /\ PrivateOf(r) \subseteq Host
         /\ Root \notin r.writable /\ Root \notin r.readOnly
         /\ Root \notin HiddenOf(r)
         /\ (Root \notin r.private => Root \notin PrivateOf(r))
<1>1. /\ r.writable \subseteq Host /\ r.readOnly \subseteq Dirs
      /\ r.private \subseteq Dirs /\ Root \notin r.hidden
  BY DEF Valid, ExistingPaths
<1>2. Run \in Dirs /\ Run # Root
  BY TreeAssumption DEF Run, Root
<1>3. Root \notin r.writable /\ Root \notin CargoHomeOf(r)
  BY DEF Valid, ValidWritable, ValidCargoHome, CargoHomeOf
<1>4. Run \in PrivateOf(r)
  BY DEF PrivateOf, PolicyPrivate
<1>5. StartsWith(Run, Root)
  BY DEF StartsWith, Run, Root
<1>6. Root \notin r.readOnly
  BY <1>4, <1>5 DEF Valid, ValidReadOnly
<1> QED BY <1>1, <1>2, <1>3, <1>6
        DEF PrivateOf, PolicyPrivate, CargoHomeOf, HiddenOf, Host

LEMMA PlanOfTheRest ==
  /\ Plan(request)["runtime"] = {m.dest : m \in Runtime}
  /\ Plan(request)["kernel"] = {Proc, Dev}
  /\ Plan(request)["cargoHome"] = {CargoHomeInSandbox}
  /\ Plan(request)["caches"] = {CacheDestination(c) : c \in CachesOf(request)}
BY DEF Plan

LEMMA SameLength ==
  ASSUME NEW p \in Seq(Names), NEW d \in Seq(Names), StartsWith(p, d),
         Len(p) = Len(d)
  PROVE  p = d
<1>1. \A i \in 1..Len(p) : p[i] = d[i]
  BY DEF StartsWith
<1> QED BY <1>1

LEMMA MutualPrefix ==
  ASSUME NEW p \in Seq(Names), NEW d \in Seq(Names), StartsWith(p, d),
         StartsWith(d, p)
  PROVE  p = d
<1>1. Len(p) = Len(d)
  BY DEF StartsWith
<1> QED BY <1>1, SameLength

LEMMA TopLevel ==
  ASSUME NEW p \in Seq(Names), Len(p) = 1, NEW d \in Seq(Names),
         StartsWith(p, d), d # Root
  PROVE  p = d
<1>1. PICK k \in Nat : k = Len(d)
  OBVIOUS
<1>2. k # 0
  BY <1>1 DEF Root
<1>3. k <= 1
  BY <1>1 DEF StartsWith
<1>4. k = 1
  BY <1>2, <1>3
<1> QED BY <1>1, <1>4, SameLength

LEMMA CacheLength ==
  ASSUME NEW r \in Requests, NEW c \in CachesOf(r)
  PROVE  Len(CacheDestination(c)) = 3
<1>1. CacheDestination(c) = Append(CargoHomeInSandbox, c[Len(c)])
  BY DEF CacheDestination
<1>2. CargoHomeInSandbox = <<"run", "cargo-cage-home">>
  BY DEF CargoHomeInSandbox
<1> QED BY <1>1, <1>2

LEMMA LauncherIsApart ==
  ASSUME NEW p \in Paths, StartsWith(p, CargoHomeInSandbox),
         NEW d \in {LauncherContext, Launcher}
  PROVE  ~StartsWith(p, d)
<1>1. p[2] = "cargo-cage-home" /\ Len(p) >= 2
  BY DEF StartsWith, CargoHomeInSandbox
<1>2. Len(d) = 2 /\ d[2] # "cargo-cage-home"
  BY DEF LauncherContext, Launcher
<1> QED BY <1>1, <1>2 DEF StartsWith

\* A host path above the sandbox's Cargo home is /run or the root.
LEMMA AboveCargoHome ==
  ASSUME NEW p \in Seq(Names), StartsWith(p, CargoHomeInSandbox),
         NEW e \in Host, StartsWith(p, e), e # Root
  PROVE  e = Run
<1>1. /\ e \in Seq(Names) /\ CargoHomeInSandbox \in Seq(Names)
      /\ CargoHomeInSandbox \in SandboxOwn
  BY PathsAreSequences, TreeAssumption DEF Host, SandboxOwn
<1>2. ~StartsWith(e, CargoHomeInSandbox)
  BY <1>1, TreeAssumption
<1>3. StartsWith(CargoHomeInSandbox, e)
  BY <1>1, <1>2, AncestorsOverlap DEF Overlap
<1>4. Len(CargoHomeInSandbox) = 2 /\ CargoHomeInSandbox[1] = "run"
  BY DEF CargoHomeInSandbox
<1>5. Len(e) # 2
  <2> SUFFICES ASSUME Len(e) = 2 PROVE FALSE
    OBVIOUS
  <2>1. StartsWith(e, CargoHomeInSandbox)
    BY <1>1, <1>3, <1>4 DEF StartsWith
  <2> QED BY <2>1, <1>2
<1>6. Len(e) # 0
  BY <1>1 DEF Root
<1>7. /\ Len(e) <= Len(CargoHomeInSandbox)
      /\ \A i \in 1..Len(e) : CargoHomeInSandbox[i] = e[i]
  BY <1>3 DEF StartsWith
<1>8. Len(e) = 1
  <2>1. PICK k \in Nat : k = Len(e)
    BY <1>1
  <2>2. k <= 2
    BY <1>4, <1>7, <2>1
  <2>3. k # 0 /\ k # 2
    BY <1>5, <1>6, <2>1
  <2>4. k = 1
    BY <2>2, <2>3
  <2> QED BY <2>1, <2>4
<1>9. e[1] = "run"
  BY <1>4, <1>7, <1>8
<1> QED BY <1>1, <1>8, <1>9 DEF Run

\* A path of the host is neither at nor below the sandbox's own.
LEMMA HostIsApart ==
  ASSUME NEW v \in Host, NEW d \in Paths, NEW o \in SandboxOwn,
         StartsWith(v, d), StartsWith(d, o)
  PROVE  FALSE
BY SandboxOwnIsApart

LEMMA AbsentKind ==
  ASSUME NEW c \in Content
  PROVE  c.kind = "absent" <=> c = Absent
BY ContentKinds DEF Content

\* There is something at the destination of every mount once it is made.
LEMMA DestinationIsThere ==
  ASSUME TypeOK, OrderInv, NEW s \in Stages, NEW d \in Paths, Take(s, d),
         Effect(s, d)
  PROVE  Exists(d)'
<1>1. Valid(request) /\ request \in Requests
  BY DEF Take, Active, OrderInv, TypeOK
<1>2. d \in Seq(Names) /\ StartsWith(d, d)
  BY PathsAreSequences, StartsWithItself
<1>3. Below(s, d, d) /\ d \in Plan(request)[s]
  BY <1>2, TodoAfter DEF Effect
<1>4. CASE s = "runtime"
  <2>1. PICK m \in Runtime :
          /\ d = m.dest
          /\ view'[d] = IF Moved(d, d, m.source) \in Host
                          THEN HostAt(Moved(d, d, m.source), "ro") ELSE Absent
    BY <1>3, <1>4 DEF Below
  <2>2. m.source \in Host /\ m.source \in Seq(Names)
    BY PathsAreSequences, TreeAssumption DEF Host
  <2>3. Moved(d, d, m.source) = m.source
    BY <1>2, <2>2, MovedOfItself
  <2> QED BY <2>1, <2>2, <2>3, ContentKinds DEF Exists
<1>5. CASE s = "caches"
  <2>1. PICK c \in CachesOf(request) :
          /\ d = CacheDestination(c)
          /\ view'[d] = IF Moved(d, d, c) \in Host
                          THEN HostAt(Moved(d, d, c), "ro") ELSE Absent
    BY <1>3, <1>5 DEF Below
  <2>2. c \in Host /\ c \in Seq(Names)
    BY PathsAreSequences, TreeAssumption DEF Host, CachesOf
  <2>3. Moved(d, d, c) = c
    BY <1>2, <2>2, MovedOfItself
  <2> QED BY <2>1, <2>2, <2>3, ContentKinds DEF Exists
<1>6. CASE s = "readOnly" \/ s = "writable"
  <2>1. d \in Host
    BY <1>1, <1>3, <1>6, PlanParts, ValidPathsExist
  <2> QED BY <1>3, <1>6, <2>1, ContentKinds DEF Below, Exists
<1>7. CASE s \notin {"runtime", "caches", "readOnly", "writable"}
  BY <1>3, <1>7, StageNames DEF Below, Exists
<1> QED BY <1>4, <1>5, <1>6, <1>7

\* Only a mount above a place takes it away.
LEMMA TakenFromAbove ==
  ASSUME TypeOK, OrderInv, NEW s \in Stages, NEW d \in Paths, Take(s, d),
         Effect(s, d), NEW p \in Paths, Exists(p), ~Exists(p)'
  PROVE  StartsWith(p, d) /\ p # d /\ s # "cargoHome"
<1>1. p # d
  BY DestinationIsThere
<1>2. view[p] # Absent
  BY ContentKinds DEF Exists
<1>3. StartsWith(p, d)
  BY <1>2 DEF Effect, Beside, Exists
<1>4. Below(s, d, p)
  BY <1>3 DEF Effect
<1>5. s # "cargoHome"
  BY <1>4, ContentKinds DEF Below, Exists
<1> QED BY <1>1, <1>3, <1>5

LEMMA PrivateOrderKept ==
  ASSUME TypeOK, PrivateOrderInv, [Next]_vars
  PROVE  PrivateOrderInv'
<1>1. /\ request' = request /\ PrivateOf(request)' = PrivateOf(request)
  BY RequestStays, PlanStays DEF vars
<1>2. CASE Quiet
  BY <1>1, <1>2, QuietTodo, PlanParts DEF PrivateOrderInv
<1>3. ASSUME NEW s \in Stages, NEW d \in Paths, Take(s, d), Effect(s, d),
             NEW v \in PrivateOf(request), v \notin todo'["private"],
             NEW e \in todo'["private"], StartsWith(v, e)
      PROVE  FALSE
  <2>1. Active /\ e \in todo["private"]
    BY <1>3, TodoAfter, StageNames DEF Take, Active
  <2>2. CASE v \in todo["private"]
    <3>1. s = "private" /\ d = v /\ e # d
      BY <1>3, <2>2, TodoAfter, StageNames
    <3> QED BY <1>3, <2>1, <3>1 DEF Effect
  <2>3. CASE v \notin todo["private"]
    BY <1>3, <2>1, <2>3 DEF PrivateOrderInv
  <2> QED BY <2>2, <2>3
<1>4. ASSUME NEW s \in Stages, NEW d \in Paths, Take(s, d), Effect(s, d)
      PROVE  PrivateOrderInv'
  BY <1>1, <1>3, <1>4 DEF PrivateOrderInv
<1>5. CASE UNCHANGED vars
  BY <1>1, <1>5 DEF vars, PrivateOrderInv, Active
<1> QED BY <1>2, <1>4, <1>5, StepsAreMounts

LEMMA NoMountAtRoot ==
  ASSUME TypeOK, Valid(request), PrivatePathsStay,
         NEW s \in Stages, NEW d \in Plan(request)[s]
  PROVE  d # Root
<1>1. request \in Requests
  BY DEF TypeOK
<1>2. \A m \in Runtime : m.dest # Root
  <2> SUFFICES ASSUME NEW m \in Runtime, m.dest = Root PROVE FALSE
    OBVIOUS
  <2>1. PICK n \in Names : m.dest = <<n>>
    BY HostAssumption
  <2>2. Len(m.dest) = 1
    BY <2>1
  <2> QED BY <2>2 DEF Root
<1>3. \A c \in CachesOf(request) : CacheDestination(c) # Root
  BY DEF CacheDestination, Root, CargoHomeInSandbox
<1>4. Root \notin SandboxOwn
  BY DEF SandboxOwn, Root, Proc, Dev, CargoHomeInSandbox, Launcher,
     LauncherContext
<1>5. /\ Root \notin request.writable /\ Root \notin request.readOnly
      /\ Root \notin HiddenOf(request) /\ Root \notin PrivateOf(request)
  BY <1>1, ValidPathsExist DEF PrivatePathsStay
<1> QED BY <1>2, <1>3, <1>4, <1>5, StageNames, PlanParts, PlanOfTheRest
        DEF SandboxOwn

\* What is mounted at and after the read-only paths, and where.
LEMMA LaterDestinations ==
  ASSUME TypeOK, Valid(request), NEW s \in Stages, Rank[s] >= 5,
         NEW d \in Plan(request)[s]
  PROVE  \/ s = "readOnly" /\ d \in request.readOnly
         \/ s \in {"maskDirs", "maskFiles"} /\ d \in HiddenOf(request)
         \/ s = "writable" /\ d \in request.writable
         \/ s = "caches" /\ \E c \in CachesOf(request) : d = CacheDestination(c)
         \/ s \in {"context", "launcher"} /\ d \in {LauncherContext, Launcher}
BY StageNames, PlanParts, PlanOfTheRest

\* Nothing that is mounted after the private paths covers one of them.
LEMMA NothingAbovePrivate ==
  ASSUME TypeOK, Valid(request), PrivatePathsStay,
         NEW v \in PrivateOf(request), NEW s \in Stages, Rank[s] >= 5,
         NEW d \in Plan(request)[s], StartsWith(v, d)
  PROVE  s \in {"maskDirs", "maskFiles"} /\ v = d
<1>1. request \in Requests
  BY DEF TypeOK
<1>2. v \in Host /\ v \in Seq(Names)
  BY <1>1, ValidPathsExist, PathsAreSequences, RequestTypes
<1>3. CASE d \in request.readOnly
  BY <1>3 DEF Valid, ValidReadOnly
<1>4. CASE d \in request.writable
  <2>1. PICK e \in request.readOnly : StartsWith(d, e) /\ StartsWith(e, v)
    BY <1>4 DEF Valid, ValidWritable, ReexposedBelowPrivate, Overlap
  <2>2. d \in Seq(Names) /\ e \in Seq(Names)
    BY <1>1, <1>4, PathsAreSequences, RequestTypes
  <2>3. StartsWith(v, e)
    BY <1>2, <2>1, <2>2, StartsWithTransitive
  <2> QED BY <2>3 DEF Valid, ValidReadOnly
<1>5. CASE \E c \in CachesOf(request) : d = CacheDestination(c)
  <2>1. d \in Paths /\ StartsWith(d, CargoHomeInSandbox)
    BY <1>1, <1>5, CacheDestinations
  <2> QED BY <1>2, <2>1, HostIsApart DEF SandboxOwn
<1>6. CASE d \in {LauncherContext, Launcher}
  <2>1. d \in Paths /\ d \in SandboxOwn /\ StartsWith(d, d)
    BY <1>6, TreeAssumption, PathsAreSequences, StartsWithItself DEF SandboxOwn
  <2> QED BY <1>2, <2>1, HostIsApart
<1>7. CASE s \in {"maskDirs", "maskFiles"} /\ d \in HiddenOf(request)
  BY <1>7 DEF PrivatePathsStay
<1> QED BY <1>3, <1>4, <1>5, <1>6, <1>7, LaterDestinations

\* Nothing is mounted after it over the sandbox's Cargo home, and over a cache
\* only the cache.
LEMMA NothingAboveCargoHome ==
  ASSUME TypeOK, Valid(request), PrivatePathsStay,
         NEW p \in Paths, StartsWith(p, CargoHomeInSandbox),
         NEW s \in Stages, Rank[s] >= 5,
         NEW d \in Plan(request)[s], StartsWith(p, d)
  PROVE  s \in {"caches", "context", "launcher"}
<1> SUFFICES ASSUME s \in {"readOnly", "maskDirs", "maskFiles", "writable"}
             PROVE  FALSE
  BY LaterDestinations
<1>1. request \in Requests /\ p \in Seq(Names)
  BY PathsAreSequences DEF TypeOK
<1>2. d \in Host
  BY <1>1, ValidPathsExist, RequestTypes, PlanParts
<1>3. d # Root
  BY NoMountAtRoot
<1>4. d = Run
  BY <1>1, <1>2, <1>3, AboveCargoHome
<1>5. Run \in PrivateOf(request)
  BY DEF PrivateOf, PolicyPrivate
<1>6. StartsWith(Run, d)
  BY <1>4 DEF StartsWith
<1>7. s \in {"maskDirs", "maskFiles"} /\ d \in HiddenOf(request)
  BY <1>5, <1>6, NothingAbovePrivate, PlanParts
<1>8. StartsWith(CargoHomeInSandbox, Run) /\ CargoHomeInSandbox # Run
  BY DEF StartsWith, CargoHomeInSandbox, Run
<1> QED BY <1>4, <1>7, <1>8 DEF PrivatePathsStay

\* What nothing mounted later covers: the names below the root, the private
\* paths, the sandbox's Cargo home and the caches in it.
LEMMA NothingAbove ==
  ASSUME TypeOK, OrderInv, PrivateOrderInv, PrivatePathsStay,
         NEW s \in Stages \ {"cargoHome"}, NEW d \in Paths, Take(s, d),
         NEW t \in {"runtime", "kernel", "private", "cargoHome", "caches"},
         NEW p \in Plan(request)[t] \ todo[t], StartsWith(p, d)
  PROVE  p = d
<1>1. /\ Active /\ Valid(request) /\ request \in Requests
      /\ d \in Plan(request)[s] /\ d \in todo[s] /\ t \in Stages
  <2>1. d \in Plan(request)[s] /\ d \in todo[s]
    BY TodoAfter
  <2>2. Active
    BY DEF Take, Active
  <2>3. Valid(request)
    BY <2>2 DEF OrderInv
  <2>4. request \in Requests
    BY DEF TypeOK
  <2>5. t \in Stages
    BY StageNames
  <2> QED BY <2>1, <2>2, <2>3, <2>4, <2>5
<1>2. d # Root
  BY <1>1, NoMountAtRoot
<1>3. p \in Paths /\ p \in Seq(Names) /\ d \in Seq(Names)
  BY <1>1, PlanType, PathsAreSequences
<1>4. Rank[s] >= Rank[t]
  BY <1>1, LaterStages
<1>5. CASE t = "runtime"
  <2>1. PICK n \in Names : p = <<n>>
    BY <1>5, PlanOfTheRest, HostAssumption
  <2>2. Len(p) = 1
    BY <2>1
  <2> QED BY <1>2, <1>3, <2>2, TopLevel
<1>6. CASE t = "kernel"
  <2>1. Len(p) = 1
    BY <1>6, PlanOfTheRest DEF Proc, Dev
  <2> QED BY <1>2, <1>3, <2>1, TopLevel
<1>7. CASE t = "private"
  <2>1. p \in PrivateOf(request) \ todo["private"]
    BY <1>7, PlanParts
  <2>2. CASE s = "private"
    BY <1>1, <2>1, <2>2 DEF PrivateOrderInv
  <2>3. CASE s # "private"
    <3>1. Rank[s] >= 5
      BY <1>4, <1>7, <2>3, StageNames
    <3> QED BY <1>1, <2>1, <3>1, NothingAbovePrivate
  <2> QED BY <2>2, <2>3
<1>8. CASE t = "cargoHome"
  <2>1. p = CargoHomeInSandbox /\ Rank[s] >= 5
    BY <1>4, <1>8, PlanOfTheRest, StageNames
  <2>2. StartsWith(p, CargoHomeInSandbox)
    BY <1>3, <2>1, StartsWithItself
  <2>3. s \in {"caches", "context", "launcher"}
    BY <1>1, <1>3, <2>1, <2>2, NothingAboveCargoHome
  <2>4. CASE s = "caches"
    <3>1. StartsWith(d, CargoHomeInSandbox)
      BY <1>1, <2>4, PlanOfTheRest, CacheDestinations
    <3> QED BY <1>3, <2>1, <3>1, MutualPrefix
  <2>5. CASE s \in {"context", "launcher"}
    BY <1>1, <1>3, <2>2, <2>5, LauncherIsApart, PlanParts
  <2> QED BY <2>3, <2>4, <2>5
<1>9. CASE t = "caches"
  <2>1. PICK c \in CachesOf(request) : p = CacheDestination(c)
    BY <1>9, PlanOfTheRest
  <2>2. StartsWith(p, CargoHomeInSandbox) /\ Len(p) = 3 /\ Rank[s] >= 5
    BY <1>1, <1>4, <1>9, <2>1, CacheDestinations, CacheLength, StageNames
  <2>3. s \in {"caches", "context", "launcher"}
    BY <1>1, <1>3, <2>2, NothingAboveCargoHome
  <2>4. CASE s = "caches"
    <3>1. Len(d) = 3
      BY <1>1, <2>4, PlanOfTheRest, CacheLength
    <3> QED BY <1>3, <2>2, <3>1, SameLength
  <2>5. CASE s \in {"context", "launcher"}
    BY <1>1, <1>3, <2>2, <2>5, LauncherIsApart, PlanParts
  <2> QED BY <2>3, <2>4, <2>5
<1> QED BY <1>5, <1>6, <1>7, <1>8, <1>9

LEMMA PlacesKept ==
  ASSUME TypeOK, OrderInv, PrivateOrderInv, PlaceInv, [Next]_vars
  PROVE  PlaceInv'
<1> DEFINE Kept == {"runtime", "kernel", "private", "cargoHome", "caches"}
<1>1. /\ request' = request /\ Plan(request)' = Plan(request)
      /\ PrivateOf(request)' = PrivateOf(request)
      /\ HiddenOf(request)' = HiddenOf(request)
  BY RequestStays, PlanStays DEF vars
<1>2. PrivatePathsStay' = PrivatePathsStay
  BY <1>1 DEF PrivatePathsStay
<1>3. CASE Quiet
  BY <1>1, <1>2, <1>3, QuietTodo DEF PlaceInv, Exists, Quiet
<1>4. ASSUME NEW s \in Stages, NEW d \in Paths, Take(s, d), Effect(s, d),
             PrivatePathsStay, NEW t \in Kept,
             NEW p \in Plan(request)[t] \ todo'[t], ~Exists(p)'
      PROVE  FALSE
  <2>1. Active /\ t \in Stages /\ p \in Paths
    BY <1>4, PlanType, StageNames DEF Take, Active, TypeOK
  <2>2. CASE p \in todo[t]
    <3>1. t = s /\ p = d
      BY <1>4, <2>1, <2>2, TodoAfter
    <3> QED BY <1>4, <3>1, DestinationIsThere
  <2>3. CASE p \notin todo[t]
    <3>1. Exists(p)
      BY <1>4, <2>1, <2>3 DEF PlaceInv
    <3>2. StartsWith(p, d) /\ p # d /\ s # "cargoHome"
      BY <1>4, <2>1, <3>1, TakenFromAbove
    <3> QED BY <1>4, <2>1, <2>3, <3>2, NothingAbove
  <2> QED BY <2>2, <2>3
<1>5. ASSUME NEW s \in Stages, NEW d \in Paths, Take(s, d), Effect(s, d)
      PROVE  PlaceInv'
  BY <1>1, <1>2, <1>4, <1>5 DEF PlaceInv
<1>6. CASE UNCHANGED vars
  BY <1>1, <1>2, <1>6 DEF vars, PlaceInv, Exists, Active
<1> QED BY <1>3, <1>5, <1>6, StepsAreMounts

LEMMA ContextKept ==
  ASSUME TypeOK, OrderInv, ContextInv, [Next]_vars
  PROVE  ContextInv'
<1>1. CASE Quiet
  BY <1>1, QuietTodo, PlanParts DEF ContextInv, Quiet
<1>2. ASSUME NEW s \in Stages, NEW d \in Paths, Take(s, d), Effect(s, d),
             LauncherContext \notin todo'["context"]
      PROVE  view'[LauncherContext].kind = "context"
  <2>1. /\ Active /\ d \in Plan(request)[s]
        /\ LauncherContext \in Paths /\ LauncherContext \in Seq(Names)
        /\ StartsWith(LauncherContext, LauncherContext)
    BY <1>2, TodoAfter, TreeAssumption, PathsAreSequences, StartsWithItself
       DEF Take, Active, SandboxOwn
  <2>2. CASE LauncherContext \in todo["context"]
    <3>1. s = "context" /\ d = LauncherContext
      BY <1>2, <2>2, TodoAfter, StageNames
    <3> QED BY <1>2, <2>1, <3>1 DEF Effect, Below
  <2>3. CASE LauncherContext \notin todo["context"]
    <3>1. view[LauncherContext].kind = "context"
      BY <2>1, <2>3 DEF ContextInv
    <3>2. Rank[s] >= 10 /\ s # "context"
      <4>1. Rank[s] >= 10
        BY <1>2, <2>3, LaterStages, StageNames, PlanParts
      <4>2. d \in todo[s]
        BY <1>2, TodoAfter
      <4>3. ASSUME s = "context" PROVE FALSE
        <5>1. d = LauncherContext
          BY <2>1, <4>3, PlanParts
        <5> QED BY <2>3, <4>2, <4>3, <5>1
      <4> QED BY <4>1, <4>3
    <3>3. d = Launcher
      BY <2>1, <3>2, StageNames, PlanParts
    <3>4. ~StartsWith(LauncherContext, d)
      BY <3>3 DEF StartsWith, Launcher, LauncherContext
    <3>5. view[LauncherContext] # Absent
      BY <3>1, ContentKinds
    <3> QED BY <1>2, <2>1, <3>1, <3>4, <3>5 DEF Effect, Beside
  <2> QED BY <2>2, <2>3
<1>3. ASSUME NEW s \in Stages, NEW d \in Paths, Take(s, d), Effect(s, d)
      PROVE  ContextInv'
  BY <1>2, <1>3 DEF ContextInv
<1>4. CASE UNCHANGED vars
  BY <1>4 DEF vars, ContextInv, Active
<1> QED BY <1>1, <1>3, <1>4, StepsAreMounts

LEMMA RuntimeKept ==
  ASSUME TypeOK, OrderInv, RuntimeInv, [Next]_vars
  PROVE  RuntimeInv'
<1> DEFINE Chosen == PrivateOf(request) \cup HiddenOf(request)
                       \cup request.readOnly \cup request.writable
<1>1. request' = request /\ Chosen' = Chosen
  BY RequestStays, PlanStays DEF vars
<1>2. CASE Quiet
  <2>1. \A m \in Runtime : m.dest \in Plan(request)["runtime"]
    BY PlanOfTheRest
  <2> QED BY <1>1, <1>2, <2>1, QuietTodo DEF RuntimeInv, IsHost, Quiet
<1>3. ASSUME NEW s \in Stages, NEW d \in Paths, Take(s, d), Effect(s, d),
             NEW m \in Runtime, m.dest \notin todo'["runtime"],
             NEW p \in Paths, StartsWith(p, m.dest),
             Moved(p, m.dest, m.source) \in Host,
             \A v \in Chosen : ~StartsWith(p, v)
      PROVE  IsHost(p)'
  <2>1. /\ Active /\ d \in Plan(request)[s] /\ d \in todo[s]
        /\ request \in Requests
    BY <1>3, TodoAfter DEF Take, Active, TypeOK
  <2>2. /\ p \in Seq(Names) /\ d \in Seq(Names) /\ m.dest \in Seq(Names)
    BY PathsAreSequences, TreeAssumption
  <2>3. CASE m.dest \in todo["runtime"]
    <3>1. s = "runtime" /\ d = m.dest
      BY <1>3, <2>3, TodoAfter, StageNames
    <3>2. PICK n \in Runtime :
            /\ d = n.dest
            /\ view'[p] = IF Moved(p, d, n.source) \in Host
                            THEN HostAt(Moved(p, d, n.source), "ro") ELSE Absent
      BY <1>3, <3>1 DEF Effect, Below
    <3>3. n = m
      BY <3>1, <3>2, HostAssumption
    <3> QED BY <1>3, <3>1, <3>2, <3>3, ContentKinds DEF IsHost
  <2>4. CASE m.dest \notin todo["runtime"]
    <3>1. IsHost(p) /\ view[p] # Absent
      BY <1>3, <2>1, <2>4, ContentKinds DEF RuntimeInv, IsHost
    <3>2. CASE ~StartsWith(p, d)
      BY <1>3, <3>1, <3>2 DEF Effect, Beside, IsHost
    <3>3. CASE StartsWith(p, d)
      <4>1. Overlap(m.dest, d)
        BY <1>3, <2>2, <3>3, AncestorsOverlap
      <4>2. d \notin SandboxOwn
        BY <4>1, TreeAssumption
      <4>3. s # "caches"
        <5> SUFFICES ASSUME s = "caches" PROVE FALSE
          OBVIOUS
        <5>1. StartsWith(d, CargoHomeInSandbox) /\ CargoHomeInSandbox \in SandboxOwn
          BY <2>1, PlanOfTheRest, CacheDestinations DEF SandboxOwn
        <5>2. CargoHomeInSandbox \in Seq(Names)
          BY <5>1, PathsAreSequences, TreeAssumption
        <5>3. StartsWith(p, CargoHomeInSandbox)
          BY <2>2, <3>3, <5>1, <5>2, StartsWithTransitive
        <5>4. Overlap(m.dest, CargoHomeInSandbox)
          BY <1>3, <2>2, <5>2, <5>3, AncestorsOverlap
        <5> QED BY <5>1, <5>4, TreeAssumption
      <4>4. s # "runtime"
        <5> SUFFICES ASSUME s = "runtime" PROVE FALSE
          OBVIOUS
        <5>1. PICK n \in Runtime : d = n.dest
          BY <2>1, PlanOfTheRest
        <5>2. Len(d) = 1 /\ Len(m.dest) = 1
          <6>1. PICK a \in Names : d = <<a>>
            BY <5>1, HostAssumption
          <6>2. PICK b \in Names : m.dest = <<b>>
            BY HostAssumption
          <6> QED BY <6>1, <6>2
        <5>3. d = m.dest
          BY <2>2, <4>1, <5>2, SameLength DEF Overlap
        <5> QED BY <2>1, <2>4, <5>3
      <4>5. s \notin {"kernel", "cargoHome", "context", "launcher"}
        BY <2>1, <4>2, PlanParts, PlanOfTheRest DEF SandboxOwn
      <4>6. s \notin {"private", "readOnly", "maskDirs", "maskFiles", "writable"}
        BY <1>3, <2>1, <3>3, PlanParts
      <4> QED BY <4>3, <4>4, <4>5, <4>6, StageNames
    <3> QED BY <3>2, <3>3
  <2> QED BY <2>3, <2>4
<1>4. ASSUME NEW s \in Stages, NEW d \in Paths, Take(s, d), Effect(s, d)
      PROVE  RuntimeInv'
  BY <1>1, <1>3, <1>4 DEF RuntimeInv
<1>5. CASE UNCHANGED vars
  BY <1>1, <1>5 DEF vars, RuntimeInv, IsHost, Active
<1> QED BY <1>2, <1>4, <1>5, StepsAreMounts

LEMMA CanLaunchStays ==
  ASSUME UNCHANGED <<request, view>>
  PROVE  CanLaunch' = CanLaunch
<1>1. Rules(request)' = Rules(request)
  BY PlanStays DEF Rules
<1> QED BY <1>1 DEF CanLaunch, Exists, Allowed

LEMMA FailedKept ==
  ASSUME TypeOK, FailedInv, [Next]_vars
  PROVE  FailedInv'
<1>1. CASE Quiet
  <2>1. CanLaunch' = CanLaunch
    BY <1>1, CanLaunchStays DEF Quiet
  <2>2. phase' = "failed" => ~CanLaunch
    BY <1>1 DEF Quiet, FromRequest, OpenSources, Launch
  <2> QED BY <2>1, <2>2 DEF FailedInv
<1>2. ASSUME NEW s \in Stages, NEW d \in Paths, Take(s, d)
      PROVE  FailedInv'
  BY <1>2 DEF Take, FailedInv
<1>3. CASE UNCHANGED vars
  <2>1. CanLaunch' = CanLaunch
    BY <1>3, CanLaunchStays DEF vars
  <2> QED BY <1>3, <2>1 DEF vars, FailedInv
<1> QED BY <1>1, <1>2, <1>3, StepsAreMounts

LEMMA InitStart == Init => StartInv
BY DEF Init, StartInv, PrivateOrderInv, PlaceInv, RuntimeInv, ContextInv,
   FailedInv, Active

LEMMA StepStart == TypeOK /\ ViewInv /\ StartInv /\ [Next]_vars => StartInv'
BY PrivateOrderKept, PlacesKept, RuntimeKept, ContextKept, FailedKept
   DEF StartInv, ViewInv

\* Every path a Landlock rule names stays where its mount put it, unless the
\* policy takes away one of its own private paths; the launcher's context and
\* what the runtime shows stay as well.
THEOREM StartInvariant == Spec => []StartInv
<1>1. Init => TypeOK /\ ViewInv /\ StartInv
  BY InitTypes, InitView, InitStart
<1>2. (TypeOK /\ ViewInv /\ StartInv) /\ [Next]_vars
        => (TypeOK /\ ViewInv /\ StartInv)'
  BY StepTypes, StepView, StepStart
<1> QED BY <1>1, <1>2, PTL DEF Spec

LEMMA NotBelowALink ==
  ASSUME NEW m \in Runtime, m.dest \in Links, NEW p \in Host
  PROVE  ~StartsWith(p, m.dest)
<1>1. m.dest \in Paths /\ m.dest \notin Host
  BY TreeAssumption
<1> QED BY <1>1, HostAssumption DEF Host

\* What is provided, and exists on the host under this name or under the one
\* the runtime gives it, is visible in the end.
LEMMA ProvidedIsVisible ==
  ASSUME TypeOK, ViewInv, RuntimeInv, Active, \A s \in Stages : todo[s] = {},
         NEW p \in Paths, Provided(p),
         \/ p \in Host
         \/ \E m \in Runtime :
              StartsWith(p, m.dest) /\ Moved(p, m.dest, m.source) \in Host
  PROVE  IsHost(p)
<1>1. /\ Valid(request) /\ request \in Requests /\ p \in Seq(Names)
      /\ \A s \in {"runtime", "readOnly", "writable"} : todo[s] = {}
  BY PathsAreSequences, StageNames DEF ViewInv, OrderInv, TypeOK
<1>2. ASSUME p \in Host, NEW v \in request.readOnly \cup request.writable,
             StartsWith(p, v)
      PROVE  IsHost(p)
  <2>1. CASE v \in request.readOnly
    BY <1>1, <1>2, <2>1 DEF ViewInv, ReadOnlyInv, Shows, IsHost
  <2>2. CASE v \in request.writable
    BY <1>1, <1>2, <2>2, ContentKinds DEF ViewInv, WritableInv, IsHost
  <2> QED BY <1>2, <2>1, <2>2
<1>3. ASSUME NEW m \in Runtime, StartsWith(p, m.dest),
             Moved(p, m.dest, m.source) \in Host
      PROVE  IsHost(p)
  <2>1. m.dest \in Seq(Names) /\ m.dest \in Paths
    BY PathsAreSequences, TreeAssumption
  <2>2. ASSUME p \notin Host,
               NEW v \in request.readOnly \cup request.writable, StartsWith(p, v)
        PROVE  FALSE
    <3>1. m.dest \in Links
      BY <1>1, <1>3, <2>1, <2>2, MovedToItself, HostAssumption
    <3>2. v \in Host /\ v \in Seq(Names) /\ v # Root
      BY <1>1, <2>2, ValidPathsExist, PathsAreSequences, RequestTypes
    <3>3. StartsWith(m.dest, v)
      BY <1>1, <1>3, <2>1, <2>2, <3>1, <3>2, NotBelowALink, AncestorsOverlap
         DEF Overlap
    <3>4. Len(m.dest) = 1
      <4>1. PICK n \in Names : m.dest = <<n>>
        BY HostAssumption
      <4> QED BY <4>1
    <3>5. m.dest = v
      BY <2>1, <3>2, <3>3, <3>4, TopLevel
    <3> QED BY <3>1, <3>2, <3>5, TreeAssumption
  <2>3. CASE \E v \in request.readOnly \cup request.writable : StartsWith(p, v)
    BY <1>2, <2>2, <2>3
  <2>4. CASE \A v \in request.readOnly \cup request.writable : ~StartsWith(p, v)
    <3>1. \A v \in PrivateOf(request) \cup HiddenOf(request) : ~StartsWith(p, v)
      BY <2>4 DEF Provided
    <3> QED BY <1>1, <1>3, <2>4, <3>1 DEF RuntimeInv
  <2> QED BY <2>3, <2>4
<1>4. ASSUME p \in Host, NEW m \in Runtime, StartsWith(p, m.dest)
      PROVE  Moved(p, m.dest, m.source) \in Host
  <2>1. m.source = m.dest
    BY <1>4, NotBelowALink, HostAssumption
  <2>2. m.dest \in Seq(Names)
    BY PathsAreSequences, TreeAssumption
  <2> QED BY <1>1, <1>4, <2>1, <2>2, MovedToItself
<1> QED BY <1>2, <1>3, <1>4 DEF Provided

LEMMA ProgramIsAllowed ==
  ASSUME TypeOK, Valid(request), Provided(request.program),
         request.program \notin request.writable
  PROVE  Allowed("Execute", request.program)
<1> DEFINE p == request.program
           Shown == {m.dest : m \in Runtime} \cup request.readOnly
<1>1. IsProgram(p) /\ request \in Requests /\ p \in Paths
  BY RequestAssumption DEF TypeOK, Valid, ValidProgram
<1>2. ASSUME NEW q \in Shown, StartsWith(p, q) PROVE Allowed("Execute", p)
  <2> DEFINE rule == [path |-> q, access |-> execute_access]
  <2>1. rule \in Rules(request)
    BY PlanOfTheRest DEF Rules, Rule
  <2>2. "Execute" \in rule.access /\ rule.path = q
    BY DEF execute_access
  <2> QED BY <1>2, <2>1, <2>2 DEF Allowed
<1>3. ASSUME NEW q \in request.writable, StartsWith(p, q), q \in Dirs
      PROVE  Allowed("Execute", p)
  <2> DEFINE rule == [path |-> q, access |-> write_access]
  <2>1. rule \in Rules(request)
    BY <1>3 DEF Rules, Rule
  <2>2. "Execute" \in rule.access /\ rule.path = q
    BY DEF write_access, execute_access
  <2> QED BY <1>3, <2>1, <2>2 DEF Allowed
<1>4. ASSUME p \in Files, NEW q \in request.writable, StartsWith(p, q)
      PROVE  q \in Dirs
  <2>1. p # q /\ q \in Paths /\ p \in Host
    BY <1>1, <1>4, RequestTypes DEF Host
  <2> QED BY <1>4, <2>1, HostAssumption
<1>5. p \notin Files => \E m \in Runtime : StartsWith(p, m.dest)
  BY <1>1 DEF IsProgram
<1>6. \E q \in Shown \cup request.writable : StartsWith(p, q)
  BY DEF Provided
<1> QED BY <1>2, <1>3, <1>4, <1>5, <1>6

LEMMA RulePathsExist ==
  ASSUME TypeOK, ViewInv, PlaceInv, Active, \A s \in Stages : todo[s] = {},
         PrivatePathsStay, NEW rule \in Rules(request)
  PROVE  rule.path # Root /\ Exists(rule.path)
<1>1. /\ Valid(request) /\ request \in Requests
      /\ todo["readOnly"] = {} /\ todo["writable"] = {}
  BY StageNames DEF ViewInv, OrderInv, TypeOK
<1>2. ASSUME NEW s \in {"runtime", "kernel", "private", "cargoHome", "caches"},
             NEW d \in Plan(request)[s]
      PROVE  d # Root /\ Exists(d)
  <2>1. s \in Stages /\ d \notin todo[s]
    BY StageNames
  <2> QED BY <1>1, <2>1, NoMountAtRoot DEF PlaceInv
<1>3. ASSUME NEW d \in request.readOnly \cup request.writable
      PROVE  d # Root /\ Exists(d)
  <2>1. d \in Host /\ d # Root /\ StartsWith(d, d)
    BY <1>1, ValidPathsExist, RequestTypes, PathsAreSequences, StartsWithItself
  <2>2. CASE d \in request.readOnly
    BY <1>1, <2>1, <2>2 DEF ViewInv, ReadOnlyInv, Shows, Exists
  <2>3. CASE d \in request.writable
    BY <1>1, <2>1, <2>3, ContentKinds DEF ViewInv, WritableInv, Exists
  <2> QED BY <2>1, <2>2, <2>3
<1>4. \/ rule.path \in request.readOnly \cup request.writable
      \/ \E s \in {"runtime", "kernel", "private", "cargoHome", "caches"} :
           rule.path \in Plan(request)[s]
  BY PlanParts, PlanOfTheRest DEF Rules, Rule
<1> QED BY <1>2, <1>3, <1>4

\* What from_request accepts starts, unless the host has no shell, the policy
\* takes away the shell, the program, the working directory or one of its own
\* private paths, or the program is a writable file.
THEOREM AcceptedIsStartable == Spec => []AcceptedMeansStartable
<1>1. TypeOK /\ ViewInv /\ StartInv => AcceptedMeansStartable
  <2> SUFFICES ASSUME TypeOK, ViewInv, StartInv, phase = "failed",
                      IsProgram(FdScrubberShell), Provided(FdScrubberShell),
                      Provided(request.program), Provided(request.currentDir),
                      PrivatePathsStay,
                      request.program \notin request.writable
               PROVE  CanLaunch
    BY DEF AcceptedMeansStartable, PrivatePathsStay, StartInv, FailedInv
  <2>1. /\ Active /\ Valid(request) /\ request \in Requests
        /\ \A s \in Stages : todo[s] = {}
    BY DEF ViewInv, OrderInv, Active, TypeOK
  <2>2. /\ RuntimeInv /\ PlaceInv /\ ContextInv
    BY DEF StartInv
  <2>3. ASSUME NEW p \in Paths, Provided(p), p \in Dirs \/ IsProgram(p)
        PROVE  view[p].kind = "host" /\ Exists(p)
    <3>1. \/ p \in Host
          \/ \E m \in Runtime :
               StartsWith(p, m.dest) /\ Moved(p, m.dest, m.source) \in Host
      BY <2>3 DEF IsProgram, Host
    <3>2. IsHost(p)
      BY <2>1, <2>2, <2>3, <3>1, ProvidedIsVisible
    <3> QED BY <3>2 DEF IsHost, Exists
  <2>4. FdScrubberShell \in Paths
    BY TreeAssumption DEF IsProgram
  <2>5. /\ request.program \in Paths /\ IsProgram(request.program)
        /\ request.currentDir \in Paths /\ request.currentDir \in Dirs
    BY <2>1, RequestAssumption DEF Valid, ValidProgram, ExistingPaths
  <2>6. view[LauncherContext].kind = "context"
    BY <2>1, <2>2, StageNames DEF ContextInv
  <2>7. \A rule \in Rules(request) : rule.path # Root /\ Exists(rule.path)
    BY <2>1, <2>2, RulePathsExist
  <2>8. Allowed("Execute", request.program)
    BY <2>1, ProgramIsAllowed
  <2> QED BY <2>3, <2>4, <2>5, <2>6, <2>7, <2>8 DEF CanLaunch
<1> QED BY <1>1, ViewTypeCorrect, ViewInvariant, StartInvariant, PTL
=============================================================================
