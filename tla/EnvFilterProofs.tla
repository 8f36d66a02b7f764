---------------------------- MODULE EnvFilterProofs ----------------------------
(***************************************************************************)
(* Theorems about EnvFilter, for every environment of the caller, every    *)
(* request and any changes by other threads.                               *)
(***************************************************************************)
EXTENDS EnvFilterInv, WellFoundedInduction, FiniteSetTheorems,
        SequenceTheorems, TLAPS

-----------------------------------------------------------------------------
(* Environments *)

LEMMA SettingDomain ==
  ASSUME NEW e, NEW set
  PROVE  /\ DOMAIN Setting(e, set) = DOMAIN e \cup {set[i].name : i \in DOMAIN set}
         /\ \A n \in DOMAIN e \ {set[i].name : i \in DOMAIN set} : Setting(e, set)[n] = e[n]
<1>1. ASSUME NEW n \in DOMAIN e \ {set[i].name : i \in DOMAIN set}
      PROVE  Setting(e, set)[n] = e[n]
  <2>1. {i \in DOMAIN set : set[i].name = n} = {}
    OBVIOUS
  <2> QED BY <2>1 DEF Setting
<1>2. DOMAIN Setting(e, set) = DOMAIN e \cup {set[i].name : i \in DOMAIN set}
  BY DEF Setting
<1> QED BY <1>1, <1>2

LEMMA WithoutDomain ==
  ASSUME NEW e, NEW names
  PROVE  /\ DOMAIN Without(e, names) = DOMAIN e \ names
         /\ \A n \in DOMAIN e \ names : Without(e, names)[n] = e[n]
BY DEF Without

\* Setting the one variable v.
LEMMA SettingOne ==
  ASSUME NEW e, NEW n, NEW value
  PROVE  /\ DOMAIN Setting(e, <<Var(n, value)>>) = DOMAIN e \cup {n}
         /\ \A m \in DOMAIN e \ {n} : Setting(e, <<Var(n, value)>>)[m] = e[m]
<1> DEFINE set == <<Var(n, value)>>
<1>1. {set[i].name : i \in DOMAIN set} = {n}
  <2>1. DOMAIN set = {1} /\ set[1].name = n
    BY DEF Var
  <2> HIDE DEF set
  <2> QED BY <2>1
<1> HIDE DEF set
<1>2. /\ DOMAIN Setting(e, set) = DOMAIN e \cup {n}
      /\ \A m \in DOMAIN e \ {n} : Setting(e, set)[m] = e[m]
  BY <1>1, SettingDomain
<1> QED BY <1>2 DEF set

LEMMA SettingOther ==
  ASSUME NEW e, NEW n, NEW value, NEW m \in DOMAIN e, m # n
  PROVE  Setting(e, <<Var(n, value)>>)[m] = e[m]
<1>1. PICK set : set = <<Var(n, value)>>
  OBVIOUS
<1>2. DOMAIN set = {1} /\ set[1].name = n
  BY <1>1 DEF Var
<1>3. m \in DOMAIN e \ {set[i].name : i \in DOMAIN set}
  BY <1>2
<1>4. Setting(e, set)[m] = e[m]
  BY <1>3, SettingDomain
<1> QED BY <1>1, <1>4

-----------------------------------------------------------------------------
(* The steps *)

\* A step that keeps request and plan keeps PlanInv.
LEMMA SamePlan ==
  ASSUME FilterInv, pc \in Planned, UNCHANGED <<request, plan>>
  PROVE  PlanInv'
BY DEF FilterInv, PlanInv

LEMMA PolicyKeeps ==
  ASSUME FilterInv, CollectRemovals \/ cargo_environment
  PROVE  FilterInv'
<1>1. pc' \in {"environment", "merge"}
  BY DEF CollectRemovals, cargo_environment
<1> QED BY <1>1 DEF FilterInv, PlanInv, EnvInv, Planned

LEMMA MergeKeeps ==
  ASSUME FilterInv, merged_environment
  PROVE  FilterInv'
<1> DEFINE named == {request.set[i].name : i \in DOMAIN request.set}
<1> DEFINE remove == request.remove \cup request.policy
                       \cup {n \in named : is_sensitive_environment_name(n)}
<1> DEFINE kept == {i \in DOMAIN request.set : request.set[i].name \notin remove}
<1>1. /\ plan' = [inherit |-> request.inherit, remove |-> remove,
                  set |-> [i \in kept |-> request.set[i]]]
      /\ pc' = "spawn" /\ request' = request
  BY DEF merged_environment
<1>2. ASSUME NEW i \in kept
      PROVE  /\ request.set[i].name \notin remove
             /\ ~is_sensitive_environment_name(request.set[i].name)
  OBVIOUS
<1>3. PlanInv'
  <2>1. /\ plan'.inherit = request.inherit /\ plan'.remove = remove
        /\ plan'.set = [i \in kept |-> request.set[i]]
    BY <1>1
  <2>2. request.remove \cup request.policy \subseteq remove
    OBVIOUS
  <2> HIDE DEF remove, kept
  <2> QED BY <1>1, <1>2, <2>1, <2>2 DEF PlanInv
<1>4. EnvInv'
  BY <1>1 DEF EnvInv
<1> QED BY <1>3, <1>4 DEF FilterInv

LEMMA SpawnKeeps ==
  ASSUME FilterInv, SpawnBwrap
  PROVE  FilterInv'
<1> DEFINE start == IF plan.inherit THEN Inherited ELSE NoEnv
<1>1. /\ pc = "spawn" /\ pc' = "arguments" /\ UNCHANGED <<request, plan>>
      /\ env' = Without(Setting(start, plan.set), plan.remove)
  BY DEF SpawnBwrap
<1>2. PlanInv'
  BY <1>1, SamePlan DEF Planned
<1>3. ASSUME plan.inherit, Recognised, NEW n \in Secrets \cap DOMAIN env'
      PROVE  env'[n] = "caller"
  <2>1. start = Inherited
    BY <1>3
  <2>2. n \notin {plan.set[i].name : i \in DOMAIN plan.set}
    BY <1>1, <1>3 DEF FilterInv, PlanInv, Planned, Recognised
  <2>3. n \in DOMAIN Setting(start, plan.set) /\ env'[n] = Setting(start, plan.set)[n]
    <3>1. PICK e : e = Setting(start, plan.set)
      OBVIOUS
    <3>2. PICK r : r = plan.remove
      OBVIOUS
    <3>3. env' = Without(e, r) /\ n \in DOMAIN env'
      BY <1>1, <1>3, <3>1, <3>2
    <3>4. n \in DOMAIN e \ r
      BY <3>3, WithoutDomain
    <3>5. Without(e, r)[n] = e[n]
      BY <3>4, WithoutDomain
    <3> HIDE DEF start
    <3> QED BY <3>1, <3>3, <3>4, <3>5
  <2>4. n \in DOMAIN start /\ env'[n] = start[n]
    <3>1. PICK e : e = start
      OBVIOUS
    <3>2. PICK set : set = plan.set
      OBVIOUS
    <3>3. n \in DOMAIN Setting(e, set) /\ n \notin {set[i].name : i \in DOMAIN set}
      <4> HIDE DEF start
      <4> QED BY <2>2, <2>3, <3>1, <3>2
    <3>4. n \in DOMAIN e \ {set[i].name : i \in DOMAIN set}
      BY <3>3, SettingDomain
    <3>5. Setting(e, set)[n] = e[n]
      BY <3>4, SettingDomain
    <3> HIDE DEF start
    <3> QED BY <2>3, <3>1, <3>2, <3>4, <3>5
  <2> QED BY <2>1, <2>4 DEF Inherited
<1>4. EnvInv'
  BY <1>1, <1>3 DEF EnvInv, Recognised, Added, Pwd, Shlvl
<1> QED BY <1>2, <1>4 DEF FilterInv

LEMMA BwrapKeeps ==
  ASSUME FilterInv, BwrapArguments
  PROVE  FilterInv'
<1> DEFINE cleared == IF plan.inherit THEN env ELSE Without(env, DOMAIN env \ {Name(<<"PWD">>)})
<1> DEFINE unset == Without(cleared, plan.remove)
<1> DEFINE set == Setting(unset, plan.set)
<1> DEFINE home == IF CargoHome \in plan.remove THEN set
                   ELSE Setting(set, <<Var(CargoHome, "backend")>>)
<1>1. /\ pc = "arguments" /\ pc' = "scrub" /\ UNCHANGED <<request, plan>>
      /\ env' = Setting(home, <<Var(Pwd, "bwrap")>>)
  BY DEF BwrapArguments, Pwd
<1>2. PlanInv'
  BY <1>1, SamePlan DEF Planned
<1>3. /\ DOMAIN set = (DOMAIN cleared \ plan.remove)
                        \cup {plan.set[i].name : i \in DOMAIN plan.set}
      /\ \A n \in DOMAIN set : n \notin plan.remove
  <2>1. DOMAIN set = DOMAIN unset \cup {plan.set[i].name : i \in DOMAIN plan.set}
    <3> HIDE DEF unset
    <3> QED BY SettingDomain
  <2>2. DOMAIN unset = DOMAIN cleared \ plan.remove
    <3> HIDE DEF cleared
    <3> QED BY WithoutDomain
  <2>3. \A i \in DOMAIN plan.set : plan.set[i].name \notin plan.remove
    BY <1>1 DEF FilterInv, PlanInv, Planned
  <2> HIDE DEF set, unset, cleared
  <2> QED BY <2>1, <2>2, <2>3
<1>4. /\ \A n \in DOMAIN home : n \notin plan.remove
      /\ \A n \in DOMAIN home \ {CargoHome} : n \in DOMAIN set /\ home[n] = set[n]
  <2> HIDE DEF set
  <2>1. CASE CargoHome \in plan.remove
    BY <1>3, <2>1
  <2>2. CASE CargoHome \notin plan.remove
    <3>1. PICK e : e = set
      OBVIOUS
    <3>2. home = Setting(e, <<Var(CargoHome, "backend")>>)
      BY <2>2, <3>1
    <3> HIDE DEF home
    <3>3. PICK v : v = CargoHome
      OBVIOUS
    <3>4. PICK f : f = Setting(e, <<Var(v, "backend")>>)
      OBVIOUS
    <3>5. DOMAIN f = DOMAIN e \cup {v} /\ \A n \in DOMAIN e \ {v} : f[n] = e[n]
      BY <3>4, SettingOne
    <3>6. home = f
      BY <3>2, <3>3, <3>4
    <3> QED BY <1>3, <2>2, <3>1, <3>3, <3>5, <3>6
  <2> QED BY <2>1, <2>2
<1>5. /\ DOMAIN env' = DOMAIN home \cup {Pwd}
      /\ \A n \in DOMAIN home \ {Pwd} : env'[n] = home[n]
  <2>1. PICK e : e = home
    OBVIOUS
  <2> HIDE DEF home
  <2>2. env' = Setting(e, <<Var(Pwd, "bwrap")>>)
    BY <1>1, <2>1
  <2>3. PICK v : v = Pwd
    OBVIOUS
  <2>4. PICK f : f = Setting(e, <<Var(v, "bwrap")>>)
    OBVIOUS
  <2>5. DOMAIN f = DOMAIN e \cup {v} /\ \A n \in DOMAIN e \ {v} : f[n] = e[n]
    <3>1. DOMAIN f = DOMAIN e \cup {v}
      BY <2>4, SettingOne
    <3>2. ASSUME NEW n \in DOMAIN e \ {v} PROVE f[n] = e[n]
      <4>1. n \in DOMAIN e /\ n # v
        OBVIOUS
      <4> QED BY <2>4, <4>1, SettingOther
    <3> QED BY <3>1, <3>2
  <2>6. env' = f
    BY <2>2, <2>3, <2>4
  <2> QED BY <2>1, <2>3, <2>5, <2>6
<1>6. \A n \in plan.remove \ Added : n \notin DOMAIN env'
  <2> HIDE DEF home
  <2> QED BY <1>4, <1>5 DEF Added
<1>7. ASSUME plan.inherit, Recognised, NEW n \in Secrets \cap DOMAIN env'
      PROVE  env'[n] = "caller"
  <2>1. n # Pwd /\ n # CargoHome /\ n \notin {plan.set[i].name : i \in DOMAIN plan.set}
    BY <1>1, <1>7 DEF FilterInv, PlanInv, Planned, Recognised, Added
  <2>2. n \in DOMAIN set /\ env'[n] = set[n]
    <3> HIDE DEF set, home
    <3> QED BY <1>4, <1>5, <1>7, <2>1
  <2>3. n \in DOMAIN unset /\ set[n] = unset[n]
    <3>1. DOMAIN set = DOMAIN unset \cup {plan.set[i].name : i \in DOMAIN plan.set}
      <4> HIDE DEF unset
      <4> QED BY SettingDomain
    <3>2. n \in DOMAIN unset
      <4> HIDE DEF unset, set
      <4> QED BY <2>1, <2>2, <3>1
    <3> HIDE DEF unset
    <3> QED BY <2>1, <3>2, SettingDomain
  <2>4. n \in DOMAIN cleared /\ unset[n] = cleared[n]
    <3>1. PICK e : e = cleared
      OBVIOUS
    <3>2. PICK r : r = plan.remove
      OBVIOUS
    <3>3. unset = Without(e, r)
      BY <3>1, <3>2
    <3> HIDE DEF cleared, unset
    <3>4. n \in DOMAIN e \ r
      BY <2>3, <3>3, WithoutDomain
    <3>5. Without(e, r)[n] = e[n]
      BY <3>4, WithoutDomain
    <3> QED BY <3>1, <3>3, <3>4, <3>5
  <2>5. cleared = env
    BY <1>7
  <2>6. env[n] = "caller"
    <3> HIDE DEF cleared
    <3> QED BY <1>1, <1>7, <2>4, <2>5 DEF FilterInv, EnvInv
  <2> HIDE DEF set, unset, cleared
  <2> QED BY <2>2, <2>3, <2>4, <2>5, <2>6
<1>8. EnvInv'
  <2> HIDE DEF home
  <2> QED BY <1>1, <1>6, <1>7 DEF EnvInv, Recognised, Added, Pwd, Shlvl
<1> QED BY <1>2, <1>8 DEF FilterInv

LEMMA ScrubKeeps ==
  ASSUME FilterInv, Scrub
  PROVE  FilterInv'
<1>1. /\ pc = "scrub" /\ pc' = "launch" /\ UNCHANGED <<request, plan>>
      /\ DOMAIN env' = DOMAIN env \cup {Shlvl}
      /\ \A n \in DOMAIN env \ {Shlvl} : env'[n] = env[n]
  <2>1. PICK e : e = env
    OBVIOUS
  <2>2. env' = Setting(e, <<Var(Shlvl, "bash")>>)
    BY <2>1 DEF Scrub, Shlvl
  <2>3. PICK v : v = Shlvl
    OBVIOUS
  <2>4. PICK f : f = Setting(e, <<Var(v, "bash")>>)
    OBVIOUS
  <2>5. DOMAIN f = DOMAIN e \cup {v} /\ \A n \in DOMAIN e \ {v} : f[n] = e[n]
    <3>1. DOMAIN f = DOMAIN e \cup {v}
      BY <2>4, SettingOne
    <3>2. ASSUME NEW n \in DOMAIN e \ {v} PROVE f[n] = e[n]
      <4>1. n \in DOMAIN e /\ n # v
        OBVIOUS
      <4> QED BY <2>4, <4>1, SettingOther
    <3> QED BY <3>1, <3>2
  <2>6. env' = f
    BY <2>2, <2>3, <2>4
  <2> QED BY <2>1, <2>3, <2>5, <2>6 DEF Scrub
<1>2. PlanInv'
  BY <1>1, SamePlan DEF Planned
<1>3. \A n \in plan.remove \ Added : n \notin DOMAIN env'
  BY <1>1 DEF FilterInv, EnvInv, Added
<1>4. ASSUME plan.inherit, Recognised, NEW n \in Secrets \cap DOMAIN env'
      PROVE  env'[n] = "caller"
  <2>1. n # Shlvl
    BY <1>4 DEF Recognised, Added
  <2> QED BY <1>1, <1>4, <2>1 DEF FilterInv, EnvInv
<1>5. EnvInv'
  BY <1>1, <1>3, <1>4 DEF EnvInv, Recognised, Added, Pwd, Shlvl
<1> QED BY <1>2, <1>5 DEF FilterInv

LEMMA LaunchKeeps ==
  ASSUME FilterInv, Launch
  PROVE  FilterInv'
<1> DEFINE dropped == {n \in DOMAIN env : ~is_allowed_sandbox_environment_name(n)
                                            \/ is_sensitive_environment_name(n)}
<1>1. /\ pc = "launch" /\ pc' = "program" /\ UNCHANGED <<request, plan>>
      /\ env' = IF plan.inherit THEN env ELSE Without(env, dropped)
  BY DEF Launch
<1>2. PlanInv'
  BY <1>1, SamePlan DEF Planned
<1>3. CASE plan.inherit
  <2>1. env' = env
    BY <1>1, <1>3
  <2> QED BY <1>1, <1>2, <1>3, <2>1 DEF FilterInv, EnvInv, Recognised, Added, Pwd, Shlvl
<1>4. CASE ~plan.inherit
  <2>1. DOMAIN env' = DOMAIN env \ dropped
    <3> HIDE DEF dropped
    <3> QED BY <1>1, <1>4, WithoutDomain
  <2>2. \A n \in DOMAIN env' : n \in DOMAIN env /\ ~is_sensitive_environment_name(n)
    BY <2>1
  <2>3. \A n \in plan.remove \ Added : n \notin DOMAIN env'
    BY <1>1, <2>2 DEF FilterInv, EnvInv
  <2>4. EnvInv'
    BY <1>1, <1>4, <2>2, <2>3 DEF EnvInv, Added, Pwd, Shlvl
  <2> QED BY <1>2, <2>4 DEF FilterInv
<1> QED BY <1>3, <1>4

LEMMA OthersKeep ==
  ASSUME FilterInv, UNCHANGED <<use, request, plan, env, pc>>
  PROVE  FilterInv'
BY DEF FilterInv, PlanInv, EnvInv, Recognised, Added, Pwd, Shlvl

LEMMA StepKeeps ==
  ASSUME FilterInv, [Next]_vars
  PROVE  FilterInv'
<1>1. CASE UNCHANGED vars
  BY <1>1, OthersKeep DEF vars
<1>2. CASE OtherThread
  BY <1>2, OthersKeep DEF OtherThread
<1> QED BY <1>1, <1>2, PolicyKeeps, MergeKeeps, SpawnKeeps, BwrapKeeps, ScrubKeeps,
           LaunchKeeps DEF Next

\* The plan carries every removal and nothing sensitive, and so does every
\* environment after it.
THEOREM FilterInvariant == Spec => []FilterInv
<1>1. Init => FilterInv
  BY DEF Init, FilterInv, PlanInv, EnvInv, Planned
<1> QED BY <1>1, StepKeeps, PTL DEF Spec

\* Whatever the caller's environment, a request and the policy are, no layer
\* brings back what is removed (merged_environment, --unsetenv, --setenv).
THEOREM RemovalsAlwaysWin == Spec => []RemovalsWin
<1>1. FilterInv => RemovalsWin
  BY DEF FilterInv, PlanInv, EnvInv, Planned, RemovalsWin, Started
<1> QED BY <1>1, FilterInvariant, PTL

\* Secrets that the filters know by their names reach the program only by an
\* embedding program's request to inherit (is_sensitive_environment_name in
\* merged_environment and in run_internal_launcher).
THEOREM SecretsAlwaysStayOut ==
  ASSUME Recognised
  PROVE  Spec => []SecretsStayOut
<1>1. FilterInv => SecretsStayOut
  <2>1. SUFFICES ASSUME FilterInv, Started, NEW n \in Secrets \cap DOMAIN env
                 PROVE  request.inherit /\ env[n] = "caller"
    BY DEF SecretsStayOut
  <2>2. is_sensitive_environment_name(n)
    BY <2>1 DEF Recognised
  <2>3. plan.inherit = request.inherit
    BY <2>1 DEF FilterInv, PlanInv, Started, Planned
  <2>4. plan.inherit
    BY <2>1, <2>2 DEF FilterInv, EnvInv, Started
  <2>5. env[n] = "caller"
    BY <2>1, <2>4 DEF FilterInv, EnvInv, Started
  <2> QED BY <2>3, <2>4, <2>5
<1> QED BY <1>1, FilterInvariant, PTL

-----------------------------------------------------------------------------
(* Names *)

TargetDir == Name(<<"CARGO", "TARGET", "DIR">>)

LEMMA OwnNames ==
  /\ BuildNames = {TargetDir, Name(<<"CARGO", "BUILD", "BUILD", "DIR">>),
                   Name(<<"CARGO", "NET", "OFFLINE">>), Name(<<"TMPDIR">>)}
  /\ CageNames = {Name(<<"HOME">>), Name(<<"PATH">>), Name(<<"PWD">>), Name(<<"RUSTC">>),
                  Name(<<"RUSTDOC">>)}
<1>1. /\ DOMAIN OfTheBuild = 1..4 /\ OfTheBuild[1].name = TargetDir
      /\ OfTheBuild[2].name = Name(<<"CARGO", "BUILD", "BUILD", "DIR">>)
      /\ OfTheBuild[3].name = Name(<<"CARGO", "NET", "OFFLINE">>)
      /\ OfTheBuild[4].name = Name(<<"TMPDIR">>)
  BY DEF OfTheBuild, Var, TargetDir
<1>2. /\ DOMAIN Toolchain = 1..4 /\ Toolchain[1].name = Name(<<"HOME">>)
      /\ Toolchain[2].name = Name(<<"PATH">>) /\ Toolchain[3].name = Name(<<"PWD">>)
      /\ Toolchain[4].name = Name(<<"RUSTC">>)
  BY DEF Toolchain, Var
<1>3. 1..4 = {1, 2, 3, 4}
  OBVIOUS
<1>4. BuildNames = {OfTheBuild[1].name, OfTheBuild[2].name, OfTheBuild[3].name, OfTheBuild[4].name}
  BY <1>1, <1>3 DEF BuildNames, NamesOf
<1>5. NamesOf(Toolchain) = {Toolchain[1].name, Toolchain[2].name, Toolchain[3].name, Toolchain[4].name}
  BY <1>2, <1>3 DEF NamesOf
<1> QED BY <1>1, <1>2, <1>4, <1>5 DEF CageNames

\* Names are told apart by how many words they have and by one of them.
LEMMA TellApart ==
  ASSUME NEW v, NEW w, Name(v) = Name(w)
  PROVE  Len(v) = Len(w) /\ \A i \in DOMAIN v : v[i] = w[i]
BY DEF Name

LEMMA Disjoint ==
  /\ Forwarded \cap SandboxOnly = {} /\ CageNames \subseteq SandboxOnly
  /\ BuildNames \subseteq SandboxOnly /\ CageNames \cap BuildNames = {}
<1>1. ASSUME NEW n \in Forwarded PROVE n \notin SandboxOnly
  <2>1. ASSUME n \in SandboxOnly PROVE FALSE
    <3>1. PICK v : /\ n = Name(v)
                   /\ \/ Len(v) = 1 /\ v[1] \in {"USER", "LANG", "TERM", "RUSTFLAGS", "CC"}
                      \/ Len(v) = 2 /\ v[2] \in {"ALL", "INCREMENTAL"}
                      \/ Len(v) = 3 /\ <<v[2], v[3]>> \in {<<"BUILD", "TARGET">>, <<"CONFIG", "PATH">>}
      BY DEF Forwarded
    <3>2. PICK w : /\ n = Name(w)
                   /\ \/ /\ Len(w) = 1
                         /\ w[1] \in {"HOME", "PATH", "PWD", "RUSTC", "RUSTDOC", "TMPDIR"}
                      \/ Len(w) = 2 /\ w[2] = "HOME"
                      \/ Len(w) = 3 /\ w[2] \in {"TARGET", "NET"}
                      \/ Len(w) = 4
      BY <2>1 DEF SandboxOnly
    <3>3. v = w
      BY <3>1, <3>2 DEF Name
    <3> QED BY <3>1, <3>2, <3>3
  <2> QED BY <2>1
<1>2. CageNames \cap BuildNames = {}
  BY OwnNames, TellApart DEF TargetDir
<1> QED BY <1>1, <1>2, OwnNames DEF SandboxOnly, TargetDir

LEMMA LayersApart ==
  /\ CargoHome # Pwd /\ CargoHome # Shlvl /\ Pwd # Shlvl
  /\ BuildNames \cap Layers = {} /\ BuildNames \cap KnownSecrets = {}
BY OwnNames, TellApart DEF CargoHome, Pwd, Shlvl, Layers, Added, KnownSecrets, TargetDir

LEMMA SameLast ==
  ASSUME NEW S, NEW words \in Seq(S), NEW end, Len(end) \in Nat \ {0}, EndsIn(words, end)
  PROVE  words[Len(words)] = end[Len(end)]
<1> DEFINE first == Len(words) - Len(end) + 1
<1>1. /\ Len(words) \in Nat /\ Len(end) <= Len(words) /\ first \in 1..Len(words)
      /\ SubSeq(words, first, Len(words)) = end
  BY DEF EndsIn
<1>2. Len(words) = first + Len(end) - 1
  BY <1>1
<1> HIDE DEF first
<1>3. SubSeq(words, first, Len(words))[Len(end)] = words[Len(words)]
  BY <1>1, <1>2
<1> QED BY <1>1, <1>3

LEMMA InsensitiveLast ==
  ASSUME NEW S, NEW w \in Seq(S), w[1] \notin {"AWS", "SSH", "GPG"},
         w[Len(w)] \in {"DIR", "OFFLINE", "TMPDIR"}
  PROVE  ~is_sensitive_environment_name(Name(w))
<1>1. ~IsOrEndsIn(w)
  <2>1. SUFFICES ASSUME NEW end, EndsIn(w, end), Len(end) \in {1, 2},
                        end[Len(end)] \in {"TOKEN", "PASSWORD", "PASS", "SECRET", "CREDENTIAL", "KEY"}
                 PROVE  FALSE
    BY DEF IsOrEndsIn
  <2>2. Len(end) \in Nat \ {0}
    BY <2>1
  <2>3. w[Len(w)] = end[Len(end)]
    BY <2>1, <2>2, SameLast
  <2> QED BY <2>1, <2>3
<1>2. ~EndsAfterAnother(w)
  <2>1. SUFFICES ASSUME NEW end, EndsIn(w, end), Len(end) \in {1, 2},
                        end[Len(end)] \in {"TOKENS", "KEY", "AGENT", "INFO", "PID", "SOCK"}
                 PROVE  FALSE
    BY DEF EndsAfterAnother
  <2>2. Len(end) \in Nat \ {0}
    BY <2>1
  <2>3. w[Len(w)] = end[Len(end)]
    BY <2>1, <2>2, SameLast
  <2> QED BY <2>1, <2>3
<1> QED BY <1>1, <1>2 DEF is_sensitive_environment_name, Name

\* The filters know none of the build's variables by its name.
LEMMA BuildNamesPass ==
  ASSUME NEW n \in BuildNames
  PROVE  ~is_sensitive_environment_name(n)
<1> DEFINE S == {"CARGO", "TARGET", "DIR", "BUILD", "NET", "OFFLINE", "TMPDIR"}
<1>1. PICK w : /\ n = Name(w)
               /\ w \in {<<"CARGO", "TARGET", "DIR">>, <<"CARGO", "BUILD", "BUILD", "DIR">>,
                         <<"CARGO", "NET", "OFFLINE">>, <<"TMPDIR">>}
  BY OwnNames DEF TargetDir
<1>2. w \in Seq(S) /\ w[1] \in {"CARGO", "TMPDIR"} /\ w[Len(w)] \in {"DIR", "OFFLINE", "TMPDIR"}
  <2>1. <<"CARGO", "TARGET", "DIR">> \in Seq(S)
    OBVIOUS
  <2>2. <<"CARGO", "BUILD", "BUILD", "DIR">> \in Seq(S)
    OBVIOUS
  <2>3. <<"CARGO", "NET", "OFFLINE">> \in Seq(S) /\ <<"TMPDIR">> \in Seq(S)
    OBVIOUS
  <2>4. w[1] \in {"CARGO", "TMPDIR"} /\ w[Len(w)] \in {"DIR", "OFFLINE", "TMPDIR"}
    <3>1. CASE w = <<"CARGO", "TARGET", "DIR">>
      BY <3>1
    <3>2. CASE w = <<"CARGO", "BUILD", "BUILD", "DIR">>
      BY <3>2
    <3>3. CASE w = <<"CARGO", "NET", "OFFLINE">>
      BY <3>3
    <3>4. CASE w = <<"TMPDIR">>
      BY <3>4
    <3> QED BY <1>1, <3>1, <3>2, <3>3, <3>4
  <2> QED BY <1>1, <2>1, <2>2, <2>3, <2>4
<1> HIDE DEF S
<1>3. w[1] \notin {"AWS", "SSH", "GPG"}
  BY <1>2
<1> QED BY <1>1, <1>2, <1>3, InsensitiveLast

-----------------------------------------------------------------------------
(* Sequences of settings *)

LessThan == OpToRel(<, Nat)

\* A set of numbers up to n has a greatest one.
LEMMA Greatest ==
  ASSUME NEW T, NEW n \in Nat, T \subseteq 1..n, T # {}
  PROVE  \E m \in T : \A k \in T : k <= m
<1> DEFINE R == {n - k : k \in T}
<1>1. PICK r \in R : \A s \in R : ~(<<s, r>> \in LessThan)
  <2>1. IsWellFoundedOn(LessThan, Nat)
    BY NatLessThanWellFounded DEF LessThan
  <2>2. R \subseteq Nat /\ R # {}
    <3>1. \A k \in T : n - k \in Nat
      OBVIOUS
    <3> QED BY <3>1
  <2> HIDE DEF R
  <2> QED BY <2>1, <2>2, WFMin, Zenon
<1>2. PICK m \in T : r = n - m
  OBVIOUS
<1>3. ASSUME NEW k \in T PROVE k <= m
  <2>1. n - k \in R /\ n - k \in Nat /\ r \in Nat
    BY <1>2
  <2>2. ~(n - k < r)
    BY <1>1, <2>1 DEF LessThan, OpToRel
  <2> QED BY <1>2, <2>2
<1> QED BY <1>3

\* The setting of a name that comes last.
Last(set, n) ==
  CHOOSE i \in {j \in DOMAIN set : set[j].name = n} :
    \A j \in {k \in DOMAIN set : set[k].name = n} : j <= i

LEMMA LastIs ==
  ASSUME RequestInv, NEW n, Given(n) # {}
  PROVE  Last(request.set, n) \in DOMAIN request.set /\ request.set[Last(request.set, n)].name = n
<1> DEFINE T == {j \in DOMAIN request.set : request.set[j].name = n}
<1>1. \E i \in T : \A j \in T : j <= i
  <2>1. T \subseteq 1..Len(request.set) /\ Len(request.set) \in Nat /\ T # {}
    BY DEF RequestInv, Given
  <2> HIDE DEF T
  <2> QED BY <2>1, Greatest
<1>2. Last(request.set, n) = CHOOSE i \in T : \A j \in T : j <= i
  BY DEF Last
<1>3. Last(request.set, n) \in T
  <2> HIDE DEF T
  <2> QED BY <1>1, <1>2
<1> QED BY <1>3

\* Setting the plan's variables gives what is kept the value that comes last.
LEMMA PlanSets ==
  ASSUME RequestInv, MergedInv, pc \in Planned, NEW e, NEW n \in DOMAIN Setting(e, plan.set),
         n \notin Removed
  PROVE  Setting(e, plan.set)[n] =
           IF Given(n) = {} THEN e[n] ELSE request.set[Last(request.set, n)].value
<1>1. plan.set = [i \in Kept |-> request.set[i]]
  BY DEF MergedInv
<1>2. {i \in DOMAIN plan.set : plan.set[i].name = n} = Given(n)
  BY <1>1 DEF Given, Kept
<1>3. Setting(e, plan.set)[n] =
        IF Given(n) = {} THEN e[n]
        ELSE plan.set[CHOOSE i \in Given(n) : \A j \in Given(n) : j <= i].value
  <2> DEFINE at == {i \in DOMAIN plan.set : plan.set[i].name = n}
  <2>1. Setting(e, plan.set)[n] =
          IF at = {} THEN e[n] ELSE plan.set[CHOOSE i \in at : \A j \in at : j <= i].value
    BY DEF Setting
  <2>2. at = Given(n)
    BY <1>2
  <2> HIDE DEF at
  <2> QED BY <2>1, <2>2
<1>4. (CHOOSE i \in Given(n) : \A j \in Given(n) : j <= i) = Last(request.set, n)
  BY DEF Last, Given
<1>5. ASSUME Given(n) # {}
      PROVE  plan.set[Last(request.set, n)] = request.set[Last(request.set, n)]
  BY <1>1, <1>5, LastIs DEF Kept
<1> QED BY <1>3, <1>4, <1>5

-----------------------------------------------------------------------------
(* What cargo_environment sets *)

LEMMA ForwardedFinite == IsFiniteSet(Forwarded)
<1>1. ASSUME NEW a, NEW b, NEW c, NEW d, NEW e PROVE IsFiniteSet({a, b, c, d, e})
  <2>1. IsFiniteSet({a, b})
    <3>1. IsFiniteSet({a})
      BY FS_Singleton
    <3> QED BY <3>1, FS_AddElement, {a} \cup {b} = {a, b}
  <2>2. IsFiniteSet({a, b, c})
    BY <2>1, FS_AddElement, {a, b} \cup {c} = {a, b, c}
  <2>3. IsFiniteSet({a, b, c, d})
    BY <2>2, FS_AddElement, {a, b, c} \cup {d} = {a, b, c, d}
  <2> QED BY <2>3, FS_AddElement, {a, b, c, d} \cup {e} = {a, b, c, d, e}
<1>2. PICK A, B : A \cup B = Forwarded /\ IsFiniteSet(A) /\ IsFiniteSet(B)
  <2> DEFINE A == {Name(<<"USER">>), Name(<<"LANG">>), Name(<<"LC", "ALL">>), Name(<<"TERM">>),
                   Name(<<"CARGO", "INCREMENTAL">>)}
  <2> DEFINE B == {Name(<<"CARGO", "BUILD", "TARGET">>), Name(<<"RUSTFLAGS">>), Name(<<"CC">>),
                   Name(<<"PKG", "CONFIG", "PATH">>), Name(<<"CC">>)}
  <2>1. IsFiniteSet(A) /\ IsFiniteSet(B)
    BY <1>1
  <2>2. A \cup B = Forwarded
    BY DEF Forwarded
  <2> QED BY <2>1, <2>2
<1> QED BY <1>2, FS_Union

Own == {v \in [name : Forwarded \cup SandboxOnly, value : {"caller", "cage", "build"}] : OwnSetting(v)}

LEMMA ForwardedNowIs == ForwardedNow \in Seq(Own)
<1> DEFINE S == {n \in caller : is_allowed_host_environment_name(n)}
<1> DEFINE names == Enumerated(S)
<1>1. S \subseteq Forwarded
  BY DEF is_allowed_host_environment_name
<1>2. Cardinality(S) \in Nat /\ ExistsBijection(1..Cardinality(S), S)
  <2> HIDE DEF S
  <2>1. IsFiniteSet(S)
    BY <1>1, ForwardedFinite, FS_Subset
  <2> QED BY <2>1, FS_CardinalityType
<1>3. names \in [1..Cardinality(S) -> S]
  <2> HIDE DEF S
  <2>1. \E f \in [1..Cardinality(S) -> S] : \A n \in S : \E i \in DOMAIN f : f[i] = n
    BY <1>2 DEF ExistsBijection, Bijection, Surjection
  <2> QED BY <2>1 DEF Enumerated
<1>4. ASSUME NEW n \in S PROVE Var(n, "caller") \in Own
  <2>1. n \in Forwarded
    BY <1>1
  <2> HIDE DEF S
  <2> QED BY <2>1 DEF Own, OwnSetting, Var
<1>5. ForwardedNow = [i \in DOMAIN names |-> Var(names[i], "caller")]
  BY DEF ForwardedNow
<1> HIDE DEF S, names
<1>6. ForwardedNow \in [1..Cardinality(S) -> Own]
  BY <1>3, <1>4, <1>5
<1> QED BY <1>2, <1>6, SeqDef

LEMMA FixedSettings ==
  /\ Toolchain \in Seq(Own) /\ \A rustdoc \in Rustdoc : rustdoc \in Seq(Own)
  /\ use = "build" => OfTheBuild \in Seq(Own)
<1>1. ASSUME NEW n \in CageNames PROVE Var(n, "cage") \in Own
  BY Disjoint DEF Own, OwnSetting, Var
<1>2. ASSUME NEW n \in BuildNames, use = "build" PROVE Var(n, "build") \in Own
  BY <1>2, Disjoint DEF Own, OwnSetting, Var
<1>3. ASSUME NEW S, NEW a \in S, NEW b \in S, NEW c \in S, NEW d \in S
      PROVE  <<a, b, c, d>> \in Seq(S) /\ <<a>> \in Seq(S) /\ << >> \in Seq(S)
  OBVIOUS
<1>4. Toolchain \in Seq(Own)
  BY <1>1, <1>3, OwnNames DEF Toolchain
<1>5. ASSUME use = "build" PROVE OfTheBuild \in Seq(Own)
  BY <1>2, <1>3, <1>5, OwnNames DEF OfTheBuild, TargetDir
<1>6. ASSUME NEW rustdoc \in Rustdoc PROVE rustdoc \in Seq(Own)
  BY <1>1, <1>3, OwnNames DEF Rustdoc
<1> QED BY <1>4, <1>5, <1>6

LEMMA EnvironmentKeeps ==
  ASSUME RequestInv, cargo_environment
  PROVE  RequestInv'
<1>1. /\ pc = "environment" /\ pc' = "merge" /\ use' = use /\ use # "embedded"
      /\ request = [Nothing EXCEPT !.policy = request.policy]
  BY DEF RequestInv, cargo_environment
<1>2. PICK rustdoc \in Rustdoc :
        request' = [request EXCEPT !.set =
          ForwardedNow \o Toolchain \o rustdoc \o IF use = "build" THEN OfTheBuild ELSE << >>]
  BY DEF cargo_environment
<1> DEFINE own == ForwardedNow \o Toolchain \o rustdoc
<1> DEFINE build == IF use = "build" THEN OfTheBuild ELSE << >>
<1>3. own \in Seq(Own) /\ build \in Seq(Own)
  BY ForwardedNowIs, FixedSettings
<1>4. /\ request'.set = own \o build /\ request'.inherit = FALSE /\ request'.remove = {}
      /\ request'.policy = request.policy
  BY <1>1, <1>2 DEF Nothing
<1>5. own \o build \in Seq(Own)
  <2> HIDE DEF own, build
  <2> QED BY <1>3
<1>6. ASSUME use = "build" PROVE BuildNames \subseteq NamesOf(own \o build)
  <2>1. ASSUME NEW i \in DOMAIN build
        PROVE  build[i].name \in NamesOf(own \o build)
    <3> HIDE DEF own, build
    <3>1. /\ Len(own) + i \in DOMAIN (own \o build)
          /\ (own \o build)[Len(own) + i] = build[i]
      BY <1>3
    <3> QED BY <3>1 DEF NamesOf
  <2>2. build = OfTheBuild
    BY <1>6
  <2> HIDE DEF own, build
  <2> QED BY <2>1, <2>2 DEF BuildNames, NamesOf
<1> HIDE DEF own, build
<1>7. /\ Len(request'.set) \in Nat /\ DOMAIN request'.set = 1..Len(request'.set)
      /\ \A i \in DOMAIN request'.set : OwnSetting(request'.set[i])
  BY <1>4, <1>5 DEF Own
<1>8. \A v : OwnSetting(v)' <=> OwnSetting(v)
  BY <1>1 DEF OwnSetting
<1> QED BY <1>1, <1>4, <1>6, <1>7, <1>8 DEF RequestInv

-----------------------------------------------------------------------------
(* The steps keep where values come from *)

LEMMA SameSource ==
  ASSUME UNCHANGED <<use, request>>
  PROVE  /\ Removed' = Removed /\ Kept' = Kept /\ \A n : Expected(n)' = Expected(n)
         /\ \A n : Given(n)' = Given(n) /\ \A v : OwnSetting(v)' <=> OwnSetting(v)
BY DEF Removed, Kept, Expected, Given, OwnSetting

LEMMA RequestStays ==
  ASSUME RequestInv, UNCHANGED <<use, request>>, pc' \notin {"policy", "environment"},
         pc \in {"merge"} \cup Planned
  PROVE  RequestInv'
BY SameSource DEF RequestInv

\* What is expected of a name that no layer sets.
LEMMA ExpectedGiven ==
  ASSUME NEW n, n \notin Layers
  PROVE  Expected(n) = IF Given(n) # {} THEN request.set[Last(request.set, n)].value
                       ELSE IF request.inherit THEN "caller" ELSE "nobody"
<1>1. n # CargoHome /\ n # Pwd /\ n # Shlvl /\ n \notin Added \cup {CargoHome}
  BY DEF Layers, Added
<1>2. (CHOOSE i \in Given(n) : \A j \in Given(n) : j <= i) = Last(request.set, n)
  BY DEF Last, Given
<1>3. CASE Given(n) # {}
  <2>1. Expected(n) = request.set[CHOOSE i \in Given(n) : \A j \in Given(n) : j <= i].value
    BY <1>1, <1>3 DEF Expected
  <2> QED BY <1>2, <1>3, <2>1
<1>4. CASE Given(n) = {}
  BY <1>1, <1>4 DEF Expected
<1> QED BY <1>3, <1>4

LEMMA ExpectedLayers ==
  Expected(CargoHome) = "backend" /\ Expected(Pwd) = "bwrap" /\ Expected(Shlvl) = "bash"
<1>1. CargoHome # Pwd /\ CargoHome # Shlvl /\ Pwd # Shlvl
  BY LayersApart
<1>2. Expected(CargoHome) = "backend"
  BY <1>1 DEF Expected
<1>3. Expected(Pwd) = "bwrap"
  BY <1>1 DEF Expected, Added
<1>4. Expected(Shlvl) = "bash"
  BY <1>1 DEF Expected, Added
<1> QED BY <1>2, <1>3, <1>4

\* None of the build's variables is removed.
LEMMA BuildStays ==
  ASSUME RequestInv, use = "build", NEW n \in BuildNames
  PROVE  n \notin Removed
<1>1. n \notin KnownSecrets /\ ~is_sensitive_environment_name(n)
  BY LayersApart, BuildNamesPass
<1> QED BY <1>1 DEF RequestInv, Removed

LEMMA MergeSource ==
  ASSUME SourceInv, merged_environment
  PROVE  SourceInv'
<1>1. pc = "merge" /\ pc' = "spawn" /\ UNCHANGED <<caller, use, request, env>>
  BY DEF merged_environment
<1>2. RequestInv'
  BY <1>1, RequestStays DEF SourceInv, Planned
<1>3. plan' = [inherit |-> request.inherit, remove |-> Removed,
               set |-> [i \in Kept |-> request.set[i]]]
  BY DEF merged_environment, Removed, Kept, NamesOf
<1>4. MergedInv'
  BY <1>1, <1>3, SameSource DEF MergedInv
<1>5. ValueInv'
  BY <1>1 DEF ValueInv, Spawned
<1> QED BY <1>2, <1>4, <1>5 DEF SourceInv

\* What the plan sets is not removed, and the build's variables are among it.
LEMMA PlanNames ==
  ASSUME SourceInv, pc \in Planned
  PROVE  /\ plan.remove = Removed /\ plan.inherit = request.inherit
         /\ NamesOf(plan.set) = NamesOf(request.set) \ Removed
         /\ use = "build" => BuildNames \subseteq NamesOf(plan.set)
<1>1. /\ plan.set = [i \in Kept |-> request.set[i]] /\ plan.remove = Removed
      /\ plan.inherit = request.inherit
  BY DEF SourceInv, MergedInv
<1>2. NamesOf(plan.set) = NamesOf(request.set) \ Removed
  <2>1. DOMAIN plan.set = Kept /\ \A i \in Kept : plan.set[i] = request.set[i]
    BY <1>1
  <2> QED BY <2>1 DEF NamesOf, Kept
<1>3. use = "build" => BuildNames \subseteq NamesOf(request.set) \ Removed
  BY BuildStays DEF SourceInv, RequestInv
<1> QED BY <1>1, <1>2, <1>3

LEMMA SettingNames ==
  ASSUME NEW e, NEW set
  PROVE  DOMAIN Setting(e, set) = DOMAIN e \cup NamesOf(set)
BY SettingDomain DEF NamesOf

\* The plan's settings on top of an environment without what is removed.
LEMMA SettingPlan ==
  ASSUME SourceInv, pc \in Planned, NEW e, NEW n \in DOMAIN Setting(e, plan.set),
         n \notin Layers, n \notin Removed,
         Given(n) = {} => e[n] = Expected(n)
  PROVE  Setting(e, plan.set)[n] = Expected(n)
BY PlanSets, ExpectedGiven DEF SourceInv

LEMMA SpawnSource ==
  ASSUME SourceInv, SpawnBwrap
  PROVE  SourceInv'
<1> DEFINE start == IF plan.inherit THEN Inherited ELSE NoEnv
<1> DEFINE given == Setting(start, plan.set)
<1>1. /\ pc = "spawn" /\ pc' = "arguments" /\ UNCHANGED <<caller, use, request, plan>>
      /\ env' = Without(given, plan.remove)
  BY DEF SpawnBwrap
<1>2. pc \in Planned
  BY <1>1 DEF Planned
<1>3. RequestInv' /\ MergedInv'
  BY <1>1, <1>2, RequestStays, SameSource DEF SourceInv, MergedInv
<1>4. DOMAIN given = DOMAIN start \cup NamesOf(plan.set)
  <2> HIDE DEF start
  <2> QED BY SettingNames
<1>5. DOMAIN env' = DOMAIN given \ Removed /\ \A n \in DOMAIN env' : env'[n] = given[n]
  <2>1. plan.remove = Removed
    BY <1>2, PlanNames
  <2>2. PICK e : e = given
    OBVIOUS
  <2> HIDE DEF given
  <2>3. PICK f : f = Without(e, Removed)
    OBVIOUS
  <2>4. DOMAIN f = DOMAIN e \ Removed /\ \A n \in DOMAIN f : f[n] = e[n]
    BY <2>3 DEF Without
  <2> QED BY <1>1, <2>1, <2>2, <2>3, <2>4
<1>6. ASSUME NEW n \in DOMAIN env' \ Layers PROVE env'[n] = Expected(n)
  <2>1. n \in DOMAIN given /\ n \notin Removed /\ env'[n] = given[n]
    <3> HIDE DEF given
    <3> QED BY <1>5
  <2>2. ASSUME Given(n) = {} PROVE start[n] = Expected(n)
    <3>1. n \notin NamesOf(plan.set)
      <4>1. n \notin NamesOf(request.set)
        BY <2>2 DEF Given, NamesOf
      <4> QED BY <1>2, <4>1, PlanNames
    <3>2. n \in DOMAIN start
      <4> HIDE DEF start, given
      <4> QED BY <1>4, <2>1, <3>1
    <3>3. plan.inherit /\ start = Inherited
      BY <3>2 DEF NoEnv
    <3>4. start[n] = "caller"
      BY <3>2, <3>3 DEF Inherited
    <3>5. Expected(n) = "caller"
      BY <1>2, <1>6, <2>2, <3>3, PlanNames, ExpectedGiven
    <3> QED BY <3>4, <3>5
  <2> HIDE DEF start
  <2> QED BY <1>2, <2>1, <2>2, SettingPlan
<1>7. ~request.inherit => DOMAIN env' \subseteq NamesOf(request.set)
  <2>1. ASSUME ~request.inherit PROVE DOMAIN start = {}
    BY <1>2, <2>1, PlanNames DEF NoEnv
  <2> HIDE DEF start, given
  <2> QED BY <1>2, <1>4, <1>5, <2>1, PlanNames
<1>8. use = "build" => BuildNames \subseteq DOMAIN env'
  <2> HIDE DEF start, given
  <2> QED BY <1>2, <1>4, <1>5, PlanNames
<1>9. ValueInv'
  <2>1. ToCome' = Layers
    BY <1>1 DEF ToCome, Layers, Added, Pwd, Shlvl
  <2> QED BY <1>1, <1>6, <1>7, <1>8, <2>1, SameSource DEF ValueInv, Layers, Added, Pwd, Shlvl
<1> QED BY <1>3, <1>9 DEF SourceInv

LEMMA SettingValue ==
  ASSUME NEW e, NEW n, NEW value
  PROVE  Setting(e, <<Var(n, value)>>)[n] = value
<1>1. PICK set : set = <<Var(n, value)>>
  OBVIOUS
<1>2. DOMAIN set = {1} /\ set[1].name = n /\ set[1].value = value
  BY <1>1 DEF Var
<1> DEFINE at == {i \in DOMAIN set : set[i].name = n}
<1>3. at = {1}
  BY <1>2
<1>4. (CHOOSE i \in at : \A j \in at : j <= i) = 1
  BY <1>3
<1>5. n \in DOMAIN e \cup {set[i].name : i \in DOMAIN set}
  BY <1>2
<1>6. Setting(e, set)[n] =
        IF at = {} THEN e[n] ELSE set[CHOOSE i \in at : \A j \in at : j <= i].value
  BY <1>5 DEF Setting
<1> HIDE DEF at
<1> QED BY <1>1, <1>2, <1>3, <1>4, <1>6

\* Setting one variable, as a function: its names and its values.
IsWith(f, e, n, value) ==
  DOMAIN f = DOMAIN e \cup {n} /\ f[n] = value /\ \A m \in DOMAIN e \ {n} : f[m] = e[m]
LEMMA SettingVar ==
  ASSUME NEW e, NEW n, NEW value
  PROVE  IsWith(Setting(e, <<Var(n, value)>>), e, n, value)
<1> DEFINE set == <<Var(n, value)>>
<1>1. {set[i].name : i \in DOMAIN set} = {n}
  <2>1. DOMAIN set = {1} /\ set[1].name = n
    BY DEF Var
  <2> HIDE DEF set
  <2> QED BY <2>1
<1>2. Setting(e, set)[n] = value
  BY SettingValue
<1> HIDE DEF set
<1>3. /\ DOMAIN Setting(e, set) = DOMAIN e \cup {n}
      /\ \A m \in DOMAIN e \ {n} : Setting(e, set)[m] = e[m]
  BY <1>1, SettingDomain
<1>4. IsWith(Setting(e, set), e, n, value)
  BY <1>2, <1>3 DEF IsWith
<1> QED BY <1>4 DEF set

LEMMA BwrapSource ==
  ASSUME SourceInv, BwrapArguments
  PROVE  SourceInv'
<1>1. PICK cleared, unset, set, home :
        /\ cleared = IF plan.inherit THEN env ELSE Without(env, DOMAIN env \ {Pwd})
        /\ unset = Without(cleared, plan.remove)
        /\ set = Setting(unset, plan.set)
        /\ home = IF CargoHome \in plan.remove THEN set
                  ELSE Setting(set, <<Var(CargoHome, "backend")>>)
        /\ env' = Setting(home, <<Var(Pwd, "bwrap")>>)
  BY DEF BwrapArguments, Pwd
<1>2. /\ pc = "arguments" /\ pc' = "scrub" /\ UNCHANGED <<caller, use, request, plan>>
      /\ pc \in Planned
  BY DEF BwrapArguments, Planned
<1>3. RequestInv' /\ MergedInv'
  BY <1>2, RequestStays, SameSource DEF SourceInv, MergedInv
<1>4. /\ plan.remove = Removed /\ plan.inherit = request.inherit
      /\ NamesOf(plan.set) = NamesOf(request.set) \ Removed
      /\ use = "build" => BuildNames \subseteq NamesOf(plan.set)
  BY <1>2, PlanNames
<1>5. ToCome = Layers
  BY <1>2 DEF ToCome
<1>6. /\ DOMAIN cleared \subseteq DOMAIN env /\ \A n \in DOMAIN cleared : cleared[n] = env[n]
      /\ ~plan.inherit => DOMAIN cleared \subseteq {Pwd}
  <2>1. CASE plan.inherit
    BY <1>1, <2>1
  <2>2. CASE ~plan.inherit
    <3>1. cleared = Without(env, DOMAIN env \ {Pwd})
      BY <1>1, <2>2
    <3> QED BY <3>1 DEF Without
  <2> QED BY <2>1, <2>2
<1>7. DOMAIN unset = DOMAIN cleared \ Removed /\ \A n \in DOMAIN unset : unset[n] = cleared[n]
  BY <1>1, <1>4 DEF Without
<1>8. DOMAIN set = DOMAIN unset \cup NamesOf(plan.set)
  BY <1>1, SettingNames
<1>9. /\ DOMAIN home = DOMAIN set \cup (IF CargoHome \in Removed THEN {} ELSE {CargoHome})
      /\ CargoHome \notin Removed => home[CargoHome] = "backend"
      /\ \A n \in DOMAIN set \ {CargoHome} : home[n] = set[n]
  <2>1. CASE CargoHome \in Removed
    BY <1>1, <1>4, <2>1
  <2>2. CASE CargoHome \notin Removed
    <3>1. home = Setting(set, <<Var(CargoHome, "backend")>>)
      BY <1>1, <1>4, <2>2
    <3>2. IsWith(Setting(set, <<Var(CargoHome, "backend")>>), set, CargoHome, "backend")
      BY SettingVar
    <3>3. IsWith(home, set, CargoHome, "backend")
      BY <3>1, <3>2
    <3> QED BY <2>2, <3>3 DEF IsWith
  <2> QED BY <2>1, <2>2
<1>10. /\ DOMAIN env' = DOMAIN home \cup {Pwd} /\ env'[Pwd] = "bwrap"
       /\ \A n \in DOMAIN home \ {Pwd} : env'[n] = home[n]
  <2>1. IsWith(Setting(home, <<Var(Pwd, "bwrap")>>), home, Pwd, "bwrap")
    BY SettingVar
  <2>2. IsWith(env', home, Pwd, "bwrap")
    BY <1>1, <2>1
  <2> QED BY <2>2 DEF IsWith
<1>11. ASSUME NEW n \in DOMAIN env' \ {Shlvl} PROVE env'[n] = Expected(n)
  <2>1. CASE n = Pwd
    BY <1>10, <2>1, ExpectedLayers
  <2>2. CASE n = CargoHome /\ n # Pwd
    <3>1. n \notin Removed
      BY <1>4, <1>7, <1>8, <1>9, <1>10, <2>2
    <3> QED BY <1>9, <1>10, <2>2, <3>1, ExpectedLayers
  <2>3. CASE n \notin Layers
    <3>1. n # Pwd /\ n # CargoHome
      BY <2>3 DEF Layers, Added
    <3>2. n \in DOMAIN set /\ env'[n] = set[n] /\ n \notin Removed
      BY <1>4, <1>7, <1>8, <1>9, <1>10, <3>1
    <3>3. ASSUME Given(n) = {} PROVE unset[n] = Expected(n)
      <4>1. n \notin NamesOf(request.set)
        BY <3>3 DEF Given, NamesOf
      <4>2. n \in DOMAIN unset
        BY <1>4, <1>8, <3>2, <4>1
      <4>3. n \in DOMAIN env /\ unset[n] = env[n]
        BY <1>6, <1>7, <4>2
      <4> QED BY <1>2, <1>5, <2>3, <4>3 DEF SourceInv, ValueInv, Spawned
    <3>4. set[n] = Expected(n)
      BY <1>1, <1>2, <2>3, <3>2, <3>3, SettingPlan
    <3> QED BY <3>2, <3>4
  <2> QED BY <2>1, <2>2, <2>3 DEF Layers, Added
<1>12. ~request.inherit => DOMAIN env' \subseteq Layers \cup NamesOf(request.set)
  BY <1>4, <1>6, <1>7, <1>8, <1>9, <1>10 DEF Layers, Added
<1>13. use = "build" => BuildNames \subseteq DOMAIN env'
  BY <1>4, <1>8, <1>9, <1>10
<1>14. ToCome' = {Shlvl}
  BY <1>2 DEF ToCome, Shlvl
<1>15. ValueInv'
  <2>1. /\ Layers' = Layers /\ Shlvl' = Shlvl
    BY DEF Layers, Added, Pwd, Shlvl
  <2> QED BY <1>2, <1>11, <1>12, <1>13, <1>14, <2>1, SameSource DEF ValueInv
<1> QED BY <1>3, <1>15 DEF SourceInv

LEMMA ScrubSource ==
  ASSUME SourceInv, Scrub
  PROVE  SourceInv'
<1>1. /\ pc = "scrub" /\ pc' = "launch" /\ UNCHANGED <<caller, use, request, plan>>
      /\ pc \in Planned /\ env' = Setting(env, <<Var(Shlvl, "bash")>>)
  BY DEF Scrub, Planned, Shlvl
<1>2. RequestInv' /\ MergedInv'
  BY <1>1, RequestStays, SameSource DEF SourceInv, MergedInv
<1>3. /\ DOMAIN env' = DOMAIN env \cup {Shlvl} /\ env'[Shlvl] = "bash"
      /\ \A n \in DOMAIN env \ {Shlvl} : env'[n] = env[n]
  <2>1. IsWith(Setting(env, <<Var(Shlvl, "bash")>>), env, Shlvl, "bash")
    BY SettingVar
  <2>2. IsWith(env', env, Shlvl, "bash")
    BY <1>1, <2>1
  <2> QED BY <2>2 DEF IsWith
<1>4. ToCome = {Shlvl} /\ ToCome' = {}
  BY <1>1 DEF ToCome
<1>5. \A n \in DOMAIN env' : env'[n] = Expected(n)
  BY <1>1, <1>3, <1>4, ExpectedLayers DEF SourceInv, ValueInv, Spawned
<1>6. /\ ~request.inherit => DOMAIN env' \subseteq Layers \cup NamesOf(request.set)
      /\ use = "build" => BuildNames \subseteq DOMAIN env'
  BY <1>1, <1>3 DEF SourceInv, ValueInv, Spawned, Layers, Added
<1>7. ValueInv'
  <2>1. Layers' = Layers
    BY DEF Layers, Added, Pwd, Shlvl
  <2> QED BY <1>1, <1>4, <1>5, <1>6, <2>1, SameSource DEF ValueInv
<1> QED BY <1>2, <1>7 DEF SourceInv

LEMMA LaunchSource ==
  ASSUME SourceInv, Launch
  PROVE  SourceInv'
<1> DEFINE dropped == {n \in DOMAIN env : ~is_allowed_sandbox_environment_name(n)
                                            \/ is_sensitive_environment_name(n)}
<1>1. /\ pc = "launch" /\ pc' = "program" /\ UNCHANGED <<caller, use, request, plan>>
      /\ pc \in Planned /\ env' = IF plan.inherit THEN env ELSE Without(env, dropped)
  BY DEF Launch, Planned
<1>2. RequestInv' /\ MergedInv'
  BY <1>1, RequestStays, SameSource DEF SourceInv, MergedInv
<1>3. /\ DOMAIN env' \subseteq DOMAIN env /\ DOMAIN env \ dropped \subseteq DOMAIN env'
      /\ \A n \in DOMAIN env' : env'[n] = env[n]
  <2> HIDE DEF dropped
  <2>1. CASE plan.inherit
    BY <1>1, <2>1
  <2>2. CASE ~plan.inherit
    <3>1. PICK e : e = env
      OBVIOUS
    <3>2. PICK f : f = Without(e, dropped)
      OBVIOUS
    <3>3. DOMAIN f = DOMAIN e \ dropped /\ \A n \in DOMAIN f : f[n] = e[n]
      BY <3>2 DEF Without
    <3>4. env' = f
      BY <1>1, <2>2, <3>1, <3>2
    <3> QED BY <3>1, <3>3, <3>4
  <2> QED BY <2>1, <2>2
<1>4. BuildNames \cap dropped = {}
  BY BuildNamesPass, Disjoint DEF is_allowed_sandbox_environment_name
<1>5. ToCome = {} /\ ToCome' = {}
  BY <1>1 DEF ToCome
<1>6. ValueInv'
  <2> HIDE DEF dropped
  <2>1. Layers' = Layers
    BY DEF Layers, Added, Pwd, Shlvl
  <2> QED BY <1>1, <1>3, <1>4, <1>5, <2>1, SameSource DEF SourceInv, ValueInv, Spawned
<1> QED BY <1>2, <1>6 DEF SourceInv

LEMMA OthersSource ==
  ASSUME SourceInv, UNCHANGED <<use, request, plan, env, pc>>
  PROVE  SourceInv'
<1>1. Layers' = Layers /\ ToCome' = ToCome
  BY DEF Layers, Added, Pwd, Shlvl, ToCome
<1>2. RequestInv' /\ MergedInv'
  BY SameSource DEF SourceInv, RequestInv, MergedInv
<1> QED BY <1>1, <1>2, SameSource DEF SourceInv, ValueInv

LEMMA SourceKept ==
  ASSUME SourceInv, [Next]_vars
  PROVE  SourceInv'
<1>1. CASE CollectRemovals
  <2>1. /\ pc = "policy" /\ pc' = "environment" /\ use' = use
        /\ request' = [request EXCEPT !.policy =
             KnownSecrets \cup {n \in caller : is_sensitive_environment_name(n)}]
    BY <1>1 DEF CollectRemovals
  <2>2. use # "embedded" /\ request = [Nothing EXCEPT !.policy = request.policy]
    BY <2>1 DEF SourceInv, RequestInv
  <2>3. /\ request' = [Nothing EXCEPT !.policy = request'.policy]
        /\ \A n \in request'.policy : n \in KnownSecrets \/ is_sensitive_environment_name(n)
    BY <2>1, <2>2 DEF Nothing
  <2>4. request'.set = << >> /\ request'.inherit = FALSE /\ request'.remove = {}
    BY <2>3 DEF Nothing
  <2>5. RequestInv'
    BY <2>1, <2>2, <2>3, <2>4 DEF SourceInv, RequestInv, Planned
  <2> QED BY <2>1, <2>5 DEF SourceInv, MergedInv, ValueInv, Planned, Spawned
<1>2. CASE cargo_environment
  <2>1. RequestInv'
    BY <1>2, EnvironmentKeeps DEF SourceInv
  <2>2. pc' = "merge"
    BY <1>2 DEF cargo_environment
  <2> QED BY <2>1, <2>2 DEF SourceInv, MergedInv, ValueInv, Planned, Spawned
<1>3. CASE OtherThread \/ UNCHANGED vars
  BY <1>3, OthersSource DEF OtherThread, vars
<1> QED BY <1>1, <1>2, <1>3, MergeSource, SpawnSource, BwrapSource, ScrubSource, LaunchSource
        DEF Next

\* Where a value comes from is known after every layer.
THEOREM SourceInvariant == Spec => []SourceInv
<1>1. Init => SourceInv
  <2>1. SUFFICES ASSUME Init PROVE SourceInv
    OBVIOUS
  <2>2. CASE use \in {"discovery", "build"}
    <3>1. request = Nothing /\ pc = "policy"
      BY <2>1, <2>2 DEF Init
    <3>2. request = [Nothing EXCEPT !.policy = request.policy]
      BY <3>1 DEF Nothing
    <3>3. /\ request.set = << >> /\ ~request.inherit /\ request.remove = {} /\ request.policy = {}
      BY <3>1 DEF Nothing
    <3>4. RequestInv
      BY <2>2, <3>1, <3>2, <3>3 DEF RequestInv, Planned
    <3> QED BY <3>1, <3>4 DEF SourceInv, MergedInv, ValueInv, Planned, Spawned
  <2>3. CASE use = "embedded"
    BY <2>1, <2>3, EnvAssumption
       DEF Init, SourceInv, RequestInv, MergedInv, ValueInv, Planned, Spawned
  <2> QED BY <2>1, <2>2, <2>3 DEF Init
<1> QED BY <1>1, SourceKept, PTL DEF Spec

\* Of cargo-cage's own programs, what a variable's value says of it.
LEMMA OwnValues ==
  ASSUME SourceInv, Started, use # "embedded", NEW n \in DOMAIN env
  PROVE  /\ env[n] = "caller" => n \in Forwarded
         /\ env[n] = "build" <=> n \in BuildNames
         /\ n \in BuildNames => use = "build"
<1>1. /\ env[n] = Expected(n) /\ n \in Layers \cup NamesOf(request.set) /\ ~request.inherit
      /\ RequestInv
  BY DEF SourceInv, RequestInv, ValueInv, Started, Spawned, ToCome
<1>2. CASE n \in Layers
  BY <1>1, <1>2, ExpectedLayers, LayersApart DEF Layers, Added
<1>3. CASE n \notin Layers
  <2>1. Given(n) # {}
    BY <1>1, <1>3 DEF Given, NamesOf
  <2> DEFINE v == request.set[Last(request.set, n)]
  <2>2. OwnSetting(v) /\ v.name = n /\ env[n] = v.value
    BY <1>1, <1>3, <2>1, LastIs, ExpectedGiven DEF RequestInv
  <2>3. Forwarded \cap BuildNames = {} /\ CageNames \cap BuildNames = {}
    BY Disjoint
  <2> HIDE DEF v
  <2> QED BY <2>2, <2>3 DEF OwnSetting
<1> QED BY <1>2, <1>3

\* Each value the program sees comes from where it should, whatever the caller
\* has set and other threads do to it (cargo_environment, merged_environment,
\* --setenv and the launcher's filter).
THEOREM OnlyGivenValues == Spec => []OnlyWhatWasGiven
<1>1. SourceInv => OnlyWhatWasGiven
  <2>1. SUFFICES ASSUME SourceInv, Started PROVE OnlyWhatWasGiven
    BY DEF OnlyWhatWasGiven
  <2>2. ASSUME NEW n \in DOMAIN env PROVE env[n] = Expected(n)
    BY <2>1 DEF SourceInv, ValueInv, Started, Spawned, ToCome
  <2>3. ASSUME use # "embedded"
        PROVE  /\ {n \in DOMAIN env : env[n] = "caller"} \subseteq Forwarded
               /\ \A n \in SandboxOnly \cap DOMAIN env : env[n] # "caller"
    BY <2>1, <2>3, OwnValues, Disjoint
  <2>4. use = "build" => BuildNames \subseteq DOMAIN env
    BY <2>1 DEF SourceInv, ValueInv, Started, Spawned
  <2>5. ASSUME use # "embedded"
        PROVE  {n \in DOMAIN env : env[n] = "build"} = IF use = "build" THEN BuildNames ELSE {}
    BY <2>1, <2>4, <2>5, OwnValues
  <2>6. ASSUME use # "embedded"
        PROVE  TargetDir \in DOMAIN env <=> use = "build"
    <3>1. TargetDir \in BuildNames
      BY OwnNames
    <3> QED BY <2>1, <2>4, <2>6, <3>1, OwnValues
  <2> QED BY <2>1, <2>2, <2>3, <2>5, <2>6 DEF OnlyWhatWasGiven, BuildNames, NamesOf, TargetDir
<1> QED BY <1>1, SourceInvariant, PTL
=============================================================================
