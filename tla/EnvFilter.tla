------------------------------ MODULE EnvFilter -------------------------------
(***************************************************************************)
(* The environment of a sandboxed program, from the caller's through the   *)
(* request, the plan, Bubblewrap's process, Bubblewrap's own arguments and *)
(* the descriptor scrubber to the Landlock launcher's filter.  A request   *)
(* is cargo-cage's or that of a program that embeds the backend.           *)
(*                                                                         *)
(* A name is its words between underscores, with their letters in upper    *)
(* case, and whether that is how they are written.  A value says where it  *)
(* comes from.                                                             *)
(***************************************************************************)
EXTENDS Integers, Sequences, FiniteSets

CONSTANTS
  Hosts,     (* environments of the caller, as sets of names                  *)
  Requests,  (* environments and removals that embedding programs ask for     *)
  Extra,     (* names another thread of the caller may set or remove          *)
  MaxMoves,  (* how often it does                                             *)
  Secrets    (* names that carry a secret                                     *)

Name(words) == [words |-> words, upper |-> TRUE]
Lower(words) == [words |-> words, upper |-> FALSE]

ASSUME EnvAssumption ==
  /\ MaxMoves \in Nat
  /\ \A r \in Requests :
       /\ r.inherit \in BOOLEAN
       /\ Len(r.set) \in Nat /\ DOMAIN r.set = 1..Len(r.set)
       /\ \A i \in DOMAIN r.set : DOMAIN r.set[i] = {"name", "value"}

-----------------------------------------------------------------------------
(* Names *)

\* One or two of each kind in the two lists, which are fixed.
Forwarded ==
  {Name(w) : w \in
    {<<"USER">>, <<"LANG">>, <<"LC", "ALL">>, <<"TERM">>, <<"CARGO", "INCREMENTAL">>,
     <<"CARGO", "BUILD", "TARGET">>, <<"RUSTFLAGS">>, <<"CC">>, <<"PKG", "CONFIG", "PATH">>}}
SandboxOnly ==
  {Name(w) : w \in
    {<<"HOME">>, <<"PATH">>, <<"PWD">>, <<"RUSTC">>, <<"RUSTDOC">>, <<"CARGO", "HOME">>,
     <<"CARGO", "TARGET", "DIR">>, <<"CARGO", "BUILD", "BUILD", "DIR">>,
     <<"CARGO", "NET", "OFFLINE">>, <<"TMPDIR">>}}

\* In any case of its letters: by its first word, alone or as the end of a name.
EndsIn(words, end) ==
  Len(end) <= Len(words) /\ SubSeq(words, Len(words) - Len(end) + 1, Len(words)) = end
IsOrEndsIn(words) ==
  \E end \in {<<"TOKEN">>, <<"PASSWORD">>, <<"PASS">>, <<"SECRET">>, <<"CREDENTIAL">>,
              <<"PRIVATE", "KEY">>, <<"API", "KEY">>, <<"ACCESS", "KEY">>} :
    EndsIn(words, end)
EndsAfterAnother(words) ==
  \E end \in {<<"TOKENS">>, <<"SECRET", "KEY">>, <<"AGENT">>, <<"AGENT", "INFO">>,
              <<"AGENT", "PID">>, <<"AUTH", "SOCK">>} :
    Len(end) < Len(words) /\ EndsIn(words, end)
sensitive_in_upper_case(name) ==
  name.upper /\ (IsOrEndsIn(name.words) \/ EndsAfterAnother(name.words))
is_sensitive_environment_name(name) ==
  \/ Len(name.words) > 1 /\ name.words[1] \in {"AWS", "SSH", "GPG"}
  \/ IsOrEndsIn(name.words)
  \/ EndsAfterAnother(name.words)

allowed_by_either_list(name) == name \in Forwarded \cup SandboxOnly
is_allowed_host_environment_name(name) == name \in Forwarded
is_allowed_sandbox_environment_name(name) == name \in Forwarded \cup SandboxOnly

-----------------------------------------------------------------------------
VARIABLES
  caller,   \* the caller's environment: the names that are set
  use,      \* "discovery", "build" or "embedded"
  request,  \* the request's environment and the policy's removals
  plan,     \* the plan's environment
  env,      \* the environment of the process that is next: names to values
  pc, moves
vars == <<caller, use, request, plan, env, pc, moves>>

NoEnv == [n \in {} |-> 0]
NoPlan == [inherit |-> FALSE, set |-> << >>, remove |-> {}]
\* Environment::clean
Nothing == [inherit |-> FALSE, set |-> << >>, remove |-> {}, policy |-> {}]

Init ==
  /\ caller \in Hosts
  /\ \/ use \in {"discovery", "build"} /\ request = Nothing /\ pc = "policy"
     \/ use = "embedded" /\ request \in Requests /\ pc = "merge"
  /\ plan = NoPlan /\ env = NoEnv /\ moves = 0

Var(name, value) == [name |-> name, value |-> value]
\* Later settings of a name win.
Setting(e, set) ==
  [n \in DOMAIN e \cup {set[i].name : i \in DOMAIN set} |->
     LET at == {i \in DOMAIN set : set[i].name = n} IN
     IF at = {} THEN e[n] ELSE set[CHOOSE i \in at : \A j \in at : j <= i].value]
Without(e, names) == [n \in DOMAIN e \ names |-> e[n]]
Inherited == [n \in caller |-> "caller"]

-----------------------------------------------------------------------------
(* cargo_policy and cargo_environment *)

KnownSecrets ==
  {Name(<<"AWS", "ACCESS", "KEY", "ID">>), Name(<<"GH", "TOKEN">>),
   Name(<<"CARGO", "REGISTRY", "TOKEN">>), Name(<<"SSH", "AUTH", "SOCK">>),
   Name(<<"DBUS", "SESSION", "BUS", "ADDRESS">>), Name(<<"KUBECONFIG">>)}
CollectRemovals ==
  /\ pc = "policy" /\ pc' = "environment"
  /\ request' = [request EXCEPT !.policy =
       KnownSecrets \cup {n \in caller : is_sensitive_environment_name(n)}]
  /\ UNCHANGED <<caller, use, plan, env, moves>>

Toolchain ==
  <<Var(Name(<<"HOME">>), "cage"), Var(Name(<<"PATH">>), "cage"),
    Var(Name(<<"PWD">>), "cage"), Var(Name(<<"RUSTC">>), "cage")>>
Rustdoc == {<< >>, <<Var(Name(<<"RUSTDOC">>), "cage")>>}
OfTheBuild ==
  <<Var(Name(<<"CARGO", "TARGET", "DIR">>), "build"),
    Var(Name(<<"CARGO", "BUILD", "BUILD", "DIR">>), "build"),
    Var(Name(<<"CARGO", "NET", "OFFLINE">>), "build"), Var(Name(<<"TMPDIR">>), "build")>>

\* A sequence of the caller's variables that are forwarded, in some order.
Enumerated(S) == CHOOSE f \in [1..Cardinality(S) -> S] : \A n \in S : \E i \in DOMAIN f : f[i] = n
ForwardedNow ==
  LET names == Enumerated({n \in caller : is_allowed_host_environment_name(n)})
  IN  [i \in DOMAIN names |-> Var(names[i], "caller")]
cargo_environment ==
  /\ pc = "environment" /\ pc' = "merge"
  /\ \E rustdoc \in Rustdoc :
       request' = [request EXCEPT !.set =
         ForwardedNow \o Toolchain \o rustdoc
           \o IF use = "build" THEN OfTheBuild ELSE << >>]
  /\ UNCHANGED <<caller, use, plan, env, moves>>

-----------------------------------------------------------------------------
(* The backend *)

merged_unfiltered ==
  /\ pc = "merge" /\ pc' = "spawn"
  /\ plan' = [inherit |-> request.inherit, set |-> request.set,
              remove |-> request.remove \cup request.policy]
  /\ UNCHANGED <<caller, use, request, env, moves>>
merged_environment ==
  /\ pc = "merge" /\ pc' = "spawn"
  /\ LET named == {request.set[i].name : i \in DOMAIN request.set}
         remove == request.remove \cup request.policy
                     \cup {n \in named : is_sensitive_environment_name(n)}
         kept == {i \in DOMAIN request.set : request.set[i].name \notin remove}
     IN  plan' = [inherit |-> request.inherit, remove |-> remove,
                  set |-> [i \in kept |-> request.set[i]]]
  /\ UNCHANGED <<caller, use, request, env, moves>>

\* Command::env_clear, envs, env_remove; the caller's variables are read when
\* Bubblewrap is started.
SpawnBwrap ==
  /\ pc = "spawn" /\ pc' = "arguments"
  /\ env' = Without(Setting(IF plan.inherit THEN Inherited ELSE NoEnv, plan.set),
                    plan.remove)
  /\ UNCHANGED <<caller, use, request, plan, moves>>

\* --clearenv, which leaves PWD; --unsetenv; --setenv; and PWD for --chdir.
CargoHome == Name(<<"CARGO", "HOME">>)
BwrapArguments ==
  /\ pc = "arguments" /\ pc' = "scrub"
  /\ LET cleared == IF plan.inherit THEN env ELSE Without(env, DOMAIN env \ {Name(<<"PWD">>)})
         set == Setting(Without(cleared, plan.remove), plan.set)
         home == IF CargoHome \in plan.remove THEN set
                 ELSE Setting(set, <<Var(CargoHome, "backend")>>)
     IN  env' = Setting(home, <<Var(Name(<<"PWD">>), "bwrap")>>)
  /\ UNCHANGED <<caller, use, request, plan, moves>>

\* The Bash that closes descriptors counts its level and exports it.
Scrub ==
  /\ pc = "scrub" /\ pc' = "launch"
  /\ env' = Setting(env, <<Var(Name(<<"SHLVL">>), "bash")>>)
  /\ UNCHANGED <<caller, use, request, plan, moves>>

\* run_internal_launcher
Launch ==
  /\ pc = "launch" /\ pc' = "program"
  /\ env' = IF plan.inherit THEN env
            ELSE Without(env, {n \in DOMAIN env :
                   ~is_allowed_sandbox_environment_name(n)
                     \/ is_sensitive_environment_name(n)})
  /\ UNCHANGED <<caller, use, request, plan, moves>>

OtherThread ==
  /\ pc # "program" /\ moves < MaxMoves /\ moves' = moves + 1
  /\ \E n \in Extra : caller' \in {caller \cup {n}, caller \ {n}} \ {caller}
  /\ UNCHANGED <<use, request, plan, env, pc>>

Next ==
  \/ CollectRemovals \/ cargo_environment \/ merged_environment \/ SpawnBwrap
  \/ BwrapArguments \/ Scrub \/ Launch \/ OtherThread
Spec == Init /\ [][Next]_vars

-----------------------------------------------------------------------------
(* Properties *)

Started == pc = "program"
Pwd == Name(<<"PWD">>)
Shlvl == Name(<<"SHLVL">>)
Added == {Pwd, Shlvl}

\* SECURITY.md: "Policy removals win over later environment values."  No layer
\* brings a variable back that the request or the policy removes, not even the
\* backend's own CARGO_HOME; only PWD and what Bash counts are set afterwards.
RemovalsWin ==
  Started => \A n \in (request.remove \cup request.policy) \ Added : n \notin DOMAIN env

\* A secret reaches the program only if an embedding program has it inherit the
\* caller's variables and neither sets it nor removes it.
SecretsStayOut ==
  Started => \A n \in Secrets \cap DOMAIN env :
    request.inherit /\ env[n] = "caller"

\* The settings of a name in a request.
Given(n) == {i \in DOMAIN request.set : request.set[i].name = n}
Expected(n) ==
  CASE n = CargoHome -> "backend"
    [] n = Pwd -> "bwrap"
    [] n = Shlvl -> "bash"
    [] n \notin Added \cup {CargoHome} /\ Given(n) # {} ->
         request.set[CHOOSE i \in Given(n) : \A j \in Given(n) : j <= i].value
    [] OTHER -> IF request.inherit THEN "caller" ELSE "nobody"
\* Each value comes from where it should, whatever the caller's environment:
\* the backend's own values win, the last setting of a name wins, and without
\* inheritance nothing is the caller's that cargo-cage has not forwarded; its
\* programs have exactly the values of the sandbox besides.
OnlyWhatWasGiven ==
  Started =>
    /\ \A n \in DOMAIN env : env[n] = Expected(n)
    /\ use # "embedded" =>
         /\ {n \in DOMAIN env : env[n] = "caller"} \subseteq Forwarded
         /\ \A n \in SandboxOnly \cap DOMAIN env : env[n] # "caller"
         /\ {n \in DOMAIN env : env[n] = "build"} =
              IF use = "build" THEN {OfTheBuild[i].name : i \in DOMAIN OfTheBuild} ELSE {}
         /\ Name(<<"CARGO", "TARGET", "DIR">>) \in DOMAIN env <=> use = "build"
=============================================================================
