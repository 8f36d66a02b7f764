----------------------------- MODULE EnvFilterInv -----------------------------
(***************************************************************************)
(* What is true of the request, the plan and the environment between any   *)
(* two layers.                                                             *)
(***************************************************************************)
EXTENDS EnvFilter

\* What is true of a secret on its way: the filters know it by its name, and
\* it is not one of the names the programs in between set.
Recognised ==
  \A n \in Secrets :
    is_sensitive_environment_name(n) /\ n \notin Added \cup {CargoHome}

Planned == {"spawn", "arguments", "scrub", "launch", "program"}

\* The plan carries every removal, and sets nothing that is removed and nothing
\* that is sensitive.
PlanInv ==
  pc \in Planned =>
    /\ plan.inherit = request.inherit
    /\ request.remove \cup request.policy \subseteq plan.remove
    /\ \A i \in DOMAIN plan.set :
         /\ plan.set[i].name \notin plan.remove
         /\ ~is_sensitive_environment_name(plan.set[i].name)

\* From Bubblewrap's environment on nothing removed is there, and a secret
\* that is there has been inherited.
EnvInv ==
  /\ pc \in {"scrub", "launch", "program"} =>
       \A n \in plan.remove \ Added : n \notin DOMAIN env
  /\ pc \in {"arguments", "scrub", "launch", "program"} /\ plan.inherit =>
       \A n \in Secrets \cap DOMAIN env : Recognised => env[n] = "caller"
  /\ pc = "program" /\ ~plan.inherit =>
       \A n \in DOMAIN env : ~is_sensitive_environment_name(n)

FilterInv == PlanInv /\ EnvInv

-----------------------------------------------------------------------------
(* Where each value comes from *)

NamesOf(set) == {set[i].name : i \in DOMAIN set}
BuildNames == NamesOf(OfTheBuild)
CageNames == NamesOf(Toolchain) \cup {Name(<<"RUSTDOC">>)}

\* What cargo_environment sets.
OwnSetting(v) ==
  \/ v.value = "caller" /\ v.name \in Forwarded
  \/ v.value = "cage" /\ v.name \in CageNames
  \/ v.value = "build" /\ v.name \in BuildNames /\ use = "build"
RequestInv ==
  /\ Len(request.set) \in Nat /\ DOMAIN request.set = 1..Len(request.set)
  /\ use \in {"discovery", "build", "embedded"}
  /\ pc \in {"policy", "environment"} =>
       use # "embedded" /\ request = [Nothing EXCEPT !.policy = request.policy]
  /\ use # "embedded" =>
       /\ ~request.inherit /\ request.remove = {}
       /\ \A n \in request.policy : n \in KnownSecrets \/ is_sensitive_environment_name(n)
       /\ \A i \in DOMAIN request.set : OwnSetting(request.set[i])
       /\ use = "build" /\ pc \in {"merge"} \cup Planned => BuildNames \subseteq NamesOf(request.set)

\* The plan is what merged_environment makes of the request.
Removed ==
  request.remove \cup request.policy
    \cup {n \in NamesOf(request.set) : is_sensitive_environment_name(n)}
Kept == {i \in DOMAIN request.set : request.set[i].name \notin Removed}
MergedInv ==
  pc \in Planned =>
    plan = [inherit |-> request.inherit, remove |-> Removed,
            set |-> [i \in Kept |-> request.set[i]]]

\* A value is the one expected from the layer on that sets it last, and what is
\* neither inherited nor set by a layer has been asked for.
Layers == Added \cup {CargoHome}
Spawned == {"arguments", "scrub", "launch", "program"}
ToCome ==
  CASE pc = "arguments" -> Layers
    [] pc = "scrub" -> {Shlvl}
    [] OTHER -> {}
ValueInv ==
  pc \in Spawned =>
    /\ \A n \in DOMAIN env \ ToCome : env[n] = Expected(n)
    /\ ~request.inherit => DOMAIN env \subseteq Layers \cup NamesOf(request.set)
    /\ use = "build" => BuildNames \subseteq DOMAIN env

SourceInv == RequestInv /\ MergedInv /\ ValueInv
=============================================================================
