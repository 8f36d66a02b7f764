------------------------------ MODULE CagedRun ------------------------------
(***************************************************************************)
(* What SandboxBackend::run promises a caller, with none of the machinery  *)
(* that delivers it.  A call is serialised with every other call of the    *)
(* process, first runs a probe (the namespace preflight) and then the      *)
(* build.  An outcome is delivered only when no process of the call is     *)
(* left and none of them hit a resource limit; every other call is         *)
(* refused.  A refused call may leave processes behind, but none of them   *)
(* is ever started outside the stage it belongs to.                        *)
(***************************************************************************)
CONSTANTS
  Callers,   (* threads of the embedding process that call run            *)
  Procs      (* names of the processes one sandbox can hold               *)

VARIABLES
  stage,     (* what the caller knows of its call                         *)
  probe,     (* live processes of its preflight sandbox                   *)
  build,     (* live processes of its build sandbox                       *)
  limitHit   (* a limit event happened in its build sandbox               *)

vars == <<stage, probe, build, limitHit>>

Stages == {"idle", "probing", "building", "delivered", "refused"}
Active == {"probing", "building"}

Init ==
  /\ stage    = [c \in Callers |-> "idle"]
  /\ probe    = [c \in Callers |-> {}]
  /\ build    = [c \in Callers |-> {}]
  /\ limitHit = [c \in Callers |-> FALSE]

Move(c, from, to) ==
  /\ stage[c] \in from
  /\ stage' = [stage EXCEPT ![c] = to]
  /\ UNCHANGED <<probe, build, limitHit>>

\* The call starts; no other call of the process is under way.
Begin(c) ==
  /\ \A d \in Callers : stage[d] \notin Active
  /\ Move(c, {"idle"}, "probing")

\* The probe is over, its processes are gone, and the build may start.
Admit(c) == probe[c] = {} /\ Move(c, {"probing"}, "building")

\* The caller receives the status and the output of its program.
Deliver(c) ==
  /\ probe[c] = {} /\ build[c] = {} /\ ~limitHit[c]
  /\ Move(c, {"building"}, "delivered")

\* The caller receives an error.
Refuse(c) == Move(c, {"idle", "probing", "building"}, "refused")

\* A sandbox's first process appears only in its stage; afterwards its
\* processes fork, exit and are killed at any time until none is left.
ProbeChurn(c) ==
  /\ stage[c] = "probing" \/ probe[c] # {}
  /\ \E s \in SUBSET Procs : probe' = [probe EXCEPT ![c] = s]
  /\ UNCHANGED <<stage, build, limitHit>>

BuildChurn(c) ==
  /\ stage[c] = "building" \/ build[c] # {}
  /\ \E s \in SUBSET Procs : build' = [build EXCEPT ![c] = s]
  /\ UNCHANGED <<stage, probe, limitHit>>

\* A limit event of the build's cgroup; a refused call may leave the caller
\* itself in it.
BuildHitsLimit(c) ==
  /\ stage[c] \in {"building", "refused"}
  /\ limitHit' = [limitHit EXCEPT ![c] = TRUE]
  /\ UNCHANGED <<stage, probe>>
  /\ \E s \in SUBSET Procs : build' = [build EXCEPT ![c] = s]

Next ==
  \E c \in Callers :
    \/ Begin(c) \/ Admit(c) \/ Deliver(c) \/ Refuse(c)
    \/ ProbeChurn(c) \/ BuildChurn(c) \/ BuildHitsLimit(c)

Spec == Init /\ [][Next]_vars
=============================================================================
