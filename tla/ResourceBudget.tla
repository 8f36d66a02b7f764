---------------------------- MODULE ResourceBudget ----------------------------
(***************************************************************************)
(* The resources of a sandboxed run: where its cgroup is created, under    *)
(* which name, with which limits, and what the supervisor does to its own  *)
(* rlimits for the child to inherit (ResourceGroup::prepare and            *)
(* apply_inherited_limits).  What happens while the child runs, and how    *)
(* the group is taken down, is the subject of SandboxRun; here a run ends  *)
(* with its group removed, or the supervisor dies and leaves it behind.    *)
(*                                                                         *)
(* Several supervisors may share the cgroup tree.  Their process ids come  *)
(* from different namespaces, so that they can be equal; and the groups of *)
(* dead ones keep their names.                                             *)
(***************************************************************************)
EXTENDS Integers, Sequences, FiniteSets, FiniteSetsExt

CONSTANTS
  MaxProfile,      (* ResourceLimits::MAX_*                                  *)
  MinMemory,       (* MIN_MEMORY_BYTES                                       *)
  WordMax,         (* the largest representable number of bytes              *)
  Unlimited,       (* RLIM_INFINITY, and memory.max of "max"                 *)
  MaxTries,        (* names tried by one call: 32                            *)
  MaxCalls,        (* bound on the calls of one process                      *)
  Scenes           (* who runs where.  A scene has
                      supervisors, pids  processes, and the ids they may see
                      hosts              hosts: levels are the cgroups from the
                                         mount down to the supervisor's
                      profiles           the ResourceLimits they may ask for
                      stale              sets of ids whose groups dead
                                         supervisors may have left behind
                      faults             kernel calls that may fail
                      crashes            bound on supervisors killed        *)

Controllers == {"cpu", "memory", "pids"}
Controls == <<"pids.max", "memory.max", "memory.swap.max", "memory.oom.group",
              "cpu.max">>
Missing == -1   \* the root of the tree has no memory.max

ASSUME BudgetAssumption ==
  /\ MinMemory \in Nat /\ WordMax \in Nat /\ Unlimited \in Nat /\ WordMax < Unlimited
  /\ MaxTries \in Nat \ {0} /\ MaxCalls \in Nat
  /\ MaxProfile \in [{"processes", "memory", "cores", "file", "open"} -> Nat]
  /\ \A c \in Scenes :
       /\ c.supervisors \cap {"stale", "left"} = {}
       /\ c.crashes \in Nat /\ \A ids \in c.stale : ids \subseteq Nat
       /\ c.faults \subseteq {"find", "create", "check", "control", "events",
                             "mounts", "rlimit", "remove"}
       /\ \A p \in c.profiles : p \in [DOMAIN MaxProfile -> Nat]
       /\ \A h \in c.hosts :
            /\ h.memTotal \in Nat /\ h.privileged \in BOOLEAN
            /\ h.levels \in Seq([available : SUBSET Controllers, enabled : SUBSET Controllers,
                                 procs : {"writable", "denied", "error"},
                                 memory : Nat \cup {Missing}])
            /\ h.rlimit \in [{"file", "open", "core"} -> [soft : Nat, hard : Nat]]

VARIABLES
  scene,     \* what may happen here: profiles, pids, faults and crashes
  host,      \* the host, which keeps still
  pid,       \* the process id a supervisor sees
  nextId,    \* NEXT_CGROUP_ID of each supervisor
  groups,    \* cgroups named cargo-cage-<pid>-<id>, by name
  rlimit,    \* resource limits of each supervisor
  call,      \* what the current or last call of each supervisor has done
  calls, crashes   \* bounded counters
vars == <<scene, host, pid, nextId, groups, rlimit, call, calls, crashes>>

Supervisors == DOMAIN call

NoGroup == << >>
NoCall == [stage |-> "idle", asked |-> MaxProfile, parent |-> 0,
           memory |-> 0, tries |-> 0, group |-> NoGroup,
           file |-> 0, open |-> 0, result |-> "none"]

\* A group remembers who made it, what has been written to it and where it is.
Group(owner, parent) == [owner |-> owner, parent |-> parent, memory |-> Unlimited,
                         written |-> 0]
Without(f, x) == [y \in DOMAIN f \ {x} |-> f[y]]
Extended(f, x, v) == [y \in DOMAIN f \cup {x} |-> IF y = x THEN v ELSE f[y]]

Init ==
  \E c \in Scenes :
    /\ scene = [profiles |-> c.profiles, pids |-> c.pids, faults |-> c.faults,
                crashes |-> c.crashes]
    /\ host \in c.hosts
    /\ pid \in [c.supervisors -> c.pids]
    /\ nextId = [s \in c.supervisors |-> 0]
    /\ \E ids \in c.stale :
         groups = [n \in c.pids \X ids |-> Group("stale", Len(host.levels))]
    /\ rlimit = [s \in c.supervisors |-> host.rlimit]
    /\ call = [s \in c.supervisors |-> NoCall]
    /\ calls = [s \in c.supervisors |-> 0] /\ crashes = 0

At(s, stage) == call[s].stage = stage
Goto(s, stage) == call' = [call EXCEPT ![s].stage = stage]
End(s, why) ==
  call' = [call EXCEPT ![s].stage = "idle", ![s].result = why, ![s].group = NoGroup]
MayFail(kind) == kind \in scene.faults

\* remove_dir whose own failure is ignored
LeaveGroup(s) == groups' = [groups EXCEPT ![call[s].group].owner = "left"]
RemoveGroup(s) ==
  \/ groups' = Without(groups, call[s].group)
  \/ MayFail("remove") /\ LeaveGroup(s)
Abandon(s, why) == RemoveGroup(s) /\ End(s, why)

-----------------------------------------------------------------------------
(* CgroupContext::discover *)

ValidProfile(p) == \A f \in DOMAIN MaxProfile : p[f] > 0 /\ p[f] <= MaxProfile[f]

Prepare(s) ==
  /\ At(s, "idle") /\ calls[s] < MaxCalls
  /\ calls' = [calls EXCEPT ![s] = @ + 1]
  /\ \E p \in scene.profiles :
       call' = [call EXCEPT ![s] =
                  IF ValidProfile(p) THEN [NoCall EXCEPT !.stage = "find", !.asked = p]
                                     ELSE [NoCall EXCEPT !.result = "profile"]]
  /\ UNCHANGED <<scene, host, pid, nextId, groups, rlimit, crashes>>

Level(i) == host.levels[i]
Current == Len(host.levels)
has_required_controllers(i) ==
  Controllers \subseteq Level(i).available /\ Controllers \subseteq Level(i).enabled

\* find_delegated_parent goes up from the supervisor's own cgroup and stops
\* at the first level where it can create a child, or cannot tell.
can_create_child(i) == Level(i).procs
Stops(i) == has_required_controllers(i) /\ can_create_child(i) # "denied"
StopsAt(i) == Stops(i) /\ \A j \in DOMAIN host.levels : j > i => ~Stops(j)
Usable(i) == StopsAt(i) /\ can_create_child(i) = "writable"
\* find_cgroup2_mount or current_cgroup_path fails.
NoHierarchy == MayFail("find")

FindParent(s) ==
  /\ At(s, "find")
  /\ \/ /\ can_create_child(Current) = "writable"
        /\ \E i \in DOMAIN host.levels :
             Usable(i) /\ call' = [call EXCEPT ![s].stage = "budget", ![s].parent = i]
     \/ /\ \/ can_create_child(Current) # "writable"
           \/ \A i \in DOMAIN host.levels : ~Usable(i)
           \/ NoHierarchy
        /\ End(s, "delegation")
  /\ UNCHANGED <<scene, host, pid, nextId, groups, rlimit, calls, crashes>>

\* max_memory_bytes; the multiplication is checked.
HostBudget == ((host.memTotal * 3) % (WordMax + 1)) \div 4
Unchecked == TRUE
MultiplicationChecked == host.memTotal * 3 <= WordMax
MemoryBudget(p, parent) == Min({p.memory, HostBudget, Level(parent).memory})
Enough(memory) == memory >= MinMemory

ReadBudget(s) ==
  /\ At(s, "budget")
  /\ LET c == call[s]
         usable == /\ MultiplicationChecked
                   /\ Level(c.parent).memory # Missing
                   /\ Enough(MemoryBudget(c.asked, c.parent))
     IN
     \/ /\ usable
        /\ call' = [call EXCEPT ![s].stage = "create",
                               ![s].memory = MemoryBudget(c.asked, c.parent)]
     \/ ~usable /\ End(s, "memory")
  /\ UNCHANGED <<scene, host, pid, nextId, groups, rlimit, calls, crashes>>

-----------------------------------------------------------------------------
(* create_child_cgroup and configure_cgroup *)

Name(s) == <<pid[s], nextId[s]>>

\* A name that exists is passed over for the next id; the counter of the
\* process never goes back.
CreateOrShare(s) ==
  /\ At(s, "create")
  /\ nextId' = [nextId EXCEPT ![s] = @ + 1]
  /\ groups' = Extended(groups, Name(s), Group(s, call[s].parent))
  /\ call' = [call EXCEPT ![s].stage = "check", ![s].group = Name(s)]
  /\ UNCHANGED <<scene, host, pid, rlimit, calls, crashes>>
CreateGroup(s) ==
  /\ At(s, "create")
  /\ nextId' = [nextId EXCEPT ![s] = @ + 1]
  /\ \/ /\ Name(s) \notin DOMAIN groups
        /\ groups' = Extended(groups, Name(s), Group(s, call[s].parent))
        /\ call' = [call EXCEPT ![s].stage = "check", ![s].group = Name(s)]
     \/ /\ Name(s) \in DOMAIN groups /\ groups' = groups
        /\ IF call[s].tries + 1 < MaxTries
           THEN call' = [call EXCEPT ![s].tries = @ + 1]
           ELSE End(s, "names")
     \/ MayFail("create") /\ groups' = groups /\ End(s, "create")
  /\ UNCHANGED <<scene, host, pid, rlimit, calls, crashes>>

\* The directory just made is looked at; on a failure it stays.
CheckGroup(s) ==
  /\ At(s, "check")
  /\ \/ Goto(s, "configure") /\ UNCHANGED groups
     \/ MayFail("check") /\ End(s, "check") /\ LeaveGroup(s)
  /\ UNCHANGED <<scene, host, pid, nextId, rlimit, calls, crashes>>

\* The k-th control file of the group is written, or the group given up.
WriteControl(s) ==
  /\ At(s, "configure")
  /\ LET g == call[s].group
         k == groups[g].written + 1
     IN
     \/ /\ groups' = [groups EXCEPT
             ![g].written = k,
             ![g].memory = IF Controls[k] = "memory.max" THEN call[s].memory ELSE @]
        /\ Goto(s, IF k = Len(Controls) THEN "events" ELSE "configure")
     \/ MayFail("control") /\ Abandon(s, "control")
  /\ UNCHANGED <<scene, host, pid, nextId, rlimit, calls, crashes>>

KeepGroup(s) ==
  /\ At(s, "events")
  /\ \/ Goto(s, "mounts") /\ UNCHANGED groups
     \/ MayFail("events") /\ End(s, "events") /\ UNCHANGED groups
  /\ UNCHANGED <<scene, host, pid, nextId, rlimit, calls, crashes>>
ReadEvents(s) ==
  /\ At(s, "events")
  /\ \/ Goto(s, "mounts") /\ UNCHANGED groups
     \/ MayFail("events") /\ Abandon(s, "events")
  /\ UNCHANGED <<scene, host, pid, nextId, rlimit, calls, crashes>>

\* run_inner opens mounts and builds the command while it owns the group.
OpenMounts(s) ==
  /\ At(s, "mounts")
  /\ \/ Goto(s, "file") /\ UNCHANGED groups
     \/ MayFail("mounts") /\ Abandon(s, "mounts")
  /\ UNCHANGED <<scene, host, pid, nextId, rlimit, calls, crashes>>

-----------------------------------------------------------------------------
(* apply_inherited_limits *)

Requested(s, f) == IF f = "core" THEN 0 ELSE call[s].asked[f]
\* requested.min(hard)
IgnoresHard(s, f) == Requested(s, f)
Effective(s, f) == Min({Requested(s, f), rlimit[s][f].hard})
After(f) == CASE f = "file" -> "open" [] f = "open" -> "core" [] f = "core" -> "running"

\* setrlimit of the kernel: only the privileged may raise the hard limit.
KernelAllows(s, f, value) == value <= rlimit[s][f].hard \/ host.privileged

\* set_lower_limit for each of RLIMIT_FSIZE, RLIMIT_NOFILE and RLIMIT_CORE; a
\* failure drops the group, and what has been lowered stays lowered.
ReportsRequested(s) ==
  \E f \in {"file", "open", "core"} :
    /\ At(s, f)
    /\ LET value == Effective(s, f) IN
       \/ /\ ~(Requested(s, f) > 0 /\ value = 0)
          /\ rlimit' = [rlimit EXCEPT ![s][f] = [soft |-> value, hard |-> value]]
          /\ call' = IF f = "core" THEN [call EXCEPT ![s].stage = After(f)]
                     ELSE [call EXCEPT ![s].stage = After(f), ![s][f] = Requested(s, f)]
          /\ UNCHANGED groups
       \/ /\ (Requested(s, f) > 0 /\ value = 0) \/ MayFail("rlimit")
          /\ Abandon(s, "rlimit") /\ UNCHANGED rlimit
    /\ UNCHANGED <<scene, host, pid, nextId, calls, crashes>>
LowerLimit(s) ==
  \E f \in {"file", "open", "core"} :
    /\ At(s, f)
    /\ LET value == Effective(s, f) IN
       \/ /\ ~(Requested(s, f) > 0 /\ value = 0) /\ KernelAllows(s, f, value)
          /\ rlimit' = [rlimit EXCEPT ![s][f] = [soft |-> value, hard |-> value]]
          /\ call' = IF f = "core" THEN [call EXCEPT ![s].stage = After(f)]
                     ELSE [call EXCEPT ![s].stage = After(f), ![s][f] = value]
          /\ UNCHANGED groups
       \/ /\ \/ Requested(s, f) > 0 /\ value = 0
             \/ ~KernelAllows(s, f, value)
             \/ MayFail("rlimit")
          /\ Abandon(s, "rlimit") /\ UNCHANGED rlimit
    /\ UNCHANGED <<scene, host, pid, nextId, calls, crashes>>

-----------------------------------------------------------------------------
(* The rest of a supervisor's life *)

\* The child has run and the group has been dismantled (see SandboxRun).
Finish(s) ==
  /\ At(s, "running")
  /\ groups' = Without(groups, call[s].group)
  /\ End(s, "ran")
  /\ UNCHANGED <<scene, host, pid, nextId, rlimit, calls, crashes>>

\* The supervisor is killed and another one started: a new counter, the
\* caller's limits again, and the groups of the first still there.
Crash(s) ==
  /\ crashes < scene.crashes /\ crashes' = crashes + 1
  /\ groups' = [n \in DOMAIN groups |->
                  IF groups[n].owner = s THEN [groups[n] EXCEPT !.owner = "stale"]
                                         ELSE groups[n]]
  /\ \E p \in scene.pids : pid' = [pid EXCEPT ![s] = p]
  /\ nextId' = [nextId EXCEPT ![s] = 0]
  /\ rlimit' = [rlimit EXCEPT ![s] = host.rlimit]
  /\ call' = [call EXCEPT ![s] = NoCall]
  /\ calls' = [calls EXCEPT ![s] = 0]
  /\ UNCHANGED <<scene, host>>

Step(s) ==
  \/ FindParent(s) \/ ReadBudget(s) \/ CreateGroup(s) \/ CheckGroup(s)
  \/ WriteControl(s) \/ ReadEvents(s) \/ OpenMounts(s) \/ LowerLimit(s) \/ Finish(s)

Next == \E s \in Supervisors : Prepare(s) \/ Step(s) \/ Crash(s)

Spec == Init /\ [][Next]_vars

-----------------------------------------------------------------------------
(* Properties *)

Stages == {"idle", "find", "budget", "create", "check", "configure", "events",
           "mounts", "file", "open", "core", "running"}

Holding == {"check", "configure", "events", "mounts", "file", "open", "core", "running"}
Limits == {"file", "open", "core"}
Results == {"none", "profile", "delegation", "memory", "names", "create", "check",
            "control", "events", "mounts", "rlimit", "ran"}

Calls == [stage : Stages, asked : scene.profiles \cup {MaxProfile}, parent : Nat,
          memory : Int, tries : 0..(MaxTries - 1),
          group : (scene.pids \X Nat) \cup {NoGroup}, file : Nat, open : Nat,
          result : Results]
GroupStates == [owner : Supervisors \cup {"stale", "left"}, parent : Nat, memory : Int,
                written : 0..Len(Controls)]
GroupsOK == /\ DOMAIN groups \subseteq scene.pids \X Nat
            /\ groups \in [DOMAIN groups -> GroupStates]

\* The scene and the host are of those given; calls and groups are well formed.
TypeOK ==
  /\ \E c \in Scenes :
       /\ scene = [profiles |-> c.profiles, pids |-> c.pids, faults |-> c.faults,
                   crashes |-> c.crashes]
       /\ host \in c.hosts /\ DOMAIN call = c.supervisors
  /\ call \in [Supervisors -> Calls]
  /\ pid \in [Supervisors -> scene.pids] /\ nextId \in [Supervisors -> Nat]
  /\ rlimit \in [Supervisors -> [Limits -> [soft : Nat, hard : Nat]]]
  /\ GroupsOK

\* Two supervisors never run in one group, nor does one in a group that was
\* there before: what kills, counts or limits one run touches no other.  Also
\* when they see the same process id and when others have died before them.
GroupsAreFresh ==
  \A s \in Supervisors : call[s].group # NoGroup =>
    /\ call[s].group \in DOMAIN groups
    /\ groups[call[s].group].owner = s

\* A call that gave up on its group has removed it: the tree does not fill
\* with groups of failed preparations.  Two cases are excepted, for the code
\* does: the check of the new directory fails, or its removal does.
FailureLeavesNoGroup ==
  \A n \in DOMAIN groups :
    groups[n].owner \in Supervisors => call[groups[n].owner].group = n

\* No program starts before its group has all controls and a memory limit that
\* is the least of the request, three quarters of the host's memory and the
\* limit of the delegated parent, and at least the minimum; on any host.
StartsWithinBudget ==
  \A s \in Supervisors : call[s].stage = "running" =>
    LET g == groups[call[s].group] IN
    /\ g.written = Len(Controls)
    /\ g.memory >= MinMemory /\ g.memory <= call[s].asked.memory
    /\ g.memory <= host.levels[g.parent].memory
    /\ 4 * g.memory <= 3 * host.memTotal
    /\ g.memory = call[s].asked.memory \/ g.memory = host.levels[g.parent].memory
         \/ 4 * (g.memory + 1) > 3 * host.memTotal

\* What the error messages will report of file size and open files is what the
\* program inherits, as a hard limit it cannot raise; no core dumps.  Also in
\* the second run of a process, whose own limits are lower by then.
InheritedAsReported ==
  \A s \in Supervisors : call[s].stage = "running" =>
    /\ \A f \in {"file", "open"} :
         /\ rlimit[s][f] = [soft |-> call[s][f], hard |-> call[s][f]]
         /\ call[s][f] \in 1..call[s].asked[f]
    /\ rlimit[s].core.hard = 0

\* A hard limit never goes up in the life of a process, also where the kernel
\* would let it and a later call asks for more (set_lower_limit).
HardLimitsNeverRise ==
  [][\A s \in Supervisors, f \in {"file", "open", "core"} :
       crashes' = crashes => rlimit'[s][f].hard <= rlimit[s][f].hard]_vars
=============================================================================
