----------------------------- MODULE SandboxRun -----------------------------
(***************************************************************************)
(* One call of LinuxSandbox::run and the kernel objects it works on.       *)
(*                                                                         *)
(* Several threads of one supervisor process (Callers) call run.  Under a  *)
(* process-global lock each call performs run_inner twice: the namespace   *)
(* preflight, then the requested program.  Each run_inner creates a        *)
(* private cgroup, lowers the supervisor's own resource limits, moves the  *)
(* whole supervisor process into the cgroup, spawns Bubblewrap, moves the  *)
(* supervisor back, waits under a watchdog, and dismantles the cgroup in   *)
(* ResourceGroup::finish or, when an error interrupts the run, in its Drop *)
(* implementation.                                                         *)
(*                                                                         *)
(* Every system call that can fail is one step with a success and a        *)
(* failure branch; the kernel, the clock and the sandboxed processes move  *)
(* between any two of them.  A failure branch is open only when its kind   *)
(* is in Faults, so that a configuration can say what goes wrong.          *)
(***************************************************************************)
CONSTANTS
  Callers,   (* threads that call LinuxSandbox::run                       *)
  Bwrap,     (* the Bubblewrap process of a sandbox                       *)
  Kids,      (* names for the processes Bubblewrap and the program fork   *)
  Outside,   (* the cgroup the supervisor was started in                  *)
  None,      (* no holder of the lock, no cgroup                          *)
  Poisoned,  (* the lock after its holder has panicked                    *)
  Faults     (* the kinds of failure that may happen                      *)

FaultKinds ==
  {"setup",    \* a step before the spawn fails
   "restore",  \* writing the pid back to the caller's cgroup fails
   "kill",     \* writing cgroup.kill fails
   "scan",     \* the cgroup tree or its counters cannot be read or removed
   "late",     \* killed processes outlive CLEANUP_TIMEOUT
   "monitor",  \* try_wait, wait or a pipe read fails
   "panic",    \* thread::spawn panics for want of threads
   "oom",      \* the kernel kills the whole cgroup (memory.oom.group)
   "crash",    \* the supervisor is killed from outside
   "memory", "pids",   \* the program meets a cgroup limit
   "flood"}    \* it writes more than a capture may hold

ASSUME CageAssumption ==
  /\ Bwrap \notin Kids
  /\ Outside # None
  /\ None \notin Callers /\ Poisoned \notin Callers \cup {None}
  /\ Outside \notin Callers \X {"preflight", "main"}
  /\ None \notin Callers \X {"preflight", "main"}
  /\ Faults \subseteq FaultKinds

Procs  == {Bwrap} \cup Kids
Phases == {"preflight", "main"}
Group  == Callers \X Phases       \* one resource cgroup for each run_inner
Place  == {Outside} \cup Group    \* cgroups the supervisor can be in

VARIABLES
  \* the supervisor process
  sup,        \* alive, or how it died
  supAt,      \* the cgroup it is in
  rlimits,    \* the limits the supervisor itself runs under
  lock,       \* RESOURCE_RUN_LOCK: its holder, free, or poisoned by a panic
  \* the local state of each calling thread
  pc, phase,
  mode,       \* the request's OutputMode
  entered,    \* ResourceGroup.entered
  restore,    \* ResourceGroup.restore
  expired,    \* the wall-clock deadline of the watchdog has passed
  cont,       \* who called kill_all
  killed,     \* killed_for_output
  wall,       \* wall_time_expired
  report,     \* the limit events ResourceGroup::finish has read
  verdict,    \* the result run_inner is about to return
  outcome,    \* the result run has returned
  abandoned,  \* Drop gave up killing the group
  \* kernel state of each resource cgroup and of the sandbox of its run
  dir, events, home, live, dying, status, piped, flood, over

supVars   == <<sup, supAt, rlimits, lock>>
watchVars == <<expired, killed, wall>>
callVars  == <<phase, mode, restore, report, outcome>>
procVars  == <<home, live, dying, status>>
pipeVars  == <<piped, flood, over>>
boxVars   == <<dir, events, procVars, pipeVars>>
vars == <<supVars, pc, callVars, entered, cont, watchVars, verdict, abandoned,
          boxVars>>

PCs == {"idle", "plan", "prepare", "mounts", "limits", "enter", "spawn",
        "restore", "abort", "abortwait", "readers", "watch", "poll", "kill",
        "reap", "await", "join", "finish", "read", "remove", "report", "drop",
        "discard", "return", "done"}
Conts == {"timeout", "monitorInherit", "overflow", "deadline",
          "monitorCapture", "finish", "drop"}
LimitEvents == {"memory", "pids"}
Exits    == {"ok", "fail", "fsize"}
Errors   == {"walltime", "memory", "processes", "filesize", "setup", "io",
             "spawn", "panic"}
Verdicts == {"none", "ok"} \cup Errors

G(c)       == <<c, phase[c]>>
InBox(g)   == live[g] \cup dying[g]
Occupied(p) == \E g \in Group : home[g] = p /\ InBox(g) # {}
\* cgroup.procs of every cgroup of the tree is empty.  A sandbox sees no
\* cgroup file system, so a resource cgroup has no descendant cgroups.
TreeEmpty(p) == ~Occupied(p) /\ supAt # p
Exited(g)    == status[g] \in Exits \cup {"killed"}
Capturing(c) == phase[c] = "preflight" \/ mode[c] = "capture"

Init ==
  /\ sup = "alive" /\ supAt = Outside /\ rlimits = "caller"
  /\ lock = None
  /\ pc      = [c \in Callers |-> "idle"]
  /\ phase   = [c \in Callers |-> "preflight"]
  /\ mode \in [Callers -> {"inherit", "capture"}]
  /\ entered = {}
  /\ restore = [c \in Callers |-> Outside]
  /\ expired = {}
  /\ cont    = [c \in Callers |-> "drop"]
  /\ killed = {}
  /\ wall = {}
  /\ report  = [c \in Callers |-> {}]
  /\ verdict = [c \in Callers |-> "none"]
  /\ outcome = [c \in Callers |-> "none"]
  /\ abandoned = {}
  /\ dir    = [g \in Group |-> "absent"]
  /\ events = [g \in Group |-> {}]
  /\ home   = [g \in Group |-> None]
  /\ live   = [g \in Group |-> {}]
  /\ dying  = [g \in Group |-> {}]
  /\ status = [g \in Group |-> "none"]
  /\ piped = {}
  /\ flood = {}
  /\ over = {}

Step(c, from, to) ==
  /\ sup = "alive"
  /\ pc[c] = from
  /\ pc' = [pc EXCEPT ![c] = to]

Fault(kind) == kind \in Faults

\* Where `?` leads inside run_inner: the ResourceGroup goes out of scope.
GroupLeaked  == "return"
GroupDropped == "drop"

\* An error that leaves run_inner early.
Bail(c, from, error) ==
  /\ Step(c, from, GroupDropped)
  /\ verdict' = [verdict EXCEPT ![c] = error]

CallKillAll(c, from, caller) ==
  /\ Step(c, from, "kill")
  /\ cont' = [cont EXCEPT ![c] = caller]

\* SIGKILL is pending for these processes of sandbox g.
Signal(g, who) ==
  /\ live'  = [live  EXCEPT ![g] = @ \ who]
  /\ dying' = [dying EXCEPT ![g] = @ \cup (live[g] \cap who)]

\* SIGKILL for every process in cgroup p, the supervisor included.
KillBox(p, death) ==
  LET hit == {g \in Group : home[g] = p} IN
  /\ live'  = [g \in Group |-> IF g \in hit THEN {} ELSE live[g]]
  /\ dying' = [g \in Group |-> IF g \in hit THEN InBox(g) ELSE dying[g]]
  /\ sup'   = IF supAt = p /\ sup = "alive" THEN death ELSE sup

-----------------------------------------------------------------------------
(* LinuxSandbox::run: the lock, the policy, and what happens between the    *)
(* preflight and the build.                                                *)

Finish(c, result) ==
  /\ pc' = [pc EXCEPT ![c] = "done"]
  /\ outcome' = [outcome EXCEPT ![c] = result]

LockIgnored == TRUE
LockFree == lock \in {None, Poisoned}

LockRun(c) ==
  /\ LockFree
  /\ sup = "alive" /\ pc[c] = "idle"
  /\ \/ /\ lock = Poisoned
        /\ Finish(c, "setup")
        /\ UNCHANGED lock
     \/ /\ lock # Poisoned
        /\ lock' = c
        /\ pc' = [pc EXCEPT ![c] = "plan"]
        /\ UNCHANGED outcome
  /\ UNCHANGED <<sup, supAt, rlimits, phase, mode, restore, report,
                 entered, cont, watchVars, verdict, abandoned, boxVars>>

\* SandboxPlan::from_request and parent_namespace_markers.
PlanRun(c) ==
  /\ sup = "alive" /\ pc[c] = "plan"
  /\ \/ /\ pc' = [pc EXCEPT ![c] = "prepare"]
        /\ UNCHANGED <<outcome, lock>>
     \/ /\ Fault("setup")
        /\ Finish(c, "setup")
        /\ lock' = None
  /\ UNCHANGED <<sup, supAt, rlimits, phase, mode, restore, report,
                 entered, cont, watchVars, verdict, abandoned, boxVars>>

\* The probe's exit status and its output are those expected.
PreflightVerified(c) == verdict[c] = "ok" /\ status[G(c)] = "ok"

\* run_inner has returned: a verified preflight is followed by the build,
\* anything else ends the call.  A panic poisons the lock it releases.
ReturnRun(c) ==
  /\ sup = "alive" /\ pc[c] = "return"
  /\ \/ /\ phase[c] = "preflight" /\ PreflightVerified(c)
        /\ phase' = [phase EXCEPT ![c] = "main"]
        /\ pc' = [pc EXCEPT ![c] = "prepare"]
        /\ UNCHANGED <<outcome, lock>>
     \/ /\ phase[c] = "preflight" /\ verdict[c] = "ok"
        \* a failed status, or an output other than the expected one
        /\ status[G(c)] = "ok" => Fault("setup")
        /\ Finish(c, "setup")
        /\ lock' = None
        /\ UNCHANGED phase
     \/ /\ phase[c] = "main" \/ verdict[c] # "ok"
        /\ Finish(c, verdict[c])
        /\ lock' = IF verdict[c] = "panic" THEN Poisoned ELSE None
        /\ UNCHANGED phase
  /\ UNCHANGED <<sup, supAt, rlimits, mode, restore, report,
                 entered, cont, watchVars, verdict, abandoned, boxVars>>

-----------------------------------------------------------------------------
(* run_inner up to the child's birth.                                      *)

\* ResourceGroup::prepare.  The cgroup the supervisor is in now is the one it
\* will be moved back to.  A failed prepare may leave an empty directory.
PrepareGroup(c) ==
  /\ \/ /\ Step(c, "prepare", "mounts")
        /\ dir' = [dir EXCEPT ![G(c)] = "ready"]
        /\ restore' = [restore EXCEPT ![c] = supAt]
        /\ verdict' = [verdict EXCEPT ![c] = "none"]
     \/ /\ Fault("setup")
        /\ Step(c, "prepare", "return")
        /\ \E d \in {"absent", "ready"} : dir' = [dir EXCEPT ![G(c)] = d]
        /\ verdict' = [verdict EXCEPT ![c] = "setup"]
        /\ UNCHANGED restore
  /\ entered' = entered \ {c}
  /\ expired' = expired \ {c}
  /\ killed'  = killed \ {c}
  /\ wall'    = wall \ {c}
  /\ report'  = [report  EXCEPT ![c] = {}]
  /\ UNCHANGED <<supVars, phase, mode, outcome, cont, abandoned, events,
                 procVars, pipeVars>>

\* PreparedMounts::open, LauncherContext::new and the Bubblewrap arguments.
OpenMounts(c) ==
  /\ \/ Step(c, "mounts", "limits") /\ UNCHANGED verdict
     \/ Fault("setup") /\ Bail(c, "mounts", "setup")
  /\ UNCHANGED <<supVars, callVars, entered, cont, watchVars, abandoned,
                 boxVars>>

\* apply_inherited_limits lowers the supervisor's own soft and hard limits;
\* nothing raises them again.
ApplyInheritedLimits(c) ==
  /\ \/ Step(c, "limits", "enter") /\ rlimits' = "lowered" /\ UNCHANGED verdict
     \/ /\ Fault("setup") /\ Bail(c, "limits", "setup")
        /\ rlimits' \in {rlimits, "lowered"}
  /\ UNCHANGED <<sup, supAt, lock, callVars, entered, cont,
                 watchVars, abandoned, boxVars>>

EnterGroup(c) ==
  /\ \/ /\ Step(c, "enter", "spawn")
        /\ supAt' = G(c)
        /\ entered' = entered \cup {c}
        /\ UNCHANGED verdict
     \/ /\ Fault("setup") /\ Bail(c, "enter", "setup")
        /\ UNCHANGED <<supAt, entered>>
  /\ UNCHANGED <<sup, rlimits, lock, callVars, cont, watchVars,
                 abandoned, boxVars>>

\* The child is born in the cgroup its parent is in at that moment.
SpawnChild(c) ==
  /\ \/ /\ Step(c, "spawn", "restore")
        /\ home'   = [home   EXCEPT ![G(c)] = supAt]
        /\ live'   = [live   EXCEPT ![G(c)] = {Bwrap}]
        /\ status' = [status EXCEPT ![G(c)] = "running"]
        /\ piped'  = IF Capturing(c) THEN piped \cup {G(c)} ELSE piped
        /\ UNCHANGED verdict
     \/ /\ Fault("setup") /\ Bail(c, "spawn", "spawn")
        /\ UNCHANGED <<home, live, status, piped>>
  /\ UNCHANGED <<supVars, callVars, entered, cont, watchVars, abandoned, dir,
                 events, dying, flood, over>>

RestoreSupervisor(c) ==
  /\ \/ /\ Step(c, "restore", IF Capturing(c) THEN "readers" ELSE "poll")
        /\ supAt' = restore[c]
        /\ entered' = entered \ {c}
        /\ UNCHANGED verdict
     \/ /\ Fault("restore")
        /\ Step(c, "restore", "abort")
        /\ verdict' = [verdict EXCEPT ![c] = "setup"]
        /\ UNCHANGED <<supAt, entered>>
  /\ UNCHANGED <<sup, rlimits, lock, callVars, cont, watchVars,
                 abandoned, boxVars>>

\* The supervisor could not be moved back: child.kill, child.wait, return.
AbortChild(c) ==
  /\ \/ /\ Step(c, "abort", "abortwait")
        /\ Signal(G(c), {Bwrap})
     \/ /\ Step(c, "abortwait", GroupDropped)
        /\ Exited(G(c))
        /\ UNCHANGED <<live, dying>>
  /\ UNCHANGED <<supVars, callVars, entered, cont, watchVars, verdict,
                 abandoned, dir, events, home, status, pipeVars>>

-----------------------------------------------------------------------------
(* wait_for_child (OutputMode::Inherit) and capture_child_output.          *)

StartReaders(c) ==
  /\ \/ Step(c, "readers", "watch") /\ UNCHANGED verdict
     \/ Fault("panic") /\ Bail(c, "readers", "panic")
  /\ UNCHANGED <<supVars, callVars, entered, cont, watchVars, abandoned,
                 boxVars>>

\* run_inner finishes the group before it looks at the result of the wait.
SkipFinish == "report"
AfterWait  == "finish"

\* The clock, as both watchdogs read it.
NeverDue(c) == FALSE
Due(c) == c \in expired

\* The two checks at the top of the capture loop, in the code's order.
WatchCapture(c) ==
  LET tooMuch == G(c) \in over /\ c \notin killed
      tooLate == Due(c) /\ c \notin killed
  IN  /\ \/ tooMuch /\ CallKillAll(c, "watch", "overflow")
         \/ ~tooMuch /\ tooLate /\ CallKillAll(c, "watch", "deadline")
         \/ ~tooMuch /\ ~tooLate /\ Step(c, "watch", "poll") /\ UNCHANGED cont
      /\ UNCHANGED <<supVars, callVars, entered, watchVars, verdict,
                     abandoned, boxVars>>

\* child.try_wait.  An exit is seen before the Inherit loop looks at the
\* clock; the Capture loop has looked at it already.
PollChild(c) ==
  LET g == G(c) IN
  /\ \/ /\ Exited(g)
        /\ Step(c, "poll", IF Capturing(c) THEN "join" ELSE AfterWait)
        /\ UNCHANGED cont
     \/ ~Exited(g) /\ Capturing(c) /\ Step(c, "poll", "watch") /\ UNCHANGED cont
     \/ /\ ~Exited(g) /\ ~Capturing(c) /\ Due(c)
        /\ CallKillAll(c, "poll", "timeout")
     \/ /\ Fault("monitor")
        /\ CallKillAll(c, "poll", IF Capturing(c) THEN "monitorCapture"
                                                  ELSE "monitorInherit")
  /\ UNCHANGED <<supVars, callVars, entered, watchVars, verdict, abandoned,
                 boxVars>>

\* child.wait after a kill.
AwaitChild(c) ==
  /\ sup = "alive" /\ pc[c] = "await" /\ Exited(G(c))
  /\ \/ /\ cont[c] = "timeout"
        /\ pc' = [pc EXCEPT ![c] = AfterWait]
        /\ wall' = wall \cup {c}
        /\ UNCHANGED verdict
     \/ /\ cont[c] = "timeout" /\ Fault("monitor")
        /\ Bail(c, "await", "io")
        /\ UNCHANGED wall
     \/ /\ cont[c] = "monitorInherit"
        /\ Bail(c, "await", "io")
        /\ UNCHANGED wall
     \/ /\ cont[c] = "monitorCapture"
        /\ pc' = [pc EXCEPT ![c] = AfterWait]
        /\ verdict' = [verdict EXCEPT ![c] = "io"]
        /\ UNCHANGED wall
  /\ UNCHANGED <<supVars, callVars, entered, cont, expired, killed, abandoned,
                 boxVars>>

\* What the over-limit flags say once both readers are joined.
OverLimitBeforeJoin(c) == c \in killed
OverLimit(c) == G(c) \in over

\* Both readers have met end of file, or failed; the flags are read again.
JoinReaders(c) ==
  LET g == G(c) IN
  /\ g \notin piped /\ (g \in flood => g \in over)
  /\ Step(c, "join", AfterWait)
  /\ \/ /\ OverLimit(c) /\ g \in flood
        /\ verdict' = [verdict EXCEPT ![c] = "setup"]
     \/ ~OverLimit(c) /\ UNCHANGED verdict
     \/ Fault("monitor") /\ verdict' = [verdict EXCEPT ![c] = "io"]
  /\ UNCHANGED <<supVars, callVars, entered, cont, watchVars, abandoned,
                 boxVars>>

-----------------------------------------------------------------------------
(* ResourceGroup::kill_all and its seven callers.                          *)

\* The watchdog remembers that it killed for the clock.
ForgetDeadline(c) == FALSE
DeadlineKill(c) == cont[c] = "deadline"

\* What the caller does with Ok(()).
KillSucceeded(c) ==
  /\ pc' = [pc EXCEPT ![c] =
       CASE cont[c] \in {"timeout", "monitorInherit", "monitorCapture"}
                                                      -> "await"
         [] cont[c] \in {"overflow", "deadline"}      -> "poll"
         [] cont[c] = "finish"                        -> "read"
         [] cont[c] = "drop"                          -> "discard"]
  /\ killed' = IF cont[c] \in {"overflow", "deadline"} THEN killed \cup {c} ELSE killed
  /\ wall'   = IF DeadlineKill(c) THEN wall \cup {c} ELSE wall
  /\ UNCHANGED <<verdict, abandoned>>

\* What the caller does with Err(_): `?` leaves run_inner from the Inherit
\* watchdog and from finish, but only capture_child_output from the Capture
\* watchdog; the other callers ignore it.
KillFailed(c) ==
  /\ pc' = [pc EXCEPT ![c] =
       CASE cont[c] \in {"timeout", "finish"}              -> GroupDropped
         [] cont[c] \in {"overflow", "deadline"}             -> AfterWait
         [] cont[c] \in {"monitorInherit", "monitorCapture"} -> "await"
         [] cont[c] = "drop"                                 -> "discard"]
  /\ verdict' = [verdict EXCEPT ![c] =
       IF cont[c] \in {"timeout", "finish", "overflow", "deadline"}
       THEN "setup" ELSE @]
  /\ abandoned' = IF cont[c] = "drop" THEN abandoned \cup {c} ELSE abandoned
  /\ UNCHANGED <<killed, wall>>

\* cgroup.kill reaches every process in the cgroup, the supervisor included.
WriteKill(c) ==
  /\ sup = "alive" /\ pc[c] = "kill"
  /\ \/ /\ pc' = [pc EXCEPT ![c] = "reap"]
        /\ KillBox(G(c), "suicide")
        /\ UNCHANGED <<killed, wall, verdict, abandoned>>
     \/ /\ Fault("kill")
        /\ KillFailed(c)
        /\ UNCHANGED <<sup, live, dying>>
  /\ UNCHANGED <<supAt, rlimits, lock, callVars, entered, cont,
                 expired, dir, events, home, status, pipeVars>>

\* The polling loop: Ok once the tree is empty, Err after CLEANUP_TIMEOUT.
ReapGroup(c) ==
  /\ sup = "alive" /\ pc[c] = "reap"
  /\ \/ TreeEmpty(G(c)) /\ KillSucceeded(c)
     \/ ~TreeEmpty(G(c)) /\ Fault("late") /\ KillFailed(c)
     \/ Fault("scan") /\ KillFailed(c)
  /\ UNCHANGED <<supVars, callVars, entered, cont, expired, boxVars>>

\* The Capture callers also signal the child after kill_all; by then it is
\* gone, or kill_all has failed and the child is killed on its own.
KillCaptureChild(c) ==
  /\ sup = "alive" /\ pc[c] = "await" /\ cont[c] = "monitorCapture"
  /\ Bwrap \in live[G(c)]
  /\ Signal(G(c), {Bwrap})
  /\ UNCHANGED <<supVars, pc, callVars, entered, cont, watchVars, verdict,
                 abandoned, dir, events, home, status, pipeVars>>

-----------------------------------------------------------------------------
(* ResourceGroup::finish and Drop.                                         *)

\* finish looks for surviving processes before it reads the counters.
AssumeEmpty(c) == TRUE
NothingLeft(c) == TreeEmpty(G(c))

FinishScan(c) ==
  /\ \/ NothingLeft(c) /\ Step(c, "finish", "read") /\ UNCHANGED <<cont, verdict>>
     \/ ~NothingLeft(c) /\ CallKillAll(c, "finish", "finish") /\ UNCHANGED verdict
     \/ Fault("scan") /\ Bail(c, "finish", "setup") /\ UNCHANGED cont
  /\ UNCHANGED <<supVars, callVars, entered, watchVars, abandoned, boxVars>>

FinishRead(c) ==
  /\ \/ /\ Step(c, "read", "remove")
        /\ report' = [report EXCEPT ![c] = events[G(c)]]
        /\ UNCHANGED verdict
     \/ Fault("scan") /\ Bail(c, "read", "setup") /\ UNCHANGED report
  /\ UNCHANGED <<supVars, phase, mode, restore, outcome, entered, cont,
                 watchVars, abandoned, boxVars>>

FinishRemove(c) ==
  /\ \/ /\ TreeEmpty(G(c))
        /\ Step(c, "remove", "report")
        /\ dir' = [dir EXCEPT ![G(c)] = "removed"]
        /\ UNCHANGED verdict
     \/ /\ ~TreeEmpty(G(c)) \/ Fault("scan")
        /\ Bail(c, "remove", "setup")
        /\ UNCHANGED dir
  /\ UNCHANGED <<supVars, callVars, entered, cont, watchVars, abandoned,
                 events, procVars, pipeVars>>

\* run_result? and ResourceReport::resource_error, in their order.
ResourceVerdict(c) ==
  CASE verdict[c] # "none"          -> verdict[c]
    [] OTHER ->
  CASE c \in wall                      -> "walltime"
    [] OTHER ->
  CASE "memory" \in report[c]       -> "memory"
    [] OTHER ->
  CASE "pids" \in report[c]         -> "processes"
    [] OTHER ->
  IF status[G(c)] = "fsize" THEN "filesize" ELSE "ok"

ReportRun(c) ==
  /\ Step(c, "report", "return")
  /\ verdict' = [verdict EXCEPT ![c] = ResourceVerdict(c)]
  /\ UNCHANGED <<supVars, callVars, entered, cont, watchVars, abandoned,
                 boxVars>>

\* Drop kills the group, but not while the supervisor is in it.
KillRegardless == "kill"
RestoreFailed  == "discard"
KillForgotten  == "discard"
RestoreDone    == "kill"

DropGroup(c) ==
  /\ \/ /\ c \notin entered
        /\ Step(c, "drop", RestoreDone)
        /\ cont' = [cont EXCEPT ![c] = "drop"]
        /\ UNCHANGED <<supAt, entered, abandoned>>
     \/ /\ c \in entered
        /\ Step(c, "drop", RestoreDone)
        /\ cont' = [cont EXCEPT ![c] = "drop"]
        /\ supAt' = restore[c]
        /\ entered' = entered \ {c}
        /\ UNCHANGED abandoned
     \/ /\ c \in entered /\ Fault("restore")
        /\ Step(c, "drop", RestoreFailed)
        /\ abandoned' = abandoned \cup {c}
        /\ UNCHANGED <<supAt, entered, cont>>
  /\ UNCHANGED <<sup, rlimits, lock, callVars, watchVars, verdict,
                 boxVars>>

DropRemove(c) ==
  /\ Step(c, "discard", "return")
  /\ \/ TreeEmpty(G(c)) /\ dir' = [dir EXCEPT ![G(c)] = "removed"]
     \/ (~TreeEmpty(G(c)) \/ Fault("scan")) /\ UNCHANGED dir
  /\ UNCHANGED <<supVars, callVars, entered, cont, watchVars, verdict,
                 abandoned, events, procVars, pipeVars>>

CallerStep(c) ==
  \/ LockRun(c)      \/ PlanRun(c)      \/ ReturnRun(c)
  \/ PrepareGroup(c) \/ OpenMounts(c)   \/ ApplyInheritedLimits(c)
  \/ EnterGroup(c)   \/ SpawnChild(c)   \/ RestoreSupervisor(c)
  \/ AbortChild(c)   \/ StartReaders(c) \/ WatchCapture(c) \/ PollChild(c)
  \/ AwaitChild(c)   \/ JoinReaders(c)  \/ WriteKill(c)    \/ ReapGroup(c)
  \/ KillCaptureChild(c)
  \/ FinishScan(c)   \/ FinishRead(c)   \/ FinishRemove(c)
  \/ ReportRun(c)    \/ DropGroup(c)    \/ DropRemove(c)

-----------------------------------------------------------------------------
(* The sandboxed processes, the reader threads, the clock and the kernel.  *)

\* What only the supervisor's threads write.
threadVars == <<supVars, pc, callVars, entered, cont, watchVars, verdict,
                abandoned>>

\* A process forks; its child is in its parent's cgroup.
BoxFork(g) ==
  /\ live[g] # {}
  /\ \E k \in Kids \ InBox(g) : live' = [live EXCEPT ![g] = @ \cup {k}]
  /\ UNCHANGED <<threadVars, dir, events, home, dying, status, pipeVars>>

\* A process exits on its own; Bubblewrap's status is its program's.
BoxExit(g, p) ==
  /\ p \in live[g]
  /\ live' = [live EXCEPT ![g] = @ \ {p}]
  /\ \/ p = Bwrap /\ \E s \in Exits : status' = [status EXCEPT ![g] = s]
     \/ p # Bwrap /\ UNCHANGED status
  /\ UNCHANGED <<threadVars, dir, events, home, dying, pipeVars>>

\* A killed process is gone.
KilledExit(g, p) ==
  /\ p \in dying[g]
  /\ dying' = [dying EXCEPT ![g] = @ \ {p}]
  /\ status' = IF p = Bwrap THEN [status EXCEPT ![g] = "killed"] ELSE status
  /\ UNCHANGED <<threadVars, dir, events, home, live, pipeVars>>

\* --die-with-parent: the namespace's init dies with Bubblewrap, and the
\* kernel kills whatever the namespace still holds.
NamespaceDies(g) ==
  /\ Exited(g) /\ live[g] # {}
  /\ Signal(g, Kids)
  /\ UNCHANGED <<threadVars, dir, events, home, status, pipeVars>>

\* --die-with-parent: Bubblewrap dies with the supervisor.
WithoutParentDeath == FALSE
DieWithParent == TRUE

ParentDies(g) ==
  /\ DieWithParent
  /\ sup # "alive" /\ Bwrap \in live[g]
  /\ Signal(g, {Bwrap})
  /\ UNCHANGED <<threadVars, dir, events, home, status, pipeVars>>

\* Captured output beyond MAX_CAPTURED_OUTPUT is in a pipe.
FloodPipe(g) ==
  /\ Fault("flood") /\ g \in piped /\ live[g] # {} /\ g \notin flood
  /\ flood' = flood \cup {g}
  /\ UNCHANGED <<threadVars, dir, events, procVars, piped, over>>

\* read_capped, in a reader thread, meets the excess or fails to read; it
\* raises the same flag for both.
RaiseOverLimit(g) ==
  /\ sup = "alive" /\ g \notin over
  /\ g \in flood \/ (Fault("monitor") /\ g \in piped)
  /\ phase[g[1]] = g[2]
  /\ pc[g[1]] \in {"watch", "poll", "kill", "reap", "await", "join"}
  /\ over' = over \cup {g}
  /\ UNCHANGED <<threadVars, dir, events, procVars, piped, flood>>

\* The last write end is closed: Bubblewrap held one to its end.
PipesClose(g) ==
  /\ g \in piped /\ Exited(g)
  /\ piped' = piped \ {g}
  /\ UNCHANGED <<threadVars, dir, events, procVars, flood, over>>

\* The controllers count a refused charge or a refused fork.
LimitEvent(g) ==
  /\ Occupied(g) \/ (supAt = g /\ sup = "alive")
  /\ \E e \in (LimitEvents \cap Faults) \ events[g] :
       events' = [events EXCEPT ![g] = @ \cup {e}]
  /\ UNCHANGED <<threadVars, dir, procVars, pipeVars>>

\* memory.oom.group: the out-of-memory killer takes the whole cgroup.
OomKill(g) ==
  /\ Fault("oom")
  /\ \/ supAt = g /\ sup = "alive"
     \/ \E h \in Group : home[h] = g /\ live[h] # {}
  /\ KillBox(g, "oom")
  /\ events' = [events EXCEPT ![g] = @ \cup {"memory"}]
  /\ UNCHANGED <<supAt, rlimits, lock, pc, callVars, entered, cont,
                 watchVars, verdict, abandoned, dir, home, status, pipeVars>>

WatchdogExpires(c) ==
  /\ sup = "alive" /\ pc[c] \in {"watch", "poll"} /\ c \notin expired
  /\ expired' = expired \cup {c}
  /\ UNCHANGED <<supVars, pc, callVars, entered, cont, killed, wall, verdict,
                 abandoned, boxVars>>

SupervisorCrash ==
  /\ Fault("crash") /\ sup = "alive"
  /\ sup' = "crashed"
  /\ UNCHANGED <<supAt, rlimits, lock, pc, callVars, entered, cont,
                 watchVars, verdict, abandoned, boxVars>>

BoxStep(g) ==
  \/ BoxFork(g)
  \/ \E p \in Procs : BoxExit(g, p) \/ KilledExit(g, p)
  \/ NamespaceDies(g) \/ ParentDies(g)
  \/ FloodPipe(g)     \/ RaiseOverLimit(g) \/ PipesClose(g)
  \/ LimitEvent(g)    \/ OomKill(g)

\* Nothing is left to do once every call has returned or the process is dead.
Terminated ==
  /\ sup # "alive" \/ \A c \in Callers : pc[c] = "done"
  /\ UNCHANGED vars

Next ==
  \/ \E c \in Callers : CallerStep(c) \/ WatchdogExpires(c)
  \/ \E g \in Group : BoxStep(g)
  \/ SupervisorCrash
  \/ Terminated

Spec == Init /\ [][Next]_vars

\* The scheduler runs every thread, time passes, a killed process exits, the
\* kernel keeps the promise of --die-with-parent, and a pipe nobody holds
\* reports end of file.  Nothing makes a sandboxed program exit or fork.
Fairness ==
  /\ \A c \in Callers : WF_vars(CallerStep(c)) /\ WF_vars(WatchdogExpires(c))
  /\ \A g \in Group :
       /\ \A p \in Procs : WF_vars(KilledExit(g, p))
       /\ WF_vars(NamespaceDies(g)) /\ WF_vars(ParentDies(g))
       /\ WF_vars(g \in flood /\ RaiseOverLimit(g))
       /\ WF_vars(InBox(g) = {} /\ PipesClose(g))

FairSpec == Spec /\ Fairness

-----------------------------------------------------------------------------
(* Properties.                                                             *)

SupTypeOK ==
  /\ sup \in {"alive", "crashed", "oom", "suicide"}
  /\ supAt \in Place /\ rlimits \in {"caller", "lowered"}
  /\ lock \in Callers \cup {None, Poisoned}

CallTypeOK ==
  /\ pc \in [Callers -> PCs] /\ phase \in [Callers -> Phases]
  /\ mode \in [Callers -> {"inherit", "capture"}]
  /\ restore \in [Callers -> Place]
  /\ cont \in [Callers -> Conts]
  /\ entered \subseteq Callers /\ expired \subseteq Callers
  /\ killed \subseteq Callers /\ wall \subseteq Callers
  /\ abandoned \subseteq Callers
  /\ report \in [Callers -> SUBSET LimitEvents]
  /\ verdict \in [Callers -> Verdicts] /\ outcome \in [Callers -> Verdicts]

BoxTypeOK ==
  /\ dir \in [Group -> {"absent", "ready", "removed"}]
  /\ events \in [Group -> SUBSET LimitEvents]
  /\ home \in [Group -> Place \cup {None}]
  /\ live \in [Group -> SUBSET Procs] /\ dying \in [Group -> SUBSET Procs]
  /\ status \in [Group -> {"none", "running", "killed"} \cup Exits]
  /\ piped \subseteq Group /\ flood \subseteq Group /\ over \subseteq Group

\* The range of every variable.
TypeOK == SupTypeOK /\ CallTypeOK /\ BoxTypeOK

\* Every sandbox is born in the cgroup made for it, whatever the other threads
\* of the process do: the supervisor is moved as a whole, so a second thread
\* between enter_current_process and spawn would put its child, with the first
\* one's limits and the first one's fate, into the wrong cgroup.
BornInOwnCgroup == \A g \in Group : status[g] # "none" => home[g] = g

\* The supervisor never writes cgroup.kill of the cgroup it is in itself,
\* not even in Drop after it could not be moved back.
SupervisorSparesItself == sup # "suicide"

\* When run_inner has delivered a result (a preflight that lets the build
\* start, or a caller's Ok), no process of it is left and its cgroup is gone.
DeliveredMeansGone ==
  \A c \in Callers, ph \in Phases :
    (outcome[c] = "ok" \/ (ph = "preflight" /\ phase[c] = "main"))
      => InBox(<<c, ph>>) = {} /\ dir[<<c, ph>>] = "removed"

\* The requested program is started only after this call's own preflight
\* exited successfully without meeting a limit.
PreflightFirst ==
  \A c \in Callers :
    status[<<c, "main">>] # "none" => /\ status[<<c, "preflight">>] = "ok"
                                      /\ events[<<c, "preflight">>] = {}

\* An Ok outcome hides no limit event: the counters are read when nothing in
\* the cgroup can raise them any more.
NoMaskedLimitEvent ==
  \A c \in Callers : outcome[c] = "ok" => events[<<c, "main">>] = {}

\* The status of an Ok outcome is the program's own, never that of a child
\* the watchdog or the kernel killed.
DeliveredStatusIsGenuine ==
  \A c \in Callers : outcome[c] = "ok" => status[<<c, "main">>] \in {"ok", "fail"}

\* A captured Ok outcome holds all that the program wrote.
NoTruncatedCapture ==
  \A c \in Callers :
    outcome[c] = "ok" /\ mode[c] = "capture" => <<c, "main">> \notin flood

\* Whatever went wrong, a call that has returned leaves a process behind only
\* if Drop itself could not restore the supervisor, kill, or outwait them.
ErrorLeavesNothing ==
  \A c \in Callers :
    pc[c] = "done" /\ c \notin abandoned =>
      \A ph \in Phases : InBox(<<c, ph>>) = {}

\* Between calls the supervisor is back where it was started, unless a Drop
\* has failed to move it.
SupervisorComesHome ==
  lock \notin Callers /\ abandoned = {} => supAt = Outside

\* wait_child_inherit calls child.wait with no deadline once try_wait has
\* failed, and ignores whether kill_all worked: a child nobody has killed.
Wedged(c) ==
  pc[c] = "await" /\ cont[c] = "monitorInherit" /\ Bwrap \in live[G(c)]

\* Each call returns, within the watchdog's budget and CLEANUP_TIMEOUT, or
\* waits for a child that both try_wait and kill_all have failed on.
EveryCallReturns ==
  \A c \in Callers :
    (pc[c] # "idle") ~> (pc[c] = "done" \/ sup # "alive" \/ Wedged(c))

\* A dead supervisor's sandboxes die with it.
OrphansDie ==
  \A g \in Group : (sup # "alive") ~> (InBox(g) = {})

-----------------------------------------------------------------------------
(* The call as its caller sees it.                                         *)

Stage(c) ==
  CASE pc[c] = "idle"                            -> "idle"
    [] pc[c] = "done"  -> IF outcome[c] = "ok" THEN "delivered" ELSE "refused"
    [] pc[c] \notin {"idle", "done"} ->
         IF phase[c] = "main" THEN "building" ELSE "probing"

Promise == INSTANCE CagedRun WITH
  stage    <- [c \in Callers |-> Stage(c)],
  probe    <- [c \in Callers |-> InBox(<<c, "preflight">>)],
  build    <- [c \in Callers |-> InBox(<<c, "main">>)],
  limitHit <- [c \in Callers |-> events[<<c, "main">>] # {}]

\* Every behaviour of the supervisor is one the caller was promised.
ImplementsPromise == Promise!Spec

-----------------------------------------------------------------------------
(* What the repository's documents and comments say.                       *)

\* backend.rs:224-226: "policy construction and mount validation still run at
\* the caller's limits".
MountsValidatedAtCallerLimits ==
  \A c \in Callers : pc[c] = "mounts" => rlimits = "caller"
=============================================================================
