-------------------------- MODULE SandboxRunProofs --------------------------
(***************************************************************************)
(* What holds of SandboxRun for every set of callers and processes and     *)
(* every kind of failure.  Part 1: the core invariant is inductive, and    *)
(* with it every sandbox is born in its own cgroup, the supervisor never   *)
(* kills itself, and between calls it is back where it was started.        *)
(* Part 2: what a caller may conclude from the outcome of run.  Part 3:    *)
(* SandboxRun implements CagedRun.                                         *)
(***************************************************************************)
EXTENDS SandboxRunInv, TLAPS

-----------------------------------------------------------------------------
(* Part 1: the core invariant *)

\* A call's current cgroup is one of the model's.
LEMMA GroupOf ==
  ASSUME TypeOK, NEW c \in Callers
  PROVE  G(c) \in Group
  BY DEF TypeOK, CallTypeOK, G, Group, Phases

\* The initial states are well typed.
LEMMA TypeInit == Init => TypeOK
<1> SUFFICES ASSUME Init PROVE TypeOK
  OBVIOUS
<1> USE DEF Init
<1>1. SupTypeOK
  BY DEF SupTypeOK, Place
<1>2. CallTypeOK
  BY DEF CallTypeOK, PCs, Phases, Place, Conts, LimitEvents, Verdicts
<1>3. BoxTypeOK
  BY DEF BoxTypeOK, LimitEvents, Procs, Exits
<1> QED
  BY <1>1, <1>2, <1>3 DEF TypeOK

\* A step keeps the supervisor's own variables in range.
LEMMA SupTypeNext == TypeOK /\ [Next]_vars => SupTypeOK'
<1> SUFFICES ASSUME TypeOK, [Next]_vars PROVE SupTypeOK'
  OBVIOUS
<1> USE DEF vars, supVars, watchVars, callVars, procVars, pipeVars, boxVars,
            threadVars, Step, Fault, TypeOK, SupTypeOK, CallTypeOK
<1>1. ASSUME NEW c \in Callers, LockRun(c) PROVE SupTypeOK'
  BY <1>1 DEF LockRun, LockFree, Finish
<1>2. ASSUME NEW c \in Callers, PlanRun(c) PROVE SupTypeOK'
  BY <1>2 DEF PlanRun, Finish
<1>3. ASSUME NEW c \in Callers, ReturnRun(c) PROVE SupTypeOK'
  BY <1>3 DEF ReturnRun, Finish, PreflightVerified
<1>4. ASSUME NEW c \in Callers, PrepareGroup(c) PROVE SupTypeOK'
  BY <1>4 DEF PrepareGroup
<1>5. ASSUME NEW c \in Callers, OpenMounts(c) PROVE SupTypeOK'
  BY <1>5 DEF OpenMounts, Bail, GroupDropped
<1>6. ASSUME NEW c \in Callers, ApplyInheritedLimits(c) PROVE SupTypeOK'
  BY <1>6 DEF ApplyInheritedLimits, Bail, GroupDropped
<1>7. ASSUME NEW c \in Callers, EnterGroup(c) PROVE SupTypeOK'
  BY <1>7, GroupOf DEF EnterGroup, Bail, GroupDropped, Place
<1>8. ASSUME NEW c \in Callers, SpawnChild(c) PROVE SupTypeOK'
  BY <1>8 DEF SpawnChild, Bail, GroupDropped
<1>9. ASSUME NEW c \in Callers, RestoreSupervisor(c) PROVE SupTypeOK'
  BY <1>9 DEF RestoreSupervisor
<1>10. ASSUME NEW c \in Callers, AbortChild(c) PROVE SupTypeOK'
  BY <1>10 DEF AbortChild, GroupDropped, Signal
<1>11. ASSUME NEW c \in Callers, StartReaders(c) PROVE SupTypeOK'
  BY <1>11 DEF StartReaders, Bail, GroupDropped
<1>12. ASSUME NEW c \in Callers, WatchCapture(c) PROVE SupTypeOK'
  BY <1>12 DEF WatchCapture, CallKillAll, Due
<1>13. ASSUME NEW c \in Callers, PollChild(c) PROVE SupTypeOK'
  BY <1>13 DEF PollChild, CallKillAll, Due, AfterWait
<1>14. ASSUME NEW c \in Callers, AwaitChild(c) PROVE SupTypeOK'
  BY <1>14 DEF AwaitChild, Bail, GroupDropped, AfterWait
<1>15. ASSUME NEW c \in Callers, JoinReaders(c) PROVE SupTypeOK'
  BY <1>15 DEF JoinReaders, AfterWait, OverLimit
<1>16. ASSUME NEW c \in Callers, WriteKill(c) PROVE SupTypeOK'
  BY <1>16 DEF WriteKill, KillBox, KillFailed, GroupDropped, AfterWait
<1>17. ASSUME NEW c \in Callers, ReapGroup(c) PROVE SupTypeOK'
  BY <1>17
     DEF ReapGroup, KillSucceeded, KillFailed, GroupDropped, AfterWait,
         DeadlineKill
<1>18. ASSUME NEW c \in Callers, KillCaptureChild(c) PROVE SupTypeOK'
  BY <1>18 DEF KillCaptureChild, Signal
<1>19. ASSUME NEW c \in Callers, FinishScan(c) PROVE SupTypeOK'
  BY <1>19 DEF FinishScan, CallKillAll, Bail, GroupDropped, NothingLeft
<1>20. ASSUME NEW c \in Callers, FinishRead(c) PROVE SupTypeOK'
  BY <1>20 DEF FinishRead, Bail, GroupDropped
<1>21. ASSUME NEW c \in Callers, FinishRemove(c) PROVE SupTypeOK'
  BY <1>21 DEF FinishRemove, Bail, GroupDropped
<1>22. ASSUME NEW c \in Callers, ReportRun(c) PROVE SupTypeOK'
  BY <1>22 DEF ReportRun, ResourceVerdict
<1>23. ASSUME NEW c \in Callers, DropGroup(c) PROVE SupTypeOK'
  BY <1>23 DEF DropGroup, RestoreFailed, RestoreDone
<1>24. ASSUME NEW c \in Callers, DropRemove(c) PROVE SupTypeOK'
  BY <1>24 DEF DropRemove
<1>25. ASSUME NEW c \in Callers, WatchdogExpires(c) PROVE SupTypeOK'
  BY <1>25 DEF WatchdogExpires
<1>26. ASSUME NEW g \in Group, BoxFork(g) PROVE SupTypeOK'
  BY <1>26 DEF BoxFork
<1>27. ASSUME NEW g \in Group, NamespaceDies(g) PROVE SupTypeOK'
  BY <1>27 DEF NamespaceDies, Signal
<1>28. ASSUME NEW g \in Group, ParentDies(g) PROVE SupTypeOK'
  BY <1>28 DEF ParentDies, Signal
<1>29. ASSUME NEW g \in Group, FloodPipe(g) PROVE SupTypeOK'
  BY <1>29 DEF FloodPipe
<1>30. ASSUME NEW g \in Group, RaiseOverLimit(g) PROVE SupTypeOK'
  BY <1>30 DEF RaiseOverLimit
<1>31. ASSUME NEW g \in Group, PipesClose(g) PROVE SupTypeOK'
  BY <1>31 DEF PipesClose
<1>32. ASSUME NEW g \in Group, LimitEvent(g) PROVE SupTypeOK'
  BY <1>32 DEF LimitEvent
<1>33. ASSUME NEW g \in Group, OomKill(g) PROVE SupTypeOK'
  BY <1>33 DEF OomKill, KillBox
<1>34. ASSUME NEW g \in Group, NEW p \in Procs, BoxExit(g, p) PROVE SupTypeOK'
  BY <1>34 DEF BoxExit
<1>35. ASSUME NEW g \in Group, NEW p \in Procs, KilledExit(g, p)
       PROVE  SupTypeOK'
  BY <1>35 DEF KilledExit
<1>36. ASSUME SupervisorCrash PROVE SupTypeOK'
  BY <1>36 DEF SupervisorCrash
<1>37. CASE UNCHANGED vars
  BY <1>37
<1> QED
  BY <1>1, <1>2, <1>3, <1>4, <1>5, <1>6, <1>7, <1>8, <1>9, <1>10, <1>11, <1>12,
     <1>13, <1>14, <1>15, <1>16, <1>17, <1>18, <1>19, <1>20, <1>21, <1>22,
     <1>23, <1>24, <1>25, <1>26, <1>27, <1>28, <1>29, <1>30, <1>31, <1>32,
     <1>33, <1>34, <1>35, <1>36, <1>37
     DEF Next, CallerStep, BoxStep, Terminated

\* A step keeps every thread's local variables in range.
LEMMA CallTypeNext == TypeOK /\ [Next]_vars => CallTypeOK'
<1> SUFFICES ASSUME TypeOK, [Next]_vars PROVE CallTypeOK'
  OBVIOUS
<1> USE DEF vars, supVars, watchVars, callVars, procVars, pipeVars, boxVars,
            threadVars, Step, Fault, TypeOK, CallTypeOK, PCs, Verdicts, Errors
<1>1. ASSUME NEW c \in Callers, LockRun(c) PROVE CallTypeOK'
  BY <1>1 DEF LockRun, LockFree, Finish
<1>2. ASSUME NEW c \in Callers, PlanRun(c) PROVE CallTypeOK'
  BY <1>2 DEF PlanRun, Finish
<1>3. ASSUME NEW c \in Callers, ReturnRun(c) PROVE CallTypeOK'
  BY <1>3 DEF ReturnRun, Finish, PreflightVerified, Phases
<1>4. ASSUME NEW c \in Callers, PrepareGroup(c) PROVE CallTypeOK'
  BY <1>4 DEF PrepareGroup, SupTypeOK
<1>5. ASSUME NEW c \in Callers, OpenMounts(c) PROVE CallTypeOK'
  BY <1>5 DEF OpenMounts, Bail, GroupDropped
<1>6. ASSUME NEW c \in Callers, ApplyInheritedLimits(c) PROVE CallTypeOK'
  BY <1>6 DEF ApplyInheritedLimits, Bail, GroupDropped
<1>7. ASSUME NEW c \in Callers, EnterGroup(c) PROVE CallTypeOK'
  BY <1>7 DEF EnterGroup, Bail, GroupDropped
<1>8. ASSUME NEW c \in Callers, SpawnChild(c) PROVE CallTypeOK'
  BY <1>8 DEF SpawnChild, Bail, GroupDropped
<1>9. ASSUME NEW c \in Callers, RestoreSupervisor(c) PROVE CallTypeOK'
  BY <1>9 DEF RestoreSupervisor
<1>10. ASSUME NEW c \in Callers, AbortChild(c) PROVE CallTypeOK'
  BY <1>10 DEF AbortChild, GroupDropped, Signal
<1>11. ASSUME NEW c \in Callers, StartReaders(c) PROVE CallTypeOK'
  BY <1>11 DEF StartReaders, Bail, GroupDropped
<1>12. ASSUME NEW c \in Callers, WatchCapture(c) PROVE CallTypeOK'
  BY <1>12 DEF WatchCapture, CallKillAll, Due, Conts
<1>13. ASSUME NEW c \in Callers, PollChild(c) PROVE CallTypeOK'
  BY <1>13 DEF PollChild, CallKillAll, Due, AfterWait, Conts
<1>14. ASSUME NEW c \in Callers, AwaitChild(c) PROVE CallTypeOK'
  BY <1>14 DEF AwaitChild, Bail, GroupDropped, AfterWait
<1>15. ASSUME NEW c \in Callers, JoinReaders(c) PROVE CallTypeOK'
  BY <1>15 DEF JoinReaders, AfterWait, OverLimit
<1>16. ASSUME NEW c \in Callers, WriteKill(c) PROVE CallTypeOK'
  BY <1>16 DEF WriteKill, KillBox, KillFailed, GroupDropped, AfterWait, Conts
<1>17. ASSUME NEW c \in Callers, ReapGroup(c) PROVE CallTypeOK'
  BY <1>17
     DEF ReapGroup, KillSucceeded, KillFailed, GroupDropped, AfterWait,
         DeadlineKill, Conts
<1>18. ASSUME NEW c \in Callers, KillCaptureChild(c) PROVE CallTypeOK'
  BY <1>18 DEF KillCaptureChild, Signal
<1>19. ASSUME NEW c \in Callers, FinishScan(c) PROVE CallTypeOK'
  BY <1>19 DEF FinishScan, CallKillAll, Bail, GroupDropped, NothingLeft, Conts
<1>20. ASSUME NEW c \in Callers, FinishRead(c) PROVE CallTypeOK'
  BY <1>20, GroupOf DEF FinishRead, Bail, GroupDropped, BoxTypeOK
<1>21. ASSUME NEW c \in Callers, FinishRemove(c) PROVE CallTypeOK'
  BY <1>21 DEF FinishRemove, Bail, GroupDropped
<1>22. ASSUME NEW c \in Callers, ReportRun(c) PROVE CallTypeOK'
  BY <1>22 DEF ReportRun, ResourceVerdict
<1>23. ASSUME NEW c \in Callers, DropGroup(c) PROVE CallTypeOK'
  BY <1>23 DEF DropGroup, RestoreFailed, RestoreDone, Conts
<1>24. ASSUME NEW c \in Callers, DropRemove(c) PROVE CallTypeOK'
  BY <1>24 DEF DropRemove
<1>25. ASSUME NEW c \in Callers, WatchdogExpires(c) PROVE CallTypeOK'
  BY <1>25 DEF WatchdogExpires
<1>26. ASSUME NEW g \in Group, BoxFork(g) PROVE CallTypeOK'
  BY <1>26 DEF BoxFork
<1>27. ASSUME NEW g \in Group, NamespaceDies(g) PROVE CallTypeOK'
  BY <1>27 DEF NamespaceDies, Signal
<1>28. ASSUME NEW g \in Group, ParentDies(g) PROVE CallTypeOK'
  BY <1>28 DEF ParentDies, Signal
<1>29. ASSUME NEW g \in Group, FloodPipe(g) PROVE CallTypeOK'
  BY <1>29 DEF FloodPipe
<1>30. ASSUME NEW g \in Group, RaiseOverLimit(g) PROVE CallTypeOK'
  BY <1>30 DEF RaiseOverLimit
<1>31. ASSUME NEW g \in Group, PipesClose(g) PROVE CallTypeOK'
  BY <1>31 DEF PipesClose
<1>32. ASSUME NEW g \in Group, LimitEvent(g) PROVE CallTypeOK'
  BY <1>32 DEF LimitEvent
<1>33. ASSUME NEW g \in Group, OomKill(g) PROVE CallTypeOK'
  BY <1>33 DEF OomKill, KillBox
<1>34. ASSUME NEW g \in Group, NEW p \in Procs, BoxExit(g, p) PROVE CallTypeOK'
  BY <1>34 DEF BoxExit
<1>35. ASSUME NEW g \in Group, NEW p \in Procs, KilledExit(g, p)
       PROVE  CallTypeOK'
  BY <1>35 DEF KilledExit
<1>36. ASSUME SupervisorCrash PROVE CallTypeOK'
  BY <1>36 DEF SupervisorCrash
<1>37. CASE UNCHANGED vars
  BY <1>37
<1> QED
  BY <1>1, <1>2, <1>3, <1>4, <1>5, <1>6, <1>7, <1>8, <1>9, <1>10, <1>11, <1>12,
     <1>13, <1>14, <1>15, <1>16, <1>17, <1>18, <1>19, <1>20, <1>21, <1>22,
     <1>23, <1>24, <1>25, <1>26, <1>27, <1>28, <1>29, <1>30, <1>31, <1>32,
     <1>33, <1>34, <1>35, <1>36, <1>37
     DEF Next, CallerStep, BoxStep, Terminated

\* A step keeps the state of every cgroup and sandbox in range.
LEMMA BoxTypeNext == TypeOK /\ [Next]_vars => BoxTypeOK'
<1> SUFFICES ASSUME TypeOK, [Next]_vars PROVE BoxTypeOK'
  OBVIOUS
<1> USE DEF vars, supVars, watchVars, callVars, procVars, pipeVars, boxVars,
            threadVars, Step, Fault, TypeOK, BoxTypeOK
<1>1. ASSUME NEW c \in Callers, LockRun(c) PROVE BoxTypeOK'
  BY <1>1 DEF LockRun, LockFree, Finish
<1>2. ASSUME NEW c \in Callers, PlanRun(c) PROVE BoxTypeOK'
  BY <1>2 DEF PlanRun, Finish
<1>3. ASSUME NEW c \in Callers, ReturnRun(c) PROVE BoxTypeOK'
  BY <1>3 DEF ReturnRun, Finish, PreflightVerified
<1>4. ASSUME NEW c \in Callers, PrepareGroup(c) PROVE BoxTypeOK'
  BY <1>4 DEF PrepareGroup
<1>5. ASSUME NEW c \in Callers, OpenMounts(c) PROVE BoxTypeOK'
  BY <1>5 DEF OpenMounts, Bail, GroupDropped
<1>6. ASSUME NEW c \in Callers, ApplyInheritedLimits(c) PROVE BoxTypeOK'
  BY <1>6 DEF ApplyInheritedLimits, Bail, GroupDropped
<1>7. ASSUME NEW c \in Callers, EnterGroup(c) PROVE BoxTypeOK'
  BY <1>7 DEF EnterGroup, Bail, GroupDropped
<1>8. ASSUME NEW c \in Callers, SpawnChild(c) PROVE BoxTypeOK'
  BY <1>8, GroupOf
     DEF SpawnChild, Bail, GroupDropped, Procs, Capturing, SupTypeOK
<1>9. ASSUME NEW c \in Callers, RestoreSupervisor(c) PROVE BoxTypeOK'
  BY <1>9 DEF RestoreSupervisor
<1>10. ASSUME NEW c \in Callers, AbortChild(c) PROVE BoxTypeOK'
  BY <1>10 DEF AbortChild, GroupDropped, Signal
<1>11. ASSUME NEW c \in Callers, StartReaders(c) PROVE BoxTypeOK'
  BY <1>11 DEF StartReaders, Bail, GroupDropped
<1>12. ASSUME NEW c \in Callers, WatchCapture(c) PROVE BoxTypeOK'
  BY <1>12 DEF WatchCapture, CallKillAll, Due
<1>13. ASSUME NEW c \in Callers, PollChild(c) PROVE BoxTypeOK'
  BY <1>13 DEF PollChild, CallKillAll, Due, AfterWait
<1>14. ASSUME NEW c \in Callers, AwaitChild(c) PROVE BoxTypeOK'
  BY <1>14 DEF AwaitChild, Bail, GroupDropped, AfterWait
<1>15. ASSUME NEW c \in Callers, JoinReaders(c) PROVE BoxTypeOK'
  BY <1>15 DEF JoinReaders, AfterWait, OverLimit
<1>16. ASSUME NEW c \in Callers, WriteKill(c) PROVE BoxTypeOK'
  BY <1>16 DEF WriteKill, KillBox, KillFailed, GroupDropped, AfterWait, InBox
<1>17. ASSUME NEW c \in Callers, ReapGroup(c) PROVE BoxTypeOK'
  BY <1>17
     DEF ReapGroup, KillSucceeded, KillFailed, GroupDropped, AfterWait,
         DeadlineKill
<1>18. ASSUME NEW c \in Callers, KillCaptureChild(c) PROVE BoxTypeOK'
  BY <1>18 DEF KillCaptureChild, Signal
<1>19. ASSUME NEW c \in Callers, FinishScan(c) PROVE BoxTypeOK'
  BY <1>19 DEF FinishScan, CallKillAll, Bail, GroupDropped, NothingLeft
<1>20. ASSUME NEW c \in Callers, FinishRead(c) PROVE BoxTypeOK'
  BY <1>20 DEF FinishRead, Bail, GroupDropped
<1>21. ASSUME NEW c \in Callers, FinishRemove(c) PROVE BoxTypeOK'
  BY <1>21 DEF FinishRemove, Bail, GroupDropped
<1>22. ASSUME NEW c \in Callers, ReportRun(c) PROVE BoxTypeOK'
  BY <1>22 DEF ReportRun, ResourceVerdict
<1>23. ASSUME NEW c \in Callers, DropGroup(c) PROVE BoxTypeOK'
  BY <1>23 DEF DropGroup, RestoreFailed, RestoreDone
<1>24. ASSUME NEW c \in Callers, DropRemove(c) PROVE BoxTypeOK'
  BY <1>24 DEF DropRemove
<1>25. ASSUME NEW c \in Callers, WatchdogExpires(c) PROVE BoxTypeOK'
  BY <1>25 DEF WatchdogExpires
<1>26. ASSUME NEW g \in Group, BoxFork(g) PROVE BoxTypeOK'
  BY <1>26 DEF BoxFork, Procs
<1>27. ASSUME NEW g \in Group, NamespaceDies(g) PROVE BoxTypeOK'
  BY <1>27 DEF NamespaceDies, Signal
<1>28. ASSUME NEW g \in Group, ParentDies(g) PROVE BoxTypeOK'
  BY <1>28 DEF ParentDies, Signal
<1>29. ASSUME NEW g \in Group, FloodPipe(g) PROVE BoxTypeOK'
  BY <1>29 DEF FloodPipe
<1>30. ASSUME NEW g \in Group, RaiseOverLimit(g) PROVE BoxTypeOK'
  BY <1>30 DEF RaiseOverLimit
<1>31. ASSUME NEW g \in Group, PipesClose(g) PROVE BoxTypeOK'
  BY <1>31 DEF PipesClose
<1>32. ASSUME NEW g \in Group, LimitEvent(g) PROVE BoxTypeOK'
  BY <1>32 DEF LimitEvent
<1>33. ASSUME NEW g \in Group, OomKill(g) PROVE BoxTypeOK'
  BY <1>33 DEF OomKill, KillBox, InBox, LimitEvents
<1>34. ASSUME NEW g \in Group, NEW p \in Procs, BoxExit(g, p) PROVE BoxTypeOK'
  BY <1>34 DEF BoxExit, Procs
<1>35. ASSUME NEW g \in Group, NEW p \in Procs, KilledExit(g, p)
       PROVE  BoxTypeOK'
  BY <1>35 DEF KilledExit
<1>36. ASSUME SupervisorCrash PROVE BoxTypeOK'
  BY <1>36 DEF SupervisorCrash
<1>37. CASE UNCHANGED vars
  BY <1>37
<1> QED
  BY <1>1, <1>2, <1>3, <1>4, <1>5, <1>6, <1>7, <1>8, <1>9, <1>10, <1>11, <1>12,
     <1>13, <1>14, <1>15, <1>16, <1>17, <1>18, <1>19, <1>20, <1>21, <1>22,
     <1>23, <1>24, <1>25, <1>26, <1>27, <1>28, <1>29, <1>30, <1>31, <1>32,
     <1>33, <1>34, <1>35, <1>36, <1>37
     DEF Next, CallerStep, BoxStep, Terminated

\* Every variable of SandboxRun stays in its range: whatever run_inner, finish,
\* Drop and the kernel do to one another, no state outside the model's is
\* reached.
THEOREM TypeCorrect == Spec => []TypeOK
<1>1. TypeOK /\ [Next]_vars => TypeOK'
  BY SupTypeNext, CallTypeNext, BoxTypeNext DEF TypeOK
<1> QED
  BY TypeInit, <1>1, PTL DEF Spec

-----------------------------------------------------------------------------
(* The core invariant. *)

\* The initial states satisfy the core invariant.
LEMMA CoreInit == Init => CoreInv
<1> SUFFICES ASSUME Init PROVE CoreInv
  OBVIOUS
<1>1. TypeOK
  BY TypeInit
<1>2. sup # "suicide" /\ LockInv
  BY CageAssumption DEF Init, LockInv, Resting
<1>3. BirthInv
  BY CageAssumption DEF Init, BirthInv, InBox, Group, Phases, Exits
<1>4. UnbornInv
  BY DEF Init, UnbornInv, Group
<1>5. PlaceInv
  BY CageAssumption DEF Init, PlaceInv, InsidePCs, Resting, Group, Phases
<1>6. ErrorInv
  BY DEF Init, ErrorInv, DropPCs, Killing
<1> QED
  BY <1>1, <1>2, <1>3, <1>4, <1>5, <1>6 DEF CoreInv

\* Only the thread inside run holds RESOURCE_RUN_LOCK: every way out of run
\* releases it, a panic by poisoning it.
LEMMA LockNext == CoreInv /\ [Next]_vars => LockInv'
<1> SUFFICES ASSUME CoreInv, [Next]_vars PROVE LockInv'
  OBVIOUS
<1> USE DEF vars, supVars, watchVars, callVars, procVars, pipeVars, boxVars,
            threadVars, Step, Fault, CoreInv, LockInv, TypeOK, CallTypeOK,
            SupTypeOK, Resting
<1>1. ASSUME NEW c \in Callers, LockRun(c) PROVE LockInv'
  BY <1>1, CageAssumption DEF LockRun, LockFree, Finish
<1>2. ASSUME NEW c \in Callers, PlanRun(c) PROVE LockInv'
  BY <1>2, CageAssumption DEF PlanRun, Finish
<1>3. ASSUME NEW c \in Callers, ReturnRun(c) PROVE LockInv'
  BY <1>3, CageAssumption DEF ReturnRun, Finish, PreflightVerified
<1>4. ASSUME NEW c \in Callers, PrepareGroup(c) PROVE LockInv'
  BY <1>4 DEF PrepareGroup
<1>5. ASSUME NEW c \in Callers, OpenMounts(c) PROVE LockInv'
  BY <1>5 DEF OpenMounts, Bail, GroupDropped
<1>6. ASSUME NEW c \in Callers, ApplyInheritedLimits(c) PROVE LockInv'
  BY <1>6 DEF ApplyInheritedLimits, Bail, GroupDropped
<1>7. ASSUME NEW c \in Callers, EnterGroup(c) PROVE LockInv'
  BY <1>7 DEF EnterGroup, Bail, GroupDropped
<1>8. ASSUME NEW c \in Callers, SpawnChild(c) PROVE LockInv'
  BY <1>8 DEF SpawnChild, Bail, GroupDropped
<1>9. ASSUME NEW c \in Callers, RestoreSupervisor(c) PROVE LockInv'
  BY <1>9 DEF RestoreSupervisor
<1>10. ASSUME NEW c \in Callers, AbortChild(c) PROVE LockInv'
  BY <1>10 DEF AbortChild, GroupDropped, Signal
<1>11. ASSUME NEW c \in Callers, StartReaders(c) PROVE LockInv'
  BY <1>11 DEF StartReaders, Bail, GroupDropped
<1>12. ASSUME NEW c \in Callers, WatchCapture(c) PROVE LockInv'
  BY <1>12 DEF WatchCapture, CallKillAll, Due
<1>13. ASSUME NEW c \in Callers, PollChild(c) PROVE LockInv'
  BY <1>13 DEF PollChild, CallKillAll, Due, AfterWait
<1>14. ASSUME NEW c \in Callers, AwaitChild(c) PROVE LockInv'
  BY <1>14 DEF AwaitChild, Bail, GroupDropped, AfterWait
<1>15. ASSUME NEW c \in Callers, JoinReaders(c) PROVE LockInv'
  BY <1>15 DEF JoinReaders, AfterWait, OverLimit
<1>16. ASSUME NEW c \in Callers, WriteKill(c) PROVE LockInv'
  BY <1>16 DEF WriteKill, KillBox, KillFailed, GroupDropped, AfterWait, Conts
<1>17. ASSUME NEW c \in Callers, ReapGroup(c) PROVE LockInv'
  BY <1>17
     DEF ReapGroup, KillSucceeded, KillFailed, GroupDropped, AfterWait,
         DeadlineKill, Conts
<1>18. ASSUME NEW c \in Callers, KillCaptureChild(c) PROVE LockInv'
  BY <1>18 DEF KillCaptureChild, Signal
<1>19. ASSUME NEW c \in Callers, FinishScan(c) PROVE LockInv'
  BY <1>19 DEF FinishScan, CallKillAll, Bail, GroupDropped, NothingLeft
<1>20. ASSUME NEW c \in Callers, FinishRead(c) PROVE LockInv'
  BY <1>20 DEF FinishRead, Bail, GroupDropped
<1>21. ASSUME NEW c \in Callers, FinishRemove(c) PROVE LockInv'
  BY <1>21 DEF FinishRemove, Bail, GroupDropped
<1>22. ASSUME NEW c \in Callers, ReportRun(c) PROVE LockInv'
  BY <1>22 DEF ReportRun, ResourceVerdict
<1>23. ASSUME NEW c \in Callers, DropGroup(c) PROVE LockInv'
  BY <1>23 DEF DropGroup, RestoreFailed, RestoreDone
<1>24. ASSUME NEW c \in Callers, DropRemove(c) PROVE LockInv'
  BY <1>24 DEF DropRemove
<1>25. ASSUME NEW c \in Callers, WatchdogExpires(c) PROVE LockInv'
  BY <1>25 DEF WatchdogExpires
<1>26. ASSUME NEW g \in Group, BoxFork(g) PROVE LockInv'
  BY <1>26 DEF BoxFork
<1>27. ASSUME NEW g \in Group, NamespaceDies(g) PROVE LockInv'
  BY <1>27 DEF NamespaceDies, Signal
<1>28. ASSUME NEW g \in Group, ParentDies(g) PROVE LockInv'
  BY <1>28 DEF ParentDies, Signal
<1>29. ASSUME NEW g \in Group, FloodPipe(g) PROVE LockInv'
  BY <1>29 DEF FloodPipe
<1>30. ASSUME NEW g \in Group, RaiseOverLimit(g) PROVE LockInv'
  BY <1>30 DEF RaiseOverLimit
<1>31. ASSUME NEW g \in Group, PipesClose(g) PROVE LockInv'
  BY <1>31 DEF PipesClose
<1>32. ASSUME NEW g \in Group, LimitEvent(g) PROVE LockInv'
  BY <1>32 DEF LimitEvent
<1>33. ASSUME NEW g \in Group, OomKill(g) PROVE LockInv'
  BY <1>33 DEF OomKill, KillBox
<1>34. ASSUME NEW g \in Group, NEW p \in Procs, BoxExit(g, p) PROVE LockInv'
  BY <1>34 DEF BoxExit
<1>35. ASSUME NEW g \in Group, NEW p \in Procs, KilledExit(g, p) PROVE LockInv'
  BY <1>35 DEF KilledExit
<1>36. ASSUME SupervisorCrash PROVE LockInv'
  BY <1>36 DEF SupervisorCrash
<1>37. CASE UNCHANGED vars
  BY <1>37
<1> QED
  BY <1>1, <1>2, <1>3, <1>4, <1>5, <1>6, <1>7, <1>8, <1>9, <1>10, <1>11, <1>12,
     <1>13, <1>14, <1>15, <1>16, <1>17, <1>18, <1>19, <1>20, <1>21, <1>22,
     <1>23, <1>24, <1>25, <1>26, <1>27, <1>28, <1>29, <1>30, <1>31, <1>32,
     <1>33, <1>34, <1>35, <1>36, <1>37
     DEF Next, CallerStep, BoxStep, Terminated

\* A sandbox is born in its own cgroup, because the thread that spawns it has
\* just moved the supervisor there and no other thread can have moved it since.
LEMMA BirthNext == CoreInv /\ [Next]_vars => BirthInv'
<1> SUFFICES ASSUME CoreInv, [Next]_vars PROVE BirthInv'
  OBVIOUS
<1> USE DEF vars, supVars, watchVars, callVars, procVars, pipeVars, boxVars,
            threadVars, Step, Fault, CoreInv, BirthInv, TypeOK, BoxTypeOK,
            InBox
<1>1. ASSUME NEW c \in Callers, LockRun(c) PROVE BirthInv'
  BY <1>1 DEF LockRun, LockFree, Finish
<1>2. ASSUME NEW c \in Callers, PlanRun(c) PROVE BirthInv'
  BY <1>2 DEF PlanRun, Finish
<1>3. ASSUME NEW c \in Callers, ReturnRun(c) PROVE BirthInv'
  BY <1>3 DEF ReturnRun, Finish, PreflightVerified
<1>4. ASSUME NEW c \in Callers, PrepareGroup(c) PROVE BirthInv'
  BY <1>4 DEF PrepareGroup
<1>5. ASSUME NEW c \in Callers, OpenMounts(c) PROVE BirthInv'
  BY <1>5 DEF OpenMounts, Bail, GroupDropped
<1>6. ASSUME NEW c \in Callers, ApplyInheritedLimits(c) PROVE BirthInv'
  BY <1>6 DEF ApplyInheritedLimits, Bail, GroupDropped
<1>7. ASSUME NEW c \in Callers, EnterGroup(c) PROVE BirthInv'
  BY <1>7 DEF EnterGroup, Bail, GroupDropped
<1>8. ASSUME NEW c \in Callers, SpawnChild(c) PROVE BirthInv'
  <2>1. /\ supAt = G(c) /\ home[G(c)] = None /\ G(c) \in Group
        /\ pc[c] = "spawn"
    BY <1>8
       DEF PlaceInv, UnbornInv, InsidePCs, UnbornPCs, SpawnChild, Bail, G,
           Group, CallTypeOK
  <2>2. /\ InBox(G(c)) = {} /\ status[G(c)] = "none"
        /\ dying[G(c)] = {} /\ live[G(c)] = {}
    BY <2>1
  <2> SUFFICES ASSUME NEW g \in Group
               PROVE  /\ home'[g] \in {None, g}
                      /\ home'[g] = None =>
                           live'[g] \cup dying'[g] = {} /\ status'[g] = "none"
                      /\ home'[g] = g => status'[g] # "none"
                      /\ status'[g] = "running" <=>
                           Bwrap \in live'[g] \cup dying'[g]
                      /\ live'[g] \cap dying'[g] = {}
    OBVIOUS
  <2>3. CASE g = G(c)
    BY <1>8, <2>1, <2>2, <2>3, CageAssumption DEF SpawnChild, Bail, Group
  <2>4. CASE g # G(c)
    BY <1>8, <2>1, <2>4 DEF SpawnChild, Bail
  <2> QED
    BY <2>3, <2>4
<1>9. ASSUME NEW c \in Callers, RestoreSupervisor(c) PROVE BirthInv'
  BY <1>9 DEF RestoreSupervisor
<1>10. ASSUME NEW c \in Callers, AbortChild(c) PROVE BirthInv'
  BY <1>10 DEF AbortChild, GroupDropped, Signal
<1>11. ASSUME NEW c \in Callers, StartReaders(c) PROVE BirthInv'
  BY <1>11 DEF StartReaders, Bail, GroupDropped
<1>12. ASSUME NEW c \in Callers, WatchCapture(c) PROVE BirthInv'
  BY <1>12 DEF WatchCapture, CallKillAll, Due
<1>13. ASSUME NEW c \in Callers, PollChild(c) PROVE BirthInv'
  BY <1>13 DEF PollChild, CallKillAll, Due, AfterWait
<1>14. ASSUME NEW c \in Callers, AwaitChild(c) PROVE BirthInv'
  BY <1>14 DEF AwaitChild, Bail, GroupDropped, AfterWait
<1>15. ASSUME NEW c \in Callers, JoinReaders(c) PROVE BirthInv'
  BY <1>15 DEF JoinReaders, AfterWait, OverLimit
<1>16. ASSUME NEW c \in Callers, WriteKill(c) PROVE BirthInv'
  BY <1>16 DEF WriteKill, KillBox, KillFailed, GroupDropped, AfterWait
<1>17. ASSUME NEW c \in Callers, ReapGroup(c) PROVE BirthInv'
  BY <1>17
     DEF ReapGroup, KillSucceeded, KillFailed, GroupDropped, AfterWait,
         DeadlineKill
<1>18. ASSUME NEW c \in Callers, KillCaptureChild(c) PROVE BirthInv'
  BY <1>18 DEF KillCaptureChild, Signal
<1>19. ASSUME NEW c \in Callers, FinishScan(c) PROVE BirthInv'
  BY <1>19 DEF FinishScan, CallKillAll, Bail, GroupDropped, NothingLeft
<1>20. ASSUME NEW c \in Callers, FinishRead(c) PROVE BirthInv'
  BY <1>20 DEF FinishRead, Bail, GroupDropped
<1>21. ASSUME NEW c \in Callers, FinishRemove(c) PROVE BirthInv'
  BY <1>21 DEF FinishRemove, Bail, GroupDropped
<1>22. ASSUME NEW c \in Callers, ReportRun(c) PROVE BirthInv'
  BY <1>22 DEF ReportRun, ResourceVerdict
<1>23. ASSUME NEW c \in Callers, DropGroup(c) PROVE BirthInv'
  BY <1>23 DEF DropGroup, RestoreFailed, RestoreDone
<1>24. ASSUME NEW c \in Callers, DropRemove(c) PROVE BirthInv'
  BY <1>24 DEF DropRemove
<1>25. ASSUME NEW c \in Callers, WatchdogExpires(c) PROVE BirthInv'
  BY <1>25 DEF WatchdogExpires
<1>26. ASSUME NEW g \in Group, BoxFork(g) PROVE BirthInv'
  BY <1>26, GroupOf, CageAssumption DEF BoxFork, Procs
<1>27. ASSUME NEW g \in Group, NamespaceDies(g) PROVE BirthInv'
  BY <1>27 DEF NamespaceDies, Signal
<1>28. ASSUME NEW g \in Group, ParentDies(g) PROVE BirthInv'
  BY <1>28 DEF ParentDies, Signal
<1>29. ASSUME NEW g \in Group, FloodPipe(g) PROVE BirthInv'
  BY <1>29 DEF FloodPipe
<1>30. ASSUME NEW g \in Group, RaiseOverLimit(g) PROVE BirthInv'
  BY <1>30 DEF RaiseOverLimit
<1>31. ASSUME NEW g \in Group, PipesClose(g) PROVE BirthInv'
  BY <1>31 DEF PipesClose
<1>32. ASSUME NEW g \in Group, LimitEvent(g) PROVE BirthInv'
  BY <1>32 DEF LimitEvent
<1>33. ASSUME NEW g \in Group, OomKill(g) PROVE BirthInv'
  BY <1>33 DEF OomKill, KillBox
<1>34. ASSUME NEW g \in Group, NEW p \in Procs, BoxExit(g, p) PROVE BirthInv'
  BY <1>34 DEF BoxExit, Procs, Exits
<1>35. ASSUME NEW g \in Group, NEW p \in Procs, KilledExit(g, p)
       PROVE  BirthInv'
  BY <1>35 DEF KilledExit
<1>36. ASSUME SupervisorCrash PROVE BirthInv'
  BY <1>36 DEF SupervisorCrash
<1>37. CASE UNCHANGED vars
  BY <1>37
<1> QED
  BY <1>1, <1>2, <1>3, <1>4, <1>5, <1>6, <1>7, <1>8, <1>9, <1>10, <1>11, <1>12,
     <1>13, <1>14, <1>15, <1>16, <1>17, <1>18, <1>19, <1>20, <1>21, <1>22,
     <1>23, <1>24, <1>25, <1>26, <1>27, <1>28, <1>29, <1>30, <1>31, <1>32,
     <1>33, <1>34, <1>35, <1>36, <1>37
     DEF Next, CallerStep, BoxStep, Terminated

\* Nothing has been spawned for a call before its spawn step.
LEMMA UnbornNext == CoreInv /\ [Next]_vars => UnbornInv'
<1> SUFFICES ASSUME CoreInv, [Next]_vars PROVE UnbornInv'
  OBVIOUS
<1> USE DEF vars, supVars, watchVars, callVars, procVars, pipeVars, boxVars,
            threadVars, Step, Fault, CoreInv, UnbornInv, TypeOK, CallTypeOK,
            UnbornPCs, Resting
<1>1. ASSUME NEW c \in Callers, LockRun(c) PROVE UnbornInv'
  BY <1>1 DEF LockRun, LockFree, Finish
<1>2. ASSUME NEW c \in Callers, PlanRun(c) PROVE UnbornInv'
  BY <1>2 DEF PlanRun, Finish
<1>3. ASSUME NEW c \in Callers, ReturnRun(c) PROVE UnbornInv'
  BY <1>3 DEF ReturnRun, Finish, PreflightVerified, Phases
<1>4. ASSUME NEW c \in Callers, PrepareGroup(c) PROVE UnbornInv'
  BY <1>4 DEF PrepareGroup
<1>5. ASSUME NEW c \in Callers, OpenMounts(c) PROVE UnbornInv'
  BY <1>5 DEF OpenMounts, Bail, GroupDropped
<1>6. ASSUME NEW c \in Callers, ApplyInheritedLimits(c) PROVE UnbornInv'
  BY <1>6 DEF ApplyInheritedLimits, Bail, GroupDropped
<1>7. ASSUME NEW c \in Callers, EnterGroup(c) PROVE UnbornInv'
  BY <1>7 DEF EnterGroup, Bail, GroupDropped
<1>8. ASSUME NEW c \in Callers, SpawnChild(c) PROVE UnbornInv'
  <2>1. /\ pc[c] = "spawn" /\ pc'[c] \in {"restore", "drop"} /\ phase' = phase
        /\ \A d \in Callers : d # c => pc'[d] = pc[d]
        /\ \A g \in Group : g # G(c) => home'[g] = home[g]
    BY <1>8, GroupOf DEF SpawnChild, Bail, GroupDropped, BoxTypeOK
  <2>2. ASSUME NEW d \in Callers, NEW ph \in Phases
        PROVE  /\ <<d, ph>> \in Group
               /\ <<d, ph>> = G(c) <=> d = c /\ ph = phase[c]
    BY DEF G, Group
  <2> QED
    BY <2>1, <2>2
<1>9. ASSUME NEW c \in Callers, RestoreSupervisor(c) PROVE UnbornInv'
  BY <1>9 DEF RestoreSupervisor
<1>10. ASSUME NEW c \in Callers, AbortChild(c) PROVE UnbornInv'
  BY <1>10 DEF AbortChild, GroupDropped, Signal
<1>11. ASSUME NEW c \in Callers, StartReaders(c) PROVE UnbornInv'
  BY <1>11 DEF StartReaders, Bail, GroupDropped
<1>12. ASSUME NEW c \in Callers, WatchCapture(c) PROVE UnbornInv'
  BY <1>12 DEF WatchCapture, CallKillAll, Due
<1>13. ASSUME NEW c \in Callers, PollChild(c) PROVE UnbornInv'
  BY <1>13 DEF PollChild, CallKillAll, Due, AfterWait
<1>14. ASSUME NEW c \in Callers, AwaitChild(c) PROVE UnbornInv'
  BY <1>14 DEF AwaitChild, Bail, GroupDropped, AfterWait
<1>15. ASSUME NEW c \in Callers, JoinReaders(c) PROVE UnbornInv'
  BY <1>15 DEF JoinReaders, AfterWait, OverLimit
<1>16. ASSUME NEW c \in Callers, WriteKill(c) PROVE UnbornInv'
  BY <1>16 DEF WriteKill, KillBox, KillFailed, GroupDropped, AfterWait, Conts
<1>17. ASSUME NEW c \in Callers, ReapGroup(c) PROVE UnbornInv'
  BY <1>17
     DEF ReapGroup, KillSucceeded, KillFailed, GroupDropped, AfterWait,
         DeadlineKill, Conts
<1>18. ASSUME NEW c \in Callers, KillCaptureChild(c) PROVE UnbornInv'
  BY <1>18 DEF KillCaptureChild, Signal
<1>19. ASSUME NEW c \in Callers, FinishScan(c) PROVE UnbornInv'
  BY <1>19 DEF FinishScan, CallKillAll, Bail, GroupDropped, NothingLeft
<1>20. ASSUME NEW c \in Callers, FinishRead(c) PROVE UnbornInv'
  BY <1>20 DEF FinishRead, Bail, GroupDropped
<1>21. ASSUME NEW c \in Callers, FinishRemove(c) PROVE UnbornInv'
  BY <1>21 DEF FinishRemove, Bail, GroupDropped
<1>22. ASSUME NEW c \in Callers, ReportRun(c) PROVE UnbornInv'
  BY <1>22 DEF ReportRun, ResourceVerdict
<1>23. ASSUME NEW c \in Callers, DropGroup(c) PROVE UnbornInv'
  BY <1>23 DEF DropGroup, RestoreFailed, RestoreDone
<1>24. ASSUME NEW c \in Callers, DropRemove(c) PROVE UnbornInv'
  BY <1>24 DEF DropRemove
<1>25. ASSUME NEW c \in Callers, WatchdogExpires(c) PROVE UnbornInv'
  BY <1>25 DEF WatchdogExpires
<1>26. ASSUME NEW g \in Group, BoxFork(g) PROVE UnbornInv'
  BY <1>26 DEF BoxFork
<1>27. ASSUME NEW g \in Group, NamespaceDies(g) PROVE UnbornInv'
  BY <1>27 DEF NamespaceDies, Signal
<1>28. ASSUME NEW g \in Group, ParentDies(g) PROVE UnbornInv'
  BY <1>28 DEF ParentDies, Signal
<1>29. ASSUME NEW g \in Group, FloodPipe(g) PROVE UnbornInv'
  BY <1>29 DEF FloodPipe
<1>30. ASSUME NEW g \in Group, RaiseOverLimit(g) PROVE UnbornInv'
  BY <1>30 DEF RaiseOverLimit
<1>31. ASSUME NEW g \in Group, PipesClose(g) PROVE UnbornInv'
  BY <1>31 DEF PipesClose
<1>32. ASSUME NEW g \in Group, LimitEvent(g) PROVE UnbornInv'
  BY <1>32 DEF LimitEvent
<1>33. ASSUME NEW g \in Group, OomKill(g) PROVE UnbornInv'
  BY <1>33 DEF OomKill, KillBox
<1>34. ASSUME NEW g \in Group, NEW p \in Procs, BoxExit(g, p) PROVE UnbornInv'
  BY <1>34 DEF BoxExit
<1>35. ASSUME NEW g \in Group, NEW p \in Procs, KilledExit(g, p)
       PROVE  UnbornInv'
  BY <1>35 DEF KilledExit
<1>36. ASSUME SupervisorCrash PROVE UnbornInv'
  BY <1>36 DEF SupervisorCrash
<1>37. CASE UNCHANGED vars
  BY <1>37
<1> QED
  BY <1>1, <1>2, <1>3, <1>4, <1>5, <1>6, <1>7, <1>8, <1>9, <1>10, <1>11, <1>12,
     <1>13, <1>14, <1>15, <1>16, <1>17, <1>18, <1>19, <1>20, <1>21, <1>22,
     <1>23, <1>24, <1>25, <1>26, <1>27, <1>28, <1>29, <1>30, <1>31, <1>32,
     <1>33, <1>34, <1>35, <1>36, <1>37
     DEF Next, CallerStep, BoxStep, Terminated

\* The supervisor is in a resource cgroup only between entering and restoring,
\* or after a Drop that could not move it.
LEMMA PlaceNext == CoreInv /\ [Next]_vars => PlaceInv'
<1> SUFFICES ASSUME CoreInv, [Next]_vars PROVE PlaceInv'
  OBVIOUS
<1> USE DEF vars, supVars, watchVars, callVars, procVars, pipeVars, boxVars,
            threadVars, Step, Fault, CoreInv, PlaceInv, TypeOK, CallTypeOK,
            SupTypeOK, LockInv, InsidePCs, Resting, G, Group, Phases, Place
<1>1. ASSUME NEW c \in Callers, LockRun(c) PROVE PlaceInv'
  BY <1>1 DEF LockRun, LockFree, Finish
<1>2. ASSUME NEW c \in Callers, PlanRun(c) PROVE PlaceInv'
  BY <1>2 DEF PlanRun, Finish
<1>3. ASSUME NEW c \in Callers, ReturnRun(c) PROVE PlaceInv'
  BY <1>3 DEF ReturnRun, Finish, PreflightVerified, ErrorInv, Errors
<1>4. ASSUME NEW c \in Callers, PrepareGroup(c) PROVE PlaceInv'
  BY <1>4 DEF PrepareGroup
<1>5. ASSUME NEW c \in Callers, OpenMounts(c) PROVE PlaceInv'
  BY <1>5 DEF OpenMounts, Bail, GroupDropped
<1>6. ASSUME NEW c \in Callers, ApplyInheritedLimits(c) PROVE PlaceInv'
  BY <1>6 DEF ApplyInheritedLimits, Bail, GroupDropped
<1>7. ASSUME NEW c \in Callers, EnterGroup(c) PROVE PlaceInv'
  BY <1>7 DEF EnterGroup, Bail, GroupDropped
<1>8. ASSUME NEW c \in Callers, SpawnChild(c) PROVE PlaceInv'
  BY <1>8 DEF SpawnChild, Bail, GroupDropped
<1>9. ASSUME NEW c \in Callers, RestoreSupervisor(c) PROVE PlaceInv'
  BY <1>9 DEF RestoreSupervisor
<1>10. ASSUME NEW c \in Callers, AbortChild(c) PROVE PlaceInv'
  BY <1>10 DEF AbortChild, GroupDropped, Signal
<1>11. ASSUME NEW c \in Callers, StartReaders(c) PROVE PlaceInv'
  BY <1>11 DEF StartReaders, Bail, GroupDropped
<1>12. ASSUME NEW c \in Callers, WatchCapture(c) PROVE PlaceInv'
  BY <1>12 DEF WatchCapture, CallKillAll, Due
<1>13. ASSUME NEW c \in Callers, PollChild(c) PROVE PlaceInv'
  BY <1>13 DEF PollChild, CallKillAll, Due, AfterWait
<1>14. ASSUME NEW c \in Callers, AwaitChild(c) PROVE PlaceInv'
  BY <1>14 DEF AwaitChild, Bail, GroupDropped, AfterWait
<1>15. ASSUME NEW c \in Callers, JoinReaders(c) PROVE PlaceInv'
  BY <1>15 DEF JoinReaders, AfterWait, OverLimit
<1>16. ASSUME NEW c \in Callers, WriteKill(c) PROVE PlaceInv'
  BY <1>16
     DEF WriteKill, KillBox, KillFailed, GroupDropped, AfterWait, Conts,
         ErrorInv
<1>17. ASSUME NEW c \in Callers, ReapGroup(c) PROVE PlaceInv'
  BY <1>17
     DEF ReapGroup, KillSucceeded, KillFailed, GroupDropped, AfterWait,
         DeadlineKill, Conts, ErrorInv
<1>18. ASSUME NEW c \in Callers, KillCaptureChild(c) PROVE PlaceInv'
  BY <1>18 DEF KillCaptureChild, Signal
<1>19. ASSUME NEW c \in Callers, FinishScan(c) PROVE PlaceInv'
  BY <1>19 DEF FinishScan, CallKillAll, Bail, GroupDropped, NothingLeft
<1>20. ASSUME NEW c \in Callers, FinishRead(c) PROVE PlaceInv'
  BY <1>20 DEF FinishRead, Bail, GroupDropped
<1>21. ASSUME NEW c \in Callers, FinishRemove(c) PROVE PlaceInv'
  BY <1>21 DEF FinishRemove, Bail, GroupDropped
<1>22. ASSUME NEW c \in Callers, ReportRun(c) PROVE PlaceInv'
  BY <1>22 DEF ReportRun, ResourceVerdict
<1>23. ASSUME NEW c \in Callers, DropGroup(c) PROVE PlaceInv'
  BY <1>23 DEF DropGroup, RestoreFailed, RestoreDone
<1>24. ASSUME NEW c \in Callers, DropRemove(c) PROVE PlaceInv'
  BY <1>24 DEF DropRemove
<1>25. ASSUME NEW c \in Callers, WatchdogExpires(c) PROVE PlaceInv'
  BY <1>25 DEF WatchdogExpires
<1>26. ASSUME NEW g \in Group, BoxFork(g) PROVE PlaceInv'
  BY <1>26 DEF BoxFork
<1>27. ASSUME NEW g \in Group, NamespaceDies(g) PROVE PlaceInv'
  BY <1>27 DEF NamespaceDies, Signal
<1>28. ASSUME NEW g \in Group, ParentDies(g) PROVE PlaceInv'
  BY <1>28 DEF ParentDies, Signal
<1>29. ASSUME NEW g \in Group, FloodPipe(g) PROVE PlaceInv'
  BY <1>29 DEF FloodPipe
<1>30. ASSUME NEW g \in Group, RaiseOverLimit(g) PROVE PlaceInv'
  BY <1>30 DEF RaiseOverLimit
<1>31. ASSUME NEW g \in Group, PipesClose(g) PROVE PlaceInv'
  BY <1>31 DEF PipesClose
<1>32. ASSUME NEW g \in Group, LimitEvent(g) PROVE PlaceInv'
  BY <1>32 DEF LimitEvent
<1>33. ASSUME NEW g \in Group, OomKill(g) PROVE PlaceInv'
  BY <1>33 DEF OomKill, KillBox
<1>34. ASSUME NEW g \in Group, NEW p \in Procs, BoxExit(g, p) PROVE PlaceInv'
  BY <1>34 DEF BoxExit
<1>35. ASSUME NEW g \in Group, NEW p \in Procs, KilledExit(g, p)
       PROVE  PlaceInv'
  BY <1>35 DEF KilledExit
<1>36. ASSUME SupervisorCrash PROVE PlaceInv'
  BY <1>36 DEF SupervisorCrash
<1>37. CASE UNCHANGED vars
  BY <1>37
<1> QED
  BY <1>1, <1>2, <1>3, <1>4, <1>5, <1>6, <1>7, <1>8, <1>9, <1>10, <1>11, <1>12,
     <1>13, <1>14, <1>15, <1>16, <1>17, <1>18, <1>19, <1>20, <1>21, <1>22,
     <1>23, <1>24, <1>25, <1>26, <1>27, <1>28, <1>29, <1>30, <1>31, <1>32,
     <1>33, <1>34, <1>35, <1>36, <1>37
     DEF Next, CallerStep, BoxStep, Terminated

\* Drop runs only on the way out with an error, and only Drop abandons.
LEMMA ErrorNext == CoreInv /\ [Next]_vars => ErrorInv'
<1> SUFFICES ASSUME CoreInv, [Next]_vars PROVE ErrorInv'
  OBVIOUS
<1> USE DEF vars, supVars, watchVars, callVars, procVars, pipeVars, boxVars,
            threadVars, Step, Fault, CoreInv, ErrorInv, TypeOK, CallTypeOK,
            DropPCs, Killing, Errors
<1>1. ASSUME NEW c \in Callers, LockRun(c) PROVE ErrorInv'
  BY <1>1 DEF LockRun, LockFree, Finish
<1>2. ASSUME NEW c \in Callers, PlanRun(c) PROVE ErrorInv'
  BY <1>2 DEF PlanRun, Finish
<1>3. ASSUME NEW c \in Callers, ReturnRun(c) PROVE ErrorInv'
  BY <1>3 DEF ReturnRun, Finish, PreflightVerified
<1>4. ASSUME NEW c \in Callers, PrepareGroup(c) PROVE ErrorInv'
  BY <1>4 DEF PrepareGroup
<1>5. ASSUME NEW c \in Callers, OpenMounts(c) PROVE ErrorInv'
  BY <1>5 DEF OpenMounts, Bail, GroupDropped
<1>6. ASSUME NEW c \in Callers, ApplyInheritedLimits(c) PROVE ErrorInv'
  BY <1>6 DEF ApplyInheritedLimits, Bail, GroupDropped
<1>7. ASSUME NEW c \in Callers, EnterGroup(c) PROVE ErrorInv'
  BY <1>7 DEF EnterGroup, Bail, GroupDropped
<1>8. ASSUME NEW c \in Callers, SpawnChild(c) PROVE ErrorInv'
  BY <1>8 DEF SpawnChild, Bail, GroupDropped
<1>9. ASSUME NEW c \in Callers, RestoreSupervisor(c) PROVE ErrorInv'
  BY <1>9 DEF RestoreSupervisor
<1>10. ASSUME NEW c \in Callers, AbortChild(c) PROVE ErrorInv'
  BY <1>10 DEF AbortChild, GroupDropped, Signal
<1>11. ASSUME NEW c \in Callers, StartReaders(c) PROVE ErrorInv'
  BY <1>11 DEF StartReaders, Bail, GroupDropped
<1>12. ASSUME NEW c \in Callers, WatchCapture(c) PROVE ErrorInv'
  BY <1>12 DEF WatchCapture, CallKillAll, Due
<1>13. ASSUME NEW c \in Callers, PollChild(c) PROVE ErrorInv'
  BY <1>13 DEF PollChild, CallKillAll, Due, AfterWait
<1>14. ASSUME NEW c \in Callers, AwaitChild(c) PROVE ErrorInv'
  BY <1>14 DEF AwaitChild, Bail, GroupDropped, AfterWait
<1>15. ASSUME NEW c \in Callers, JoinReaders(c) PROVE ErrorInv'
  BY <1>15 DEF JoinReaders, AfterWait, OverLimit
<1>16. ASSUME NEW c \in Callers, WriteKill(c) PROVE ErrorInv'
  BY <1>16 DEF WriteKill, KillBox, KillFailed, GroupDropped, AfterWait, Conts
<1>17. ASSUME NEW c \in Callers, ReapGroup(c) PROVE ErrorInv'
  BY <1>17
     DEF ReapGroup, KillSucceeded, KillFailed, GroupDropped, AfterWait,
         DeadlineKill, Conts
<1>18. ASSUME NEW c \in Callers, KillCaptureChild(c) PROVE ErrorInv'
  BY <1>18 DEF KillCaptureChild, Signal
<1>19. ASSUME NEW c \in Callers, FinishScan(c) PROVE ErrorInv'
  BY <1>19 DEF FinishScan, CallKillAll, Bail, GroupDropped, NothingLeft
<1>20. ASSUME NEW c \in Callers, FinishRead(c) PROVE ErrorInv'
  BY <1>20 DEF FinishRead, Bail, GroupDropped
<1>21. ASSUME NEW c \in Callers, FinishRemove(c) PROVE ErrorInv'
  BY <1>21 DEF FinishRemove, Bail, GroupDropped
<1>22. ASSUME NEW c \in Callers, ReportRun(c) PROVE ErrorInv'
  BY <1>22 DEF ReportRun, ResourceVerdict
<1>23. ASSUME NEW c \in Callers, DropGroup(c) PROVE ErrorInv'
  BY <1>23 DEF DropGroup, RestoreFailed, RestoreDone
<1>24. ASSUME NEW c \in Callers, DropRemove(c) PROVE ErrorInv'
  BY <1>24 DEF DropRemove
<1>25. ASSUME NEW c \in Callers, WatchdogExpires(c) PROVE ErrorInv'
  BY <1>25 DEF WatchdogExpires
<1>26. ASSUME NEW g \in Group, BoxFork(g) PROVE ErrorInv'
  BY <1>26 DEF BoxFork
<1>27. ASSUME NEW g \in Group, NamespaceDies(g) PROVE ErrorInv'
  BY <1>27 DEF NamespaceDies, Signal
<1>28. ASSUME NEW g \in Group, ParentDies(g) PROVE ErrorInv'
  BY <1>28 DEF ParentDies, Signal
<1>29. ASSUME NEW g \in Group, FloodPipe(g) PROVE ErrorInv'
  BY <1>29 DEF FloodPipe
<1>30. ASSUME NEW g \in Group, RaiseOverLimit(g) PROVE ErrorInv'
  BY <1>30 DEF RaiseOverLimit
<1>31. ASSUME NEW g \in Group, PipesClose(g) PROVE ErrorInv'
  BY <1>31 DEF PipesClose
<1>32. ASSUME NEW g \in Group, LimitEvent(g) PROVE ErrorInv'
  BY <1>32 DEF LimitEvent
<1>33. ASSUME NEW g \in Group, OomKill(g) PROVE ErrorInv'
  BY <1>33 DEF OomKill, KillBox
<1>34. ASSUME NEW g \in Group, NEW p \in Procs, BoxExit(g, p) PROVE ErrorInv'
  BY <1>34 DEF BoxExit
<1>35. ASSUME NEW g \in Group, NEW p \in Procs, KilledExit(g, p)
       PROVE  ErrorInv'
  BY <1>35 DEF KilledExit
<1>36. ASSUME SupervisorCrash PROVE ErrorInv'
  BY <1>36 DEF SupervisorCrash
<1>37. CASE UNCHANGED vars
  BY <1>37
<1> QED
  BY <1>1, <1>2, <1>3, <1>4, <1>5, <1>6, <1>7, <1>8, <1>9, <1>10, <1>11, <1>12,
     <1>13, <1>14, <1>15, <1>16, <1>17, <1>18, <1>19, <1>20, <1>21, <1>22,
     <1>23, <1>24, <1>25, <1>26, <1>27, <1>28, <1>29, <1>30, <1>31, <1>32,
     <1>33, <1>34, <1>35, <1>36, <1>37
     DEF Next, CallerStep, BoxStep, Terminated

\* cgroup.kill is never written while the supervisor is in the cgroup.
LEMMA SpareNext == CoreInv /\ [Next]_vars => sup' # "suicide"
<1> SUFFICES ASSUME CoreInv, [Next]_vars PROVE sup' # "suicide"
  OBVIOUS
<1>1. ASSUME NEW c \in Callers, WriteKill(c) PROVE sup' # "suicide"
  <2>1. supAt # G(c)
    BY <1>1
       DEF CoreInv, PlaceInv, ErrorInv, WriteKill, InsidePCs, G, TypeOK,
           CallTypeOK
  <2> QED
    BY <1>1, <2>1 DEF WriteKill, KillBox, CoreInv
<1>2. ASSUME NEW c \in Callers, CallerStep(c), ~WriteKill(c)
      PROVE  sup' # "suicide"
  BY <1>2
     DEF CoreInv, CallerStep, LockRun, PlanRun, ReturnRun, PrepareGroup,
         OpenMounts, ApplyInheritedLimits, EnterGroup, SpawnChild,
         RestoreSupervisor, AbortChild, StartReaders, WatchCapture, PollChild,
         AwaitChild, JoinReaders, ReapGroup, KillCaptureChild, FinishScan,
         FinishRead, FinishRemove, ReportRun, DropGroup, DropRemove, supVars
<1>3. ASSUME NEW g \in Group, BoxStep(g) PROVE sup' # "suicide"
  BY <1>3
     DEF CoreInv, BoxStep, BoxFork, BoxExit, KilledExit, NamespaceDies,
         ParentDies, FloodPipe, RaiseOverLimit, PipesClose, LimitEvent, OomKill,
         KillBox, threadVars, supVars
<1>4. ASSUME NEW c \in Callers, WatchdogExpires(c) PROVE sup' # "suicide"
  BY <1>4 DEF CoreInv, WatchdogExpires, supVars
<1>5. CASE SupervisorCrash \/ UNCHANGED vars
  BY <1>5 DEF CoreInv, SupervisorCrash, vars, supVars
<1> QED
  BY <1>1, <1>2, <1>3, <1>4, <1>5 DEF Next, Terminated

\* The core invariant is inductive.
LEMMA CoreNext == CoreInv /\ [Next]_vars => CoreInv'
<1> SUFFICES ASSUME CoreInv, [Next]_vars PROVE CoreInv'
  OBVIOUS
<1>1. TypeOK'
  BY SupTypeNext, CallTypeNext, BoxTypeNext DEF TypeOK, CoreInv
<1> QED
  BY <1>1, SpareNext, LockNext, BirthNext, UnbornNext, PlaceNext, ErrorNext
     DEF CoreInv

\* In every reachable state the lock, the supervisor's place and the birth of
\* each sandbox fit together as run_inner intends.
THEOREM CoreInvariant == Spec => []CoreInv
  BY CoreInit, CoreNext, PTL DEF Spec

\* However many threads call run, and whatever fails in any of them, every
\* sandbox is born in the cgroup that was prepared for it.
THEOREM SandboxesBornInTheirCgroup == Spec => []BornInOwnCgroup
<1>1. CoreInv => BornInOwnCgroup
  BY DEF CoreInv, BirthInv, BornInOwnCgroup
<1> QED
  BY <1>1, CoreInvariant, PTL

\* No watchdog, no finish and no Drop writes cgroup.kill of a cgroup the
\* supervisor is itself in.
THEOREM SupervisorNeverKillsItself == Spec => []SupervisorSparesItself
<1>1. CoreInv => SupervisorSparesItself
  BY DEF CoreInv, SupervisorSparesItself
<1> QED
  BY <1>1, CoreInvariant, PTL

\* When no thread is inside run and every Drop has succeeded, the supervisor is
\* in the cgroup it was started in.
THEOREM SupervisorReturns == Spec => []SupervisorComesHome
<1>1. ASSUME CoreInv, lock \notin Callers, abandoned = {}
      PROVE  supAt = Outside
  <2>1. \A c \in Callers : pc[c] \in Resting
    BY <1>1 DEF CoreInv, LockInv
  <2>2. ASSUME NEW c \in Callers, NEW ph \in Phases PROVE supAt # <<c, ph>>
    BY <1>1, <2>1 DEF CoreInv, PlaceInv, Resting, InsidePCs
  <2> QED
    BY <1>1, <2>2 DEF CoreInv, TypeOK, SupTypeOK, Place, Group
<1>2. CoreInv => SupervisorComesHome
  BY <1>1 DEF SupervisorComesHome
<1> QED
  BY <1>2, CoreInvariant, PTL

-----------------------------------------------------------------------------
(* Part 2: the outcome of run.  A step of a thread touches its own call and  *)
(* its own cgroup only, and a step of a sandbox its own cgroup only; with    *)
(* these two frame lemmas each conjunct of the full invariant is proved for  *)
(* the call that moves, for the cgroup that moves, and carried over for      *)
(* every other one.                                                          *)

\* Where a run is about to end, and the reasons for a kill that keep the
\* child's status from being delivered.
LatePCs == {"read", "remove", "report", "discard", "return", "done"}
TracedConts == {"timeout", "deadline", "monitorInherit", "monitorCapture"}

\* What a step leaves alone of a call and of a cgroup.
SameCall(d) ==
  /\ pc'[d] = pc[d] /\ phase'[d] = phase[d] /\ mode'[d] = mode[d]
  /\ cont'[d] = cont[d] /\ report'[d] = report[d]
  /\ verdict'[d] = verdict[d] /\ outcome'[d] = outcome[d]
  /\ d \in wall' <=> d \in wall
  /\ d \in abandoned' <=> d \in abandoned

SameBox(g) ==
  /\ dir'[g] = dir[g] /\ events'[g] = events[g] /\ home'[g] = home[g]
  /\ live'[g] = live[g] /\ dying'[g] = dying[g] /\ status'[g] = status[g]
  /\ g \in piped' <=> g \in piped
  /\ g \in flood' <=> g \in flood
  /\ g \in over'  <=> g \in over

\* Threads act only while the supervisor process is alive.
LEMMA CallerStepsNeedTheSupervisor ==
  ASSUME NEW c \in Callers, CallerStep(c)
  PROVE  sup = "alive"
  BY
     DEF CallerStep, LockRun, PlanRun, ReturnRun, PrepareGroup, OpenMounts,
         ApplyInheritedLimits, EnterGroup, SpawnChild, RestoreSupervisor,
         AbortChild, StartReaders, WatchCapture, PollChild, AwaitChild,
         JoinReaders, WriteKill, ReapGroup, KillCaptureChild, FinishScan,
         FinishRead, FinishRemove, ReportRun, DropGroup, DropRemove, Step,
         Bail, CallKillAll

\* A tree cgroup.procs shows empty holds no process of its sandbox, and the
\* supervisor is not in it either.
LEMMA TreeEmptied ==
  ASSUME CoreInv, NEW g \in Group, TreeEmpty(g)
  PROVE  InBox(g) = {} /\ supAt # g
  BY DEF TreeEmpty, Occupied, CoreInv, BirthInv

\* A thread's step leaves every other call and every other cgroup alone,
\* cgroup.kill included, because a sandbox lives in its own cgroup.
LEMMA StepsTouchTheirOwn ==
  ASSUME CoreInv, NEW c \in Callers, CallerStep(c)
  PROVE  /\ \A d \in Callers : d # c => SameCall(d)
         /\ \A g \in Group : g # G(c) => SameBox(g)
<1> USE DEF vars, supVars, watchVars, callVars, procVars, pipeVars, boxVars,
            threadVars, Step, Fault, CoreInv, TypeOK, CallTypeOK, BoxTypeOK,
            SameCall, SameBox
<1>0. G(c) \in Group
  BY GroupOf
<1>1. CASE LockRun(c)
  BY <1>1, <1>0 DEF LockRun, LockFree, Finish
<1>2. CASE PlanRun(c)
  BY <1>2, <1>0 DEF PlanRun, Finish
<1>3. CASE ReturnRun(c)
  BY <1>3, <1>0 DEF ReturnRun, Finish, PreflightVerified
<1>4. CASE PrepareGroup(c)
  BY <1>4, <1>0 DEF PrepareGroup
<1>5. CASE OpenMounts(c)
  BY <1>5, <1>0 DEF OpenMounts, Bail, GroupDropped
<1>6. CASE ApplyInheritedLimits(c)
  BY <1>6, <1>0 DEF ApplyInheritedLimits, Bail, GroupDropped
<1>7. CASE EnterGroup(c)
  BY <1>7, <1>0 DEF EnterGroup, Bail, GroupDropped
<1>8. CASE SpawnChild(c)
  BY <1>8, <1>0 DEF SpawnChild, Bail, GroupDropped
<1>9. CASE RestoreSupervisor(c)
  BY <1>9, <1>0 DEF RestoreSupervisor
<1>10. CASE AbortChild(c)
  BY <1>10, <1>0 DEF AbortChild, GroupDropped, Signal
<1>11. CASE StartReaders(c)
  BY <1>11, <1>0 DEF StartReaders, Bail, GroupDropped
<1>12. CASE WatchCapture(c)
  BY <1>12, <1>0 DEF WatchCapture, CallKillAll, Due
<1>13. CASE PollChild(c)
  BY <1>13, <1>0 DEF PollChild, CallKillAll, Due, AfterWait
<1>14. CASE AwaitChild(c)
  BY <1>14, <1>0 DEF AwaitChild, Bail, GroupDropped, AfterWait
<1>15. CASE JoinReaders(c)
  BY <1>15, <1>0 DEF JoinReaders, AfterWait, OverLimit
<1>16. CASE WriteKill(c)
  BY <1>16, <1>0, CageAssumption
     DEF WriteKill, KillBox, KillFailed, GroupDropped, AfterWait, BirthInv,
         Group, Phases
<1>17. CASE ReapGroup(c)
  BY <1>17, <1>0
     DEF ReapGroup, KillSucceeded, KillFailed, GroupDropped, AfterWait,
         DeadlineKill
<1>18. CASE KillCaptureChild(c)
  BY <1>18, <1>0 DEF KillCaptureChild, Signal
<1>19. CASE FinishScan(c)
  BY <1>19, <1>0 DEF FinishScan, CallKillAll, Bail, GroupDropped, NothingLeft
<1>20. CASE FinishRead(c)
  BY <1>20, <1>0 DEF FinishRead, Bail, GroupDropped
<1>21. CASE FinishRemove(c)
  BY <1>21, <1>0 DEF FinishRemove, Bail, GroupDropped
<1>22. CASE ReportRun(c)
  BY <1>22, <1>0 DEF ReportRun, ResourceVerdict
<1>23. CASE DropGroup(c)
  BY <1>23, <1>0 DEF DropGroup, RestoreFailed, RestoreDone
<1>24. CASE DropRemove(c)
  BY <1>24, <1>0 DEF DropRemove
<1> QED
  BY <1>1, <1>2, <1>3, <1>4, <1>5, <1>6, <1>7, <1>8, <1>9, <1>10, <1>11, <1>12,
     <1>13, <1>14, <1>15, <1>16, <1>17, <1>18, <1>19, <1>20, <1>21, <1>22,
     <1>23, <1>24
     DEF CallerStep

\* A sandbox's step leaves every other cgroup and every thread's locals alone.
LEMMA BoxesTouchTheirOwn ==
  ASSUME CoreInv, NEW g \in Group, BoxStep(g)
  PROVE  /\ UNCHANGED <<pc, callVars, cont, wall, verdict, abandoned, supAt>>
         /\ \A h \in Group : h # g => SameBox(h)
<1> USE DEF vars, supVars, watchVars, callVars, procVars, pipeVars, boxVars,
            threadVars, Step, Fault, CoreInv, TypeOK, BoxTypeOK, SameBox, InBox
<1>1. ASSUME NEW h \in Group, h # g PROVE home[h] # g
  BY <1>1, CageAssumption DEF BirthInv, Group, Phases
<1>2. ASSUME NEW p \in Procs, BoxExit(g, p) \/ KilledExit(g, p)
      PROVE  /\ UNCHANGED <<pc, callVars, cont, wall, verdict, abandoned>>
             /\ supAt' = supAt
             /\ \A h \in Group : h # g => SameBox(h)
  BY <1>2 DEF BoxExit, KilledExit
<1>3. CASE BoxFork(g) \/ NamespaceDies(g) \/ ParentDies(g)
  BY <1>3 DEF BoxFork, NamespaceDies, ParentDies, Signal
<1>4. CASE FloodPipe(g) \/ RaiseOverLimit(g) \/ PipesClose(g) \/ LimitEvent(g)
  BY <1>4 DEF FloodPipe, RaiseOverLimit, PipesClose, LimitEvent
<1>5. CASE OomKill(g)
  BY <1>1, <1>5 DEF OomKill, KillBox
<1> QED
  BY <1>2, <1>3, <1>4, <1>5 DEF BoxStep

\* A cgroup with no process in it, not even the supervisor, changes no more:
\* nothing is there to fork, to exit or to meet a limit.
LEMMA SettledBoxStays ==
  ASSUME CoreInv, NEW g \in Group, BoxStep(g), InBox(g) = {}, supAt # g
  PROVE  /\ dir'[g] = dir[g] /\ events'[g] = events[g]
         /\ status'[g] = status[g]
         /\ home'[g] = home[g] /\ live'[g] = {} /\ dying'[g] = {}
         /\ g \notin piped \cup flood => g \notin piped' \cup flood'
<1> USE DEF vars, supVars, watchVars, callVars, procVars, pipeVars, boxVars,
            threadVars, Step, Fault, CoreInv, TypeOK, BoxTypeOK, InBox
<1>1. ASSUME NEW h \in Group PROVE home[h] # g \/ InBox(h) = {}
  BY CageAssumption DEF BirthInv, Group, Phases
<1>2. ~Occupied(g)
  BY <1>1 DEF Occupied
<1> QED
  BY <1>1, <1>2
     DEF BoxStep, BoxFork, BoxExit, KilledExit, NamespaceDies, ParentDies,
         FloodPipe, RaiseOverLimit, PipesClose, LimitEvent, OomKill, KillBox,
         Signal

-----------------------------------------------------------------------------
(* The conjuncts about one call, at the call that moves. *)

\* Which watchdog called kill_all.
LEMMA ContNext == IInv /\ [Next]_vars => ContInv'
<1> SUFFICES ASSUME IInv, [Next]_vars PROVE ContInv'
  OBVIOUS
<1> USE DEF vars, supVars, watchVars, callVars, procVars, pipeVars, boxVars,
            threadVars, Step, Fault, IInv, CoreInv, ContInv, TypeOK,
            CallTypeOK, Capturing, G, Conts
<1>1. ASSUME NEW c \in Callers, LockRun(c) PROVE ContInv'
  BY <1>1 DEF LockRun, LockFree, Finish
<1>2. ASSUME NEW c \in Callers, PlanRun(c) PROVE ContInv'
  BY <1>2 DEF PlanRun, Finish
<1>3. ASSUME NEW c \in Callers, ReturnRun(c) PROVE ContInv'
  BY <1>3 DEF ReturnRun, Finish, PreflightVerified
<1>4. ASSUME NEW c \in Callers, PrepareGroup(c) PROVE ContInv'
  BY <1>4 DEF PrepareGroup
<1>5. ASSUME NEW c \in Callers, OpenMounts(c) PROVE ContInv'
  BY <1>5 DEF OpenMounts, Bail, GroupDropped
<1>6. ASSUME NEW c \in Callers, ApplyInheritedLimits(c) PROVE ContInv'
  BY <1>6 DEF ApplyInheritedLimits, Bail, GroupDropped
<1>7. ASSUME NEW c \in Callers, EnterGroup(c) PROVE ContInv'
  BY <1>7 DEF EnterGroup, Bail, GroupDropped
<1>8. ASSUME NEW c \in Callers, SpawnChild(c) PROVE ContInv'
  BY <1>8 DEF SpawnChild, Bail, GroupDropped
<1>9. ASSUME NEW c \in Callers, RestoreSupervisor(c) PROVE ContInv'
  BY <1>9 DEF RestoreSupervisor
<1>10. ASSUME NEW c \in Callers, AbortChild(c) PROVE ContInv'
  BY <1>10 DEF AbortChild, GroupDropped, Signal
<1>11. ASSUME NEW c \in Callers, StartReaders(c) PROVE ContInv'
  BY <1>11 DEF StartReaders, Bail, GroupDropped, PlaceInv
<1>12. ASSUME NEW c \in Callers, WatchCapture(c) PROVE ContInv'
  BY <1>12 DEF WatchCapture, CallKillAll, Due
<1>13. ASSUME NEW c \in Callers, PollChild(c) PROVE ContInv'
  BY <1>13 DEF PollChild, CallKillAll, Due, AfterWait
<1>14. ASSUME NEW c \in Callers, AwaitChild(c) PROVE ContInv'
  BY <1>14 DEF AwaitChild, Bail, GroupDropped, AfterWait
<1>15. ASSUME NEW c \in Callers, JoinReaders(c) PROVE ContInv'
  BY <1>15 DEF JoinReaders, AfterWait, OverLimit
<1>16. ASSUME NEW c \in Callers, WriteKill(c) PROVE ContInv'
  BY <1>16 DEF WriteKill, KillBox, KillFailed, GroupDropped, AfterWait
<1>17. ASSUME NEW c \in Callers, ReapGroup(c) PROVE ContInv'
  BY <1>17
     DEF ReapGroup, KillSucceeded, KillFailed, GroupDropped, AfterWait,
         DeadlineKill
<1>18. ASSUME NEW c \in Callers, KillCaptureChild(c) PROVE ContInv'
  BY <1>18 DEF KillCaptureChild, Signal
<1>19. ASSUME NEW c \in Callers, FinishScan(c) PROVE ContInv'
  BY <1>19 DEF FinishScan, CallKillAll, Bail, GroupDropped, NothingLeft
<1>20. ASSUME NEW c \in Callers, FinishRead(c) PROVE ContInv'
  BY <1>20 DEF FinishRead, Bail, GroupDropped
<1>21. ASSUME NEW c \in Callers, FinishRemove(c) PROVE ContInv'
  BY <1>21 DEF FinishRemove, Bail, GroupDropped
<1>22. ASSUME NEW c \in Callers, ReportRun(c) PROVE ContInv'
  BY <1>22 DEF ReportRun, ResourceVerdict
<1>23. ASSUME NEW c \in Callers, DropGroup(c) PROVE ContInv'
  BY <1>23 DEF DropGroup, RestoreFailed, RestoreDone
<1>24. ASSUME NEW c \in Callers, DropRemove(c) PROVE ContInv'
  BY <1>24 DEF DropRemove
<1>25. ASSUME NEW c \in Callers, WatchdogExpires(c) PROVE ContInv'
  BY <1>25 DEF WatchdogExpires
<1>26. ASSUME NEW g \in Group, BoxFork(g) PROVE ContInv'
  BY <1>26 DEF BoxFork
<1>27. ASSUME NEW g \in Group, NamespaceDies(g) PROVE ContInv'
  BY <1>27 DEF NamespaceDies, Signal
<1>28. ASSUME NEW g \in Group, ParentDies(g) PROVE ContInv'
  BY <1>28 DEF ParentDies, Signal
<1>29. ASSUME NEW g \in Group, FloodPipe(g) PROVE ContInv'
  BY <1>29 DEF FloodPipe
<1>30. ASSUME NEW g \in Group, RaiseOverLimit(g) PROVE ContInv'
  BY <1>30 DEF RaiseOverLimit
<1>31. ASSUME NEW g \in Group, PipesClose(g) PROVE ContInv'
  BY <1>31 DEF PipesClose
<1>32. ASSUME NEW g \in Group, LimitEvent(g) PROVE ContInv'
  BY <1>32 DEF LimitEvent
<1>33. ASSUME NEW g \in Group, OomKill(g) PROVE ContInv'
  BY <1>33 DEF OomKill, KillBox
<1>34. ASSUME NEW g \in Group, NEW p \in Procs, BoxExit(g, p) PROVE ContInv'
  BY <1>34 DEF BoxExit
<1>35. ASSUME NEW g \in Group, NEW p \in Procs, KilledExit(g, p) PROVE ContInv'
  BY <1>35 DEF KilledExit
<1>36. ASSUME SupervisorCrash PROVE ContInv'
  BY <1>36 DEF SupervisorCrash
<1>37. CASE UNCHANGED vars
  BY <1>37
<1> QED
  BY <1>1, <1>2, <1>3, <1>4, <1>5, <1>6, <1>7, <1>8, <1>9, <1>10, <1>11, <1>12,
     <1>13, <1>14, <1>15, <1>16, <1>17, <1>18, <1>19, <1>20, <1>21, <1>22,
     <1>23, <1>24, <1>25, <1>26, <1>27, <1>28, <1>29, <1>30, <1>31, <1>32,
     <1>33, <1>34, <1>35, <1>36, <1>37
     DEF Next, CallerStep, BoxStep, Terminated

\* Once finish has seen the tree empty, its processes, its counters and then
\* its directory stay as they were reported.
LEMMA QuietOwn ==
  ASSUME IInv, NEW c \in Callers, CallerStep(c)
  PROVE  QuietAt(c)'
<1> USE DEF vars, supVars, watchVars, callVars, procVars, pipeVars, boxVars,
            threadVars, Step, Fault
<1> USE DEF LatePCs
<1>0. /\ CoreInv /\ TypeOK /\ CallTypeOK /\ BoxTypeOK /\ QuietAt(c)
      /\ pc \in [Callers -> PCs]
      /\ phase \in [Callers -> Phases] /\ verdict \in [Callers -> Verdicts]
      /\ outcome \in [Callers -> Verdicts]
      /\ cont[c] \in Conts
  BY DEF IInv, CoreInv, TypeOK, QuietInv, CallTypeOK
<1>a. G(c) \in Group /\ <<c, "preflight">> \in Group /\ <<c, "main">> \in Group
  BY <1>0, GroupOf DEF Group, Phases
<1>b. phase[c] = "main" => SameBox(<<c, "preflight">>)
  BY <1>0, <1>a, StepsTouchTheirOwn DEF G
<1>c. pc[c] # "done" => outcome[c] = "none"
  BY <1>0 DEF CoreInv, ErrorInv
<1>1. ASSUME pc[c] # "done", phase'[c] = phase[c], outcome' = outcome,
             pc'[c] \notin LatePCs
      PROVE  QuietAt(c)'
  BY <1>0, <1>b, <1>c, <1>1 DEF QuietAt, Settled, InBox, SameBox
<1>2. CASE \/ OpenMounts(c) \/ ApplyInheritedLimits(c) \/ EnterGroup(c)
           \/ SpawnChild(c)
  <2>1. pc[c] # "done" /\ phase' = phase /\ outcome' = outcome /\
             pc'[c] \notin LatePCs
   BY <1>0, <1>2
      DEF OpenMounts, ApplyInheritedLimits, EnterGroup, SpawnChild, Bail,
          GroupDropped
  <2> QED
    BY <1>1, <2>1
<1>3. CASE \/ RestoreSupervisor(c) \/ AbortChild(c) \/ StartReaders(c)
           \/ WatchCapture(c) \/ PollChild(c)
           \/ AwaitChild(c) \/ JoinReaders(c) \/ KillCaptureChild(c)
  <2>1. pc[c] # "done" /\ phase' = phase /\ outcome' = outcome /\
             pc'[c] \notin LatePCs
   BY <1>0, <1>3
      DEF RestoreSupervisor, AbortChild, StartReaders, WatchCapture, PollChild,
          AwaitChild, JoinReaders, KillCaptureChild, Bail, GroupDropped,
          CallKillAll, AfterWait
  <2> QED
    BY <1>1, <2>1
<1>4. CASE LockRun(c) \/ PlanRun(c)
  <2>1. /\ pc[c] \in {"idle", "plan"} /\ pc'[c] \in {"plan", "prepare", "done"}
        /\ phase' = phase
        /\ live' = live /\ dying' = dying /\ outcome'[c] # "ok"
    BY <1>0, <1>4, <1>c DEF LockRun, PlanRun, Finish, Verdicts
  <2>2. InBox(G(c)) = {} /\ phase[c] = "preflight"
    BY <1>0, <1>a, <2>1, CageAssumption
       DEF CoreInv, UnbornInv, UnbornPCs, BirthInv, G, Phases
  <2> QED
    BY <1>0, <2>1, <2>2 DEF QuietAt, InBox, G
<1>5. CASE PrepareGroup(c)
  <2>1. /\ pc[c] = "prepare" /\ pc'[c] \in {"mounts", "return"}
        /\ phase' = phase
        /\ live' = live /\ dying' = dying /\ outcome' = outcome
        /\ verdict'[c] # "ok"
    BY <1>0, <1>5, <1>c DEF PrepareGroup
  <2>2. InBox(G(c)) = {}
    BY <1>0, <1>a, <2>1, CageAssumption
       DEF CoreInv, UnbornInv, UnbornPCs, BirthInv, G, Phases
  <2> QED
    BY <1>0, <1>b, <1>c, <2>1, <2>2 DEF QuietAt, InBox, G, SameBox, Settled
<1>6. CASE ReturnRun(c)
  <2>1. /\ pc[c] = "return" /\ UNCHANGED <<abandoned, boxVars>>
        /\ pc'[c] \in {"prepare", "done"}
    BY <1>0, <1>6 DEF ReturnRun, Finish
  <2>2. CASE pc'[c] = "prepare"
    <3>1. /\ phase[c] = "preflight" /\ verdict[c] = "ok" /\ status[G(c)] = "ok"
          /\ phase'[c] = "main" /\ outcome' = outcome
     BY <1>0, <1>6, <2>2 DEF ReturnRun, Finish, PreflightVerified
    <3> QED
      BY <1>0, <1>c, <2>1, <2>2, <3>1 DEF QuietAt, InBox, G, Settled
  <2>3. CASE pc'[c] = "done"
    <3>1. /\ phase' = phase
          /\ (outcome'[c] = "ok" => phase[c] = "main" /\ verdict[c] = "ok")
     BY <1>0, <1>6, <2>3 DEF ReturnRun, Finish
    <3> QED
      BY <1>0, <1>c, <2>1, <2>3, <3>1 DEF QuietAt, InBox, G, Settled
  <2> QED
    BY <2>1, <2>2, <2>3
<1>7. CASE WriteKill(c)
  <2>1. CASE pc'[c] = "discard"
    <3>1. /\ pc[c] = "kill" /\ c \in abandoned' /\ phase' = phase
          /\ outcome' = outcome
      BY <1>0, <1>7, <2>1
         DEF WriteKill, KillFailed, GroupDropped, AfterWait, Conts
    <3> QED
      BY <1>0, <1>b, <1>c, <2>1, <3>1 DEF QuietAt, InBox, SameBox, Settled
  <2>2. CASE pc'[c] # "discard"
    <3>1. /\ pc[c] = "kill"
          /\ pc'[c] \notin LatePCs
          /\ phase' = phase /\ outcome' = outcome
      BY <1>0, <1>7, <2>2
         DEF WriteKill, KillFailed, GroupDropped, AfterWait, Conts
    <3> QED
      BY <1>1, <3>1
  <2> QED
    BY <2>1, <2>2
<1>8. CASE ReapGroup(c)
  <2>0. /\ pc[c] = "reap" /\ phase' = phase /\ UNCHANGED boxVars
        /\ outcome' = outcome
     BY <1>8 DEF ReapGroup
  <2>1. CASE KillFailed(c)
    <3>1. pc'[c] = "discard" => c \in abandoned'
      BY <1>0, <2>0, <2>1 DEF KillFailed, GroupDropped, AfterWait, Conts
    <3>2. pc'[c] \notin {"read", "remove", "report", "return", "done"}
      BY <1>0, <2>0, <2>1 DEF KillFailed, GroupDropped, AfterWait, Conts
    <3> QED
      BY <1>0, <1>c, <2>0, <3>1, <3>2 DEF QuietAt, InBox, Settled
  <2>2. CASE TreeEmpty(G(c)) /\ KillSucceeded(c)
    <3>1. InBox(G(c)) = {}
       BY <1>0, <1>a, <2>2, TreeEmptied
    <3>2. pc'[c] \notin {"remove", "report", "return", "done"}
      BY <1>0, <2>0, <2>2 DEF KillSucceeded, Conts
    <3> QED
      BY <1>0, <1>c, <2>0, <3>1, <3>2 DEF QuietAt, InBox, Settled, G
  <2> QED
    BY <1>8, <2>1, <2>2 DEF ReapGroup
<1>9. CASE FinishScan(c)
  <2>1. pc'[c] = "read" => InBox(G(c)) = {}
    BY <1>0, <1>a, <1>9, TreeEmptied
       DEF FinishScan, NothingLeft, CallKillAll, Bail, GroupDropped
  <2>2. /\ pc[c] = "finish" /\ pc'[c] \in {"read", "kill", "drop"}
        /\ phase' = phase /\ UNCHANGED boxVars /\ outcome' = outcome
     BY <1>0, <1>9 DEF FinishScan, CallKillAll, Bail, GroupDropped
  <2> QED
    BY <1>0, <1>c, <2>1, <2>2 DEF QuietAt, InBox, Settled, G
<1>10. CASE FinishRead(c)
  <2>2. /\ pc[c] = "read" /\ pc'[c] \in {"remove", "drop"}
        /\ pc'[c] = "remove" => report'[c] = events[G(c)]
        /\ phase' = phase /\ UNCHANGED boxVars /\ outcome' = outcome
     BY <1>0, <1>10 DEF FinishRead, Bail, GroupDropped, CallTypeOK
  <2> QED
    BY <1>0, <1>c, <2>2 DEF QuietAt, InBox, Settled, G
<1>11. CASE FinishRemove(c)
  <2>2. /\ pc[c] = "remove" /\ pc'[c] \in {"report", "drop"}
        /\ pc'[c] = "report" => dir'[G(c)] = "removed"
        /\ phase' = phase /\ UNCHANGED <<live, dying, events, status>>
        /\ outcome' = outcome
        /\ report' = report
     BY <1>0, <1>a, <1>11 DEF FinishRemove, Bail, GroupDropped, BoxTypeOK
  <2> QED
    BY <1>0, <1>b, <1>c, <2>2 DEF QuietAt, InBox, Settled, G, SameBox
<1>12. CASE ReportRun(c)
  <2>1. /\ pc[c] = "report" /\ pc'[c] = "return"
        /\ verdict'[c] = ResourceVerdict(c)
        /\ phase' = phase /\ UNCHANGED boxVars /\ outcome' = outcome
        /\ abandoned' = abandoned
    BY <1>0, <1>12 DEF ReportRun
  <2>2. verdict[c] # "ok" /\ sup = "alive"
    BY <1>0, <2>1, <1>12 DEF CoreInv, ErrorInv, ReportRun
  <2>3. ASSUME ResourceVerdict(c) = "ok"
        PROVE  /\ verdict[c] = "none" /\ c \notin wall /\ report[c] = {}
               /\ status[G(c)] # "fsize"
    BY <1>0, <2>2, <2>3 DEF ResourceVerdict, CallTypeOK, LimitEvents
  <2>4. InBox(G(c)) = {} /\ dir[G(c)] = "removed" /\ report[c] = events[G(c)]
    BY <1>0, <2>1 DEF QuietAt
  <2>5. ASSUME ResourceVerdict(c) = "ok"
        PROVE  status[G(c)] \in {"ok", "fail"} /\ events[G(c)] = {}
    <3>1. Exited(G(c))
      BY <1>0, <2>1, <2>3, <2>5 DEF IInv, ExitInv, ExitAt, Errors
    <3>2. ~Doomed(G(c))
      BY <1>0, <2>1, <2>2, <2>3, <2>4, <2>5
         DEF IInv, DoomInv, DoomAt, Resting, Errors, Killing
    <3> QED
      BY <2>3, <2>4, <2>5, <3>1, <3>2 DEF Exited, Exits, Doomed
  <2> QED
    BY <1>0, <1>c, <2>1, <2>4, <2>5 DEF QuietAt, InBox, Settled, G
<1>13. CASE DropGroup(c)
  <2>1. /\ pc[c] = "drop" /\ pc'[c] \in {"kill", "discard"}
        /\ pc'[c] = "discard" => c \in abandoned'
        /\ phase' = phase /\ UNCHANGED boxVars /\ outcome' = outcome
    BY <1>0, <1>13 DEF DropGroup, RestoreDone, RestoreFailed
  <2> QED
    BY <1>0, <1>c, <2>1 DEF QuietAt, InBox, Settled, G
<1>14. CASE DropRemove(c)
  <2>1. /\ pc[c] = "discard" /\ pc'[c] = "return" /\ abandoned' = abandoned
        /\ phase' = phase /\ UNCHANGED <<live, dying, events, status>>
        /\ outcome' = outcome
        /\ verdict' = verdict
    BY <1>0, <1>14 DEF DropRemove
  <2>2. verdict[c] # "ok"
    BY <1>0, <2>1 DEF CoreInv, ErrorInv
  <2> QED
    BY <1>0, <1>b, <1>c, <2>1, <2>2 DEF QuietAt, InBox, Settled, G, SameBox
<1> QED
  BY <1>2, <1>3, <1>4, <1>5, <1>6, <1>7, <1>8, <1>9, <1>10, <1>11, <1>12,
     <1>13, <1>14
     DEF CallerStep

\* The child has exited when its result is looked at.
LEMMA ExitOwn ==
  ASSUME IInv, NEW c \in Callers, CallerStep(c)
  PROVE  ExitAt(c)'
<1> USE DEF vars, supVars, watchVars, callVars, procVars, pipeVars, boxVars,
            threadVars, Step, Fault
<1>0. /\ CoreInv /\ TypeOK /\ CallTypeOK /\ BoxTypeOK /\ ExitAt(c)
      /\ pc \in [Callers -> PCs] /\ cont \in [Callers -> Conts]
      /\ verdict \in [Callers -> Verdicts] /\ cont[c] \in Conts
  BY DEF IInv, CoreInv, TypeOK, ExitInv, CallTypeOK
<1> DEFINE Looking(k) == k \in {"join", "finish", "read", "remove", "report"}
<1>1. ASSUME ~Looking(pc'[c]),
             pc'[c] \notin {"kill", "reap"} \/ cont'[c] # "finish"
      PROVE  ExitAt(c)'
  BY <1>1 DEF ExitAt, Killing
<1>2. CASE LockRun(c) \/ PlanRun(c) \/ ReturnRun(c) \/ PrepareGroup(c)
           \/ OpenMounts(c) \/ ApplyInheritedLimits(c) \/ EnterGroup(c)
           \/ SpawnChild(c)
  <2>1. pc'[c] \in UnbornPCs \cup {"done", "return", "restore", "drop"}
    BY <1>0, <1>2
       DEF LockRun, PlanRun, ReturnRun, PrepareGroup, OpenMounts,
           ApplyInheritedLimits, EnterGroup, SpawnChild, Finish, Bail,
           GroupDropped, UnbornPCs
  <2> QED
    BY <1>1, <2>1 DEF UnbornPCs
<1>3. CASE \/ RestoreSupervisor(c) \/ AbortChild(c) \/ StartReaders(c)
           \/ WatchCapture(c)
           \/ \/ KillCaptureChild(c) \/ ReportRun(c) \/ DropGroup(c)
           \/ DropRemove(c)
  <2>1. /\ ~Looking(pc'[c])
        /\ (pc'[c] \notin {"kill", "reap"} \/ cont'[c] # "finish")
    BY <1>0, <1>3
       DEF RestoreSupervisor, AbortChild, StartReaders, WatchCapture,
           KillCaptureChild, ReportRun, DropGroup, DropRemove, Bail,
           GroupDropped, CallKillAll, RestoreDone, RestoreFailed
  <2> QED
    BY <1>1, <2>1
<1>4. ASSUME Exited(G(c)) \/ verdict[c] \in Errors, phase' = phase,
             status' = status,
             verdict'[c] = verdict[c] \/ verdict'[c] \in Errors
      PROVE  ExitAt(c)'
  BY <1>4 DEF ExitAt, Exited, G
<1>5. CASE PollChild(c)
  <2>1. CASE Exited(G(c))
    BY <1>4, <1>5, <2>1 DEF PollChild
  <2>2. CASE ~Exited(G(c))
    <3>1. \/ ~Looking(pc'[c]) /\ cont'[c] # "finish"
          \/ pc'[c] = "watch"
      BY <1>0, <1>5, <2>2 DEF PollChild, CallKillAll
    <3> QED
      BY <1>1, <3>1
  <2> QED
    BY <2>1, <2>2
<1>6. CASE AwaitChild(c)
  <2>1. Exited(G(c)) /\ phase' = phase /\ status' = status
        /\ (verdict'[c] = verdict[c] \/ verdict'[c] \in Errors)
    BY <1>0, <1>6 DEF AwaitChild, Bail, Errors
  <2> QED
    BY <1>4, <2>1
<1>7. CASE JoinReaders(c)
  <2>1. pc[c] = "join" /\ phase' = phase /\ status' = status
        /\ (verdict'[c] = verdict[c] \/ verdict'[c] \in Errors)
    BY <1>0, <1>7 DEF JoinReaders, Errors
  <2> QED
    BY <1>0, <1>4, <2>1 DEF ExitAt
<1>8. CASE FinishScan(c) \/ FinishRead(c) \/ FinishRemove(c)
  <2>1. /\ pc[c] \in {"finish", "read", "remove"} /\ phase' = phase
        /\ status' = status
        /\ (verdict'[c] = verdict[c] \/ verdict'[c] \in Errors)
    BY <1>0, <1>8
       DEF FinishScan, FinishRead, FinishRemove, CallKillAll, Bail, Errors
  <2> QED
    BY <1>0, <1>4, <2>1 DEF ExitAt
<1>9. ASSUME pc[c] \in {"kill", "reap"}, phase' = phase, status' = status,
             cont' = cont, KillFailed(c)
      PROVE  ExitAt(c)'
  <2>1. \/ ~Looking(pc'[c]) /\ pc'[c] \notin {"kill", "reap"}
        \/ verdict'[c] = "setup"
    BY <1>0, <1>9 DEF KillFailed, GroupDropped, Conts
  <2> QED
    BY <1>1, <2>1 DEF ExitAt, Errors
<1>10. CASE WriteKill(c)
  <2>1. pc[c] = "kill" /\ phase' = phase /\ status' = status /\ cont' = cont
    BY <1>10 DEF WriteKill
  <2>2. CASE pc'[c] = "reap" /\ verdict' = verdict
    BY <1>0, <2>1, <2>2 DEF ExitAt, Killing, Exited, G
  <2> QED
    BY <1>0, <1>9, <1>10, <2>1, <2>2 DEF WriteKill
<1>11. CASE ReapGroup(c)
  <2>1. pc[c] = "reap" /\ phase' = phase /\ status' = status /\ cont' = cont
    BY <1>11 DEF ReapGroup
  <2>2. CASE KillSucceeded(c)
    <3>1. CASE cont[c] = "finish"
      BY <1>0, <1>4, <2>1, <2>2, <3>1 DEF ExitAt, Killing, KillSucceeded
    <3>2. CASE cont[c] # "finish"
      BY <1>0, <1>1, <2>1, <2>2, <3>2 DEF KillSucceeded, Conts
    <3> QED
      BY <3>1, <3>2
  <2> QED
    BY <1>9, <1>11, <2>1, <2>2 DEF ReapGroup
<1> QED
  BY <1>2, <1>3, <1>5, <1>6, <1>7, <1>8, <1>10, <1>11 DEF CallerStep

\* A killed child leaves a trace that keeps its status from being delivered.
LEMMA DoomOwn ==
  ASSUME IInv, CoreInv', NEW c \in Callers, CallerStep(c)
  PROVE  DoomAt(c)'
<1> USE DEF vars, supVars, watchVars, callVars, procVars, pipeVars, boxVars,
            threadVars, Step, Fault
<1> USE DEF TracedConts
<1>0. /\ CoreInv /\ TypeOK /\ CallTypeOK /\ BoxTypeOK /\ DoomAt(c) /\ ErrorInv
      /\ pc \in [Callers -> PCs] /\ cont \in [Callers -> Conts]
      /\ verdict \in [Callers -> Verdicts] /\ cont[c] \in Conts
      /\ dying \in [Group -> SUBSET Procs] /\ G(c) \in Group
  BY GroupOf DEF IInv, CoreInv, TypeOK, DoomInv, CallTypeOK, BoxTypeOK
<1>1. ASSUME pc'[c] \in UnbornPCs \cup Resting \cup {"return"}
      PROVE  DoomAt(c)'
  <2>1. CASE pc'[c] \in Resting \cup {"return"}
    BY <2>1 DEF DoomAt
  <2>2. CASE pc'[c] \in UnbornPCs
    <3>1. PICK ph \in Phases : phase'[c] = ph
      BY DEF CoreInv, TypeOK, CallTypeOK
    <3>2. <<c, ph>> \in Group /\ home'[<<c, ph>>] = None
      BY <2>2, <3>1 DEF CoreInv, UnbornInv, Group
    <3>3. ~Doomed(<<c, ph>>)'
      BY <3>2 DEF CoreInv, BirthInv, InBox, Doomed
    <3> QED
      BY <3>1, <3>3 DEF DoomAt, G
  <2> QED
    BY <1>1, <2>1, <2>2
<1>2. ASSUME verdict'[c] \in Errors PROVE DoomAt(c)'
  BY <1>2 DEF DoomAt
<1>3. CASE LockRun(c) \/ PlanRun(c) \/ ReturnRun(c) \/ PrepareGroup(c)
  <2>1. \/ pc'[c] \in UnbornPCs \cup Resting \cup {"return"}
        \/ verdict'[c] \in Errors
    BY <1>0, <1>3
       DEF LockRun, PlanRun, ReturnRun, PrepareGroup, Finish, UnbornPCs,
           Resting, Errors
  <2> QED
    BY <1>1, <1>2, <2>1
<1>4. CASE OpenMounts(c) \/ ApplyInheritedLimits(c) \/ EnterGroup(c)
  <2>1. pc'[c] \in UnbornPCs \/ verdict'[c] \in Errors
    BY <1>0, <1>4
       DEF OpenMounts, ApplyInheritedLimits, EnterGroup, Bail, GroupDropped,
           UnbornPCs, Errors
  <2> QED
    BY <1>1, <1>2, <2>1
<1>5. CASE SpawnChild(c)
  <2>1. /\ pc[c] = "spawn" /\ phase' = phase /\ dying' = dying
        /\ (status'[G(c)] = "running" \/ verdict'[c] \in Errors)
    BY <1>0, <1>5 DEF SpawnChild, Bail, Errors, BoxTypeOK
  <2>2. dying[G(c)] = {}
    BY <1>0, <2>1, CageAssumption
       DEF CoreInv, UnbornInv, BirthInv, InBox, UnbornPCs, G, TypeOK,
           CallTypeOK
  <2> QED
    BY <1>2, <2>1, <2>2 DEF DoomAt, Doomed, G
<1> DEFINE OverTraced ==
             /\ pc[c] \in {"watch", "poll", "kill", "reap", "join"}
             /\ G(c) \in over /\ ~Killing(c, {"finish"})
           ContTraced ==
             pc[c] \in {"kill", "reap", "await"} /\ cont[c] \in TracedConts
<1>6. ASSUME phase' = phase, UNCHANGED boxVars, sup' = sup,
             wall' = wall \/ wall' = wall \cup {c},
             pc[c] \notin Resting \cup {"return"},
             verdict'[c] = verdict[c],
             OverTraced => OverTraced',
             ContTraced => c \in wall' \/ ContTraced'
      PROVE  DoomAt(c)'
  BY <1>0, <1>6 DEF DoomAt, Doomed, G
<1>7. CASE RestoreSupervisor(c)
  <2>1. verdict'[c] \in Errors \/ verdict'[c] = verdict[c]
    BY <1>0, <1>7 DEF RestoreSupervisor, Errors
  <2> QED
    BY <1>0, <1>2, <1>6, <1>7, <2>1 DEF RestoreSupervisor, Resting
<1>8. CASE AbortChild(c) \/ DropGroup(c) \/ DropRemove(c)
  <2>1. verdict'[c] \in Errors
    BY <1>0, <1>8
       DEF AbortChild, GroupDropped, DropGroup, DropRemove, ErrorInv, DropPCs
  <2> QED
    BY <1>2, <2>1
<1>9. CASE StartReaders(c)
  <2>1. verdict'[c] \in Errors \/ verdict'[c] = verdict[c]
    BY <1>0, <1>9 DEF StartReaders, Bail, Errors
  <2> QED
    BY <1>0, <1>2, <1>6, <1>9, <2>1
       DEF StartReaders, Resting, Bail, GroupDropped
<1>10. CASE WatchCapture(c)
  <2>1. /\ pc[c] = "watch" /\ pc'[c] \in {"kill", "poll"}
        /\ pc'[c] = "kill" => cont'[c] \in {"overflow", "deadline"}
        /\ phase' = phase /\ UNCHANGED boxVars /\ sup' = sup /\ wall' = wall
        /\ verdict' = verdict
    BY <1>0, <1>10 DEF WatchCapture, CallKillAll
  <2> QED
    BY <1>6, <2>1 DEF Resting, Killing, G
<1>11. CASE PollChild(c)
  <2>1. /\ pc[c] = "poll" /\ phase' = phase /\ UNCHANGED boxVars /\ sup' = sup
        /\ wall' = wall /\ verdict' = verdict
    BY <1>0, <1>11 DEF PollChild, CallKillAll
  <2>2. G(c) \in over => Capturing(c)
    BY <1>0 DEF IInv, PipeInv, PipeAt, Capturing, G, CallTypeOK
  <2>3. Capturing(c) => /\ pc'[c] \in {"watch", "kill", "join"}
                        /\ pc'[c] = "kill" => cont'[c] # "finish"
    BY <1>0, <1>11 DEF PollChild, CallKillAll
  <2> QED
    BY <1>6, <2>1, <2>2, <2>3 DEF Resting, Killing, G
<1>12. CASE AwaitChild(c)
  <2>1. c \in wall' \/ verdict'[c] \in Errors
    BY <1>0, <1>12 DEF AwaitChild, Bail, Errors
  <2> QED
    BY <1>2, <2>1 DEF DoomAt
<1>13. CASE JoinReaders(c)
  <2>1. /\ pc[c] = "join" /\ phase' = phase /\ UNCHANGED boxVars /\ sup' = sup
        /\ wall' = wall
    BY <1>0, <1>13 DEF JoinReaders
  <2>2. \/ verdict'[c] \in Errors
        \/ (verdict'[c] = verdict[c] /\ G(c) \notin over)
    BY <1>0, <1>13 DEF JoinReaders, OverLimit, Errors
  <2> QED
    BY <1>2, <1>6, <2>1, <2>2 DEF Resting
<1>14. ASSUME pc[c] \in {"kill", "reap"}, phase' = phase, UNCHANGED boxVars,
              sup' = sup,
              cont' = cont, KillFailed(c)
       PROVE  DoomAt(c)'
  <2>1. CASE cont[c] \in {"timeout", "finish", "overflow", "deadline"}
    <3>1. verdict'[c] \in Errors
      BY <1>0, <1>14, <2>1 DEF KillFailed, GroupDropped, Errors
    <3> QED
      BY <1>2, <3>1
  <2>2. CASE cont[c] = "drop"
    <3>1. verdict'[c] \in Errors
      BY <1>0, <1>14, <2>2
         DEF KillFailed, GroupDropped, ErrorInv, Killing, CallTypeOK
    <3> QED
      BY <1>2, <3>1
  <2>3. CASE cont[c] \in {"monitorInherit", "monitorCapture"}
    BY <1>0, <1>14, <2>3 DEF KillFailed, GroupDropped, DoomAt
  <2> QED
    BY <1>0, <2>1, <2>2, <2>3 DEF Conts
<1>15. CASE WriteKill(c)
  <2>1. /\ pc[c] = "kill" /\ sup = "alive" /\ phase' = phase /\ cont' = cont
        /\ UNCHANGED <<over, events, status>>
    BY <1>15 DEF WriteKill
  <2>2. ASSUME pc'[c] = "reap", UNCHANGED <<killed, wall, verdict, abandoned>>,
               KillBox(G(c), "suicide")
        PROVE  DoomAt(c)'
    <3>1. CASE cont[c] \in TracedConts
      BY <2>1, <2>2, <3>1 DEF DoomAt
    <3>2. CASE cont[c] = "overflow"
      BY <2>1, <2>2, <3>2 DEF DoomAt, IInv, ContInv, Killing, G
    <3>3. CASE cont[c] = "drop"
      BY <1>0, <1>2, <2>1, <2>2, <3>3 DEF ErrorInv, Killing
    <3>4. CASE cont[c] = "finish"
      <4>1. verdict[c] \in Errors \/ Exited(G(c))
        BY <2>1, <3>4 DEF IInv, ExitInv, ExitAt, Killing
      <4>2. Exited(G(c)) => Bwrap \notin InBox(G(c))
        BY <1>0 DEF CoreInv, BirthInv, Exited, Exits
      <4>3. Exited(G(c)) => Bwrap \notin dying'[G(c)]
        BY <1>0, <2>2, <4>2 DEF KillBox, InBox
      <4> QED
        BY <1>2, <2>1, <2>2, <3>4, <1>0, <4>1, <4>3
           DEF DoomAt, Doomed, G, Killing, Resting
    <3> QED
      BY <1>0, <3>1, <3>2, <3>3, <3>4 DEF Conts
  <2> QED
    BY <1>0, <1>14, <1>15, <2>1, <2>2 DEF WriteKill
<1>16. CASE ReapGroup(c)
  <2>1. /\ pc[c] = "reap" /\ phase' = phase /\ UNCHANGED boxVars /\ sup' = sup
        /\ cont' = cont
    BY <1>16 DEF ReapGroup
  <2>2. CASE KillSucceeded(c)
    <3>1. CASE cont[c] \in {"timeout", "monitorInherit", "monitorCapture"}
      <4>1. pc'[c] = "await"
        BY <1>0, <2>1, <2>2, <3>1 DEF KillSucceeded
      <4> QED
        BY <2>1, <3>1, <4>1 DEF DoomAt
    <3>4. CASE cont[c] = "overflow"
      <4>1. pc'[c] = "poll" /\ G(c) \in over
        BY <1>0, <2>1, <2>2, <3>4 DEF KillSucceeded, IInv, ContInv
      <4> QED
        BY <2>1, <4>1 DEF DoomAt, G, Killing
    <3>5. CASE cont[c] = "deadline"
      BY <2>1, <2>2, <3>5 DEF KillSucceeded, DeadlineKill, DoomAt
    <3>2. CASE cont[c] = "finish"
      BY <1>0, <1>6, <2>1, <2>2, <3>2
         DEF KillSucceeded, DeadlineKill, Resting, Killing
    <3>3. CASE cont[c] = "drop"
      BY <1>0, <1>2, <2>1, <2>2, <3>3 DEF KillSucceeded, ErrorInv, Killing
    <3> QED
      BY <1>0, <3>1, <3>2, <3>3, <3>4, <3>5 DEF Conts
  <2> QED
    BY <1>14, <1>16, <2>1, <2>2 DEF ReapGroup
<1>17. CASE KillCaptureChild(c)
  BY <1>17 DEF KillCaptureChild, DoomAt
<1>18. CASE FinishScan(c) \/ FinishRead(c)
  <2>1. /\ pc[c] \in {"finish", "read"} /\ phase' = phase /\ UNCHANGED boxVars
        /\ sup' = sup /\ wall' = wall
        /\ (verdict'[c] = verdict[c] \/ verdict'[c] \in Errors)
    BY <1>0, <1>18 DEF FinishScan, FinishRead, CallKillAll, Bail, Errors
  <2> QED
    BY <1>2, <1>6, <2>1 DEF Resting
<1>19. CASE FinishRemove(c)
  <2>1. /\ pc[c] = "remove" /\ phase' = phase
        /\ UNCHANGED <<events, status, dying, over>> /\ sup' = sup
        /\ wall' = wall
        /\ (verdict'[c] = verdict[c] \/ verdict'[c] \in Errors)
    BY <1>0, <1>19 DEF FinishRemove, Bail, Errors
  <2> QED
    BY <1>0, <1>2, <2>1 DEF DoomAt, Doomed, G, Resting
<1>20. CASE ReportRun(c)
  <2>1. pc'[c] = "return"
    BY <1>0, <1>20 DEF ReportRun
  <2> QED
    BY <1>1, <2>1
<1> QED
  BY <1>3, <1>4, <1>5, <1>7, <1>8, <1>9, <1>10, <1>11, <1>12, <1>13, <1>15,
     <1>16, <1>17, <1>18, <1>19, <1>20
     DEF CallerStep

\* After the join the pipes are closed and nothing was dropped.
LEMMA PipeOwn ==
  ASSUME IInv, CoreInv', NEW c \in Callers, CallerStep(c)
  PROVE  PipeAt(c)'
<1> USE DEF vars, supVars, watchVars, callVars, procVars, pipeVars, boxVars,
            threadVars, Step, Fault
<1>0. /\ CoreInv /\ TypeOK /\ CallTypeOK /\ BoxTypeOK /\ PipeAt(c) /\ ErrorInv
      /\ pc \in [Callers -> PCs] /\ cont \in [Callers -> Conts]
      /\ verdict \in [Callers -> Verdicts] /\ outcome \in [Callers -> Verdicts]
      /\ phase[c] \in Phases
  BY DEF IInv, CoreInv, TypeOK, PipeInv, CallTypeOK, BoxTypeOK
<1> DEFINE Keeps == /\ \/ pc[c] \in {"finish", "read", "remove", "report"}
                       \/ Killing(c, {"finish"})
                    /\ verdict'[c] # "ok" => verdict'[c] = verdict[c]
                    /\ verdict'[c] = "ok" => verdict[c] = "none"
           Away == /\ pc'[c] \notin {"finish", "read", "remove", "report",
                                   "return"}
                   /\ pc'[c] \in {"kill", "reap"} => cont'[c] # "finish"
<1>1. ASSUME phase' = phase, mode' = mode, outcome' = outcome,
             UNCHANGED <<home, pipeVars>>,
             \/ Keeps \/ Away \/ verdict'[c] \in Errors
             \/ G(c) \notin piped \cup flood \/ ~Capturing(c)
      PROVE  PipeAt(c)'
  BY <1>0, <1>1 DEF PipeAt, Capturing, Killing, G, Errors
<1>2. CASE LockRun(c) \/ PlanRun(c)
  <2>1. /\ phase' = phase /\ mode' = mode /\ UNCHANGED <<home, pipeVars>>
        /\ Away /\ outcome'[c] # "ok"
    BY <1>0, <1>2 DEF LockRun, PlanRun, Finish, ErrorInv
  <2> QED
    BY <1>0, <2>1 DEF PipeAt, Capturing, Killing, G
<1>3. CASE ReturnRun(c)
  <2>1. mode' = mode /\ UNCHANGED <<home, pipeVars>> /\ Away
    BY <1>0, <1>3 DEF ReturnRun, Finish
  <2>2. outcome'[c] = "ok" =>
          \/ phase[c] = "main" /\ verdict[c] = "ok" /\ pc[c] = "return"
          \/ outcome[c] = "ok"
    BY <1>0, <1>3 DEF ReturnRun, Finish
  <2>3. outcome'[c] = "ok" => <<c, "main">> \notin piped \cup flood
    BY <1>0, <2>2 DEF PipeAt, Capturing, G, Phases
  <2> QED
    BY <1>0, <2>1, <2>3 DEF PipeAt, Killing
<1>4. CASE \/ PrepareGroup(c) \/ OpenMounts(c) \/ ApplyInheritedLimits(c)
           \/ EnterGroup(c)
           \/ RestoreSupervisor(c) \/ AbortChild(c) \/ StartReaders(c)
  <2>1. /\ phase' = phase /\ mode' = mode /\ outcome' = outcome
        /\ UNCHANGED <<home, pipeVars>>
        /\ Away \/ verdict'[c] \in Errors
    BY <1>0, <1>4
       DEF PrepareGroup, OpenMounts, ApplyInheritedLimits, EnterGroup,
           RestoreSupervisor, AbortChild, StartReaders, Bail, GroupDropped,
           Errors
  <2> QED
    BY <1>1, <2>1
<1>5. CASE SpawnChild(c)
  <2>1. /\ phase' = phase /\ mode' = mode /\ outcome' = outcome
        /\ pc[c] = "spawn"
        /\ Away /\ outcome[c] = "none" /\ UNCHANGED <<flood, over>>
    BY <1>0, <1>5 DEF SpawnChild, Bail, GroupDropped, ErrorInv
  <2>2. /\ \/ piped' = piped
           \/ /\ Capturing(c) /\ piped' = piped \cup {G(c)}
              /\ home'[G(c)] # None
        /\ \A g \in Group : home'[g] = None => home[g] = None
    <3>1. supAt # None
      BY <2>1, CageAssumption
         DEF CoreInv, PlaceInv, InsidePCs, G, TypeOK, CallTypeOK, IInv, Phases
    <3> QED
      BY <1>0, <1>5, <3>1, GroupOf DEF SpawnChild, Bail, BoxTypeOK
  <2>3. \A ph \in Phases : <<c, ph>> \in Group
    BY DEF Group
  <2> QED
    BY <1>0, <2>1, <2>2, <2>3 DEF PipeAt, Capturing, Killing, G
<1>6. CASE WatchCapture(c) \/ KillCaptureChild(c) \/ DropGroup(c)
  <2>1. /\ phase' = phase /\ mode' = mode /\ outcome' = outcome
        /\ UNCHANGED <<home, pipeVars>>
        /\ Away
    BY <1>0, <1>6
       DEF WatchCapture, KillCaptureChild, DropGroup, CallKillAll, RestoreDone,
           RestoreFailed
  <2> QED
    BY <1>1, <2>1
<1>7. CASE PollChild(c)
  <2>1. /\ phase' = phase /\ mode' = mode /\ outcome' = outcome
        /\ UNCHANGED <<home, pipeVars>>
        /\ Away \/ ~Capturing(c)
    BY <1>0, <1>7 DEF PollChild, CallKillAll
  <2> QED
    BY <1>1, <2>1
<1>8. CASE AwaitChild(c)
  <2>1. /\ phase' = phase /\ mode' = mode /\ outcome' = outcome
        /\ UNCHANGED <<home, pipeVars>>
        /\ ~Capturing(c) \/ verdict'[c] \in Errors
    BY <1>0, <1>8 DEF AwaitChild, Bail, Errors, IInv, ContInv
  <2> QED
    BY <1>1, <2>1
<1>9. CASE JoinReaders(c)
  <2>1. /\ phase' = phase /\ mode' = mode /\ outcome' = outcome
        /\ UNCHANGED <<home, pipeVars>>
        /\ G(c) \notin piped \cup flood \/ verdict'[c] \in Errors
    BY <1>0, <1>9 DEF JoinReaders, OverLimit, Errors
  <2> QED
    BY <1>1, <2>1
<1>10. ASSUME pc[c] \in {"kill", "reap"}, cont' = cont, KillFailed(c)
       PROVE  Away \/ verdict'[c] \in Errors
  BY <1>0, <1>10 DEF KillFailed, GroupDropped, Conts, Errors
<1>11. CASE WriteKill(c)
  <2>1. /\ phase' = phase /\ mode' = mode /\ outcome' = outcome
        /\ UNCHANGED <<home, pipeVars>>
        /\ pc[c] = "kill" /\ cont' = cont
    BY <1>11 DEF WriteKill
  <2>2. CASE pc'[c] = "reap" /\ verdict' = verdict
    BY <1>0, <2>1, <2>2 DEF PipeAt, Capturing, Killing, G
  <2> QED
    BY <1>0, <1>1, <1>10, <1>11, <2>1, <2>2 DEF WriteKill
<1>12. CASE ReapGroup(c)
  <2>1. /\ phase' = phase /\ mode' = mode /\ outcome' = outcome
        /\ UNCHANGED <<home, pipeVars>>
        /\ pc[c] = "reap" /\ cont' = cont
    BY <1>12 DEF ReapGroup
  <2>2. CASE KillSucceeded(c)
    <3>1. verdict' = verdict /\ (Away \/ cont[c] = "finish")
      BY <1>0, <2>1, <2>2 DEF KillSucceeded, Conts
    <3>2. verdict[c] # "ok"
      BY <1>0, <2>1 DEF ErrorInv
    <3> QED
      BY <1>1, <2>1, <3>1, <3>2 DEF Killing
  <2> QED
    BY <1>1, <1>10, <1>12, <2>1, <2>2 DEF ReapGroup
<1>13. CASE FinishScan(c) \/ FinishRead(c) \/ FinishRemove(c)
  <2>1. /\ phase' = phase /\ mode' = mode /\ outcome' = outcome
        /\ UNCHANGED <<home, pipeVars>>
        /\ pc[c] \in {"finish", "read", "remove"}
        /\ (verdict'[c] = verdict[c] \/ verdict'[c] \in Errors)
    BY <1>0, <1>13
       DEF FinishScan, FinishRead, FinishRemove, CallKillAll, Bail, Errors
  <2>2. verdict[c] # "ok"
    BY <1>0, <2>1 DEF ErrorInv
  <2> QED
    BY <1>1, <2>1, <2>2
<1>14. CASE ReportRun(c)
  <2>1. /\ phase' = phase /\ mode' = mode /\ outcome' = outcome
        /\ UNCHANGED <<home, pipeVars>>
        /\ pc[c] = "report" /\ verdict'[c] = ResourceVerdict(c)
    BY <1>0, <1>14 DEF ReportRun
  <2>2. verdict[c] # "ok"
    BY <1>0, <2>1 DEF ErrorInv
  <2>3. verdict[c] \in Errors \/ verdict[c] = "none"
    BY <1>0, <2>2 DEF Verdicts
  <2>4. verdict'[c] \in Errors \/ (verdict'[c] = "ok" /\ verdict[c] = "none")
    BY <2>1, <2>3 DEF ResourceVerdict, Errors
  <2> QED
    BY <1>1, <2>1, <2>4
<1>15. CASE DropRemove(c)
  <2>1. /\ phase' = phase /\ mode' = mode /\ outcome' = outcome
        /\ UNCHANGED <<home, pipeVars>>
        /\ pc[c] = "discard" /\ verdict'[c] = verdict[c]
    BY <1>0, <1>15 DEF DropRemove
  <2>2. verdict[c] \in Errors
    BY <1>0, <2>1 DEF ErrorInv, DropPCs
  <2> QED
    BY <1>1, <2>1, <2>2
<1> QED
  BY <1>2, <1>3, <1>4, <1>5, <1>6, <1>7, <1>8, <1>9, <1>11, <1>12, <1>13,
     <1>14, <1>15
     DEF CallerStep

-----------------------------------------------------------------------------
(* The same conjuncts at the cgroup that moves. *)

\* A quiet cgroup stays quiet.
LEMMA BoxStepKeepsQuiet ==
  ASSUME IInv, NEW g \in Group, BoxStep(g), NEW c \in Callers
  PROVE  QuietAt(c)'
<1> USE DEF callVars
<1>1. CoreInv /\ QuietAt(c) /\ phase[c] \in Phases
  BY DEF IInv, QuietInv, CoreInv, TypeOK, CallTypeOK
<1>2. /\ UNCHANGED <<pc, phase, report, outcome, verdict, abandoned, supAt>>
      /\ \A h \in Group : h # g => SameBox(h)
  BY <1>1, BoxesTouchTheirOwn
<1>3. ASSUME NEW ph \in Phases, InBox(<<c, ph>>) = {}, supAt # <<c, ph>>
      PROVE  /\ InBox(<<c, ph>>)' = {}
             /\ dir'[<<c, ph>>] = dir[<<c, ph>>]
             /\ events'[<<c, ph>>] = events[<<c, ph>>]
             /\ status'[<<c, ph>>] = status[<<c, ph>>]
  <2>1. <<c, ph>> \in Group
    BY DEF Group
  <2>2. CASE <<c, ph>> = g
    BY <1>1, <1>3, <2>2, SettledBoxStays DEF InBox
  <2>3. CASE <<c, ph>> # g
    BY <1>2, <1>3, <2>1, <2>3 DEF SameBox, InBox
  <2> QED
    BY <2>2, <2>3
<1>4. ASSUME NEW ph \in Phases, supAt = <<c, ph>>
      PROVE  /\ phase[c] = ph /\ outcome[c] # "ok"
             /\ pc[c] \notin {"read", "remove", "report"}
             /\ pc[c] \in {"discard", "return", "done"} => c \in abandoned
             /\ ~(pc[c] = "return" /\ verdict[c] = "ok")
  BY <1>1, <1>4 DEF CoreInv, PlaceInv, ErrorInv, InsidePCs, Errors
<1>5. phase[c] = "main" =>
        Settled(<<c, "preflight">>) /\ supAt # <<c, "preflight">>
  BY <1>1, <1>4 DEF QuietAt, Phases
<1>6. outcome[c] = "ok" => Settled(<<c, "main">>) /\ supAt # <<c, "main">>
  BY <1>1, <1>4 DEF QuietAt, Phases
<1> QED
  BY <1>1, <1>2, <1>3, <1>4, <1>5, <1>6 DEF QuietAt, Settled, G, Phases

\* An exited child stays exited.
LEMMA BoxStepKeepsExit ==
  ASSUME IInv, NEW g \in Group, BoxStep(g), NEW c \in Callers
  PROVE  ExitAt(c)'
<1>1. CoreInv /\ ExitAt(c) /\ G(c) \in Group
  BY GroupOf DEF IInv, ExitInv, CoreInv
<1>2. /\ UNCHANGED <<pc, phase, cont, verdict>>
      /\ \A h \in Group : h # g => SameBox(h)
  BY <1>1, BoxesTouchTheirOwn DEF callVars
<1>3. Exited(g) => status'[g] = status[g]
  <2>1. Exited(g) => Bwrap \notin live[g] /\ Bwrap \notin dying[g]
    BY <1>1 DEF CoreInv, BirthInv, InBox, Exited, Exits
  <2> QED
    BY <1>1, <2>1
       DEF BoxStep, BoxFork, BoxExit, KilledExit, NamespaceDies, ParentDies,
           FloodPipe, RaiseOverLimit, PipesClose, LimitEvent, OomKill, procVars
<1>4. Exited(G(c)) => Exited(G(c))'
  BY <1>1, <1>2, <1>3 DEF Exited, SameBox, G
<1> QED
  BY <1>1, <1>2, <1>4 DEF ExitAt, Killing

\* The kernel kills a child only with a trace, or with the supervisor.
LEMMA BoxStepKeepsDoom ==
  ASSUME IInv, NEW g \in Group, BoxStep(g), NEW c \in Callers
  PROVE  DoomAt(c)'
<1> USE DEF vars, supVars, watchVars, callVars, procVars, pipeVars, boxVars,
            threadVars, Step, Fault
<1>1. CoreInv /\ DoomAt(c) /\ G(c) \in Group /\ BoxTypeOK
  BY GroupOf DEF IInv, DoomInv, CoreInv, TypeOK
<1>2. /\ UNCHANGED <<pc, phase, cont, verdict, wall>>
      /\ \A h \in Group : h # g => SameBox(h)
  BY <1>1, BoxesTouchTheirOwn
<1>3. sup' = "alive" => sup = "alive"
  BY <1>1
     DEF BoxStep, BoxFork, BoxExit, KilledExit, NamespaceDies, ParentDies,
         FloodPipe, RaiseOverLimit, PipesClose, LimitEvent, OomKill, KillBox
<1>4. \A e \in events[g] : e \in events'[g]
  BY <1>1
     DEF BoxStep, BoxFork, BoxExit, KilledExit, NamespaceDies, ParentDies,
         FloodPipe, RaiseOverLimit, PipesClose, LimitEvent, OomKill, KillBox,
         BoxTypeOK
<1>5. g \in over => g \in over'
  BY <1>1
     DEF BoxStep, BoxFork, BoxExit, KilledExit, NamespaceDies, ParentDies,
         FloodPipe, RaiseOverLimit, PipesClose, LimitEvent, OomKill, KillBox
<1>6. ASSUME sup' = "alive", Doomed(g)'
      PROVE  Doomed(g) \/ "memory" \in events'[g]
  <2>1. CASE \/ BoxFork(g) \/ FloodPipe(g) \/ RaiseOverLimit(g) \/ PipesClose(g)
             \/ LimitEvent(g)
    BY <1>6, <2>1
       DEF BoxFork, FloodPipe, RaiseOverLimit, PipesClose, LimitEvent, Doomed
  <2>2. ASSUME NEW p \in Procs, BoxExit(g, p) PROVE Doomed(g)
    BY <1>1, <1>6, <2>2 DEF BoxExit, Doomed, Exits, BoxTypeOK, CoreInv
  <2>3. ASSUME NEW p \in Procs, KilledExit(g, p) PROVE Doomed(g)
    BY <1>1, <1>6, <2>3 DEF KilledExit, Doomed, BoxTypeOK
  <2>4. CASE NamespaceDies(g)
    BY <1>1, <1>6, <2>4, CageAssumption
       DEF NamespaceDies, Signal, Doomed, BoxTypeOK
  <2>5. CASE ParentDies(g)
    BY <1>6, <2>5 DEF ParentDies
  <2>6. CASE OomKill(g)
    BY <1>1, <2>6 DEF OomKill, BoxTypeOK
  <2> QED
    BY <2>1, <2>2, <2>3, <2>4, <2>5, <2>6 DEF BoxStep
<1>7. CASE g = G(c)
  BY <1>1, <1>2, <1>3, <1>4, <1>5, <1>6, <1>7 DEF DoomAt, G, Killing
<1>8. CASE g # G(c)
  BY <1>1, <1>2, <1>3, <1>8 DEF DoomAt, Doomed, G, Killing, SameBox
<1> QED
  BY <1>7, <1>8

\* Pipes are written only while they are open.
LEMMA BoxStepKeepsPipe ==
  ASSUME IInv, NEW g \in Group, BoxStep(g), NEW c \in Callers
  PROVE  PipeAt(c)'
<1> USE DEF vars, supVars, watchVars, callVars, procVars, pipeVars, boxVars,
            threadVars, Step, Fault
<1>1. CoreInv /\ PipeAt(c) /\ G(c) \in Group /\ BoxTypeOK
  BY GroupOf DEF IInv, PipeInv, CoreInv, TypeOK
<1>2. UNCHANGED <<pc, phase, mode, outcome, cont, verdict>> /\ home' = home
  BY <1>1, BoxesTouchTheirOwn
     DEF BoxStep, BoxFork, BoxExit, KilledExit, NamespaceDies, ParentDies,
         FloodPipe, RaiseOverLimit, PipesClose, LimitEvent, OomKill
<1>3. /\ piped' \subseteq piped
      /\ flood' \subseteq flood \cup piped
      /\ over' \subseteq over \cup flood \cup piped
  BY <1>1
     DEF BoxStep, BoxFork, BoxExit, KilledExit, NamespaceDies, ParentDies,
         FloodPipe, RaiseOverLimit, PipesClose, LimitEvent, OomKill
<1> QED
  BY <1>1, <1>2, <1>3 DEF PipeAt, Capturing, Killing, G

-----------------------------------------------------------------------------
(* Every call, every step. *)

\* A call nobody touches stays quiet.
LEMMA SameQuiet ==
  ASSUME IInv, NEW d \in Callers, SameCall(d), phase[d] \in Phases,
         \A ph \in Phases : SameBox(<<d, ph>>)
  PROVE  QuietAt(d)'
<1>1. QuietAt(d)
  BY DEF IInv, QuietInv
<1>2. /\ \A ph \in Phases : InBox(<<d, ph>>)' = InBox(<<d, ph>>)
      /\ \A ph \in Phases : Settled(<<d, ph>>)' = Settled(<<d, ph>>)
  BY DEF SameBox, InBox, Settled
<1>3. PICK ph \in Phases : phase[d] = ph /\ phase'[d] = ph
  BY DEF SameCall
<1>4. /\ G(d) = <<d, ph>> /\ G(d)' = <<d, ph>>
  BY <1>3 DEF G
<1>5. /\ InBox(G(d))' = InBox(<<d, ph>>)
      /\ Settled(G(d))' = Settled(<<d, ph>>)
      /\ (report'[d] = events'[G(d)'] <=> report[d] = events[<<d, ph>>])
      /\ dir'[G(d)'] = dir[<<d, ph>>]
      /\ status'[G(d)'] = status[<<d, ph>>]
  BY <1>3, <1>4 DEF G, Settled, InBox, SameBox, SameCall
<1>6. /\ Settled(<<d, "preflight">>)' = Settled(<<d, "preflight">>)
      /\ Settled(<<d, "main">>)' = Settled(<<d, "main">>)
      /\ status'[<<d, "preflight">>] = status[<<d, "preflight">>]
      /\ status'[<<d, "main">>] = status[<<d, "main">>]
  BY <1>2 DEF Phases, SameBox
<1> QED
  BY <1>1, <1>3, <1>4, <1>5, <1>6 DEF QuietAt, SameCall

\* A step preserves QuietInv.
LEMMA QuietNext ==
  ASSUME IInv, CoreInv', [Next]_vars
  PROVE  QuietInv'
<1>0. CoreInv /\ \A c \in Callers : QuietAt(c)
  BY DEF IInv, QuietInv
<1>1. ASSUME NEW c \in Callers, CallerStep(c), NEW d \in Callers
      PROVE  QuietAt(d)'
  <2>1. CASE d = c
    BY <1>1, <2>1, QuietOwn
  <2>2. CASE d # c
    <3>1. /\ SameCall(d) /\ (sup' = "alive" => sup = "alive")
          /\ \A ph \in Phases : SameBox(<<d, ph>>)
      <4>1. SameCall(d) /\ \A h \in Group : h # G(c) => SameBox(h)
        BY <1>0, <1>1, <2>2, StepsTouchTheirOwn
      <4>2. \A ph \in Phases : <<d, ph>> \in Group /\ <<d, ph>> # G(c)
        BY <2>2 DEF Group, G
      <4>3. sup = "alive"
        BY <1>1, CallerStepsNeedTheSupervisor
      <4> QED
        BY <4>1, <4>2, <4>3
    <3>2. phase[d] \in Phases
      BY <1>0 DEF CoreInv, TypeOK, CallTypeOK
    <3> QED
      BY <3>1, <3>2, SameQuiet
  <2> QED
    BY <2>1, <2>2
<1>2. ASSUME NEW g \in Group, BoxStep(g), NEW d \in Callers PROVE QuietAt(d)'
  BY <1>2, BoxStepKeepsQuiet
<1>3. ASSUME NEW c \in Callers, WatchdogExpires(c) PROVE QuietInv'
  <2>1. UNCHANGED <<supVars, pc, callVars, cont, wall, verdict, abandoned,
                    boxVars>>
    BY <1>3 DEF WatchdogExpires
  <2> QED
    BY <1>0, <2>1
       DEF QuietInv, QuietAt, G, Phases, Settled, InBox, supVars, callVars,
           boxVars, procVars, pipeVars
<1>4. CASE SupervisorCrash
  BY <1>0, <1>4
     DEF SupervisorCrash, QuietInv, QuietAt, G, Phases, Settled, InBox,
         watchVars, callVars, boxVars, procVars, pipeVars
<1>5. CASE UNCHANGED vars
  BY <1>0, <1>5
     DEF vars, QuietInv, QuietAt, G, Phases, Settled, InBox, supVars,
         watchVars, callVars, boxVars, procVars, pipeVars
<1> QED
  BY <1>1, <1>2, <1>3, <1>4, <1>5 DEF Next, Terminated, QuietInv

\* A step preserves ExitInv.
LEMMA ExitNext ==
  ASSUME IInv, CoreInv', [Next]_vars
  PROVE  ExitInv'
<1>0. CoreInv /\ \A c \in Callers : ExitAt(c)
  BY DEF IInv, ExitInv
<1>1. ASSUME NEW c \in Callers, CallerStep(c), NEW d \in Callers
      PROVE  ExitAt(d)'
  <2>1. CASE d = c
    BY <1>1, <2>1, ExitOwn
  <2>2. CASE d # c
    <3>1. /\ SameCall(d) /\ (sup' = "alive" => sup = "alive")
          /\ \A ph \in Phases : SameBox(<<d, ph>>)
      <4>1. SameCall(d) /\ \A h \in Group : h # G(c) => SameBox(h)
        BY <1>0, <1>1, <2>2, StepsTouchTheirOwn
      <4>2. \A ph \in Phases : <<d, ph>> \in Group /\ <<d, ph>> # G(c)
        BY <2>2 DEF Group, G
      <4>3. sup = "alive"
        BY <1>1, CallerStepsNeedTheSupervisor
      <4> QED
        BY <4>1, <4>2, <4>3
    <3>2. phase[d] \in Phases
      BY <1>0 DEF CoreInv, TypeOK, CallTypeOK
    <3>3. CASE phase[d] = "preflight"
      BY <1>0, <3>1, <3>3
         DEF ExitAt, SameCall, SameBox, G, Phases, Exited, Killing
    <3>4. CASE phase[d] = "main"
      BY <1>0, <3>1, <3>4
         DEF ExitAt, SameCall, SameBox, G, Phases, Exited, Killing
    <3> QED
      BY <3>2, <3>3, <3>4 DEF Phases
  <2> QED
    BY <2>1, <2>2
<1>2. ASSUME NEW g \in Group, BoxStep(g), NEW d \in Callers PROVE ExitAt(d)'
  BY <1>2, BoxStepKeepsExit
<1>3. ASSUME NEW c \in Callers, WatchdogExpires(c) PROVE ExitInv'
  <2>1. UNCHANGED <<supVars, pc, callVars, cont, wall, verdict, abandoned,
                    boxVars>>
    BY <1>3 DEF WatchdogExpires
  <2> QED
    BY <1>0, <2>1
       DEF ExitInv, ExitAt, G, Phases, Exited, Killing, supVars, callVars,
           boxVars, procVars, pipeVars
<1>4. CASE SupervisorCrash
  BY <1>0, <1>4
     DEF SupervisorCrash, ExitInv, ExitAt, G, Phases, Exited, Killing,
         watchVars, callVars, boxVars, procVars, pipeVars
<1>5. CASE UNCHANGED vars
  BY <1>0, <1>5
     DEF vars, ExitInv, ExitAt, G, Phases, Exited, Killing, supVars, watchVars,
         callVars, boxVars, procVars, pipeVars
<1> QED
  BY <1>1, <1>2, <1>3, <1>4, <1>5 DEF Next, Terminated, ExitInv

\* A step preserves DoomInv.
LEMMA DoomNext ==
  ASSUME IInv, CoreInv', [Next]_vars
  PROVE  DoomInv'
<1>0. CoreInv /\ \A c \in Callers : DoomAt(c)
  BY DEF IInv, DoomInv
<1>1. ASSUME NEW c \in Callers, CallerStep(c), NEW d \in Callers
      PROVE  DoomAt(d)'
  <2>1. CASE d = c
    BY <1>1, <2>1, DoomOwn
  <2>2. CASE d # c
    <3>1. /\ SameCall(d) /\ (sup' = "alive" => sup = "alive")
          /\ \A ph \in Phases : SameBox(<<d, ph>>)
      <4>1. SameCall(d) /\ \A h \in Group : h # G(c) => SameBox(h)
        BY <1>0, <1>1, <2>2, StepsTouchTheirOwn
      <4>2. \A ph \in Phases : <<d, ph>> \in Group /\ <<d, ph>> # G(c)
        BY <2>2 DEF Group, G
      <4>3. sup = "alive"
        BY <1>1, CallerStepsNeedTheSupervisor
      <4> QED
        BY <4>1, <4>2, <4>3
    <3>2. phase[d] \in Phases
      BY <1>0 DEF CoreInv, TypeOK, CallTypeOK
    <3>3. CASE phase[d] = "preflight"
      BY <1>0, <3>1, <3>3
         DEF DoomAt, SameCall, SameBox, G, Phases, Doomed, Killing, Resting
    <3>4. CASE phase[d] = "main"
      BY <1>0, <3>1, <3>4
         DEF DoomAt, SameCall, SameBox, G, Phases, Doomed, Killing, Resting
    <3> QED
      BY <3>2, <3>3, <3>4 DEF Phases
  <2> QED
    BY <2>1, <2>2
<1>2. ASSUME NEW g \in Group, BoxStep(g), NEW d \in Callers PROVE DoomAt(d)'
  BY <1>2, BoxStepKeepsDoom
<1>3. ASSUME NEW c \in Callers, WatchdogExpires(c) PROVE DoomInv'
  <2>1. UNCHANGED <<supVars, pc, callVars, cont, wall, verdict, abandoned,
                    boxVars>>
    BY <1>3 DEF WatchdogExpires
  <2> QED
    BY <1>0, <2>1
       DEF DoomInv, DoomAt, G, Phases, Doomed, Killing, Resting, supVars,
           callVars, boxVars, procVars, pipeVars
<1>4. CASE SupervisorCrash
  BY <1>0, <1>4
     DEF SupervisorCrash, DoomInv, DoomAt, G, Phases, Doomed, Killing, Resting,
         watchVars, callVars, boxVars, procVars, pipeVars
<1>5. CASE UNCHANGED vars
  BY <1>0, <1>5
     DEF vars, DoomInv, DoomAt, G, Phases, Doomed, Killing, Resting, supVars,
         watchVars, callVars, boxVars, procVars, pipeVars
<1> QED
  BY <1>1, <1>2, <1>3, <1>4, <1>5 DEF Next, Terminated, DoomInv

\* A step preserves PipeInv.
LEMMA PipeNext ==
  ASSUME IInv, CoreInv', [Next]_vars
  PROVE  PipeInv'
<1>0. CoreInv /\ \A c \in Callers : PipeAt(c)
  BY DEF IInv, PipeInv
<1>1. ASSUME NEW c \in Callers, CallerStep(c), NEW d \in Callers
      PROVE  PipeAt(d)'
  <2>1. CASE d = c
    BY <1>1, <2>1, PipeOwn
  <2>2. CASE d # c
    <3>1. /\ SameCall(d) /\ (sup' = "alive" => sup = "alive")
          /\ \A ph \in Phases : SameBox(<<d, ph>>)
      <4>1. SameCall(d) /\ \A h \in Group : h # G(c) => SameBox(h)
        BY <1>0, <1>1, <2>2, StepsTouchTheirOwn
      <4>2. \A ph \in Phases : <<d, ph>> \in Group /\ <<d, ph>> # G(c)
        BY <2>2 DEF Group, G
      <4>3. sup = "alive"
        BY <1>1, CallerStepsNeedTheSupervisor
      <4> QED
        BY <4>1, <4>2, <4>3
    <3>2. phase[d] \in Phases
      BY <1>0 DEF CoreInv, TypeOK, CallTypeOK
    <3>3. CASE phase[d] = "preflight"
      BY <1>0, <3>1, <3>3
         DEF PipeAt, SameCall, SameBox, G, Phases, Capturing, Killing
    <3>4. CASE phase[d] = "main"
      BY <1>0, <3>1, <3>4
         DEF PipeAt, SameCall, SameBox, G, Phases, Capturing, Killing
    <3> QED
      BY <3>2, <3>3, <3>4 DEF Phases
  <2> QED
    BY <2>1, <2>2
<1>2. ASSUME NEW g \in Group, BoxStep(g), NEW d \in Callers PROVE PipeAt(d)'
  BY <1>2, BoxStepKeepsPipe
<1>3. ASSUME NEW c \in Callers, WatchdogExpires(c) PROVE PipeInv'
  <2>1. UNCHANGED <<supVars, pc, callVars, cont, wall, verdict, abandoned,
                    boxVars>>
    BY <1>3 DEF WatchdogExpires
  <2> QED
    BY <1>0, <2>1
       DEF PipeInv, PipeAt, G, Phases, Capturing, Killing, supVars, callVars,
           boxVars, procVars, pipeVars
<1>4. CASE SupervisorCrash
  BY <1>0, <1>4
     DEF SupervisorCrash, PipeInv, PipeAt, G, Phases, Capturing, Killing,
         watchVars, callVars, boxVars, procVars, pipeVars
<1>5. CASE UNCHANGED vars
  BY <1>0, <1>5
     DEF vars, PipeInv, PipeAt, G, Phases, Capturing, Killing, supVars,
         watchVars, callVars, boxVars, procVars, pipeVars
<1> QED
  BY <1>1, <1>2, <1>3, <1>4, <1>5 DEF Next, Terminated, PipeInv

\* The initial states satisfy the full invariant.
LEMMA IInvInit == Init => IInv
<1> SUFFICES ASSUME Init PROVE IInv
  OBVIOUS
<1>1. CoreInv
  BY CoreInit
<1>2. ContInv
  BY DEF Init, ContInv
<1>3. QuietInv
  BY GroupOf DEF Init, QuietInv, QuietAt
<1>4. ExitInv
  BY DEF Init, ExitInv, ExitAt, Killing
<1>5. DoomInv
  BY DEF Init, DoomInv, DoomAt, Resting
<1>6. PipeInv
  BY DEF Init, PipeInv, PipeAt, Killing
<1> QED
  BY <1>1, <1>2, <1>3, <1>4, <1>5, <1>6 DEF IInv

\* The full invariant holds of every reachable state, for any number of callers:
\* what has become of a child, of its cgroup and of its pipes by the time
\* run_inner looks at them.
THEOREM InvariantHolds == Spec => []IInv
<1>1. IInv /\ [Next]_vars => IInv'
  <2> SUFFICES ASSUME IInv, [Next]_vars PROVE IInv'
    OBVIOUS
  <2>1. CoreInv'
    BY CoreNext DEF IInv
  <2> QED
    BY <2>1, ContNext, QuietNext, ExitNext, DoomNext, PipeNext DEF IInv
<1> QED
  BY IInvInit, <1>1, PTL DEF Spec

\* A verified preflight or an Ok outcome leaves no process and no cgroup.
THEOREM DeliveryMeansGone == Spec => []DeliveredMeansGone
<1>1. IInv => DeliveredMeansGone
  <2> SUFFICES ASSUME IInv, NEW c \in Callers, NEW ph \in Phases,
                      \/ outcome[c] = "ok"
                      \/ ph = "preflight" /\ phase[c] = "main"
               PROVE  InBox(<<c, ph>>) = {} /\ dir[<<c, ph>>] = "removed"
    BY DEF DeliveredMeansGone
  <2>1. CASE ph = "preflight"
    BY <2>1 DEF IInv, QuietInv, QuietAt, Settled
  <2>2. CASE ph = "main"
    BY <2>2 DEF IInv, QuietInv, QuietAt, Settled
  <2> QED
    BY <2>1, <2>2 DEF Phases
<1> QED
  BY <1>1, InvariantHolds, PTL

\* No requested program has been started unless the same call's preflight
\* exited successfully and met no limit.
THEOREM PreflightComesFirst == Spec => []PreflightFirst
<1>1. IInv => PreflightFirst
  <2> SUFFICES ASSUME IInv, NEW c \in Callers, status[<<c, "main">>] # "none"
               PROVE  phase[c] = "main"
    BY DEF IInv, QuietInv, QuietAt, Settled, PreflightFirst
  <2>1. <<c, "main">> \in Group /\ phase[c] \in Phases
    BY DEF Group, Phases, IInv, CoreInv, TypeOK, CallTypeOK
  <2>2. home[<<c, "main">>] # None
    BY <2>1 DEF IInv, CoreInv, BirthInv
  <2> QED
    BY <2>1, <2>2 DEF IInv, CoreInv, UnbornInv, Phases
<1> QED
  BY <1>1, InvariantHolds, PTL

\* No limit event of the program's cgroup is hidden behind an Ok outcome, not
\* even one counted after its exit.
THEOREM NoLimitEventIsMasked == Spec => []NoMaskedLimitEvent
<1>1. IInv => NoMaskedLimitEvent
  BY DEF IInv, QuietInv, QuietAt, Settled, NoMaskedLimitEvent
<1> QED
  BY <1>1, InvariantHolds, PTL

\* The exit status of an Ok outcome is never that of a child the watchdog, the
\* kernel or Drop has killed.
THEOREM StatusIsTheProgramsOwn == Spec => []DeliveredStatusIsGenuine
<1>1. IInv => DeliveredStatusIsGenuine
  BY DEF IInv, QuietInv, QuietAt, DeliveredStatusIsGenuine
<1> QED
  BY <1>1, InvariantHolds, PTL

\* A captured Ok outcome has lost none of the program's output to the cap.
THEOREM CaptureIsComplete == Spec => []NoTruncatedCapture
<1>1. IInv => NoTruncatedCapture
  BY DEF IInv, PipeInv, PipeAt, NoTruncatedCapture
<1> QED
  BY <1>1, InvariantHolds, PTL

\* A call that has returned, with whatever outcome, has no process left unless
\* its Drop gave up.
THEOREM ErrorsLeaveNothing == Spec => []ErrorLeavesNothing
<1>1. IInv => ErrorLeavesNothing
  <2> SUFFICES ASSUME IInv, NEW c \in Callers, pc[c] = "done",
                      c \notin abandoned, NEW ph \in Phases
               PROVE  InBox(<<c, ph>>) = {}
    BY DEF ErrorLeavesNothing
  <2>1. CASE phase[c] = ph
    BY <2>1 DEF IInv, QuietInv, QuietAt, G
  <2>2. CASE phase[c] = "main" /\ ph = "preflight"
    BY <2>2 DEF IInv, QuietInv, QuietAt, Settled
  <2>3. CASE phase[c] = "preflight" /\ ph = "main"
    <3>1. <<c, ph>> \in Group /\ home[<<c, ph>>] = None
      BY <2>3 DEF IInv, CoreInv, UnbornInv, Group
    <3> QED
      BY <3>1, CageAssumption DEF IInv, CoreInv, BirthInv
  <2> QED
    BY <2>1, <2>2, <2>3 DEF Phases, IInv, CoreInv, TypeOK, CallTypeOK
<1> QED
  BY <1>1, InvariantHolds, PTL

-----------------------------------------------------------------------------
(* Part 3: the refinement.  A step of a thread moves the stage of its own    *)
(* call or leaves every call as its caller sees it, except for SpawnChild,   *)
(* which puts a process into a sandbox; a step of a sandbox moves the        *)
(* processes or the counters of that sandbox only.                           *)

\* What the promise sees of a call: its stage, what is in its two sandboxes,
\* and whether its build has met a limit.
Probe(c) == InBox(<<c, "preflight">>)
Build(c) == InBox(<<c, "main">>)
Limit(c) == events[<<c, "main">>] # {}

SameStage(c) == Stage(c)' = Stage(c)
SameBoxes(c) == Probe(c)' = Probe(c) /\ Build(c)' = Build(c) /\ Limit(c)' = Limit(c)

\* The ways a thread's step shows, once its guard is known.
Begins(c)   == /\ Stage(c) = "idle" /\ Stage(c)' = "probing"
               /\ \A d \in Callers : Stage(d) \notin {"probing", "building"}
Admits(c)   == Stage(c) = "probing" /\ Stage(c)' = "building" /\ Probe(c) = {}
Delivers(c) == /\ Stage(c) = "building" /\ Stage(c)' = "delivered"
               /\ Probe(c) = {} /\ Build(c) = {} /\ ~Limit(c)
Refuses(c)  == /\ Stage(c) \in {"idle", "probing", "building"}
               /\ Stage(c)' = "refused"

-----------------------------------------------------------------------------
(* The refinement mapping: what a caller sees to move is a move of CagedRun. *)

\* A call the step does not show in stutters.
LEMMA Stutters ==
  ASSUME \A d \in Callers : SameStage(d) /\ SameBoxes(d)
  PROVE  UNCHANGED Promise!vars
  BY DEF SameStage, SameBoxes, Probe, Build, Limit, Promise!vars

\* A thread that moves its own stage takes the promise's step.
LEMMA StageMoves ==
  ASSUME NEW c \in Callers,
         \A d \in Callers : SameBoxes(d) /\ (d # c => SameStage(d)),
         Begins(c) \/ Admits(c) \/ Delivers(c) \/ Refuses(c)
  PROVE  Promise!Next
<1>1. \A d \in Callers : Probe(d)' = Probe(d)
  BY DEF SameBoxes
<1>2. \A d \in Callers : Build(d)' = Build(d)
  BY DEF SameBoxes
<1>3. \A d \in Callers : Limit(d)' = Limit(d)
  BY DEF SameBoxes
<1>4. \A d \in Callers : d # c => Stage(d)' = Stage(d)
  BY DEF SameStage
<1>5. CASE Begins(c)
  <2>1. Promise!Begin(c)
    BY <1>1, <1>2, <1>3, <1>4, <1>5
       DEF Begins, Promise!Begin, Promise!Move, Promise!Active, Probe, Build, Limit
  <2> QED
    BY <2>1 DEF Promise!Next
<1>6. CASE Admits(c)
  <2>1. Promise!Admit(c)
    BY <1>1, <1>2, <1>3, <1>4, <1>6
       DEF Admits, Promise!Admit, Promise!Move, Probe, Build, Limit
  <2> QED
    BY <2>1 DEF Promise!Next
<1>7. CASE Delivers(c)
  <2>1. Promise!Deliver(c)
    BY <1>1, <1>2, <1>3, <1>4, <1>7
       DEF Delivers, Promise!Deliver, Promise!Move, Probe, Build, Limit
  <2> QED
    BY <2>1 DEF Promise!Next
<1>8. CASE Refuses(c)
  <2>1. Promise!Refuse(c)
    BY <1>1, <1>2, <1>3, <1>4, <1>8
       DEF Refuses, Promise!Refuse, Promise!Move, Probe, Build, Limit
  <2> QED
    BY <2>1 DEF Promise!Next
<1> QED
  BY <1>5, <1>6, <1>7, <1>8

\* Processes come and go in the preflight's sandbox.
LEMMA ProbeMoves ==
  ASSUME NEW c \in Callers,
         \A d \in Callers : SameStage(d) /\ (d # c => SameBoxes(d)),
         Build(c)' = Build(c), Limit(c)' = Limit(c),
         Stage(c) = "probing" \/ Probe(c) # {}, Probe(c)' \in SUBSET Procs
  PROVE  Promise!Next
<1>1. /\ \A d \in Callers : Build(d)' = Build(d) /\ Limit(d)' = Limit(d)
      /\ \A d \in Callers : d # c => Probe(d)' = Probe(d)
      /\ \A d \in Callers : Stage(d)' = Stage(d)
  BY DEF SameBoxes, SameStage
<1>2. Promise!ProbeChurn(c)
  BY <1>1 DEF Promise!ProbeChurn, Probe, Build, Limit
<1> QED
  BY <1>2 DEF Promise!Next

\* Processes come and go in the build's sandbox.
LEMMA BuildMoves ==
  ASSUME NEW c \in Callers,
         \A d \in Callers : SameStage(d) /\ (d # c => SameBoxes(d)),
         Probe(c)' = Probe(c), Limit(c)' = Limit(c),
         Stage(c) = "building" \/ Build(c) # {}, Build(c)' \in SUBSET Procs
  PROVE  Promise!Next
<1>1. /\ \A d \in Callers : Probe(d)' = Probe(d) /\ Limit(d)' = Limit(d)
      /\ \A d \in Callers : d # c => Build(d)' = Build(d)
      /\ \A d \in Callers : Stage(d)' = Stage(d)
  BY DEF SameBoxes, SameStage
<1>2. Promise!BuildChurn(c)
  BY <1>1 DEF Promise!BuildChurn, Probe, Build, Limit
<1> QED
  BY <1>2 DEF Promise!Next

\* A limit event of the build's cgroup.
LEMMA LimitMoves ==
  ASSUME NEW c \in Callers,
         \A d \in Callers : SameStage(d) /\ (d # c => SameBoxes(d)),
         Probe(c)' = Probe(c), Limit(c)',
         Stage(c) \in {"building", "refused"}, Build(c)' \in SUBSET Procs
  PROVE  Promise!Next
<1>1. /\ \A d \in Callers : Probe(d)' = Probe(d)
      /\ \A d \in Callers : d # c => Build(d)' = Build(d) /\ Limit(d)' = Limit(d)
      /\ \A d \in Callers : Stage(d)' = Stage(d)
  BY DEF SameBoxes, SameStage
<1>2. Promise!BuildHitsLimit(c)
  BY <1>1 DEF Promise!BuildHitsLimit, Probe, Build, Limit
<1> QED
  BY <1>2 DEF Promise!Next

-----------------------------------------------------------------------------
(* The steps of a thread. *)

\* No thread counts a limit event, and none but SpawnChild changes what is in
\* a sandbox: a kill only marks its processes.
LEMMA ThreadsSpareBoxes ==
  ASSUME IInv, NEW c \in Callers, CallerStep(c), ~SpawnChild(c),
         NEW d \in Callers
  PROVE  SameBoxes(d)
<1> USE DEF vars, supVars, watchVars, callVars, procVars, pipeVars, boxVars,
            InBox, SameBoxes, Probe, Build, Limit
<1>0. G(c) \in Group /\ CoreInv /\ BoxTypeOK
  BY GroupOf DEF IInv, CoreInv, TypeOK
<1>1. CASE WriteKill(c)
  BY <1>1, <1>0
     DEF WriteKill, KillBox, Group, Phases, BoxTypeOK
<1>2. CASE KillCaptureChild(c)
  BY <1>2, <1>0 DEF KillCaptureChild, Signal, BoxTypeOK, Group, Phases
<1>3. CASE AbortChild(c)
  BY <1>3, <1>0 DEF AbortChild, Signal, BoxTypeOK, Group, Phases
<1>4. CASE ~WriteKill(c) /\ ~KillCaptureChild(c) /\ ~AbortChild(c)
  BY <1>4
     DEF CallerStep, LockRun, PlanRun, ReturnRun, PrepareGroup, OpenMounts,
         ApplyInheritedLimits, EnterGroup, RestoreSupervisor, StartReaders,
         WatchCapture, PollChild, AwaitChild, JoinReaders, ReapGroup,
         FinishScan, FinishRead, FinishRemove, ReportRun, DropGroup, DropRemove
<1> QED
  BY <1>1, <1>2, <1>3, <1>4

\* Between entering run_inner and returning from it a call is in one stage.
LEMMA InsideStage ==
  ASSUME IInv, NEW c \in Callers, pc[c] \notin Resting
  PROVE  /\ phase[c] = "main" => Stage(c) = "building"
         /\ phase[c] = "preflight" => Stage(c) = "probing"
  BY DEF Stage, Resting

\* The steps of run_inner and of kill_all keep the stage.
LEMMA InnerStepsKeepStage ==
  ASSUME IInv, NEW c \in Callers, CallerStep(c),
         pc[c] \notin {"idle", "plan", "return"}
  PROVE  SameStage(c)
<1> USE DEF vars, supVars, watchVars, callVars, procVars, pipeVars, boxVars,
            Step, Bail, CallKillAll
<1>1. /\ phase' = phase /\ outcome' = outcome
      /\ pc[c] \notin Resting
      /\ pc'[c] \notin Resting
  <2>0. pc \in [Callers -> PCs] /\ cont \in [Callers -> Conts]
    BY DEF IInv, CoreInv, TypeOK, CallTypeOK
  <2>1. CASE PrepareGroup(c) \/ OpenMounts(c) \/ ApplyInheritedLimits(c)
             \/ EnterGroup(c) \/ SpawnChild(c)
    BY <2>0, <2>1
       DEF PrepareGroup, OpenMounts, ApplyInheritedLimits, EnterGroup,
           SpawnChild, GroupDropped, Resting
  <2>2. CASE RestoreSupervisor(c) \/ AbortChild(c) \/ StartReaders(c)
             \/ WatchCapture(c) \/ PollChild(c) \/ AwaitChild(c)
             \/ JoinReaders(c)
    BY <2>0, <2>2
       DEF RestoreSupervisor, AbortChild, StartReaders, WatchCapture,
           PollChild, AwaitChild, JoinReaders, AfterWait, GroupDropped, Resting
  <2>3. CASE WriteKill(c)
    BY <2>0, <2>3
       DEF WriteKill, KillFailed, AfterWait, GroupDropped, Resting, Conts
  <2>4. CASE ReapGroup(c)
    BY <2>0, <2>4
       DEF ReapGroup, KillSucceeded, KillFailed, AfterWait, GroupDropped,
           Resting, Conts
  <2>5. CASE KillCaptureChild(c)
    BY <2>0, <2>5 DEF KillCaptureChild, Resting
  <2>6. CASE FinishScan(c) \/ FinishRead(c) \/ FinishRemove(c) \/ ReportRun(c)
             \/ DropGroup(c) \/ DropRemove(c)
    BY <2>0, <2>6
       DEF FinishScan, FinishRead, FinishRemove, ReportRun, DropGroup,
           DropRemove, RestoreDone, RestoreFailed, GroupDropped, Resting
  <2> QED
    BY <2>1, <2>2, <2>3, <2>4, <2>5, <2>6
       DEF CallerStep, LockRun, PlanRun, ReturnRun
<1> QED
  BY <1>1 DEF SameStage, Stage, Resting

\* SandboxPlan and the lock, before any sandbox of the call.
LEMMA EntryStepsShow ==
  ASSUME IInv, NEW c \in Callers, LockRun(c) \/ PlanRun(c)
  PROVE  SameStage(c) \/ Begins(c) \/ Refuses(c)
<1>1. /\ pc \in [Callers -> PCs] /\ outcome \in [Callers -> Verdicts]
      /\ pc[c] \in {"idle", "plan"} => phase[c] = "preflight"
      /\ \A d \in Callers : pc[d] \in Resting <=> lock # d
  BY DEF IInv, CoreInv, TypeOK, CallTypeOK, UnbornInv, LockInv
<1>2. CASE LockRun(c) /\ lock = Poisoned
  BY <1>1, <1>2 DEF LockRun, Finish, Refuses, Stage
<1>3. CASE LockRun(c) /\ lock # Poisoned
  <2>1. \A d \in Callers : pc[d] \in Resting
    BY <1>1, <1>3, CageAssumption DEF LockRun, LockFree
  <2>2. \A d \in Callers : Stage(d) \notin {"probing", "building"}
    BY <2>1 DEF Stage, Resting
  <2> QED
    BY <1>1, <1>3, <2>2 DEF LockRun, Begins, Stage, callVars
<1>4. CASE PlanRun(c)
  BY <1>1, <1>4 DEF PlanRun, Finish, SameStage, Refuses, Stage
<1> QED
  BY <1>2, <1>3, <1>4

\* What run makes of the result of run_inner: the preflight is over with
\* nothing left of it, or the outcome is delivered with nothing left at all.
LEMMA ReturnsShow ==
  ASSUME IInv, NEW c \in Callers, ReturnRun(c)
  PROVE  Admits(c) \/ Delivers(c) \/ Refuses(c)
<1>1. /\ pc \in [Callers -> PCs] /\ outcome \in [Callers -> Verdicts]
      /\ phase \in [Callers -> Phases] /\ QuietAt(c) /\ pc[c] = "return"
  BY DEF IInv, CoreInv, TypeOK, CallTypeOK, QuietInv, ReturnRun
<1>2. CASE phase[c] = "preflight" /\ phase'[c] = "main"
  <2>1. Probe(c) = {}
    BY <1>1, <1>2
       DEF ReturnRun, PreflightVerified, QuietAt, Settled, G, Probe, Finish
  <2> QED
    BY <1>1, <1>2, <2>1 DEF ReturnRun, Finish, Admits, Stage
<1>3. CASE phase' = phase /\ phase[c] = "preflight"
  BY <1>1, <1>3 DEF ReturnRun, Finish, Refuses, Stage
<1>4. CASE phase' = phase /\ phase[c] = "main" /\ verdict[c] # "ok"
  BY <1>1, <1>4 DEF ReturnRun, Finish, Refuses, Stage
<1>5. CASE phase' = phase /\ phase[c] = "main" /\ verdict[c] = "ok"
  <2>1. Probe(c) = {} /\ Build(c) = {} /\ ~Limit(c)
    BY <1>1, <1>5 DEF QuietAt, Settled, G, Probe, Build, Limit
  <2> QED
    BY <1>1, <1>5, <2>1 DEF ReturnRun, Finish, Delivers, Stage
<1> QED
  BY <1>1, <1>2, <1>3, <1>4, <1>5 DEF ReturnRun, Phases

\* A call whose thread does not move, and whose phase and outcome stay, stays
\* in its stage.
LEMMA StillStage ==
  ASSUME NEW d \in Callers, pc'[d] = pc[d], phase'[d] = phase[d],
         outcome'[d] = outcome[d]
  PROVE  SameStage(d)
  BY DEF SameStage, Stage

\* A thread's step is a step of the promise.
LEMMA ThreadSteps ==
  ASSUME IInv, NEW c \in Callers, CallerStep(c)
  PROVE  Promise!Next \/ UNCHANGED Promise!vars
<1>0. CoreInv /\ G(c) \in Group /\ BoxTypeOK /\ CallTypeOK
  BY GroupOf DEF IInv, CoreInv, TypeOK
<1>1. \A d \in Callers : d # c => SameStage(d)
  BY <1>0, StepsTouchTheirOwn, StillStage DEF SameCall
<1>2. CASE SpawnChild(c)
  <2>1. \A d \in Callers : SameStage(d)
    BY <1>1, <1>2, InnerStepsKeepStage DEF SpawnChild, Step, Bail
  <2>2. PICK g \in Group : g = G(c)
    BY <1>0
  <2>3. /\ events' = events /\ dying' = dying
        /\ live' = live \/ live' = [live EXCEPT ![g] = {Bwrap}]
    BY <1>2, <2>2 DEF SpawnChild, pipeVars, procVars, boxVars
  <2>4. CASE live' = live
    BY <2>1, <2>3, <2>4, Stutters DEF SameBoxes, Probe, Build, Limit, InBox
  <2>5. CASE live' = [live EXCEPT ![g] = {Bwrap}]
    <3>1. \A h \in Group : h # g => InBox(h)' = InBox(h)
      BY <1>0, <2>3, <2>5 DEF InBox, BoxTypeOK
    <3>2. InBox(g)' \in SUBSET Procs
      BY <1>0, <2>3, <2>5 DEF InBox, BoxTypeOK, Procs
    <3>3. \A d \in Callers : d # c => SameBoxes(d)
      <4> SUFFICES ASSUME NEW d \in Callers, d # c PROVE SameBoxes(d)
        OBVIOUS
      <4>1. \A ph \in Phases : <<d, ph>> \in Group /\ <<d, ph>> # g
        BY <2>2 DEF Group, G
      <4> QED
        BY <2>3, <3>1, <4>1 DEF SameBoxes, Probe, Build, Limit, Phases
    <3>4. pc[c] \notin Resting /\ Limit(c)' = Limit(c)
      BY <1>2, <2>3 DEF SpawnChild, Step, Bail, Resting, Limit
    <3>5. CASE phase[c] = "preflight"
      <4>1. g = <<c, "preflight">> /\ <<c, "main">> \in Group
        BY <2>2, <3>5 DEF G, Group, Phases
      <4>2. Build(c)' = Build(c) /\ Probe(c)' \in SUBSET Procs
        BY <3>1, <3>2, <4>1 DEF Build, Probe
      <4>3. Stage(c) = "probing"
        BY <3>4, <3>5, InsideStage
      <4> QED
        BY <2>1, <3>3, <3>4, <4>2, <4>3, ProbeMoves
    <3>6. CASE phase[c] = "main"
      <4>1. g = <<c, "main">> /\ <<c, "preflight">> \in Group
        BY <2>2, <3>6 DEF G, Group, Phases
      <4>2. Probe(c)' = Probe(c) /\ Build(c)' \in SUBSET Procs
        BY <3>1, <3>2, <4>1 DEF Build, Probe
      <4>3. Stage(c) = "building"
        BY <3>4, <3>6, InsideStage
      <4> QED
        BY <2>1, <3>3, <3>4, <4>2, <4>3, BuildMoves
    <3> QED
      BY <1>0, <3>5, <3>6 DEF CallTypeOK, Phases
  <2> QED
    BY <2>3, <2>4, <2>5
<1>3. CASE ~SpawnChild(c)
  <2>1. \A d \in Callers : SameBoxes(d)
    BY <1>3, ThreadsSpareBoxes
  <2>2. CASE SameStage(c)
    BY <1>1, <2>1, <2>2, Stutters
  <2>3. CASE Begins(c) \/ Admits(c) \/ Delivers(c) \/ Refuses(c)
    BY <1>1, <2>1, <2>3, StageMoves
  <2>4. CASE pc[c] \in {"idle", "plan", "return"}
    BY <2>2, <2>3, <2>4, EntryStepsShow, ReturnsShow
       DEF CallerStep, PrepareGroup, OpenMounts, ApplyInheritedLimits,
           EnterGroup, SpawnChild, RestoreSupervisor, AbortChild, StartReaders,
           WatchCapture, PollChild, AwaitChild, JoinReaders, WriteKill,
           ReapGroup, KillCaptureChild, FinishScan, FinishRead, FinishRemove,
           ReportRun, DropGroup, DropRemove, Step, Bail, CallKillAll
  <2>5. CASE pc[c] \notin {"idle", "plan", "return"}
    BY <2>2, <2>5, InnerStepsKeepStage
  <2> QED
    BY <2>4, <2>5
<1> QED
  BY <1>2, <1>3

-----------------------------------------------------------------------------
(* The steps of a sandbox, of the clock and of whoever kills the supervisor. *)

\* Nothing appears in a sandbox that holds no process.
LEMMA EmptyBoxStays ==
  ASSUME CoreInv, NEW g \in Group, BoxStep(g), InBox(g) = {}
  PROVE  InBox(g)' = {}
<1> USE DEF vars, supVars, watchVars, callVars, procVars, pipeVars, boxVars,
            threadVars, CoreInv, TypeOK, BoxTypeOK, InBox
<1>1. ASSUME NEW p \in Procs, BoxExit(g, p) \/ KilledExit(g, p)
      PROVE  InBox(g)' = {}
  BY <1>1 DEF BoxExit, KilledExit
<1>2. CASE BoxFork(g) \/ NamespaceDies(g) \/ ParentDies(g)
  BY <1>2 DEF BoxFork, NamespaceDies, ParentDies
<1>3. CASE FloodPipe(g) \/ RaiseOverLimit(g) \/ PipesClose(g) \/ LimitEvent(g)
  BY <1>3 DEF FloodPipe, RaiseOverLimit, PipesClose, LimitEvent
<1>4. CASE OomKill(g)
  BY <1>4 DEF OomKill, KillBox
<1> QED
  BY <1>1, <1>2, <1>3, <1>4 DEF BoxStep

\* A cgroup counts an event only for a process in it or for the supervisor,
\* and then never forgets it.
LEMMA CountedInside ==
  ASSUME CoreInv, NEW g \in Group, BoxStep(g), events'[g] # events[g]
  PROVE  /\ events'[g] # {}
         /\ InBox(g) # {} \/ supAt = g
<1> USE DEF vars, supVars, watchVars, callVars, procVars, pipeVars, boxVars,
            threadVars, CoreInv, TypeOK, BoxTypeOK
<1>1. ASSUME NEW h \in Group, home[h] = g PROVE h = g
  BY <1>1, CageAssumption DEF BirthInv, Group, Phases
<1>2. CASE LimitEvent(g)
  BY <1>1, <1>2 DEF LimitEvent, Occupied
<1>3. CASE OomKill(g)
  BY <1>1, <1>3 DEF OomKill, InBox
<1> QED
  BY <1>2, <1>3
     DEF BoxStep, BoxFork, BoxExit, KilledExit, NamespaceDies, ParentDies,
         FloodPipe, RaiseOverLimit, PipesClose

\* The build's cgroup is used while the call is building, and after a refusal
\* that has left something in it.
LEMMA BuildUsed ==
  ASSUME IInv, NEW c \in Callers,
         InBox(<<c, "main">>) # {} \/ supAt = <<c, "main">>
  PROVE  Stage(c) \in {"building", "refused"}
<1>1. /\ <<c, "main">> \in Group /\ phase[c] \in Phases
      /\ BirthInv /\ UnbornInv /\ PlaceInv /\ ErrorInv /\ QuietAt(c)
  BY DEF IInv, CoreInv, TypeOK, CallTypeOK, Group, Phases, QuietInv
<1>2. phase[c] = "main"
  BY <1>1, CageAssumption DEF BirthInv, UnbornInv, PlaceInv, Phases
<1>3. pc[c] # "idle"
  BY <1>1, <1>2 DEF UnbornInv
<1>4. ~(pc[c] = "done" /\ outcome[c] = "ok")
  <2>1. CASE InBox(<<c, "main">>) # {}
    BY <1>1, <2>1 DEF QuietAt, Settled
  <2>2. CASE supAt = <<c, "main">>
    BY <1>1, <2>2 DEF PlaceInv, ErrorInv, Errors, InsidePCs, Phases
  <2> QED
    BY <2>1, <2>2
<1> QED
  BY <1>2, <1>3, <1>4 DEF Stage

\* A step of a sandbox is a step of the promise.
LEMMA BoxSteps ==
  ASSUME IInv, NEW g \in Group, BoxStep(g), BoxTypeOK'
  PROVE  Promise!Next \/ UNCHANGED Promise!vars
<1>0. CoreInv /\ BoxTypeOK
  BY DEF IInv, CoreInv, TypeOK
<1>1. PICK c \in Callers, ph \in Phases : g = <<c, ph>>
  BY DEF Group
<1>2. \A d \in Callers : SameStage(d)
  BY <1>0, BoxesTouchTheirOwn, StillStage DEF callVars
<1>3. \A h \in Group : h # g => SameBox(h)
  BY <1>0, BoxesTouchTheirOwn
<1>4. \A d \in Callers : d # c => SameBoxes(d)
  BY <1>1, <1>3
     DEF SameBoxes, SameBox, Probe, Build, Limit, InBox, Group, Phases
<1>5. InBox(g)' \in SUBSET Procs
  BY DEF InBox, BoxTypeOK
<1>6. CASE ph = "preflight"
  <2>1. Build(c)' = Build(c) /\ Limit(c)' = Limit(c)
    BY <1>1, <1>3, <1>6 DEF SameBox, Build, Limit, InBox, Group, Phases
  <2>2. Probe(c) = InBox(g) /\ Probe(c)' = InBox(g)'
    BY <1>1, <1>6 DEF Probe, InBox
  <2>3. CASE Probe(c) = {}
    <3>1. Probe(c)' = Probe(c)
      BY <1>0, <2>2, <2>3, EmptyBoxStays
    <3> QED
      BY <1>2, <1>4, <2>1, <3>1, Stutters DEF SameBoxes
  <2>4. CASE Probe(c) # {}
    BY <1>2, <1>4, <1>5, <2>1, <2>2, <2>4, ProbeMoves
  <2> QED
    BY <2>3, <2>4
<1>7. CASE ph = "main"
  <2>1. Probe(c)' = Probe(c)
    BY <1>1, <1>3, <1>7 DEF SameBox, Probe, InBox, Group, Phases
  <2>2. Build(c) = InBox(g) /\ Build(c)' = InBox(g)'
    BY <1>1, <1>7 DEF Build, InBox
  <2>3. CASE events'[g] # events[g]
    <3>1. Limit(c)' /\ (InBox(g) # {} \/ supAt = g)
      BY <1>0, <1>1, <1>7, <2>3, CountedInside DEF Limit
    <3>2. Stage(c) \in {"building", "refused"}
      BY <1>1, <1>7, <3>1, BuildUsed
    <3> QED
      BY <1>2, <1>4, <1>5, <2>1, <2>2, <3>1, <3>2, LimitMoves
  <2>4. CASE events'[g] = events[g] /\ Build(c) = {}
    <3>1. Build(c)' = Build(c)
      BY <1>0, <2>2, <2>4, EmptyBoxStays
    <3> QED
      BY <1>1, <1>2, <1>4, <1>7, <2>1, <2>4, <3>1, Stutters
         DEF SameBoxes, Limit
  <2>5. CASE events'[g] = events[g] /\ Build(c) # {}
    <3>1. Limit(c)' = Limit(c)
      BY <1>1, <1>7, <2>5 DEF Limit
    <3> QED
      BY <1>2, <1>4, <1>5, <2>1, <2>2, <2>5, <3>1, BuildMoves
  <2> QED
    BY <2>3, <2>4, <2>5
<1> QED
  BY <1>6, <1>7 DEF Phases

\* The clock, a crash and the end of everything do not show.
LEMMA OtherSteps ==
  ASSUME \/ \E c \in Callers : WatchdogExpires(c)
         \/ SupervisorCrash \/ UNCHANGED vars
  PROVE  UNCHANGED Promise!vars
<1>1. UNCHANGED <<pc, phase, outcome, live, dying, events>>
  BY DEF WatchdogExpires, SupervisorCrash, vars, supVars, watchVars, callVars,
         boxVars, procVars, pipeVars
<1>2. \A d \in Callers : SameStage(d) /\ SameBoxes(d)
  BY <1>1, StillStage DEF SameBoxes, Probe, Build, Limit, InBox
<1> QED
  BY <1>2, Stutters

\* Every call is idle and every sandbox empty at first.
LEMMA InitShows == Init => Promise!Init
<1> SUFFICES ASSUME Init PROVE Promise!Init
  OBVIOUS
<1>1. ASSUME NEW c \in Callers
      PROVE  Stage(c) = "idle" /\ Probe(c) = {} /\ Build(c) = {} /\ ~Limit(c)
  BY DEF Init, Stage, Probe, Build, Limit, InBox, Group, Phases
<1> QED
  BY <1>1 DEF Promise!Init, Probe, Build, Limit

\* Whatever the threads of the process, its sandboxes and the kernel do, and
\* whatever fails in LinuxSandbox::run, its callers see only what CagedRun
\* allows: serialised calls, a probe before every build, and an outcome only
\* when nothing of the call is left and its build has met no limit.
THEOREM RunImplementsPromise == Spec => ImplementsPromise
<1>1. IInv /\ IInv' /\ [Next]_vars => [Promise!Next]_(Promise!vars)
  <2> SUFFICES ASSUME IInv, IInv', [Next]_vars
               PROVE  Promise!Next \/ UNCHANGED Promise!vars
    OBVIOUS
  <2>1. BoxTypeOK'
    BY DEF IInv, CoreInv, TypeOK
  <2> QED
    BY <2>1, ThreadSteps, BoxSteps, OtherSteps DEF Next, Terminated
<1> QED
  BY InitShows, <1>1, InvariantHolds, PTL DEF Spec, ImplementsPromise, Promise!Spec
=============================================================================
