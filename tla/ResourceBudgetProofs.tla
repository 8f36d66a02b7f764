-------------------------- MODULE ResourceBudgetProofs --------------------------
(***************************************************************************)
(* What ResourceBudget guarantees on every host, for every profile and any *)
(* number of supervisors and calls.                                        *)
(***************************************************************************)
EXTENDS ResourceBudgetInv, TLAPS

-----------------------------------------------------------------------------
(* Numbers *)

LEMMA MinimumOfThree ==
  ASSUME NEW a \in Int, NEW b \in Int, NEW c \in Int
  PROVE  LET m == Min({a, b, c}) IN
         m \in {a, b, c} /\ m <= a /\ m <= b /\ m <= c
<1> DEFINE S == {a, b, c}
<1>1. \E x \in S : \A y \in S : x <= y
  <2>1. CASE a <= b /\ a <= c
    BY <2>1
  <2>2. CASE b <= a /\ b <= c
    BY <2>2
  <2>3. CASE c <= a /\ c <= b
    BY <2>3
  <2> QED
    BY <2>1, <2>2, <2>3
<1> QED
  BY <1>1 DEF Min

LEMMA MinimumOfTwo ==
  ASSUME NEW a \in Int, NEW b \in Int
  PROVE  LET m == Min({a, b}) IN m \in {a, b} /\ m <= a /\ m <= b
<1>1. {a, b} = {a, b, b}
  OBVIOUS
<1> QED
  BY <1>1, MinimumOfThree

\* A number that fits into a word is its own remainder.
LEMMA SmallRemainder ==
  ASSUME NEW a \in Nat, NEW b \in Nat, a < b
  PROVE  a % b = a
  OBVIOUS

LEMMA FiveControls == Len(Controls) = 5 /\ Controls[2] = "memory.max"
                      /\ \A k \in {1, 3, 4, 5} : Controls[k] # "memory.max"
  BY DEF Controls

-----------------------------------------------------------------------------
(* The data of a state *)

LEMMA NamesAreGroups ==
  ASSUME NEW p, NEW n
  PROVE  <<p, n>> # NoGroup
  BY DEF NoGroup

LEMMA Constants ==
  /\ MaxTries \in Nat \ {0} /\ MinMemory \in Nat /\ WordMax \in Nat
  /\ MaxProfile \in [{"processes", "memory", "cores", "file", "open"} -> Nat]
  BY BudgetAssumption

\* The calls that Prepare makes.
LEMMA NoCallIsCall == NoCall \in Calls /\ NoCall.stage = "idle" /\ NoCall.group = NoGroup
<1>1. 0 \in 0..(MaxTries - 1) /\ 0 \in Nat /\ 0 \in Int
  BY Constants
<1> QED
  BY <1>1 DEF NoCall, Calls, Stages, Results

LEMMA NewCalls ==
  ASSUME NEW p \in scene.profiles
  PROVE  /\ [NoCall EXCEPT !.stage = "find", !.asked = p] \in Calls
         /\ [NoCall EXCEPT !.result = "profile"] \in Calls
  BY NoCallIsCall DEF Calls, Stages, Results

\* What the assumption says of the scene and the host of a well formed state.
LEMMA HostFacts ==
  ASSUME TypeOK
  PROVE  /\ Supervisors \cap {"stale", "left"} = {}
         /\ host.memTotal \in Nat
         /\ DOMAIN host.levels \subseteq Nat /\ Len(host.levels) \in Nat
         /\ \A i \in DOMAIN host.levels : host.levels[i].memory \in Nat \cup {Missing}
         /\ host.rlimit \in [Limits -> [soft : Nat, hard : Nat]]
         /\ \A p \in scene.profiles \cup {MaxProfile} : p \in [DOMAIN MaxProfile -> Nat]
<1>1. PICK c \in Scenes :
        /\ scene = [profiles |-> c.profiles, pids |-> c.pids, faults |-> c.faults,
                    crashes |-> c.crashes]
        /\ host \in c.hosts /\ DOMAIN call = c.supervisors
  BY DEF TypeOK
<1>2. /\ c.supervisors \cap {"stale", "left"} = {}
      /\ \A p \in c.profiles : p \in [DOMAIN MaxProfile -> Nat]
      /\ host.memTotal \in Nat
      /\ host.rlimit \in [Limits -> [soft : Nat, hard : Nat]]
      /\ host.levels \in Seq([available : SUBSET Controllers, enabled : SUBSET Controllers,
                              procs : {"writable", "denied", "error"},
                              memory : Nat \cup {Missing}])
      /\ MaxProfile \in [{"processes", "memory", "cores", "file", "open"} -> Nat]
  BY <1>1, BudgetAssumption DEF Limits
<1>3. scene.profiles = c.profiles
  BY <1>1
<1>4. /\ DOMAIN host.levels \subseteq Nat /\ Len(host.levels) \in Nat
      /\ \A i \in DOMAIN host.levels : host.levels[i].memory \in Nat \cup {Missing}
  <2> DEFINE LevelStates == [available : SUBSET Controllers, enabled : SUBSET Controllers,
                             procs : {"writable", "denied", "error"},
                             memory : Nat \cup {Missing}]
             levels == host.levels
  <2>1. levels \in Seq(LevelStates)
    BY <1>2
  <2> HIDE DEF levels, LevelStates
  <2>2. DOMAIN levels = 1..Len(levels) /\ Len(levels) \in Nat
    BY <2>1
  <2>3. \A i \in DOMAIN levels : levels[i] \in LevelStates
    BY <2>1
  <2> QED
    BY <2>2, <2>3 DEF levels, LevelStates
<1> QED
  BY <1>1, <1>2, <1>3, <1>4 DEF Supervisors

\* The fields of a call that is being served.
LEMMA AskedFacts ==
  ASSUME TypeOK, NEW s \in Supervisors
  PROVE  /\ call[s].asked \in [DOMAIN MaxProfile -> Nat]
         /\ DOMAIN MaxProfile = {"processes", "memory", "cores", "file", "open"}
         /\ call[s].asked.memory \in Nat /\ call[s].asked.file \in Nat
         /\ call[s].asked.open \in Nat
<1>1. call[s].asked \in scene.profiles \cup {MaxProfile}
  BY DEF TypeOK, Calls
<1>2. DOMAIN MaxProfile = {"processes", "memory", "cores", "file", "open"}
  BY BudgetAssumption
<1> QED
  BY <1>1, <1>2, HostFacts

-----------------------------------------------------------------------------
(* A step concerns one supervisor: its call, its limits and its group *)

\* What a step of s leaves alone of the others.
OthersKeep(s) ==
  /\ UNCHANGED <<scene, host>>
  /\ \A t \in Supervisors \ {s} : call'[t] = call[t] /\ rlimit'[t] = rlimit[t]
  /\ \A n \in DOMAIN groups : groups[n].owner \in Supervisors \ {s} =>
       n \in DOMAIN groups' /\ groups'[n] = groups[n]
  /\ \A n \in DOMAIN groups' : groups'[n].owner \in Supervisors \ {s} =>
       n \in DOMAIN groups /\ groups[n] = groups'[n]

LEMMA OthersCallsKeepInv ==
  ASSUME Inv, TypeOK', NEW s \in Supervisors, OthersKeep(s),
         NEW t \in Supervisors \ {s}
  PROVE  CallInv(t)'
<1>1. CallInv(t)
  BY DEF Inv
<1>2. call'[t] = call[t] /\ rlimit'[t] = rlimit[t] /\ host' = host
  BY DEF OthersKeep
<1>3. call[t].group # NoGroup =>
        call[t].group \in DOMAIN groups' /\ groups'[call[t].group] = groups[call[t].group]
  BY <1>1 DEF CallInv, HoldInv, OthersKeep
<1>4. HoldInv(t)'
  <2>1. \A n \in DOMAIN groups' : groups'[n].owner = t => call[t].group = n
    <3> SUFFICES ASSUME NEW n \in DOMAIN groups', groups'[n].owner = t
                 PROVE  call[t].group = n
      OBVIOUS
    <3> QED
      BY <1>1 DEF OthersKeep, CallInv, HoldInv
  <2>2. call[t].stage \in Holding <=> call[t].group # NoGroup
    BY <1>1 DEF CallInv, HoldInv
  <2>3. call[t].group # NoGroup =>
          call[t].group \in DOMAIN groups' /\ groups'[call[t].group].owner = t
    BY <1>1, <1>3 DEF CallInv, HoldInv
  <2> QED
    BY <1>2, <2>1, <2>2, <2>3 DEF HoldInv
<1>5. AskedInv(t)' /\ BudgetInv(t)' /\ LimitInv(t)'
  BY <1>1, <1>2 DEF CallInv, AskedInv, BudgetInv, IsBudget, LimitInv, Lowered
<1>6. GroupInv(t)'
  BY <1>1, <1>2, <1>3 DEF CallInv, HoldInv, GroupInv
<1> QED
  BY <1>4, <1>5, <1>6 DEF CallInv

LEMMA StepKeepsInv ==
  ASSUME Inv, TypeOK', Supervisors' = Supervisors, NEW s \in Supervisors, OthersKeep(s),
         CallInv(s)'
  PROVE  Inv'
<1>1. \A t \in Supervisors \ {s} : CallInv(t)'
  BY OthersCallsKeepInv
<1> QED
  BY <1>1 DEF Inv

\* A call is replaced by another, and all else stays well formed.
LEMMA OneCall ==
  ASSUME TypeOK, NEW s \in Supervisors, NEW c \in Calls, call' = [call EXCEPT ![s] = c],
         UNCHANGED <<scene, host>>, pid' \in [Supervisors -> scene.pids],
         nextId' \in [Supervisors -> Nat],
         rlimit' \in [Supervisors -> [Limits -> [soft : Nat, hard : Nat]]],
         DOMAIN groups' \subseteq scene.pids \X Nat, groups' \in [DOMAIN groups' -> GroupStates]
  PROVE  /\ TypeOK' /\ Supervisors' = Supervisors /\ call'[s] = c
         /\ \A t \in Supervisors \ {s} : call'[t] = call[t]
<1>1. call \in [Supervisors -> Calls] /\ Supervisors = DOMAIN call
  BY DEF TypeOK, Supervisors
<1>2. /\ call' \in [Supervisors -> Calls] /\ DOMAIN call' = Supervisors /\ call'[s] = c
      /\ \A t \in Supervisors \ {s} : call'[t] = call[t]
  BY <1>1
<1>3. Supervisors' = Supervisors
  BY <1>2 DEF Supervisors
<1>4. Calls' = Calls /\ GroupStates' = GroupStates
  BY <1>3 DEF Calls, GroupStates
<1>5. PICK x \in Scenes :
        /\ scene = [profiles |-> x.profiles, pids |-> x.pids, faults |-> x.faults,
                    crashes |-> x.crashes]
        /\ host \in x.hosts /\ DOMAIN call = x.supervisors
  BY DEF TypeOK
<1>6. DOMAIN call' = x.supervisors
  BY <1>1, <1>2, <1>5
<1> QED
  BY <1>2, <1>3, <1>4, <1>5, <1>6 DEF TypeOK, GroupsOK

-----------------------------------------------------------------------------
(* Ends of calls *)

\* A call that gives its group up, or has none, ends well.
LEMMA EndKeepsInv ==
  ASSUME Inv, NEW s \in Supervisors, NEW why \in Results, End(s, why),
         UNCHANGED <<scene, host, pid, nextId, rlimit>>,
         \/ call[s].group = NoGroup /\ groups' = groups
         \/ /\ call[s].group # NoGroup
            /\ LeaveGroup(s) \/ groups' = Without(groups, call[s].group)
  PROVE  Inv'
<1> DEFINE c == [call[s] EXCEPT !.stage = "idle", !.result = why, !.group = NoGroup]
           g == call[s].group
<1>1. TypeOK /\ CallInv(s)
  BY DEF Inv
<1>2. call[s] \in Calls /\ call \in [Supervisors -> Calls]
  BY <1>1 DEF TypeOK
<1>3. call' = [call EXCEPT ![s] = c]
  BY <1>2 DEF End
<1>4. c \in Calls /\ c.stage = "idle" /\ c.group = NoGroup
  BY <1>2 DEF Calls, Stages, Results
<1>5. /\ groups \in [DOMAIN groups -> GroupStates] /\ NoGroup \notin DOMAIN groups
      /\ DOMAIN groups \subseteq scene.pids \X Nat
  BY <1>1, NamesAreGroups DEF TypeOK, GroupsOK
<1>6. g # NoGroup => g \in DOMAIN groups /\ groups[g].owner = s
  BY <1>1 DEF CallInv, HoldInv
<1>7. /\ groups' \in [DOMAIN groups' -> GroupStates]
      /\ \A n \in DOMAIN groups \ {g} : n \in DOMAIN groups' /\ groups'[n] = groups[n]
      /\ DOMAIN groups' \subseteq DOMAIN groups
      /\ g \in DOMAIN groups' => groups'[g].owner = "left"
  <2>1. CASE g = NoGroup /\ groups' = groups
    BY <2>1, <1>5
  <2>2. CASE g # NoGroup /\ LeaveGroup(s)
    <3> DEFINE h == [groups[g] EXCEPT !.owner = "left"]
    <3>1. groups' = [groups EXCEPT ![g] = h]
      BY <2>2 DEF LeaveGroup
    <3>2. h \in GroupStates /\ h.owner = "left"
      BY <1>5, <1>6, <2>2 DEF GroupStates
    <3> QED
      BY <3>1, <3>2, <1>5, <1>6, <2>2
  <2>3. CASE g # NoGroup /\ groups' = Without(groups, g)
    BY <2>3, <1>5 DEF Without
  <2> QED
    BY <2>1, <2>2, <2>3
<1> HIDE DEF c
<1>8. /\ TypeOK' /\ Supervisors' = Supervisors /\ call'[s] = c
      /\ \A t \in Supervisors \ {s} : call'[t] = call[t]
  <2>1. DOMAIN groups' \subseteq scene.pids \X Nat
    BY <1>5, <1>7
  <2> QED
    BY <1>1, <1>3, <1>4, <1>7, <2>1, OneCall DEF TypeOK
<1>9. OthersKeep(s)
  BY <1>1, <1>5, <1>6, <1>7, <1>8, HostFacts DEF OthersKeep, CallInv, HoldInv
<1>10. CallInv(s)'
  <2>1. \A n \in DOMAIN groups' : groups'[n].owner # s
    BY <1>1, <1>5, <1>6, <1>7, HostFacts DEF CallInv, HoldInv
  <2>2. HoldInv(s)'
    BY <2>1, <1>8, <1>4 DEF HoldInv, Holding
  <2> QED
    BY <2>2, <1>8, <1>4
       DEF CallInv, AskedInv, BudgetInv, GroupInv, LimitInv, Holding
<1> QED
  BY <1>8, <1>9, <1>10, StepKeepsInv

\* So does one that removes its group and ignores what the kernel says to that.
LEMMA AbandonKeepsInv ==
  ASSUME Inv, NEW s \in Supervisors, NEW why \in Results, Abandon(s, why),
         call[s].stage \in Holding, UNCHANGED <<scene, host, pid, nextId, rlimit>>
  PROVE  Inv'
<1>1. call[s].group # NoGroup
  BY DEF Inv, CallInv, HoldInv
<1> QED
  BY <1>1, EndKeepsInv DEF Abandon, RemoveGroup

-----------------------------------------------------------------------------
(* Before there is a group *)

\* The call of s goes from one stage without a group to another.
LEMMA UnheldKeepsInv ==
  ASSUME Inv, NEW s \in Supervisors, NEW c \in Calls, call' = [call EXCEPT ![s] = c],
         call[s].stage \notin Holding, c.stage \notin Holding, c.group = NoGroup,
         UNCHANGED <<scene, host, pid, rlimit, groups>>,
         nextId' \in [Supervisors -> Nat],
         c.stage # "idle" => \A f \in DOMAIN MaxProfile : c.asked[f] > 0,
         c.stage \in {"budget", "create"} => c.parent \in DOMAIN host.levels,
         c.stage = "create" => IsBudget(c)
  PROVE  Inv'
<1>1. TypeOK /\ CallInv(s)
  BY DEF Inv
<1>2. /\ TypeOK' /\ Supervisors' = Supervisors /\ call'[s] = c
      /\ \A t \in Supervisors \ {s} : call'[t] = call[t]
  BY <1>1, OneCall DEF TypeOK, GroupsOK
<1>3. OthersKeep(s)
  BY <1>2 DEF OthersKeep
<1>4. HoldInv(s)'
  <2>1. \A n \in DOMAIN groups : groups[n].owner # s
    <3>1. call[s].group = NoGroup /\ NoGroup \notin DOMAIN groups
      BY <1>1, NamesAreGroups DEF CallInv, HoldInv, TypeOK, GroupsOK
    <3> QED
      BY <1>1, <3>1 DEF CallInv, HoldInv
  <2> QED
    BY <2>1, <1>2 DEF HoldInv
<1>5. BudgetInv(s)'
  BY <1>2 DEF BudgetInv, IsBudget
<1>6. AskedInv(s)' /\ GroupInv(s)' /\ LimitInv(s)'
  BY <1>2 DEF AskedInv, GroupInv, LimitInv, Holding
<1> QED
  BY <1>2, <1>3, <1>4, <1>5, <1>6, StepKeepsInv DEF CallInv

LEMMA PrepareKeepsInv ==
  ASSUME Inv, NEW s \in Supervisors, Prepare(s)
  PROVE  Inv'
<1>1. TypeOK
  BY DEF Inv
<1>2. PICK p \in scene.profiles :
        call' = [call EXCEPT ![s] =
                   IF ValidProfile(p) THEN [NoCall EXCEPT !.stage = "find", !.asked = p]
                                      ELSE [NoCall EXCEPT !.result = "profile"]]
  BY DEF Prepare
<1> DEFINE c == IF ValidProfile(p) THEN [NoCall EXCEPT !.stage = "find", !.asked = p]
                                   ELSE [NoCall EXCEPT !.result = "profile"]
<1>4. /\ c \in Calls /\ c.group = NoGroup /\ c.stage \in {"idle", "find"}
      /\ c.stage = "find" => ValidProfile(p) /\ c.asked = p
  BY NewCalls, NoCallIsCall DEF NoCall
<1>5. call' = [call EXCEPT ![s] = c]
  BY <1>2
<1> HIDE DEF c
<1>6. /\ call[s].stage \notin Holding /\ c.stage \notin Holding
      /\ UNCHANGED <<scene, host, pid, rlimit, groups>> /\ nextId' \in [Supervisors -> Nat]
  BY <1>1, <1>4 DEF Prepare, At, Holding, TypeOK
<1>7. c.stage # "idle" => \A f \in DOMAIN MaxProfile : c.asked[f] > 0
  BY <1>4 DEF ValidProfile
<1> QED
  BY <1>4, <1>5, <1>6, <1>7, UnheldKeepsInv

LEMMA FindParentKeepsInv ==
  ASSUME Inv, NEW s \in Supervisors, FindParent(s)
  PROVE  Inv'
<1>1. TypeOK /\ CallInv(s) /\ call[s].stage = "find" /\ call[s].group = NoGroup
  BY DEF Inv, FindParent, At, CallInv, HoldInv, Holding
<1>2. CASE End(s, "delegation")
  <2>1. UNCHANGED <<scene, host, pid, nextId, groups, rlimit>>
    BY DEF FindParent
  <2> QED
    BY <1>1, <1>2, <2>1, EndKeepsInv DEF Results
<1>3. ASSUME NEW i \in DOMAIN host.levels,
             call' = [call EXCEPT ![s].stage = "budget", ![s].parent = i]
      PROVE  Inv'
  <2> DEFINE c == [call[s] EXCEPT !.stage = "budget", !.parent = i]
  <2>1. call[s] \in Calls /\ i \in Nat
    BY <1>1, HostFacts DEF TypeOK
  <2>2. call' = [call EXCEPT ![s] = c]
    BY <1>3, <1>1 DEF TypeOK
  <2>3. /\ c \in Calls /\ c.stage = "budget" /\ c.parent = i /\ c.group = NoGroup
        /\ c.asked = call[s].asked
    BY <2>1, <1>1 DEF Calls, Stages
  <2> HIDE DEF c
  <2>4. /\ call[s].stage \notin Holding /\ c.stage \notin Holding
        /\ nextId' \in [Supervisors -> Nat]
    BY <1>1, <2>3 DEF Holding, FindParent, TypeOK
  <2>5. \A f \in DOMAIN MaxProfile : c.asked[f] > 0
    BY <1>1, <2>3 DEF CallInv, AskedInv
  <2> QED
    BY <2>2, <2>3, <2>4, <2>5, UnheldKeepsInv DEF FindParent
<1> QED
  BY <1>2, <1>3 DEF FindParent

\* What MemoryBudget returns where ReadBudget accepts it.
LEMMA BudgetIsLeast ==
  ASSUME TypeOK, NEW p \in [DOMAIN MaxProfile -> Nat], NEW i \in DOMAIN host.levels,
         MultiplicationChecked, Level(i).memory # Missing,
         Enough(MemoryBudget(p, i))
  PROVE  LET m == MemoryBudget(p, i)
             limit == host.levels[i].memory IN
         /\ limit \in Nat
         /\ m \in Nat /\ m >= MinMemory
         /\ m <= p.memory /\ m <= limit /\ 4 * m <= 3 * host.memTotal
         /\ m = p.memory \/ m = limit \/ 4 * (m + 1) > 3 * host.memTotal
<1> DEFINE m == MemoryBudget(p, i)
           limit == host.levels[i].memory
<1>1. host.memTotal \in Nat /\ limit \in Nat /\ WordMax \in Nat /\ MinMemory \in Nat
  BY HostFacts, BudgetAssumption DEF Level
<1>2. p.memory \in Nat
  BY BudgetAssumption
<1>3. host.memTotal * 3 < WordMax + 1 /\ host.memTotal * 3 \in Nat /\ WordMax + 1 \in Nat
  BY <1>1 DEF MultiplicationChecked
<1>4. HostBudget = (host.memTotal * 3) \div 4
  BY <1>3, SmallRemainder DEF HostBudget
<1>5. /\ HostBudget \in Nat /\ 4 * HostBudget <= 3 * host.memTotal
      /\ 4 * (HostBudget + 1) > 3 * host.memTotal
  BY <1>1, <1>4
<1>6. m = Min({p.memory, HostBudget, limit})
  BY DEF MemoryBudget, Level
<1>7. m \in {p.memory, HostBudget, limit} /\ m <= p.memory /\ m <= HostBudget /\ m <= limit
  <2>1. p.memory \in Int /\ HostBudget \in Int /\ limit \in Int
    BY <1>1, <1>2, <1>5
  <2> HIDE DEF m, limit
  <2> QED
    BY <1>6, <2>1, MinimumOfThree
<1>8. m >= MinMemory
  BY DEF Enough
<1> HIDE DEF m, limit
<1>9. /\ limit \in Nat /\ m \in Nat /\ m >= MinMemory
      /\ m <= p.memory /\ m <= limit /\ 4 * m <= 3 * host.memTotal
      /\ m = p.memory \/ m = limit \/ 4 * (m + 1) > 3 * host.memTotal
  BY <1>1, <1>2, <1>5, <1>7, <1>8
<1> QED
  BY <1>9 DEF m, limit

LEMMA ReadBudgetKeepsInv ==
  ASSUME Inv, NEW s \in Supervisors, ReadBudget(s)
  PROVE  Inv'
<1>1. /\ TypeOK /\ CallInv(s) /\ call[s].stage = "budget" /\ call[s].group = NoGroup
      /\ call[s] \in Calls
  BY DEF Inv, ReadBudget, At, CallInv, HoldInv, Holding, TypeOK
<1> DEFINE p == call[s].asked
           i == call[s].parent
           m == MemoryBudget(p, i)
<1>2. CASE End(s, "memory")
  <2>1. UNCHANGED <<scene, host, pid, nextId, groups, rlimit>>
    BY DEF ReadBudget
  <2> QED
    BY <1>1, <1>2, <2>1, EndKeepsInv DEF Results
<1>3. ASSUME MultiplicationChecked, Level(i).memory # Missing, Enough(m),
             call' = [call EXCEPT ![s].stage = "create", ![s].memory = m]
      PROVE  Inv'
  <2>1. p \in [DOMAIN MaxProfile -> Nat] /\ i \in DOMAIN host.levels
    BY <1>1, AskedFacts DEF CallInv, BudgetInv
  <2>2. /\ host.levels[i].memory \in Nat
        /\ m \in Nat /\ m >= MinMemory
        /\ m <= p.memory /\ m <= host.levels[i].memory /\ 4 * m <= 3 * host.memTotal
        /\ m = p.memory \/ m = host.levels[i].memory \/ 4 * (m + 1) > 3 * host.memTotal
    BY <1>1, <1>3, <2>1, BudgetIsLeast
  <2> HIDE DEF m
  <2> DEFINE c == [call[s] EXCEPT !.stage = "create", !.memory = m]
  <2>3. call' = [call EXCEPT ![s] = c]
    BY <1>3, <1>1 DEF TypeOK
  <2>4. /\ c \in Calls /\ c.stage = "create" /\ c.memory = m /\ c.group = NoGroup
        /\ c.asked = p /\ c.parent = i
    <3>1. call[s] \in Calls /\ m \in Int /\ call[s].group = NoGroup
      BY <1>1, <2>2
    <3> QED
      BY <3>1 DEF Calls, Stages
  <2> HIDE DEF c
  <2>5. IsBudget(c)
    BY <2>2, <2>4 DEF IsBudget
  <2>6. /\ call[s].stage \notin Holding /\ c.stage \notin Holding
        /\ nextId' \in [Supervisors -> Nat]
    BY <1>1, <2>4 DEF Holding, ReadBudget, TypeOK
  <2>7. \A f \in DOMAIN MaxProfile : c.asked[f] > 0
    BY <1>1, <2>4 DEF CallInv, AskedInv
  <2> QED
    BY <2>1, <2>3, <2>4, <2>5, <2>6, <2>7, UnheldKeepsInv DEF ReadBudget
<1> QED
  BY <1>2, <1>3 DEF ReadBudget

-----------------------------------------------------------------------------
(* From the creation of the group on *)

\* A name that is free becomes the group of s.
LEMMA FreshGroup ==
  ASSUME Inv, NEW s \in Supervisors, call[s].stage = "create",
         Name(s) \notin DOMAIN groups,
         groups' = Extended(groups, Name(s), Group(s, call[s].parent)),
         call' = [call EXCEPT ![s].stage = "check", ![s].group = Name(s)],
         UNCHANGED <<scene, host, pid, rlimit>>, nextId' \in [Supervisors -> Nat]
  PROVE  Inv'
<1> DEFINE c == [call[s] EXCEPT !.stage = "check", !.group = Name(s)]
           n == Name(s)
           g == Group(s, call[s].parent)
<1>1. /\ TypeOK /\ CallInv(s) /\ call[s] \in Calls
      /\ groups \in [DOMAIN groups -> GroupStates] /\ DOMAIN groups \subseteq scene.pids \X Nat
  BY DEF Inv, TypeOK, GroupsOK
<1>2. n \in scene.pids \X Nat /\ n # NoGroup
  BY <1>1, NamesAreGroups DEF Name, TypeOK
<1>3. g \in GroupStates /\ g.owner = s /\ g.parent = call[s].parent /\ g.written = 0
  <2>1. 0 \in 0..Len(Controls) /\ Unlimited \in Int
    BY FiveControls, BudgetAssumption
  <2> QED
    BY <1>1, <2>1 DEF Group, GroupStates, Calls
<1> HIDE DEF n, g
<1>4. /\ c \in Calls /\ c.stage = "check" /\ c.group = n /\ c.asked = call[s].asked
      /\ c.parent = call[s].parent /\ c.memory = call[s].memory
  BY <1>1, <1>2 DEF Calls, Stages, n
<1>5. call' = [call EXCEPT ![s] = c]
  BY <1>1 DEF TypeOK
<1> HIDE DEF c
<1>6. groups' = Extended(groups, n, g) /\ n \notin DOMAIN groups
  BY DEF n, g
<1>7. /\ DOMAIN groups' = DOMAIN groups \cup {n} /\ groups'[n] = g
      /\ \A m \in DOMAIN groups : groups'[m] = groups[m]
      /\ groups' \in [DOMAIN groups' -> GroupStates]
  BY <1>1, <1>3, <1>6 DEF Extended
<1>8. DOMAIN groups' \subseteq scene.pids \X Nat
  BY <1>1, <1>2, <1>7
<1>9. /\ TypeOK' /\ Supervisors' = Supervisors /\ call'[s] = c
      /\ \A t \in Supervisors \ {s} : call'[t] = call[t]
  <2>1. /\ pid' \in [Supervisors -> scene.pids]
        /\ rlimit' \in [Supervisors -> [Limits -> [soft : Nat, hard : Nat]]]
    BY <1>1 DEF TypeOK
  <2>2. TypeOK /\ c \in Calls
    BY <1>1, <1>4
  <2> QED BY <1>5, <1>7, <1>8, <2>1, <2>2, OneCall
<1>10. OthersKeep(s)
  BY <1>3, <1>7, <1>9 DEF OthersKeep
<1>11. HoldInv(s)'
  <2>1. \A m \in DOMAIN groups : groups[m].owner # s
    BY <1>1, NamesAreGroups DEF CallInv, HoldInv, Holding
  <2> QED
    BY <2>1, <1>2, <1>3, <1>4, <1>7, <1>9 DEF HoldInv, Holding
<1>12. AskedInv(s)' /\ BudgetInv(s)'
  BY <1>1, <1>4, <1>9 DEF CallInv, AskedInv, BudgetInv, IsBudget
<1>13. LimitInv(s)'
  BY <1>4, <1>9 DEF LimitInv
<1>14. GroupInv(s)'
  <2>1. groups'[call'[s].group] = g /\ call'[s].stage = "check" /\ g.parent = call'[s].parent
    BY <1>3, <1>4, <1>7, <1>9
  <2> QED
    BY <2>1, <1>3, FiveControls DEF GroupInv, Configured
<1> QED
  BY <1>9, <1>10, <1>11, <1>12, <1>13, <1>14, StepKeepsInv DEF CallInv

LEMMA CreateGroupKeepsInv ==
  ASSUME Inv, NEW s \in Supervisors, CreateGroup(s)
  PROVE  Inv'
<1>1. /\ TypeOK /\ CallInv(s) /\ call[s].stage = "create" /\ call[s].group = NoGroup
      /\ call[s] \in Calls
  BY DEF Inv, CreateGroup, At, CallInv, HoldInv, Holding, TypeOK
<1>2. nextId' \in [Supervisors -> Nat] /\ UNCHANGED <<scene, host, pid, rlimit>>
  BY <1>1 DEF CreateGroup, TypeOK
<1>3. CASE /\ Name(s) \notin DOMAIN groups
           /\ groups' = Extended(groups, Name(s), Group(s, call[s].parent))
           /\ call' = [call EXCEPT ![s].stage = "check", ![s].group = Name(s)]
  BY <1>1, <1>2, <1>3, FreshGroup
<1>4. ASSUME groups' = groups, NEW why \in Results, End(s, why)
      PROVE  Inv'
  <2> DEFINE c == [call[s] EXCEPT !.stage = "idle", !.result = why, !.group = NoGroup]
  <2>1. call' = [call EXCEPT ![s] = c]
    BY <1>1, <1>4 DEF End, TypeOK
  <2>2. c \in Calls /\ c.stage = "idle" /\ c.group = NoGroup
    BY <1>1 DEF Calls, Stages
  <2> HIDE DEF c
  <2>3. call[s].stage \notin Holding /\ c.stage \notin Holding
    BY <1>1, <2>2 DEF Holding
  <2> QED
    BY <1>2, <1>4, <2>1, <2>2, <2>3, UnheldKeepsInv
<1>5. CASE /\ groups' = groups /\ call[s].tries + 1 < MaxTries
           /\ call' = [call EXCEPT ![s].tries = @ + 1]
  <2> DEFINE c == [call[s] EXCEPT !.tries = @ + 1]
  <2>1. call' = [call EXCEPT ![s] = c]
    BY <1>1, <1>5 DEF TypeOK
  <2>2. call[s].tries + 1 \in 0..(MaxTries - 1)
    BY <1>1, <1>5, Constants DEF Calls
  <2>3. /\ c \in Calls /\ c.stage = "create" /\ c.group = NoGroup /\ c.asked = call[s].asked
        /\ c.parent = call[s].parent /\ c.memory = call[s].memory
    BY <1>1, <2>2 DEF Calls
  <2> HIDE DEF c
  <2>4. call[s].stage \notin Holding /\ c.stage \notin Holding
    BY <1>1, <2>3 DEF Holding
  <2>5. /\ \A f \in DOMAIN MaxProfile : c.asked[f] > 0
        /\ c.parent \in DOMAIN host.levels /\ IsBudget(c)
    BY <1>1, <2>3 DEF CallInv, AskedInv, BudgetInv, IsBudget
  <2> QED
    BY <1>2, <1>5, <2>1, <2>3, <2>4, <2>5, UnheldKeepsInv
<1>6. "names" \in Results /\ "create" \in Results
  BY DEF Results
<1> QED
  BY <1>3, <1>4, <1>5, <1>6 DEF CreateGroup

\* A call goes on with its group as it is.
LEMMA GoOnKeepsInv ==
  ASSUME Inv, NEW s \in Supervisors, NEW stage, Goto(s, stage),
         UNCHANGED <<scene, host, pid, nextId, groups, rlimit>>,
         \/ call[s].stage = "check" /\ stage = "configure"
         \/ call[s].stage = "events" /\ stage = "mounts"
         \/ call[s].stage = "mounts" /\ stage = "file"
  PROVE  Inv'
<1> DEFINE c == [call[s] EXCEPT !.stage = stage]
<1>1. TypeOK /\ CallInv(s) /\ call[s] \in Calls
  BY DEF Inv, TypeOK
<1>2. call' = [call EXCEPT ![s] = c]
  BY <1>1 DEF Goto, TypeOK
<1>3. /\ c \in Calls /\ c.stage = stage /\ c.group = call[s].group /\ c.asked = call[s].asked
      /\ c.parent = call[s].parent /\ c.memory = call[s].memory
  BY <1>1 DEF Calls, Stages
<1> HIDE DEF c
<1>4. /\ TypeOK' /\ Supervisors' = Supervisors /\ call'[s] = c
      /\ \A t \in Supervisors \ {s} : call'[t] = call[t]
  BY <1>1, <1>2, <1>3, OneCall DEF TypeOK, GroupsOK
<1>5. OthersKeep(s)
  BY <1>4 DEF OthersKeep
<1>6. call[s].stage \in Holding /\ stage \in Holding
  BY DEF Holding
<1>7. HoldInv(s)'
  BY <1>1, <1>3, <1>4, <1>6 DEF CallInv, HoldInv
<1>8. AskedInv(s)' /\ BudgetInv(s)'
  BY <1>1, <1>3, <1>4, <1>6 DEF CallInv, AskedInv, BudgetInv, IsBudget, Holding
<1>9. GroupInv(s)'
  BY <1>1, <1>3, <1>4, <1>6, FiveControls DEF CallInv, GroupInv, Configured
<1>10. LimitInv(s)'
  BY <1>3, <1>4 DEF LimitInv
<1> QED
  BY <1>4, <1>5, <1>7, <1>8, <1>9, <1>10, StepKeepsInv DEF CallInv

LEMMA CheckGroupKeepsInv ==
  ASSUME Inv, NEW s \in Supervisors, CheckGroup(s)
  PROVE  Inv'
<1>1. UNCHANGED <<scene, host, pid, nextId, rlimit>> /\ call[s].stage = "check"
  BY DEF CheckGroup, At
<1>2. CASE Goto(s, "configure") /\ UNCHANGED groups
  BY <1>1, <1>2, GoOnKeepsInv
<1>3. CASE End(s, "check") /\ LeaveGroup(s)
  <2>1. call[s].group # NoGroup /\ "check" \in Results
    BY <1>1 DEF Inv, CallInv, HoldInv, Holding, Results
  <2> QED
    BY <1>1, <1>3, <2>1, EndKeepsInv
<1> QED
  BY <1>2, <1>3 DEF CheckGroup

LEMMA ReadEventsKeepsInv ==
  ASSUME Inv, NEW s \in Supervisors, ReadEvents(s)
  PROVE  Inv'
<1>1. UNCHANGED <<scene, host, pid, nextId, rlimit>> /\ call[s].stage = "events"
  BY DEF ReadEvents, At
<1>2. CASE Goto(s, "mounts") /\ UNCHANGED groups
  BY <1>1, <1>2, GoOnKeepsInv
<1>3. CASE Abandon(s, "events")
  BY <1>1, <1>3, AbandonKeepsInv DEF Holding, Results
<1> QED
  BY <1>2, <1>3 DEF ReadEvents

LEMMA OpenMountsKeepsInv ==
  ASSUME Inv, NEW s \in Supervisors, OpenMounts(s)
  PROVE  Inv'
<1>1. UNCHANGED <<scene, host, pid, nextId, rlimit>> /\ call[s].stage = "mounts"
  BY DEF OpenMounts, At
<1>2. CASE Goto(s, "file") /\ UNCHANGED groups
  BY <1>1, <1>2, GoOnKeepsInv
<1>3. CASE Abandon(s, "mounts")
  BY <1>1, <1>3, AbandonKeepsInv DEF Holding, Results
<1> QED
  BY <1>2, <1>3 DEF OpenMounts

LEMMA FinishKeepsInv ==
  ASSUME Inv, NEW s \in Supervisors, Finish(s)
  PROVE  Inv'
<1>1. call[s].group # NoGroup /\ "ran" \in Results
  BY DEF Inv, CallInv, HoldInv, Holding, Results, Finish, At
<1> QED
  BY <1>1, EndKeepsInv DEF Finish

-----------------------------------------------------------------------------
(* Control files and limits *)

LEMMA WriteControlKeepsInv ==
  ASSUME Inv, NEW s \in Supervisors, WriteControl(s)
  PROVE  Inv'
<1> DEFINE n == call[s].group
           k == groups[n].written + 1
           stage == IF k = Len(Controls) THEN "events" ELSE "configure"
           g == [groups[n] EXCEPT !.written = k,
                    !.memory = IF Controls[k] = "memory.max" THEN call[s].memory ELSE @]
           c == [call[s] EXCEPT !.stage = stage]
<1>1. /\ TypeOK /\ CallInv(s) /\ call[s] \in Calls /\ call[s].stage = "configure"
      /\ groups \in [DOMAIN groups -> GroupStates] /\ DOMAIN groups \subseteq scene.pids \X Nat
      /\ UNCHANGED <<scene, host, pid, nextId, rlimit>>
  BY DEF Inv, TypeOK, GroupsOK, WriteControl, At
<1>2. CASE Abandon(s, "control")
  BY <1>1, <1>2, AbandonKeepsInv DEF Holding, Results
<1>3. ASSUME groups' = [groups EXCEPT
               ![n].written = k,
               ![n].memory = IF Controls[k] = "memory.max" THEN call[s].memory ELSE @],
             Goto(s, stage)
      PROVE  Inv'
  <2>1. /\ n # NoGroup /\ n \in DOMAIN groups /\ groups[n].owner = s
        /\ groups[n].parent = call[s].parent
        /\ groups[n].written >= 2 => groups[n].memory = call[s].memory
        /\ groups[n].written < 5 /\ groups[n] \in GroupStates
    BY <1>1, FiveControls DEF CallInv, HoldInv, GroupInv, Holding
  <2>2. groups[n].written \in 0..5
    BY <2>1, FiveControls DEF GroupStates
  <2>3. k \in 1..5 /\ Len(Controls) = 5 /\ (Controls[k] = "memory.max" <=> k = 2)
    BY <2>1, <2>2, FiveControls
  <2>4. /\ g \in GroupStates /\ g.owner = s /\ g.parent = call[s].parent /\ g.written = k
        /\ g.memory = IF k = 2 THEN call[s].memory ELSE groups[n].memory
    <3> DEFINE m == IF Controls[k] = "memory.max" THEN call[s].memory ELSE groups[n].memory
    <3>1. /\ m \in Int /\ m = IF k = 2 THEN call[s].memory ELSE groups[n].memory
          /\ g = [groups[n] EXCEPT !.written = k, !.memory = m] /\ k \in 0..Len(Controls)
      BY <1>1, <2>1, <2>3 DEF GroupStates, Calls
    <3> HIDE DEF m, k, g
    <3> QED
      BY <2>1, <3>1 DEF GroupStates
  <2>5. groups' = [groups EXCEPT ![n] = g]
    BY <1>1, <1>3, <2>1
  <2>6. call' = [call EXCEPT ![s] = c]
    BY <1>1, <1>3 DEF Goto, TypeOK
  <2>7. /\ c \in Calls /\ c.stage = stage /\ c.group = n /\ c.asked = call[s].asked
        /\ c.parent = call[s].parent /\ c.memory = call[s].memory
    BY <1>1 DEF Calls, Stages
  <2> HIDE DEF g, c, n, k
  <2>8. /\ DOMAIN groups' = DOMAIN groups /\ groups'[n] = g
        /\ \A m \in DOMAIN groups \ {n} : groups'[m] = groups[m]
        /\ groups' \in [DOMAIN groups' -> GroupStates]
    BY <1>1, <2>1, <2>4, <2>5
  <2>9. /\ TypeOK' /\ Supervisors' = Supervisors /\ call'[s] = c
        /\ \A t \in Supervisors \ {s} : call'[t] = call[t]
    BY <1>1, <2>6, <2>7, <2>8, OneCall DEF TypeOK
  <2>10. OthersKeep(s)
    BY <1>1, <2>1, <2>4, <2>8, <2>9 DEF OthersKeep
  <2>11. HoldInv(s)'
    <3>1. \A m \in DOMAIN groups : groups[m].owner = s => m = n
      BY <1>1 DEF CallInv, HoldInv, n
    <3> QED
      BY <3>1, <2>1, <2>4, <2>7, <2>8, <2>9 DEF HoldInv, Holding
  <2>12. AskedInv(s)' /\ BudgetInv(s)'
    BY <1>1, <2>7, <2>9 DEF CallInv, AskedInv, BudgetInv, IsBudget, Holding
  <2>13. GroupInv(s)'
    <3>1. k >= 2 => g.memory = c.memory
      BY <2>1, <2>2, <2>3, <2>4, <2>7 DEF k
    <3> QED
      BY <3>1, <2>3, <2>4, <2>7, <2>8, <2>9 DEF GroupInv, Configured
  <2>14. LimitInv(s)'
    BY <2>7, <2>9 DEF LimitInv
  <2> QED
    BY <2>9, <2>10, <2>11, <2>12, <2>13, <2>14, StepKeepsInv DEF CallInv
<1> QED
  BY <1>2, <1>3 DEF WriteControl

\* What a limit becomes: positive where the request is, and neither above the
\* request nor above the hard limit.
LEMMA EffectiveIsLower ==
  ASSUME Inv, NEW s \in Supervisors, NEW f \in Limits, call[s].stage # "idle",
         ~(Requested(s, f) > 0 /\ Effective(s, f) = 0)
  PROVE  /\ Effective(s, f) \in Nat /\ Effective(s, f) <= rlimit[s][f].hard
         /\ f # "core" => Effective(s, f) \in 1..call[s].asked[f]
         /\ f = "core" => Effective(s, f) = 0
<1>1. TypeOK /\ CallInv(s)
  BY DEF Inv
<1>2. /\ DOMAIN MaxProfile = {"processes", "memory", "cores", "file", "open"}
      /\ call[s].asked \in [DOMAIN MaxProfile -> Nat]
  BY <1>1, AskedFacts
<1>3. f # "core" => call[s].asked[f] \in Nat /\ call[s].asked[f] > 0
  BY <1>1, <1>2 DEF Limits, CallInv, AskedInv
<1>4. Requested(s, f) \in Nat
  BY <1>3 DEF Requested
<1>5. rlimit[s][f].hard \in Nat
  BY <1>1 DEF TypeOK
<1>6. /\ Effective(s, f) \in {Requested(s, f), rlimit[s][f].hard}
      /\ Effective(s, f) <= Requested(s, f) /\ Effective(s, f) <= rlimit[s][f].hard
  <2> DEFINE a == Requested(s, f)
             b == rlimit[s][f].hard
             m == Effective(s, f)
  <2>1. a \in Int /\ b \in Int /\ m = Min({a, b})
    BY <1>4, <1>5 DEF Effective
  <2> HIDE DEF a, b, m
  <2>2. m \in {a, b} /\ m <= a /\ m <= b
    BY <2>1, MinimumOfTwo
  <2> QED
    BY <2>2 DEF a, b, m
<1>7. Effective(s, f) \in Nat
  BY <1>4, <1>5, <1>6
<1> QED
  BY <1>3, <1>4, <1>5, <1>6, <1>7 DEF Requested

LEMMA LowerLimitKeepsInv ==
  ASSUME Inv, NEW s \in Supervisors, LowerLimit(s)
  PROVE  Inv'
<1>1. PICK f \in Limits :
        /\ At(s, f)
        /\ \/ /\ ~(Requested(s, f) > 0 /\ Effective(s, f) = 0)
              /\ rlimit' = [rlimit EXCEPT ![s][f] = [soft |-> Effective(s, f),
                                                     hard |-> Effective(s, f)]]
              /\ call' = IF f = "core" THEN [call EXCEPT ![s].stage = After(f)]
                         ELSE [call EXCEPT ![s].stage = After(f), ![s][f] = Effective(s, f)]
              /\ UNCHANGED groups
           \/ Abandon(s, "rlimit") /\ UNCHANGED rlimit
  BY DEF LowerLimit, Limits
<1>2. /\ TypeOK /\ CallInv(s) /\ call[s] \in Calls
      /\ UNCHANGED <<scene, host, pid, nextId>> /\ call[s].stage = f
      /\ f \in Holding /\ f # "idle"
  BY <1>1 DEF Inv, TypeOK, LowerLimit, At, Limits, Holding
<1>3. CASE Abandon(s, "rlimit") /\ UNCHANGED rlimit
  BY <1>2, <1>3, AbandonKeepsInv DEF Results
<1>4. ASSUME ~(Requested(s, f) > 0 /\ Effective(s, f) = 0),
             rlimit' = [rlimit EXCEPT ![s][f] = [soft |-> Effective(s, f),
                                                 hard |-> Effective(s, f)]],
             call' = IF f = "core" THEN [call EXCEPT ![s].stage = After(f)]
                     ELSE [call EXCEPT ![s].stage = After(f), ![s][f] = Effective(s, f)],
             UNCHANGED groups
      PROVE  Inv'
  <2> DEFINE v == Effective(s, f)
             c == IF f = "core" THEN [call[s] EXCEPT !.stage = After(f)]
                  ELSE [call[s] EXCEPT !.stage = After(f), ![f] = v]
             r == [soft |-> v, hard |-> v]
  <2>1. /\ v \in Nat
        /\ f # "core" => v \in 1..call[s].asked[f]
        /\ f = "core" => v = 0
    BY <1>2, <1>4, EffectiveIsLower
  <2> HIDE DEF v
  <2>2. call' = [call EXCEPT ![s] = c]
    BY <1>2, <1>4 DEF TypeOK, v
  <2>3. /\ c \in Calls /\ c.stage = After(f) /\ c.group = call[s].group
        /\ c.asked = call[s].asked /\ c.parent = call[s].parent /\ c.memory = call[s].memory
        /\ f # "core" => c[f] = v
        /\ f # "file" => c.file = call[s].file
        /\ f # "open" => c.open = call[s].open
    <3>1. CASE f = "file"
      <4>1. c = [call[s] EXCEPT !.stage = "open", !.file = v] /\ After(f) = "open"
        BY <3>1 DEF After
      <4> HIDE DEF c
      <4>2. /\ c \in Calls /\ c.stage = "open" /\ c.group = call[s].group /\ c.file = v
            /\ c.asked = call[s].asked /\ c.parent = call[s].parent
            /\ c.memory = call[s].memory /\ c.open = call[s].open
        BY <4>1, <1>2, <2>1 DEF Calls, Stages
      <4> QED
        BY <3>1, <4>1, <4>2
    <3>2. CASE f = "open"
      <4>1. c = [call[s] EXCEPT !.stage = "core", !.open = v] /\ After(f) = "core"
        BY <3>2 DEF After
      <4> HIDE DEF c
      <4>2. /\ c \in Calls /\ c.stage = "core" /\ c.group = call[s].group /\ c.open = v
            /\ c.asked = call[s].asked /\ c.parent = call[s].parent
            /\ c.memory = call[s].memory /\ c.file = call[s].file
        BY <4>1, <1>2, <2>1 DEF Calls, Stages
      <4> QED
        BY <3>2, <4>1, <4>2
    <3>3. CASE f = "core"
      BY <3>3, <1>2, <2>1 DEF Calls, Stages, After
    <3> QED
      BY <3>1, <3>2, <3>3 DEF Limits
  <2>4. /\ rlimit' \in [Supervisors -> [Limits -> [soft : Nat, hard : Nat]]]
        /\ rlimit'[s][f] = r /\ \A e \in Limits \ {f} : rlimit'[s][e] = rlimit[s][e]
        /\ \A t \in Supervisors \ {s} : rlimit'[t] = rlimit[t]
    <3> DEFINE row == [rlimit[s] EXCEPT ![f] = r]
    <3>1. rlimit \in [Supervisors -> [Limits -> [soft : Nat, hard : Nat]]]
      BY <1>2 DEF TypeOK
    <3>2. rlimit' = [rlimit EXCEPT ![s] = row]
      BY <1>4, <3>1 DEF v
    <3>3. /\ row \in [Limits -> [soft : Nat, hard : Nat]]
          /\ row[f] = r /\ \A e \in Limits \ {f} : row[e] = rlimit[s][e]
      <4> DEFINE Pairs == [soft : Nat, hard : Nat]
      <4>1. r \in Pairs /\ rlimit[s] \in [Limits -> Pairs]
        BY <2>1, <3>1
      <4> HIDE DEF Pairs, r
      <4>2. row \in [Limits -> Pairs] /\ row[f] = r /\ \A e \in Limits \ {f} : row[e] = rlimit[s][e]
        BY <4>1
      <4> QED
        BY <4>2 DEF Pairs
    <3> HIDE DEF row
    <3> QED
      BY <3>1, <3>2, <3>3
  <2> HIDE DEF c
  <2>5. /\ TypeOK' /\ Supervisors' = Supervisors /\ call'[s] = c
        /\ \A t \in Supervisors \ {s} : call'[t] = call[t]
    <3>1. groups' \in [DOMAIN groups' -> GroupStates] /\ DOMAIN groups' \subseteq scene.pids \X Nat
      BY <1>2, <1>4 DEF TypeOK, GroupsOK
    <3> QED
      BY <1>2, <2>2, <2>3, <2>4, <3>1, OneCall DEF TypeOK
  <2>6. OthersKeep(s)
    BY <1>2, <1>4, <2>4, <2>5 DEF OthersKeep
  <2>7. After(f) \in Holding /\ After(f) \in Configured /\ f \in Configured
    BY DEF After, Holding, Configured, Limits
  <2>8. HoldInv(s)'
    BY <1>2, <1>4, <2>3, <2>5, <2>7 DEF CallInv, HoldInv
  <2>9. AskedInv(s)' /\ BudgetInv(s)'
    BY <1>2, <2>3, <2>5, <2>7 DEF CallInv, AskedInv, BudgetInv, IsBudget
  <2>10. GroupInv(s)'
    BY <1>2, <1>4, <2>3, <2>5, <2>7 DEF CallInv, GroupInv, Configured
  <2>11. LimitInv(s)'
    <3>1. CASE f = "file"
      BY <3>1, <2>1, <2>3, <2>4, <2>5 DEF LimitInv, Lowered, After
    <3>2. CASE f = "open"
      BY <3>2, <1>2, <2>1, <2>3, <2>4, <2>5 DEF CallInv, LimitInv, Lowered, After, Limits
    <3>3. CASE f = "core"
      BY <3>3, <1>2, <2>1, <2>3, <2>4, <2>5 DEF CallInv, LimitInv, Lowered, After, Limits
    <3> QED
      BY <3>1, <3>2, <3>3 DEF Limits
  <2> QED
    BY <2>5, <2>6, <2>8, <2>9, <2>10, <2>11, StepKeepsInv DEF CallInv
<1> QED
  BY <1>1, <1>3, <1>4

-----------------------------------------------------------------------------
(* Death of a supervisor, and the beginning *)

LEMMA CrashKeepsInv ==
  ASSUME Inv, NEW s \in Supervisors, Crash(s)
  PROVE  Inv'
<1> DEFINE Left(n) == IF groups[n].owner = s THEN [groups[n] EXCEPT !.owner = "stale"]
                                             ELSE groups[n]
<1>1. /\ TypeOK /\ CallInv(s) /\ call \in [Supervisors -> Calls]
      /\ groups \in [DOMAIN groups -> GroupStates] /\ DOMAIN groups \subseteq scene.pids \X Nat
      /\ s \notin {"stale", "left"}
  BY HostFacts DEF Inv, TypeOK, GroupsOK
<1>2. NoCall \in Calls /\ NoCall.stage = "idle" /\ NoCall.group = NoGroup
  BY NoCallIsCall
<1>3. /\ call' = [call EXCEPT ![s] = NoCall] /\ UNCHANGED <<scene, host>>
      /\ groups' = [n \in DOMAIN groups |-> Left(n)]
  BY DEF Crash
<1>4. \A n \in DOMAIN groups :
        /\ Left(n) \in GroupStates /\ Left(n).owner # s
        /\ groups[n].owner # s => Left(n) = groups[n]
        /\ Left(n).owner \in Supervisors => Left(n) = groups[n]
  <2> SUFFICES ASSUME NEW n \in DOMAIN groups
               PROVE  /\ Left(n) \in GroupStates /\ Left(n).owner # s
                      /\ groups[n].owner # s => Left(n) = groups[n]
                      /\ Left(n).owner \in Supervisors => Left(n) = groups[n]
    OBVIOUS
  <2>1. groups[n] \in GroupStates
    BY <1>1
  <2>2. CASE groups[n].owner = s
    <3>1. Left(n) = [groups[n] EXCEPT !.owner = "stale"]
      BY <2>2
    <3>2. "stale" \notin Supervisors
      BY <1>1, HostFacts
    <3> HIDE DEF Left
    <3> QED
      BY <1>1, <2>1, <2>2, <3>1, <3>2 DEF GroupStates
  <2>3. CASE groups[n].owner # s
    BY <2>1, <2>3
  <2> QED
    BY <2>2, <2>3
<1> HIDE DEF Left
<1>5. /\ DOMAIN groups' = DOMAIN groups /\ \A n \in DOMAIN groups : groups'[n] = Left(n)
      /\ groups' \in [DOMAIN groups' -> GroupStates]
  BY <1>3, <1>4
<1>6. /\ pid' \in [Supervisors -> scene.pids] /\ nextId' \in [Supervisors -> Nat]
      /\ rlimit' \in [Supervisors -> [Limits -> [soft : Nat, hard : Nat]]]
      /\ \A t \in Supervisors \ {s} : rlimit'[t] = rlimit[t]
  BY <1>1, HostFacts DEF Crash, TypeOK
<1>7. DOMAIN groups' \subseteq scene.pids \X Nat
  BY <1>1, <1>5
<1>8. /\ TypeOK' /\ Supervisors' = Supervisors /\ call'[s] = NoCall
      /\ \A t \in Supervisors \ {s} : call'[t] = call[t]
  BY <1>1, <1>2, <1>3, <1>5, <1>6, <1>7, OneCall
<1>9. OthersKeep(s)
  BY <1>3, <1>4, <1>5, <1>6, <1>8 DEF OthersKeep
<1>10. HoldInv(s)'
  BY <1>2, <1>4, <1>5, <1>8 DEF HoldInv, Holding
<1>11. CallInv(s)'
  BY <1>2, <1>8, <1>10 DEF CallInv, AskedInv, BudgetInv, GroupInv, LimitInv, Holding
<1> QED
  BY <1>8, <1>9, <1>11, StepKeepsInv

LEMMA InitIsFine == Init => Inv
<1> SUFFICES ASSUME Init PROVE Inv
  OBVIOUS
<1>1. PICK c \in Scenes :
        /\ scene = [profiles |-> c.profiles, pids |-> c.pids, faults |-> c.faults,
                    crashes |-> c.crashes]
        /\ host \in c.hosts
        /\ pid \in [c.supervisors -> c.pids]
        /\ nextId = [s \in c.supervisors |-> 0]
        /\ \E ids \in c.stale :
             groups = [n \in c.pids \X ids |-> Group("stale", Len(host.levels))]
        /\ rlimit = [s \in c.supervisors |-> host.rlimit]
        /\ call = [s \in c.supervisors |-> NoCall]
  BY DEF Init
<1>2. PICK ids \in c.stale :
        groups = [n \in c.pids \X ids |-> Group("stale", Len(host.levels))]
  BY <1>1
<1>3. /\ Supervisors = c.supervisors /\ scene.pids = c.pids /\ scene.profiles = c.profiles
      /\ c.supervisors \cap {"stale", "left"} = {} /\ ids \subseteq Nat
  BY <1>1, <1>2, BudgetAssumption DEF Supervisors
<1>4. NoCall \in Calls /\ NoCall.stage = "idle" /\ NoCall.group = NoGroup
  BY NoCallIsCall
<1>5. host.rlimit \in [Limits -> [soft : Nat, hard : Nat]]
  BY <1>1, BudgetAssumption DEF Limits
<1>6. Len(host.levels) \in Nat
  <2> DEFINE LevelStates == [available : SUBSET Controllers, enabled : SUBSET Controllers,
                             procs : {"writable", "denied", "error"},
                             memory : Nat \cup {Missing}]
             levels == host.levels
  <2>1. levels \in Seq(LevelStates)
    BY <1>1, BudgetAssumption
  <2> HIDE DEF levels, LevelStates
  <2>2. Len(levels) \in Nat
    BY <2>1
  <2> QED
    BY <2>2 DEF levels
<1> DEFINE g == Group("stale", Len(host.levels))
<1>7. g \in GroupStates /\ g.owner = "stale"
  <2>1. 0 \in 0..Len(Controls) /\ Unlimited \in Int
    BY FiveControls, BudgetAssumption
  <2> QED
    BY <1>6, <2>1 DEF Group, GroupStates
<1> HIDE DEF g
<1>8. /\ groups \in [DOMAIN groups -> GroupStates] /\ DOMAIN groups \subseteq scene.pids \X Nat
      /\ \A n \in DOMAIN groups : groups[n].owner = "stale"
  <2>1. groups = [n \in c.pids \X ids |-> g]
    BY <1>2 DEF g
  <2> QED
    BY <2>1, <1>3, <1>7
<1>9. TypeOK
  <2>1. DOMAIN call = c.supervisors /\ call \in [Supervisors -> Calls]
    BY <1>1, <1>3, <1>4
  <2>2. /\ pid \in [Supervisors -> scene.pids] /\ nextId \in [Supervisors -> Nat]
        /\ rlimit \in [Supervisors -> [Limits -> [soft : Nat, hard : Nat]]]
    BY <1>1, <1>3, <1>5
  <2> QED
    BY <1>1, <1>8, <2>1, <2>2 DEF TypeOK, GroupsOK
<1>10. ASSUME NEW s \in Supervisors PROVE CallInv(s)
  <2>1. call[s] = NoCall
    BY <1>1, <1>3
  <2>2. HoldInv(s)
    BY <2>1, <1>3, <1>4, <1>8 DEF HoldInv, Holding
  <2> QED
    BY <2>1, <2>2, <1>4 DEF CallInv, AskedInv, BudgetInv, GroupInv, LimitInv, Holding
<1> QED
  BY <1>9, <1>10 DEF Inv

LEMMA StutteringKeepsInv == Inv /\ UNCHANGED vars => Inv'
<1> SUFFICES ASSUME Inv, UNCHANGED vars PROVE Inv'
  OBVIOUS
<1>1. /\ UNCHANGED <<scene, host, pid, nextId, groups, rlimit, call>>
      /\ Supervisors' = Supervisors
  BY DEF vars, Supervisors
<1>2. TypeOK'
  BY <1>1 DEF Inv, TypeOK, GroupsOK, GroupStates, Calls
<1>3. ASSUME NEW s \in Supervisors PROVE CallInv(s)'
  BY <1>1 DEF Inv, CallInv, HoldInv, AskedInv, BudgetInv, IsBudget, GroupInv, LimitInv,
              Lowered
<1> QED
  BY <1>1, <1>2, <1>3 DEF Inv

LEMMA NextKeepsInv == Inv /\ [Next]_vars => Inv'
<1> SUFFICES ASSUME Inv, [Next]_vars PROVE Inv'
  OBVIOUS
<1>1. ASSUME NEW s \in Supervisors, Prepare(s) PROVE Inv'
  BY <1>1, PrepareKeepsInv
<1>2. ASSUME NEW s \in Supervisors, FindParent(s) PROVE Inv'
  BY <1>2, FindParentKeepsInv
<1>3. ASSUME NEW s \in Supervisors, ReadBudget(s) PROVE Inv'
  BY <1>3, ReadBudgetKeepsInv
<1>4. ASSUME NEW s \in Supervisors, CreateGroup(s) PROVE Inv'
  BY <1>4, CreateGroupKeepsInv
<1>5. ASSUME NEW s \in Supervisors, CheckGroup(s) PROVE Inv'
  BY <1>5, CheckGroupKeepsInv
<1>6. ASSUME NEW s \in Supervisors, WriteControl(s) PROVE Inv'
  BY <1>6, WriteControlKeepsInv
<1>7. ASSUME NEW s \in Supervisors, ReadEvents(s) PROVE Inv'
  BY <1>7, ReadEventsKeepsInv
<1>8. ASSUME NEW s \in Supervisors, OpenMounts(s) PROVE Inv'
  BY <1>8, OpenMountsKeepsInv
<1>9. ASSUME NEW s \in Supervisors, LowerLimit(s) PROVE Inv'
  BY <1>9, LowerLimitKeepsInv
<1>10. ASSUME NEW s \in Supervisors, Finish(s) PROVE Inv'
  BY <1>10, FinishKeepsInv
<1>11. ASSUME NEW s \in Supervisors, Crash(s) PROVE Inv'
  BY <1>11, CrashKeepsInv
<1>12. CASE UNCHANGED vars
  BY <1>12, StutteringKeepsInv
<1> QED
  BY <1>1, <1>2, <1>3, <1>4, <1>5, <1>6, <1>7, <1>8, <1>9, <1>10, <1>11, <1>12 DEF Next, Step

-----------------------------------------------------------------------------
(* Theorems *)

\* A run's group is its own from creation to removal, calls in progress stand
\* where their data allow it, and limits follow the stages (resources.rs).
THEOREM BudgetInvariant == Spec => []Inv
<1> QED
  BY InitIsFine, NextKeepsInv, PTL DEF Spec

\* Whoever else sees the same process id, and whatever dead supervisors left, no
\* two supervisors run in one group (create_child_cgroup).
THEOREM RunsHaveFreshGroups == Spec => []GroupsAreFresh
<1>1. Inv => GroupsAreFresh
  BY DEF Inv, CallInv, HoldInv, GroupsAreFresh
<1> QED
  BY <1>1, BudgetInvariant, PTL

\* No failure of a preparation leaves its group behind, the two cases excepted
\* in which the code does not remove it (prepare, create_child_cgroup, Drop).
THEOREM FailuresCleanUp == Spec => []FailureLeavesNoGroup
<1>1. Inv => FailureLeavesNoGroup
  BY DEF Inv, CallInv, HoldInv, FailureLeavesNoGroup
<1> QED
  BY <1>1, BudgetInvariant, PTL

\* A program runs with all controls set, within each of the three memory budgets
\* and at one of them, for any sizes of these (discover, configure_cgroup).
THEOREM RunsStayInBudget == Spec => []StartsWithinBudget
<1>1. Inv => StartsWithinBudget
  <2> SUFFICES ASSUME Inv, NEW s \in Supervisors, call[s].stage = "running"
               PROVE  LET g == groups[call[s].group] IN
                      /\ g.written = Len(Controls)
                      /\ g.memory >= MinMemory /\ g.memory <= call[s].asked.memory
                      /\ g.memory <= host.levels[g.parent].memory
                      /\ 4 * g.memory <= 3 * host.memTotal
                      /\ g.memory = call[s].asked.memory
                           \/ g.memory = host.levels[g.parent].memory
                           \/ 4 * (g.memory + 1) > 3 * host.memTotal
    BY DEF StartsWithinBudget
  <2> DEFINE g == groups[call[s].group]
  <2>1. CallInv(s) /\ call[s].stage \in Holding /\ call[s].stage \in Configured
    BY DEF Inv, Holding, Configured
  <2>2. /\ g.parent = call[s].parent /\ g.written = Len(Controls)
        /\ g.memory = call[s].memory
    BY <2>1, FiveControls DEF CallInv, GroupInv
  <2>3. IsBudget(call[s])
    BY <2>1 DEF CallInv, BudgetInv
  <2> QED
    BY <2>2, <2>3 DEF IsBudget
<1> QED
  BY <1>1, BudgetInvariant, PTL

\* The program inherits what the supervisor will report of file sizes and open
\* files, for any limits of its caller (apply_inherited_limits).
THEOREM LimitsAreReported == Spec => []InheritedAsReported
<1>1. Inv => InheritedAsReported
  BY DEF Inv, CallInv, LimitInv, Lowered, InheritedAsReported
<1> QED
  BY <1>1, BudgetInvariant, PTL

\* Crash is the only step that counts one.
LEMMA CrashesAreCounted == Spec => [](crashes \in Nat)
<1>1. Init => crashes \in Nat
  BY DEF Init
<1>2. crashes \in Nat /\ [Next]_vars => (crashes \in Nat)'
  <2>1. ASSUME NEW s \in Supervisors, Crash(s) PROVE crashes' = crashes + 1
    BY <2>1 DEF Crash
  <2>2. ASSUME NEW s \in Supervisors, Prepare(s) \/ Step(s) PROVE crashes' = crashes
    <3>1. CASE Prepare(s)
      BY <3>1 DEF Prepare
    <3>2. CASE FindParent(s) \/ ReadBudget(s)
      BY <3>2 DEF FindParent, ReadBudget
    <3>3. CASE CreateGroup(s) \/ CheckGroup(s)
      BY <3>3 DEF CreateGroup, CheckGroup
    <3>4. CASE WriteControl(s)
      BY <3>4 DEF WriteControl
    <3>5. CASE ReadEvents(s) \/ OpenMounts(s) \/ Finish(s)
      BY <3>5 DEF ReadEvents, OpenMounts, Finish
    <3>6. CASE LowerLimit(s)
      BY <3>6 DEF LowerLimit
    <3> QED
      BY <2>2, <3>1, <3>2, <3>3, <3>4, <3>5, <3>6 DEF Step
  <2> QED
    BY <2>1, <2>2 DEF Next, vars
<1> QED
  BY <1>1, <1>2, PTL DEF Spec

\* Nothing a supervisor does raises a hard limit, not even where the kernel would
\* let it (set_lower_limit).
THEOREM HardLimitsOnlyFall == Spec => HardLimitsNeverRise
<1> DEFINE Falls == \A s \in Supervisors, f \in {"file", "open", "core"} :
                      crashes' = crashes => rlimit'[s][f].hard <= rlimit[s][f].hard
<1>1. Inv /\ crashes \in Nat /\ [Next]_vars => [Falls]_vars
  <2> SUFFICES ASSUME Inv, crashes \in Nat, Next,
                      NEW t \in Supervisors, NEW e \in Limits, crashes' = crashes
               PROVE  rlimit'[t][e].hard <= rlimit[t][e].hard
    BY DEF Limits
  <2>1. TypeOK /\ rlimit[t][e].hard \in Nat
    BY DEF Inv, TypeOK
  <2>2. CASE UNCHANGED rlimit
    BY <2>1, <2>2
  <2>3. ASSUME NEW s \in Supervisors, Crash(s) PROVE FALSE
    BY <2>3 DEF Crash
  <2>4. ASSUME NEW s \in Supervisors, LowerLimit(s), rlimit' # rlimit
        PROVE  rlimit'[t][e].hard <= rlimit[t][e].hard
    <3>1. PICK f \in Limits :
            /\ At(s, f) /\ ~(Requested(s, f) > 0 /\ Effective(s, f) = 0)
            /\ rlimit' = [rlimit EXCEPT ![s][f] = [soft |-> Effective(s, f),
                                                   hard |-> Effective(s, f)]]
      BY <2>4 DEF LowerLimit, Limits
    <3>2. Effective(s, f) <= rlimit[s][f].hard
      BY <3>1, EffectiveIsLower DEF At, Limits
    <3> DEFINE v == Effective(s, f)
    <3> HIDE DEF v
    <3>3. CASE t = s /\ e = f
      <4>1. rlimit'[t][e].hard = v
        BY <3>1, <3>3, <2>1 DEF TypeOK, v
      <4> QED
        BY <4>1, <3>2, <3>3 DEF v
    <3>4. CASE ~(t = s /\ e = f)
      <4>1. rlimit'[t][e] = rlimit[t][e]
        BY <3>1, <3>4, <2>1 DEF TypeOK
      <4> QED
        BY <4>1, <2>1
    <3> QED
      BY <3>3, <3>4
  <2> QED
    BY <2>2, <2>3, <2>4
       DEF Next, Step, Prepare, FindParent, ReadBudget, CreateGroup, CheckGroup,
           WriteControl, ReadEvents, OpenMounts, Finish
<1> QED
  BY <1>1, BudgetInvariant, CrashesAreCounted, PTL DEF Spec, HardLimitsNeverRise
=============================================================================
