--------------------------- MODULE ResourceBudgetInv ---------------------------
(* The inductive invariant of ResourceBudget, one supervisor at a time.     *)
EXTENDS ResourceBudget

\* A group is held by one call, from its creation to its end, and is its own;
\* no other group is.
HoldInv(s) ==
  /\ call[s].stage \in Holding <=> call[s].group # NoGroup
  /\ call[s].group # NoGroup =>
       call[s].group \in DOMAIN groups /\ groups[call[s].group].owner = s
  /\ \A n \in DOMAIN groups : groups[n].owner = s => call[s].group = n

\* A profile that is being served was found valid.
AskedInv(s) ==
  call[s].stage # "idle" => \A f \in DOMAIN MaxProfile : call[s].asked[f] > 0

\* The memory a call has worked out: within each of the three budgets, and one
\* of them.
IsBudget(c) ==
  LET limit == host.levels[c.parent].memory IN
  /\ limit \in Nat
  /\ c.memory \in Nat /\ c.memory >= MinMemory
  /\ c.memory <= c.asked.memory /\ c.memory <= limit /\ 4 * c.memory <= 3 * host.memTotal
  /\ \/ c.memory = c.asked.memory \/ c.memory = limit
     \/ 4 * (c.memory + 1) > 3 * host.memTotal
BudgetInv(s) ==
  /\ call[s].stage \in Holding \cup {"budget", "create"} =>
       call[s].parent \in DOMAIN host.levels
  /\ call[s].stage \in Holding \cup {"create"} => IsBudget(call[s])

\* How much of it the group has been told.
Configured == {"events", "mounts", "file", "open", "core", "running"}
GroupInv(s) ==
  LET g == groups[call[s].group] IN
  call[s].stage \in Holding =>
    /\ g.parent = call[s].parent
    /\ g.written >= 2 => g.memory = call[s].memory
    /\ call[s].stage = "check" => g.written = 0
    /\ call[s].stage = "configure" => g.written < Len(Controls)
    /\ call[s].stage \in Configured => g.written = Len(Controls)

\* Which limits of the supervisor are those of its call already.
Lowered(s, f) ==
  /\ rlimit[s][f] = [soft |-> call[s][f], hard |-> call[s][f]]
  /\ call[s][f] \in 1..call[s].asked[f]
LimitInv(s) ==
  /\ call[s].stage \in {"open", "core", "running"} => Lowered(s, "file")
  /\ call[s].stage \in {"core", "running"} => Lowered(s, "open")
  /\ call[s].stage = "running" => rlimit[s].core.hard = 0

CallInv(s) == HoldInv(s) /\ AskedInv(s) /\ BudgetInv(s) /\ GroupInv(s) /\ LimitInv(s)
Inv == TypeOK /\ \A s \in Supervisors : CallInv(s)
=============================================================================
