--------------------------- MODULE SandboxRunInv ----------------------------
(***************************************************************************)
(* The inductive invariant behind the safety properties of SandboxRun.     *)
(* Each conjunct says what holds of a call while its thread is at the      *)
(* given places of run_inner; together they are preserved by every step.   *)
(***************************************************************************)
EXTENDS SandboxRun

Resting == {"idle", "done"}
\* The supervisor is in the cgroup, by design, at these places.
InsidePCs == {"spawn", "restore", "abort", "abortwait"}
\* No child has been spawned yet.
UnbornPCs == {"idle", "plan", "prepare", "mounts", "limits", "enter", "spawn"}
\* The group is on its way out through Drop.
DropPCs == {"drop", "discard"}

Killing(c, k) == pc[c] \in {"kill", "reap"} /\ cont[c] \in k

\* The lock is held exactly by the thread that is inside run.
LockInv == \A c \in Callers : pc[c] \in Resting <=> lock # c

\* A sandbox exists from its spawn on, and in its own cgroup.
BirthInv ==
  \A g \in Group :
    /\ home[g] \in {None, g}
    /\ home[g] = None => InBox(g) = {} /\ status[g] = "none"
    /\ home[g] = g    => status[g] # "none"
    /\ status[g] = "running" <=> Bwrap \in InBox(g)
    /\ live[g] \cap dying[g] = {}

UnbornInv ==
  \A c \in Callers :
    /\ pc[c] \in {"idle", "plan"} => phase[c] = "preflight"
    /\ \A ph \in Phases :
         (phase[c] = "preflight" /\ ph = "main")
           \/ (phase[c] = ph /\ pc[c] \in UnbornPCs) => home[<<c, ph>>] = None

\* Where the supervisor can be: in the cgroup of the call that is between
\* entering and restoring, or stranded in one whose Drop failed.
PlaceInv ==
  /\ \A c \in Callers : pc[c] \in InsidePCs => supAt = G(c) /\ c \in entered
  /\ \A c \in Callers, ph \in Phases :
       supAt = <<c, ph>> =>
         /\ phase[c] = ph
         /\ \/ pc[c] \in InsidePCs
            \/ pc[c] = "drop" /\ c \in entered
            \/ pc[c] \in {"discard", "return", "done"} /\ c \in abandoned
  /\ \A c \in Callers :
       pc[c] \notin Resting \cup {"plan", "prepare", "return"} =>
         \A d \in Callers, ph \in Phases :
           restore[c] = <<d, ph>> =>
             pc[d] = "done" /\ d \in abandoned /\ phase[d] = ph

\* On the way out through Drop there is an error to return; only Drop abandons.
ErrorInv ==
  \A c \in Callers :
    /\ pc[c] \in DropPCs \cup {"abort", "abortwait"} => verdict[c] \in Errors
    /\ Killing(c, {"drop"}) => verdict[c] \in Errors
    /\ pc[c] = "return" => verdict[c] # "none"
    /\ c \in abandoned => pc[c] \in {"discard", "return", "done"}
    /\ c \in abandoned /\ pc[c] = "return" => verdict[c] \in Errors
    /\ c \in abandoned /\ pc[c] = "done" => outcome[c] \in Errors
    /\ pc[c] # "done" => outcome[c] = "none"
    /\ pc[c] \in {"mounts", "limits", "enter", "spawn", "restore", "readers",
                  "watch", "poll", "join"} => verdict[c] = "none"
    /\ pc[c] \in {"kill", "reap", "await"} /\ cont[c] \notin {"finish", "drop"}
         => verdict[c] = "none"
    /\ verdict[c] = "ok" => pc[c] \in {"return", "prepare", "done"}

\* Which watchdog called kill_all.
ContInv ==
  \A c \in Callers :
    /\ pc[c] = "await" =>
         cont[c] \in {"timeout", "monitorInherit", "monitorCapture"}
    /\ pc[c] \in {"kill", "reap", "await"} =>
         /\ cont[c] \in {"timeout", "monitorInherit"} => ~Capturing(c)
         /\ cont[c] \in {"overflow", "deadline", "monitorCapture"} => Capturing(c)
         /\ cont[c] = "overflow" => G(c) \in over
    /\ pc[c] \in {"readers", "watch", "join"} => Capturing(c)

\* Once the tree has been seen empty it stays empty, and the counters that
\* are read then are final.
Settled(g) == InBox(g) = {} /\ dir[g] = "removed" /\ events[g] = {}
QuietAt(c) ==
  /\ pc[c] \in {"read", "remove", "report"} => InBox(G(c)) = {}
  /\ pc[c] \in {"remove", "report"} => report[c] = events[G(c)]
  /\ pc[c] = "report" => dir[G(c)] = "removed"
  /\ pc[c] \in {"discard", "return", "done"} /\ c \notin abandoned
       => InBox(G(c)) = {}
  /\ pc[c] = "return" /\ verdict[c] = "ok" =>
       Settled(G(c)) /\ status[G(c)] \in {"ok", "fail"}
  /\ phase[c] = "main" =>
       Settled(<<c, "preflight">>) /\ status[<<c, "preflight">>] = "ok"
  /\ outcome[c] = "ok" =>
       /\ phase[c] = "main"
       /\ Settled(<<c, "main">>) /\ status[<<c, "main">>] \in {"ok", "fail"}
QuietInv == \A c \in Callers : QuietAt(c)

\* The child has exited when its result is looked at.
ExitAt(c) ==
  pc[c] \in {"join", "finish", "read", "remove", "report"} \/ Killing(c, {"finish"})
    => Exited(G(c)) \/ verdict[c] \in Errors
ExitInv == \A c \in Callers : ExitAt(c)

\* A child that did not end on its own accord has left a trace that keeps its
\* status from being delivered.
Doomed(g) == Bwrap \in dying[g] \/ status[g] = "killed"
DoomAt(c) ==
  sup = "alive" /\ pc[c] \notin Resting \cup {"return"} /\ Doomed(G(c)) =>
    \/ "memory" \in events[G(c)]
    \/ verdict[c] \in Errors
    \/ c \in wall
    \/ G(c) \in over /\ pc[c] \in {"watch", "poll", "kill", "reap", "join"}
                     /\ ~Killing(c, {"finish"})
    \/ pc[c] \in {"kill", "reap", "await"}
         /\ cont[c] \in {"timeout", "deadline", "monitorInherit",
                         "monitorCapture"}
DoomInv == \A c \in Callers : DoomAt(c)

\* After the join nothing can be written to the pipes any more, and nothing
\* that was written has been dropped.
PipeAt(c) ==
  /\ \A ph \in Phases :
       <<c, ph>> \in piped \cup flood \cup over =>
         ph = "preflight" \/ mode[c] = "capture"
  /\ \A ph \in Phases : home[<<c, ph>>] = None => <<c, ph>> \notin piped \cup flood
  /\ Capturing(c) /\ ( \/ pc[c] \in {"finish", "read", "remove", "report"}
                          /\ verdict[c] = "none"
                       \/ Killing(c, {"finish"}) /\ verdict[c] = "none"
                       \/ pc[c] = "return" /\ verdict[c] = "ok")
       => G(c) \notin piped \cup flood
  /\ outcome[c] = "ok" => <<c, "main">> \notin piped \cup flood
PipeInv == \A c \in Callers : PipeAt(c)

\* Who holds the lock, where the supervisor is and where its children are.
CoreInv ==
  /\ TypeOK /\ sup # "suicide"
  /\ LockInv /\ BirthInv /\ UnbornInv /\ PlaceInv /\ ErrorInv

\* With that, what has become of the child when a result is delivered.
IInv == CoreInv /\ ContInv /\ QuietInv /\ ExitInv /\ DoomInv /\ PipeInv
=============================================================================
