----------------------------- MODULE MCTargetPrep -----------------------------
(***************************************************************************)
(* A workspace /ws, a directory outside it, symbolic links that lead to    *)
(* and around the workspace, and the ways a target directory can look.     *)
(***************************************************************************)
EXTENDS TargetPrepInv, TLC

CONSTANTS p0, p1, p2
Symmetry == Permutations({p1, p2})

ws     == <<"ws">>
target == <<"ws", "target">>
sub    == <<"ws", "sub">>
out    == <<"out">>
alias  == <<"alias">>
around == <<"around">>
cage   == Append(target, CageName)
runs   == Append(cage, RunsName)

MCNames == {"ws", "target", "sub", "out", "alias", "around", "deep", "gone",
            "Cargo.lock", "run-0", "run-1", "run-2", "run-3", "run-4",
            BuildName, CageName, RunsName, ".."}
MCRunNames == [k \in {"k", "m"} |->
  CASE k = "k" -> <<"run-0", "run-1">>
    [] k = "m" -> <<"run-2", "run-3", "run-4">>]

Nothing == [q \in {} |-> Dir(Host)]
Base == [q \in {Root, ws, out, alias, around, sub} |->
           CASE q = alias -> Link(ws, Host)
             [] q = around -> Link(Root, Host)
             [] OTHER -> Dir(Host)]

Kept(q, es) == {Nothing} \cup {q :> e : e \in es}
Anything(q) == Kept(q, {Dir(Host), File(1, Host), Link(out, Host)})
LinksOf(q) == {q :> Link(t, Host) : t \in {out, sub, <<"gone">>}}

LockTrees == Kept(Lockfile, {File(1, Host), File(2, Host), Dir(Host),
                             Link(<<"out", "gone">>, Host)})
RunTrees ==
  Anything(cage) \cup
  {(cage :> Dir(Host)) @@ t : t \in Anything(runs)} \cup
  {(cage :> Dir(Host)) @@ (runs :> Dir(Host)) @@ t @@ u :
     t \in Kept(Append(runs, "run-0"), {Dir(Host), File(1, Host)}),
     u \in Kept(Append(runs, "run-1"), {Dir(Host), Link(out, Host)})}
TargetTrees ==
  {Nothing} \cup LinksOf(target) \cup {target :> File(1, Host)} \cup
  {(target :> Dir(Host)) @@ t : t \in RunTrees
     \cup Anything(Append(target, BuildName))
     \cup {Append(target, "deep") :> e : e \in {Dir(Host), File(1, Host), File(2, Host)}}}

MCRequests ==
  {target, ws, out, alias, Append(target, "deep"), <<"ws", "sub", "target">>,
   <<"out", "target">>, <<"alias", "target">>, <<"around", "ws", "target">>,
   <<"around", "out">>, <<"ws", "..", "ws", "target">>, <<"ws", "Cargo.lock">>,
   <<"ws", "gone", "target">>}

\* A process on its own, before every kind of tree.
Alone ==
  [procs |-> {p0}, trees |-> {Base @@ t @@ l : t \in TargetTrees, l \in LockTrees},
   requests |-> MCRequests, reuse |-> BOOLEAN, keys |-> {"k"},
   deeds |-> {}, places |-> {}, targets |-> {}, moves |-> 0]

\* Two callers: the same target, or one below the other's, the same run names;
\* and one change by somebody else.
Together ==
  [procs |-> {p1, p2},
   trees |-> {Base @@ t @@ l :
     t \in {Nothing, target :> Dir(Host),
            (target :> Dir(Host)) @@ (cage :> Dir(Host)) @@ (runs :> Dir(Host))},
     l \in Kept(Lockfile, {File(1, Host)})},
   requests |-> {target, Append(target, "deep")}, reuse |-> BOOLEAN, keys |-> {"m"},
   deeds |-> {"remove", "create"}, places |-> {target, runs, Lockfile},
   targets |-> {}, moves |-> 1]

\* Isolated builds with run names of their own, while others remove, replace and
\* redirect the directory of the runs.
Isolated ==
  [procs |-> {p1, p2},
   trees |-> {Base @@ (target :> Dir(Host)) @@ (Lockfile :> File(1, Host))},
   requests |-> {target}, reuse |-> {FALSE}, keys |-> {"k", "m"},
   deeds |-> {"remove", "create", "link"}, places |-> {target, runs},
   targets |-> {sub}, moves |-> 2]

\* Other programs put links to outside where cargo-cage works.
Disturbed ==
  [procs |-> {p0},
   trees |-> {Base, Base @@ (target :> Dir(Host)) @@ (Lockfile :> File(1, Host)),
              Base @@ (<<"out", ".cargo-cage">> :> Dir(Host))
                   @@ (<<"out", ".cargo-cage", "runs">> :> Dir(Host))},
   requests |-> {target}, reuse |-> BOOLEAN, keys |-> {"k"},
   deeds |-> {"remove", "create", "link", "name"},
   places |-> {target, cage, Append(runs, "run-0"), Lockfile},
   targets |-> {out, sub}, moves |-> 4]

AllScenes == {Alone, Together, Isolated, Disturbed}
==============================================================================
