-------------------------- MODULE TreeValidationInv --------------------------
(***************************************************************************)
(* What is true between any two steps of a validation: how far a walk has  *)
(* come, and what the walks that are over have established.                *)
(***************************************************************************)
EXTENDS TreeValidation

\* What a walk of t has to look at.
Subjects(t) ==
  {p \in Paths : host[p] # Absent /\ StartsWith(p, t.root) /\ ~IsExcluded(p, t)}

\* A subject has been looked at and was in order, or it lies below something
\* the walk still has to look at.
Passed(p) ==
  CASE host[p].kind = "file" -> p \in files
    [] host[p].kind = "link" -> LinkAllowed(p)
    [] OTHER -> host[p].kind # "special"
Ahead(p) ==
  \/ \E d \in dirs : StartsWith(p, d) /\ p # d
  \/ \E e \in entries : StartsWith(p, e)

WalkInv ==
  /\ dirs \subseteq {p \in Paths : StartsWith(p, tree.root)}
  /\ entries \subseteq {p \in Paths : host[p] # Absent /\ StartsWith(p, tree.root)}
  /\ files \subseteq {p \in Subjects(tree) : host[p].kind = "file"}
  /\ \A p \in Subjects(tree) : Passed(p) \/ Ahead(p)

RootFits(t) == host[t.root] = Dir \/ (host[t.root].kind = "file" /\ t.kind = "writable")
Clean(t) == RootFits(t) /\ \A p \in Subjects(t) : Harmless(t, p)

\* The trees that have been walked.
Behind ==
  Trees(request) \ (todo \cup IF phase \in {"root", "walk"} THEN {tree} ELSE {})

ValidationInv ==
  /\ host \in Hosts /\ request \in Requests
  /\ phase \in {"next", "root", "walk", "accepted", "refused"}
  /\ todo \subseteq Trees(request)
  /\ phase \in {"next", "root"} => entries = {}
  /\ phase \in {"root", "walk"} => tree \in Trees(request)
  /\ phase = "walk" => RootFits(tree) /\ WalkInv
  /\ phase # "refused" => \A t \in Behind : Clean(t)
  /\ phase = "accepted" => todo = {}
  /\ RefusedForCause
=============================================================================
