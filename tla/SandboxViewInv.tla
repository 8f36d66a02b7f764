--------------------------- MODULE SandboxViewInv ---------------------------
(***************************************************************************)
(* The inductive invariant of SandboxView: what each mount, once made,     *)
(* guarantees of the view, whatever is mounted after it.                   *)
(***************************************************************************)
EXTENDS SandboxView

Active == phase \in {"mounting", "running", "failed"}

\* A stage is begun only when the earlier ones are finished, and all of them
\* are finished when the launcher starts.
OrderInv ==
  /\ phase = "planned" \/ Active => Valid(request)
  /\ Active =>
       \A s, t \in Stages :
         Rank[s] < Rank[t] /\ todo[t] # Plan(request)[t] => todo[s] = {}
  /\ phase \in {"running", "failed"} => \A s \in Stages : todo[s] = {}

IsHost(p) == view[p].kind = "host"

\* Where a host path can appear: under its own name, in a cache, or under the
\* second name a runtime mount gives it.
NameInv ==
  \A p \in Paths : IsHost(p) =>
    \/ view[p].of = p
    \/ /\ view[p].mode = "ro"
       /\ \E c \in CachesOf(request) :
            /\ StartsWith(view[p].of, c)
            /\ StartsWith(p, CacheDestination(c))
    \/ /\ view[p].mode = "ro"
       /\ \E m \in Runtime :
            m.source # m.dest /\ StartsWith(view[p].of, m.source)

\* A masked path shows nothing of the host again.
MaskInv ==
  Active =>
    \A h \in HiddenOf(request) \ (todo.maskDirs \cup todo.maskFiles), p \in Paths :
      StartsWith(p, h) => ~IsHost(p)

\* A private path shows what is read-only in it, or the caches.
PrivateInv ==
  Active =>
    \A v \in PrivateOf(request) \ todo.private, p \in Paths :
      StartsWith(p, v) /\ IsHost(p) =>
        \/ \E e \in request.readOnly : StartsWith(p, e) /\ StartsWith(e, v)
        \/ \E c \in CachesOf(request) : StartsWith(p, CacheDestination(c))

\* What is mounted read-only stays, and what is mounted writable stays so.
ReadOnlyInv ==
  Active =>
    \A v \in request.readOnly \ todo.readOnly, q \in Host :
      StartsWith(q, v) => Shows(q, q)

WritableInv ==
  Active =>
    \A w \in request.writable \ todo.writable, q \in Host :
      StartsWith(q, w) => view[q] = HostAt(q, "rw")

\* Only a writable path is mounted read-write, and under its own name.
ReadWriteInv ==
  \A p \in Paths : IsHost(p) /\ view[p].mode = "rw" =>
    view[p].of = p /\ \E w \in request.writable : StartsWith(p, w)

-----------------------------------------------------------------------------
(* That what is accepted can be started *)

\* No private path is mounted before one it lies in.
PrivateOrderInv ==
  Active =>
    \A v \in PrivateOf(request) \ todo.private, e \in todo.private :
      ~StartsWith(v, e)

\* The policy takes none of its own private paths away again.
PrivatePathsStay ==
  /\ Root \notin request.private
  /\ \A h \in HiddenOf(request), v \in PrivateOf(request) \cup {CargoHomeInSandbox} :
       StartsWith(v, h) => v = h

\* What a finished mount put a rule's path at is still there.
PlaceInv ==
  Active /\ PrivatePathsStay =>
    \A s \in {"runtime", "kernel", "private", "cargoHome", "caches"} :
      \A d \in Plan(request)[s] \ todo[s] : Exists(d)

\* What a runtime mount shows stays visible where no path of the policy is at
\* or above it.
RuntimeInv ==
  Active =>
    \A m \in Runtime, p \in Paths :
      /\ m.dest \notin todo.runtime
      /\ StartsWith(p, m.dest) /\ Moved(p, m.dest, m.source) \in Host
      /\ \A v \in PrivateOf(request) \cup HiddenOf(request)
                   \cup request.readOnly \cup request.writable : ~StartsWith(p, v)
      => IsHost(p)

\* The launcher finds its context.
ContextInv ==
  Active /\ LauncherContext \notin todo.context =>
    view[LauncherContext].kind = "context"

\* A run fails at its start only when something is missing.
FailedInv == phase = "failed" => ~CanLaunch

\* The invariant that carries AcceptedMeansStartable.
StartInv ==
  /\ PrivateOrderInv /\ PlaceInv /\ RuntimeInv /\ ContextInv /\ FailedInv

-----------------------------------------------------------------------------
\* The invariant that carries the safety properties: order, names and what
\* each finished mount keeps.
ViewInv ==
  /\ OrderInv /\ NameInv /\ MaskInv /\ PrivateInv
  /\ ReadOnlyInv /\ WritableInv /\ ReadWriteInv
=============================================================================
