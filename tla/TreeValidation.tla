---------------------------- MODULE TreeValidation ----------------------------
(***************************************************************************)
(* validate_tree and its callers: before a path is mounted the whole tree  *)
(* below it is walked.  Writable trees and caches may hold directories and *)
(* regular files only, read-only trees also symbolic links that stay in    *)
(* the tree, and every name of a file has to be found inside the walk, for *)
(* a hard link elsewhere would be readable, or writable, through the mount.*)
(*                                                                         *)
(* read_dir returns entries in any order.  The host keeps still: a tree    *)
(* that changes during the walk is out of the code's own contract.         *)
(***************************************************************************)
EXTENDS Integers, Sequences, FiniteSets

CONSTANTS
  Paths,     (* the names of the host, as sequences of components           *)
  Hosts,     (* hosts: what each name stands for                            *)
  Requests   (* the trees to be mounted, and the host's mount points        *)

StartsWith(p, q) == Len(q) <= Len(p) /\ SubSeq(p, 1, Len(q)) = q
Parent(p) == SubSeq(p, 1, Len(p) - 1)

\* A file is known by its inode, a symbolic link by the name it leads to.
Absent  == [kind |-> "absent", ino |-> 0, to |-> << >>]
Dir     == [kind |-> "dir", ino |-> 0, to |-> << >>]
Special == [kind |-> "special", ino |-> 0, to |-> << >>]
File(i) == [kind |-> "file", ino |-> i, to |-> << >>]
Link(t) == [kind |-> "link", ino |-> 0, to |-> t]

\* A host is a file system: whatever exists lies in directories.
ASSUME HostAssumption ==
  /\ IsFiniteSet(Paths) /\ Paths \subseteq Seq(STRING)
  /\ \A h \in Hosts :
       /\ DOMAIN h = Paths
       /\ \A p \in Paths :
            \/ h[p] \in {Absent, Dir, Special}
            \/ h[p] = File(h[p].ino) \/ h[p] = Link(h[p].to)
       /\ \A p \in Paths : h[p] # Absent =>
            \A n \in 0..(Len(p) - 1) :
              SubSeq(p, 1, n) \in Paths /\ h[SubSeq(p, 1, n)] = Dir
  /\ \A r \in Requests :
       /\ r.writable \subseteq Paths /\ r.readOnly \subseteq Paths
       /\ r.caches \subseteq Paths /\ r.mounts \subseteq Paths

VARIABLES
  host,      \* the host's names
  request,   \* what is to be mounted
  todo,      \* the trees that still have to be validated
  tree,      \* the tree being walked: its root and kind
  dirs,      \* directories found and not yet read
  entries,   \* entries of the directory being read and not yet looked at
  files,     \* the regular files found
  phase      \* "next", "root", "walk", "accepted" or "refused"
vars == <<host, request, todo, tree, dirs, entries, files, phase>>

-----------------------------------------------------------------------------
(* The callers: SandboxPlan::from_request *)

unique_mount_roots(R) == {r \in R : \A q \in R \ {r} : ~StartsWith(r, q)}

Tree(root, kind) == [root |-> root, kind |-> kind]
NoTree == Tree(<< >>, "none")
Rank == [writable |-> 1, readOnly |-> 2, cache |-> 3]
Trees(r) ==
  {Tree(p, "writable") : p \in r.writable}
    \cup {Tree(p, "readOnly") : p \in unique_mount_roots(r.readOnly)}
    \cup {Tree(p, "cache") : p \in r.caches}

\* What a read-only walk leaves to the walks of the writable trees.
Excluded(t) == IF t.kind = "readOnly" THEN request.writable ELSE {}
IsExcluded(p, t) == \E w \in Excluded(t) : StartsWith(p, w)

-----------------------------------------------------------------------------
(* File metadata *)

Nlink(i) == Cardinality({p \in Paths : host[p].kind = "file" /\ host[p].ino = i})
Children(d) == {p \in Paths : p # << >> /\ Parent(p) = d /\ host[p] # Absent}

\* fs::canonicalize of a symbolic link, through links that lead to links.
Final(p) ==
  LET chase[n \in 0..Cardinality(Paths)] ==
        IF n = 0 THEN p
        ELSE IF host[chase[n - 1]].kind = "link" THEN host[chase[n - 1]].to
             ELSE chase[n - 1]
  IN  chase[Cardinality(Paths)]
Resolves(p) == host[Final(p)].kind \notin {"absent", "link"}

-----------------------------------------------------------------------------
(* validate_tree *)

Init ==
  /\ host \in Hosts /\ request \in Requests
  /\ todo = Trees(request) /\ tree = NoTree
  /\ dirs = {} /\ entries = {} /\ files = {}
  /\ phase = "next"

Refuse == phase' = "refused" /\ UNCHANGED <<todo, tree, dirs, entries, files>>

NextTree ==
  /\ phase = "next"
  /\ \/ todo = {} /\ phase' = "accepted" /\ UNCHANGED <<todo, tree>>
     \/ \E t \in todo :
          /\ \A u \in todo : Rank[t.kind] <= Rank[u.kind]
          /\ tree' = t /\ todo' = todo \ {t} /\ phase' = "root"
  /\ UNCHANGED <<host, request, dirs, entries, files>>

NestedMount == \E m \in request.mounts : m # tree.root /\ StartsWith(m, tree.root)

OpenRoot ==
  /\ phase = "root"
  /\ LET root == host[tree.root] IN
     \/ /\ root.kind = "file" /\ tree.kind = "writable"
        /\ files' = {tree.root} /\ dirs' = {} /\ phase' = "walk"
        /\ UNCHANGED <<todo, tree, entries>>
     \/ /\ root = Dir /\ ~NestedMount
        /\ dirs' = {tree.root} /\ files' = {} /\ phase' = "walk"
        /\ UNCHANGED <<todo, tree, entries>>
     \/ /\ ~(root.kind = "file" /\ tree.kind = "writable")
        /\ ~(root = Dir /\ ~NestedMount)
        /\ Refuse
  /\ UNCHANGED <<host, request>>

ReadDirectory ==
  /\ phase = "walk" /\ entries = {}
  /\ \E d \in dirs : dirs' = dirs \ {d} /\ entries' = Children(d)
  /\ UNCHANGED <<host, request, todo, tree, files, phase>>

LinkAllowed(p) ==
  tree.kind = "readOnly" /\ Resolves(p) /\ StartsWith(Final(p), tree.root)

VisitEntry ==
  /\ phase = "walk"
  /\ \E p \in entries :
       LET node == host[p]
           skip == IsExcluded(p, tree) \/ (node.kind = "link" /\ LinkAllowed(p))
       IN
       \/ /\ skip \/ node.kind \in {"dir", "file"}
          /\ entries' = entries \ {p}
          /\ dirs'  = IF ~skip /\ node.kind = "dir" THEN dirs \cup {p} ELSE dirs
          /\ files' = IF ~skip /\ node.kind = "file" THEN files \cup {p} ELSE files
          /\ UNCHANGED <<todo, tree, phase>>
       \/ ~skip /\ node.kind \notin {"dir", "file"} /\ Refuse
  /\ UNCHANGED <<host, request>>

\* validate_hardlink_aliases
Count(i) == Cardinality({p \in files : host[p].ino = i})
AliasesOfRepeated ==
  \A p \in files : Count(host[p].ino) = 1 \/ Count(host[p].ino) = Nlink(host[p].ino)
SingleNames == \A p \in files : Nlink(host[p].ino) = 1
NoAliasOutside == \A p \in files : Nlink(host[p].ino) = Count(host[p].ino)

EndWalk ==
  /\ phase = "walk" /\ dirs = {} /\ entries = {}
  /\ \/ NoAliasOutside /\ phase' = "next" /\ files' = {}
          /\ UNCHANGED <<todo, tree, dirs, entries>>
     \/ ~NoAliasOutside /\ Refuse
  /\ UNCHANGED <<host, request>>

Next == NextTree \/ OpenRoot \/ ReadDirectory \/ VisitEntry \/ EndWalk

Spec == Init /\ [][Next]_vars

-----------------------------------------------------------------------------
(* Properties *)

Below(p, S) == \E q \in S : StartsWith(p, q)
SameFile(p, q) == host[p].kind = "file" /\ host[q] = host[p]

\* What a program changes through a writable mount has no name outside that
\* mount: not elsewhere on the host, not in the read-only workspace, not in
\* another writable path (validate_writable_tree for each of them).  What it can
\* read below a read-only mount or a cache belongs there: a file has no name
\* outside, and a symbolic link leads to something mounted with it.  Also with
\* roots that nest and with writable paths inside them.
WritesStayInside ==
  \A w \in request.writable, p, q \in Paths :
    StartsWith(p, w) /\ SameFile(p, q) => StartsWith(q, w)
ReadsStayInside ==
  /\ \A p, q \in Paths :
       /\ Below(p, request.readOnly) /\ ~Below(p, request.writable)
       /\ SameFile(p, q)
       => Below(q, request.readOnly) /\ ~Below(q, request.writable)
  /\ \A p \in Paths :
       Below(p, request.readOnly) /\ host[p].kind = "link" =>
         Resolves(p) /\ Below(Final(p), request.readOnly)
  /\ \A c \in request.caches, p, q \in Paths :
       StartsWith(p, c) =>
         /\ host[p].kind \in {"absent", "dir", "file"}
         /\ SameFile(p, q) => StartsWith(q, c)
AccessStaysInside == phase = "accepted" => WritesStayInside /\ ReadsStayInside

\* Nothing else is refused: hard links that Cargo makes inside target, links
\* that stay inside the workspace, a lockfile of its own and writable paths
\* inside read-only ones are all accepted.
Harmless(t, p) ==
  CASE host[p].kind = "file" ->
         \A q \in Paths : SameFile(p, q) =>
           StartsWith(q, t.root) /\ ~IsExcluded(q, t)
    [] host[p].kind = "link" ->
         t.kind = "readOnly" /\ Resolves(p) /\ StartsWith(Final(p), t.root)
    [] OTHER -> host[p].kind # "special"
Mountable(t) ==
  /\ host[t.root] = Dir \/ (host[t.root].kind = "file" /\ t.kind = "writable")
  /\ \A m \in request.mounts : StartsWith(m, t.root) => m = t.root
  /\ \A p \in Paths : StartsWith(p, t.root) /\ ~IsExcluded(p, t) => Harmless(t, p)
RefusedForCause == phase = "refused" => \E t \in Trees(request) : ~Mountable(t)
=============================================================================
