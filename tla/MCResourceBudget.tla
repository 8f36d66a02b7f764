--------------------------- MODULE MCResourceBudget ---------------------------
(* Instances of ResourceBudget: memory counts quarters of a GiB.            *)
EXTENDS ResourceBudgetInv, TLC

CONSTANTS s0, s1, s2
Symmetry == Permutations({s1, s2})

MCMinMemory == 4
MCWordMax == 127
MCUnlimited == 200
MCMaxProfile == [processes |-> 2, memory |-> 32, cores |-> 4, file |-> 4, open |-> 3]

Whole == MCMaxProfile
Modest == [MCMaxProfile EXCEPT !.memory = 6, !.file = 2]
TooMuch == [MCMaxProfile EXCEPT !.open = 4]
Tiny == [MCMaxProfile EXCEPT !.memory = 3]
ManyProfiles == {Whole, Modest, TooMuch, Tiny}

\* Levels of a cgroup tree.  Only the root has no memory.max, and a cgroup
\* with processes enables no controller for children.
All == Controllers
L(available, enabled, procs, memory) ==
  [available |-> available, enabled |-> enabled, procs |-> procs, memory |-> memory]
Root == L(All, All, "denied", Missing)
OwnRoot == L(All, All, "writable", Missing)
Leaf == L(All, {}, "writable", 8)
Trees ==
  {<<Root, L(All, All, p, m), L(All, e, q, 8), Leaf>> :
      p \in {"writable", "denied"}, m \in {2, 4, 16, MCUnlimited},
      e \in {{"cpu", "memory"}, All}, q \in {"writable", "error", "denied"}}
    \cup {<<OwnRoot>>, <<Root, [Leaf EXCEPT !.procs = "denied"]>>,
          <<L({"cpu"}, {"cpu"}, "writable", 8), L({}, {}, "writable", 8)>>}

Lim(soft, hard) == [soft |-> soft, hard |-> hard]
Desktop == [file |-> Lim(MCUnlimited, MCUnlimited), open |-> Lim(1, 9), core |-> Lim(0, MCUnlimited)]
Narrow == [file |-> Lim(3, 3), open |-> Lim(2, 2), core |-> Lim(0, 0)]
NoFiles == [file |-> Lim(0, 0), open |-> Lim(2, 2), core |-> Lim(0, 0)]

Host(tree, mem, r, priv) ==
  [levels |-> tree, memTotal |-> mem, rlimit |-> r, privileged |-> priv]
OneTree == <<Root, L(All, All, "writable", 16), Leaf>>
ManyHosts ==
  {Host(t, 24, Desktop, FALSE) : t \in Trees}
    \cup {Host(OneTree, m, r, p) : m \in {5, 6, 24, 42, 43, 60},
                                   r \in {Desktop, Narrow, NoFiles}, p \in BOOLEAN}
OneHost == {Host(OneTree, 24, Narrow, FALSE)}

\* One supervisor makes two calls, on any host, and anything may fail.
OnAnyHost ==
  [supervisors |-> {s0}, pids |-> {7}, hosts |-> ManyHosts, profiles |-> ManyProfiles,
   stale |-> {{}}, crashes |-> 0,
   faults |-> {"find", "create", "check", "control", "events", "mounts", "rlimit"}]
\* Two supervisors whose process ids may be equal, among the groups of others.
AmongOthers ==
  [supervisors |-> {s1, s2}, pids |-> {7, 8}, hosts |-> OneHost, profiles |-> {Whole},
   stale |-> {{1}, 0..2}, crashes |-> 1, faults |-> {"mounts", "remove"}]
MCScenes == {OnAnyHost, AmongOthers}
=============================================================================
