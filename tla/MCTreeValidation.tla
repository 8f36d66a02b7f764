--------------------------- MODULE MCTreeValidation ---------------------------
(***************************************************************************)
(* A workspace with a target directory, a subdirectory and a lockfile, a   *)
(* cache, and a directory outside; six names that can be absent, one of    *)
(* two files, a symbolic link or something special.                        *)
(***************************************************************************)
EXTENDS TreeValidationInv

ws     == <<"ws">>
target == <<"ws", "target">>
sub    == <<"ws", "sub">>
lock   == <<"ws", "lock">>
a      == <<"ws", "sub", "a">>
b      == <<"ws", "target", "b">>
c      == <<"ws", "target", "c">>
out    == <<"out">>
x      == <<"out", "x">>
cache  == <<"cache">>
d      == <<"cache", "d">>

MCDirs  == {<< >>, ws, target, sub, out, cache}
MCPaths == MCDirs \cup {lock, a, b, c, x, d}

Files == {File(1), File(2)}
MCHosts ==
  {[p \in MCPaths |-> CASE p \in MCDirs -> Dir [] p = lock -> hl [] p = a -> ha
                        [] p = b -> hb [] p = c -> hc [] p = x -> hx [] p = d -> hd] :
     hl \in {Absent, File(1)}, ha \in {File(2), Link(x), Link(b), Link(lock), Link(a)},
     hb \in {File(1), File(2), Special}, hc \in Files \cup {Link(b), Dir},
     hx \in {Absent, File(1)}, hd \in {Absent, File(2), Link(x)}}

Request(w, r, k, m) == [writable |-> w, readOnly |-> r, caches |-> k, mounts |-> m]
MCRequests ==
  {Request({target, lock}, {ws}, {cache}, {}),
   Request({target}, {ws, sub}, {}, {ws}),
   Request({target}, {sub}, {}, {out}),
   Request({}, {ws}, {cache}, {target}),
   Request({}, {sub, ws}, {}, {}),
   Request({target, b}, {}, {cache}, {})}
===============================================================================
