------------------------------ MODULE MCCargoFlow -----------------------------
(* Instances of CargoFlow: a project w with a member m, its parent directory *)
(* h, and another project v beside it.                                       *)
EXTENDS CargoFlowInv, TLC

MCNames ==
  {"h", "w", "m", "v", "t", "x", "target", "build", ".cargo-cage", "runs", "run",
   "Cargo.toml", "Cargo.lock", "..", "no such path", "--target-dir", "--manifest-path",
   "--", "--release", "--reuse-target", "--help", "-v", "cage", "doctor", "test", "doc"}

H == <<"h">>
W == <<"h", "w">>
M == <<"h", "w", "m">>
V == <<"h", "v">>
T == <<"h", "w", "target">>
Packages == {W, M, V}
Bare == [p \in {H} \cup Packages \cup {Child(d, "Cargo.toml") : d \in Packages} |->
           IF p[Len(p)] = "Cargo.toml" THEN File ELSE Dir]
\* Each tree is the bare one with some more in it.
With(more) == [p \in DOMAIN Bare \cup DOMAIN more |->
                 IF p \in DOMAIN more THEN more[p] ELSE Bare[p]]
Used == With([p \in {T, Child(T, "build"), Child(T, ".cargo-cage"), Runs(T),
                      Child(W, "Cargo.lock")} |->
                IF p[Len(p)] = "Cargo.lock" THEN File ELSE Dir])
OneRoot == (W :> W) @@ (M :> W) @@ (V :> V)

\* A host where nothing else happens, and one where much does.
Host(cwd, tree, fromEnv, tools, writable) ==
  [cwd |-> cwd, fs |-> tree, fromEnv |-> fromEnv, tools |-> tools,
   writable |-> writable, rootOf |-> OneRoot,
   wrong |-> {}, statuses |-> {0}, moves |-> 0]
Restless(h) == [h EXCEPT !.wrong = {V, H}, !.statuses = {0, 101, NoCode}, !.moves = 1]
Case(h, lines) == [host |-> h, lines |-> lines]

\* Runs about the tree: few command lines, many trees.
Lines(cwd) ==
  LET way == IF cwd = H THEN <<ManifestPath, Value(Rel(<<"w", "Cargo.toml">>))>> ELSE << >>
  IN  {<<Word("build")>> \o way, <<Option("--reuse-target"), Word("test")>> \o way,
       <<Word("doctor")>>}
Trees ==
  {Bare, Used, With(T :> File), With(T :> Link(V)), With(T :> Link(Child(W, "t"))),
   With(Child(W, "Cargo.lock") :> Dir), With(Child(V, "target") :> Dir),
   With((T :> Dir) @@ (Child(T, ".cargo-cage") :> File)),
   With((T :> Dir) @@ (Child(T, "build") :> File))}
TreeCases ==
  {Case(Host(c, t, NoPath, "all", TRUE), Lines(c)) : c \in {H, W, M}, t \in Trees}
    \cup {Case(Host(W, t, e, k, b), Lines(W)) :
                  t \in {Bare, Used},
                  e \in {NoPath, Empty, Rel(<<"x">>), Abs(<<"h", "v", "x">>)},
                  k \in {"all", "no rustdoc", "none"}, b \in BOOLEAN}
OneCase == {Case(Host(W, With((T :> Dir) @@ (Child(T, ".cargo-cage") :> File)),
                      NoPath, "all", TRUE), Lines(W))}
\* Runs about the command line: every vector of up to three arguments, and those
\* of five that begin with a manifest.
Strings(S, n) == UNION {[1..k -> S] : k \in 0..n}
Vectors(cwd, absolute) ==
  LET Way(p) == IF absolute THEN Abs(W \o p)
                ELSE IF cwd = H THEN Rel(<<"w">> \o p) ELSE Rel(p)
      toml == IF cwd = M THEN Abs(Child(M, "Cargo.toml")) ELSE Way(<<"Cargo.toml">>)
      Tokens == {TargetDir, ManifestPath, EndOfOptions, Option("--release"),
                 Value(Way(<<"t">>)), Value(toml), TargetIs(Way(<<"t">>)),
                 TargetIs(Empty), ManifestIs(toml)}
      tails == Strings(Tokens, 3)
               \cup {<<ManifestPath, Value(toml)>> \o t : t \in Strings(Tokens, 2)}
  IN  {<<Word("test")>> \o t : t \in tails}
        \cup {<<Option("--reuse-target"), Word("build")>> \o t : t \in tails}
Mistaken ==
  {<< >>, <<Word("cage"), Word("build")>>, <<Option("--reuse-target")>>,
   <<Option("--help")>>, <<Option("--reuse-target"), Word("doctor")>>,
   <<Word("doctor"), Option("-v")>>, <<Word("doctor"), Option("--help")>>,
   <<Word("doctor"), Option("-v"), Option("-v")>>, <<Word("run")>>, <<Word("doc")>>}
LineCases ==
  {Case(Host(c, Bare, NoPath, "all", TRUE), Mistaken \cup Vectors(c, a)) :
     c \in {H, W, M}, a \in BOOLEAN}

\* Runs about links on the way to the target: a link above everything, or one
\* beside the workspace, that leads to its parent, into it, or nowhere.
X == <<"x">>
HX == <<"h", "x">>
AliasCases ==
  LET ways == {Abs(X \o <<"w", "t">>), Abs(X \o <<"t">>), Abs(HX \o <<"w", "t">>),
               Rel(<<"x", "w", "t">>), Rel(<<"x", "t">>), Abs(X)}
      given == UNION {{<<TargetDir, Value(v)>>, <<TargetIs(v)>>} : v \in ways}
      links == {q :> Link(to) : q \in {X, HX}, to \in {H, W, Child(W, "t"), Child(H, "t")}}
      lines == {<<Option("--reuse-target"), Word("build")>> \o g : g \in given}
                 \cup {<<Word("build")>> \o g : g \in given}
      way == <<ManifestPath, Value(Rel(<<"w", "Cargo.toml">>))>>
  IN  {Case(Host(W, With(t), NoPath, "all", TRUE), lines) : t \in links}
        \cup {Case(Host(H, With(t), NoPath, "all", TRUE), {l \o way : l \in lines}) :
                 t \in links}
        \cup {Case(Host(W, With(t), e, "all", TRUE), Lines(W)) : t \in links, e \in ways}

AllCases ==
  {[c EXCEPT !.host = Restless(@)] : c \in TreeCases \cup AliasCases} \cup LineCases
OthersPut == {File, Link(V), Link(H)}
=============================================================================
