---------------------------- MODULE MCToolchain -----------------------------
(* Hosts with the system's programs, Rustup, a project that brings its own   *)
(* compiler, and one more toolchain in /opt/x.                               *)
EXTENDS ToolchainInv, TLC

Home == <<"home", "u">>
CargoBin == Home \o <<".cargo", "bin">>
Rustups == Home \o <<".rustup">>
InHome == Rustups \o <<"toolchains", "t">>
Opt == <<"opt", "x">>
Project == <<"home", "u", "w">>
UsrBin == <<"usr", "bin">>
Tools == {"cargo", "rustc", "rustdoc"}
In(dir, names) == {Child(dir, n) : n \in names}
Bin(root, names) == In(Child(root, "bin"), names)

Proxies(linked) ==
  IF linked THEN [p \in In(CargoBin, Tools) |-> Child(CargoBin, "rustup")] ELSE << >>
Links(linked) ==
  Proxies(linked) @@ (<<"bin">> :> UsrBin) @@ (<<"tmp", "bin">> :> Opt \o <<"bin">>)
RustupFiles(linked) ==
  In(CargoBin, {"rustup"}) \cup IF linked THEN {} ELSE In(CargoBin, Tools)
Sysroots ==
  (Bin(InHome, {"rustc"}) \X {InHome}) \cup (In(UsrBin, {"rustc"}) \X {<<"usr">>})
    \cup (Bin(Opt, {"rustc"}) \X {Opt}) \cup (Bin(Project, {"rustc"}) \X {Project})
SysrootOf(linked) ==
  [c \in {s[1] : s \in Sysroots}
           \cup IF linked THEN {} ELSE In(CargoBin, {"rustc"}) |->
     IF c \in In(CargoBin, {"rustc"}) THEN InHome
     ELSE (CHOOSE s \in Sysroots : s[1] = c)[2]]

Host(linked, system, toolchain, variables, dirs, selected, home) ==
  [cwd |-> Project, home |-> home, rustupHome |-> Rustups,
   rustup |-> RustupFiles(linked), links |-> Links(linked),
   files |-> RustupFiles(linked) \cup In(UsrBin, system \cup {"sh"})
               \cup Bin(InHome, toolchain) \cup Bin(Opt, {"cargo", "rustc"})
               \cup Bin(Project, {"rustc"}),
   vars |-> variables, path |-> dirs, selected |-> selected, sysrootOf |-> SysrootOf(linked)]

Vars == [CARGO : {NoPath, Abs(<<"tmp", "bin", "cargo">>)},
         RUSTC : {NoPath, Rel(<<"rustc">>), Rel(<<"bin", "rustc">>), Abs(Opt \o <<"bin", "rustc">>)},
         RUSTDOC : {NoPath, Abs(Child(UsrBin, "rustdoc"))}]
Dirs == {Abs(CargoBin), Abs(<<"bin">>), Abs(<<"tmp", "bin">>), Rel(<<"bin">>), Abs(Home)}
Paths == {<<d>> : d \in Dirs} \cup (Dirs \X Dirs)
Selections == {Child(InHome \o <<"bin">>, "rustc"), Child(Project \o <<"bin">>, "rustc"),
               Child(UsrBin, "rustc"), << >>}
ManyHosts ==
  {Host(TRUE, s, t, v, p, c, Home) :
     s \in {Tools, {}}, t \in {Tools, {"cargo", "rustc"}, {"rustc"}}, v \in Vars,
     p \in Paths, c \in Selections}
  \cup {Host(TRUE, Tools, Tools, v, <<d>>, << >>, h) :
          v \in Vars, d \in Dirs, h \in {<< >>, <<"no", "home">>}}
  \cup {[Host(TRUE, Tools, Tools, v, <<d>>, c, Home) EXCEPT
            !.sysrootOf[Child(UsrBin, "rustc")] = Root] :
          v \in Vars, d \in Dirs, c \in Selections}
=============================================================================
