------------------------------ MODULE Toolchain ------------------------------
(***************************************************************************)
(* Which cargo, rustc and rustdoc run in the sandbox, and what is mounted  *)
(* for them: resolve_cargo and resolve_toolchain on hosts with system      *)
(* programs, Rustup's proxies and toolchains, and programs named by        *)
(* variables.  Nothing changes while they look.                            *)
(***************************************************************************)
EXTENDS CargoArgs, SequencesExt

CONSTANT Hosts

Root == << >>
None == <<"no such path">>
Programmed == {"cargo", "rustc", "rustdoc"}

StartsWith(p, q) == Len(q) <= Len(p) /\ SubSeq(p, 1, Len(q)) = q
Parent(p) == SubSeq(p, 1, Len(p) - 1)
Child(p, name) == Append(p, name)

\* std::fs::canonicalize, for links that lead to where there are no more links
\* than one.
Followed(links, p) ==
  LET through == {n \in 1..Len(p) : SubSeq(p, 1, n) \in DOMAIN links}
      n == CHOOSE m \in through : \A k \in through : m <= k
  IN  IF through = {} THEN p
      ELSE links[SubSeq(p, 1, n)] \o SubSeq(p, n + 1, Len(p))
CanonicalIn(links, p) == Followed(links, Followed(links, p))

RuntimeDirectories ==
  {<<"usr", "bin">>, <<"usr", "local", "bin">>, <<"usr", "sbin">>,
   <<"usr", "local", "sbin">>, <<"bin">>, <<"sbin">>}

\* A host has regular files, of which some are Rustup's program; links from
\* path to path; PATH as a sequence of directories; and answers: the compiler
\* that "rustup which rustc" names, and the sysroot each compiler names.
\* Files go by their canonical names and lie in directories, Rustup's program
\* is called rustup, a sysroot holds no proxies, and no link on the way to a
\* directory of PATH is left unfollowed.
ASSUME ToolchainAssumption ==
  \A h \in Hosts :
    /\ h.rustup \subseteq h.files /\ h.files \subseteq Seq(STRING)
    /\ \A l \in DOMAIN h.links : h.links[l] \in Seq(STRING)
    /\ \A f \in h.files :
         Len(f) > 1 /\ \A n \in 1..Len(f) : SubSeq(f, 1, n) \notin DOMAIN h.links
    /\ \A f \in h.rustup : Last(f) = "rustup"
    /\ \A c \in DOMAIN h.sysrootOf :
         /\ h.sysrootOf[c] \in Seq(STRING)
         /\ \A name \in Programmed :
              Last(CanonicalIn(h.links, h.sysrootOf[c] \o <<"bin", name>>)) # "rustup"
    /\ \A d \in RuntimeDirectories : CanonicalIn(h.links, d) # Root
    /\ \A d \in RuntimeDirectories \cup {Join(h.cwd, h.path[i]) : i \in DOMAIN h.path} :
         LET real == CanonicalIn(h.links, d)
         IN  real \in Seq(STRING) /\ CanonicalIn(h.links, real) = real
    /\ {"CARGO", "RUSTC", "RUSTDOC"} \subseteq DOMAIN h.vars

VARIABLES
  host, doc,               \* the host, and whether rustdoc is required
  pc,
  cargo, compiler, rustc, rustdoc,   \* programs found so far
  sysroot,
  ran,                     \* compilers that were run to ask for their sysroot
  path, mounts             \* the result: the directories of PATH, whose order
                           \* is left out, and the read-only mounts
vars == <<host, doc, pc, cargo, compiler, rustc, rustdoc, sysroot, ran, path, mounts>>

Init ==
  /\ host \in Hosts /\ doc \in BOOLEAN /\ pc = "cargo"
  /\ cargo = None /\ compiler = None /\ rustc = None /\ rustdoc = None
  /\ sysroot = None /\ ran = {} /\ path = {} /\ mounts = {}

-----------------------------------------------------------------------------
(* Paths *)

Canonical(p) == CanonicalIn(host.links, p)
IsFile(p) == Canonical(p) \in host.files
IsDir(p) == \E f \in host.files : StartsWith(f, Canonical(p)) /\ f # Canonical(p)
\* canonical_existing_path_without_symlinks
Real(p) == (p \in host.files \/ IsDir(p)) /\ Canonical(p) = p

is_standard_runtime_path(p) == \E d \in RuntimeDirectories : StartsWith(p, d)
PrivatePaths == {host.home, <<"tmp">>, <<"var", "tmp">>, <<"run">>}
is_private_host_path(p) == \E d \in PrivatePaths : StartsWith(p, d)

is_rustup_proxy(p) == IsFile(p) /\ Last(Canonical(p)) = "rustup"

-----------------------------------------------------------------------------
(* resolve_program *)

\* Canonical, but for a proxy, which goes by its name.
validate_executable_path(p) ==
  IF ~IsFile(p) THEN None
  ELSE IF is_rustup_proxy(p) THEN p ELSE Canonical(p)

\* A program by itself is looked up in PATH, anything else is a path.
resolve_program(name, variable) ==
  LET requested == IF host.vars[variable] = NoPath THEN Rel(<<name>>) ELSE host.vars[variable]
      at(i) == Join(host.cwd, host.path[i]) \o requested.names
      hits == {i \in DOMAIN host.path : IsFile(at(i))}
  IN  IF requested.root \/ Len(requested.names) > 1
        THEN validate_executable_path(Join(host.cwd, requested))
      ELSE IF hits = {} THEN None
      ELSE validate_executable_path(at(CHOOSE i \in hits : \A j \in hits : i <= j))

Then(next, ok) == pc' = IF ok THEN next ELSE "failed"

ResolveCargo ==
  /\ pc = "cargo" /\ cargo' = resolve_program("cargo", "CARGO")
  /\ Then("home", cargo' # None)
  /\ UNCHANGED <<host, doc, compiler, rustc, rustdoc, sysroot, ran, path, mounts>>
canonical_home ==
  /\ pc = "home" /\ Then("rustc", host.home # Root /\ IsDir(host.home) /\ Real(host.home))
  /\ UNCHANGED <<host, doc, cargo, compiler, rustc, rustdoc, sysroot, ran, path, mounts>>
ResolveRustc ==
  /\ pc = "rustc" /\ rustc' = resolve_program("rustc", "RUSTC")
  /\ Then("rustup", rustc' # None)
  /\ UNCHANGED <<host, doc, cargo, compiler, rustdoc, sysroot, ran, path, mounts>>

\* resolve_rustup_rustc
trusted_by_name(p) == TRUE
is_trusted_rustup_compiler(p) ==
  is_standard_runtime_path(p) \/ StartsWith(p, Child(host.rustupHome, "toolchains"))
Selectable(p) ==
  /\ host.rustupHome # Root /\ Real(host.rustupHome) /\ IsDir(host.rustupHome)
  /\ Real(p) /\ p \in host.files /\ is_trusted_rustup_compiler(p)
AskRustup ==
  /\ pc = "rustup"
  /\ IF is_rustup_proxy(rustc)
       THEN /\ compiler' = host.selected /\ Then("sysroot", Selectable(host.selected))
       ELSE compiler' = rustc /\ Then("sysroot", TRUE)
  /\ UNCHANGED <<host, doc, cargo, rustc, rustdoc, sysroot, ran, path, mounts>>
query_sysroot ==
  /\ pc = "sysroot" /\ ran' = ran \cup {compiler}
  /\ sysroot' = IF compiler \in DOMAIN host.sysrootOf THEN host.sysrootOf[compiler] ELSE None
  /\ Then("select", sysroot' # None /\ Real(sysroot') /\ IsDir(sysroot'))
  /\ UNCHANGED <<host, doc, cargo, compiler, rustc, rustdoc, path, mounts>>

-----------------------------------------------------------------------------
(* The programs of the sandbox *)

select_toolchain_program(name, fallback) ==
  LET candidate == sysroot \o <<"bin", name>> IN
  IF IsFile(candidate) THEN validate_executable_path(candidate)
  ELSE IF is_rustup_proxy(fallback) THEN None
  ELSE validate_executable_path(fallback)

SelectRustc ==
  /\ pc = "select" /\ rustc' = select_toolchain_program("rustc", compiler)
  /\ Then("rustdoc", rustc' # None)
  /\ UNCHANGED <<host, doc, cargo, compiler, rustdoc, sysroot, ran, path, mounts>>
SelectRustdoc ==
  /\ pc = "rustdoc"
  /\ LET own == sysroot \o <<"bin", "rustdoc">> IN
     \/ /\ IsFile(own) /\ rustdoc' = select_toolchain_program("rustdoc", own)
        /\ Then("proxied cargo", rustdoc' # None)
     \/ /\ ~IsFile(own) /\ doc
        /\ LET found == resolve_program("rustdoc", "RUSTDOC") IN
           rustdoc' = IF found = None THEN None ELSE select_toolchain_program("rustdoc", found)
        /\ Then("proxied cargo", rustdoc' # None)
     \/ ~IsFile(own) /\ ~doc /\ rustdoc' = None /\ Then("proxied cargo", TRUE)
  /\ UNCHANGED <<host, doc, cargo, compiler, rustc, sysroot, ran, path, mounts>>
keep_cargo ==
  /\ pc = "proxied cargo" /\ Then("path", TRUE)
  /\ UNCHANGED <<host, doc, cargo, compiler, rustc, rustdoc, sysroot, ran, path, mounts>>
SelectCargo ==
  /\ pc = "proxied cargo"
  /\ cargo' = IF is_rustup_proxy(cargo) THEN select_toolchain_program("cargo", cargo) ELSE cargo
  /\ Then("path", cargo' # None)
  /\ UNCHANGED <<host, doc, compiler, rustc, rustdoc, sysroot, ran, path, mounts>>

Programs == {cargo, rustc} \cup IF rustdoc = None THEN {} ELSE {rustdoc}
Required == {Canonical(Parent(p)) : p \in Programs}

existing(d) == IsDir(d)
FromCaller(d) ==
  /\ IsDir(d)
  /\ is_private_host_path(d) => d \in Required
  /\ is_standard_runtime_path(d) \/ d \in Required
sandbox_path ==
  LET runtime == {Canonical(d) : d \in RuntimeDirectories}
      callers == {Canonical(Join(host.cwd, host.path[i])) : i \in DOMAIN host.path}
  IN  /\ pc = "path"
      /\ path' = Required \cup {d \in runtime : IsDir(d)} \cup {d \in callers : FromCaller(d)}
      /\ Then("mounts", path' # {})
      /\ UNCHANGED <<host, doc, cargo, compiler, rustc, rustdoc, sysroot, ran, mounts>>

Unmounted(dirs) == {d \in dirs : d # Root /\ ~is_standard_runtime_path(d)}
sysroot_only ==
  /\ pc = "mounts" /\ pc' = "done" /\ mounts' = {sysroot}
  /\ UNCHANGED <<host, doc, cargo, compiler, rustc, rustdoc, sysroot, ran, path>>
toolchain_mount_paths ==
  /\ pc = "mounts" /\ pc' = "done"
  /\ mounts' = ({sysroot} \ {Root}) \cup Unmounted(Required) \cup Unmounted(path)
  /\ UNCHANGED <<host, doc, cargo, compiler, rustc, rustdoc, sysroot, ran, path>>

Next ==
  \/ ResolveCargo \/ canonical_home \/ ResolveRustc \/ AskRustup \/ query_sysroot
  \/ SelectRustc \/ SelectRustdoc \/ SelectCargo \/ sandbox_path \/ toolchain_mount_paths
Spec == Init /\ [][Next]_vars

-----------------------------------------------------------------------------
(* Properties *)

Done == pc = "done"
System == {<<"usr">>, <<"bin">>, <<"sbin">>}

\* SECURITY.md: "Project path overrides outside trusted Rustup toolchains or the
\* system runtime are rejected": a compiler runs outside the sandbox only if it
\* is the system's, one of Rustup's toolchains, or the one the caller has chosen
\* by RUSTC or PATH, which is not a proxy for another.
Trusted(c) ==
  \/ \E d \in System \cup {Child(host.rustupHome, "toolchains")} : StartsWith(c, d)
  \/ c = resolve_program("rustc", "RUSTC") /\ ~is_rustup_proxy(c)
RunsOnlyTrusted == \A c \in ran : Trusted(c)

\* "The selected sysroot executable is resolved before the sandbox is started":
\* no program of the sandbox is Rustup's, which would find neither its home nor
\* its toolchains there.
ProxiesAreResolved ==
  Done => \A p \in Programs : Canonical(p) \notin host.rustup

\* Every command has its cargo and rustc, doc its rustdoc, and each of them and
\* every directory of PATH can be seen in the sandbox: it is the system's or
\* below a mount.
ToolsAreMounted ==
  Done =>
    /\ None \notin {cargo, rustc} /\ (doc => rustdoc # None)
    /\ \A p \in Programs \cup path :
         \E m \in mounts \cup System : StartsWith(Canonical(p), m)

\* Of the caller's private directories, nothing is mounted or in PATH but the
\* sysroot, the directories of the programs themselves and what a directory of
\* the system leads to, whatever the caller has in PATH.
NothingPrivateBesides ==
  Done =>
    \A d \in mounts \cup path :
      is_private_host_path(d) =>
        \/ d = sysroot \/ \E p \in Programs : d = Parent(Canonical(p))
        \/ \E r \in RuntimeDirectories : d = Canonical(r)
=============================================================================
