--------------------------- MODULE ToolchainProofs ---------------------------
(***************************************************************************)
(* Theorems about Toolchain, for every host the assumption describes:      *)
(* whatever programs, links, variables and answers of rustup and rustc     *)
(* there are on it.                                                        *)
(***************************************************************************)
EXTENDS ToolchainInv, WellFoundedInduction, SequenceTheorems, TLAPS

-----------------------------------------------------------------------------
(* Paths *)

LessThan == OpToRel(<, Nat)

\* A set of numbers has a least one.
LEMMA Least ==
  ASSUME NEW T, T \subseteq Nat, T # {}
  PROVE  \E m \in T : \A k \in T : m <= k
<1>1. \A x, y \in Nat : x < y => <<x, y>> \in LessThan
  BY DEF LessThan, OpToRel
<1>2. \E x \in T : \A y \in T : ~(<<y, x>> \in LessThan)
  <2>1. IsWellFoundedOn(LessThan, Nat)
    BY NatLessThanWellFounded DEF LessThan
  <2> QED BY <2>1, WFMin, Zenon
<1>3. PICK m \in T : \A y \in T : ~(<<y, m>> \in LessThan)
  BY <1>2
<1>4. ASSUME NEW k \in T PROVE m <= k
  <2>1. ~(k < m)
    BY <1>1, <1>3
  <2> QED BY <2>1
<1> QED BY <1>4

Path == Seq(STRING)
LinkFree(links, p) == \A n \in 1..Len(p) : SubSeq(p, 1, n) \notin DOMAIN links

LEMMA FollowedType ==
  ASSUME NEW links, \A l \in DOMAIN links : links[l] \in Path, NEW p \in Path
  PROVE  Followed(links, p) \in Path
<1> DEFINE through == {n \in 1..Len(p) : SubSeq(p, 1, n) \in DOMAIN links}
<1> DEFINE n == CHOOSE m \in through : \A k \in through : m <= k
<1>1. CASE through = {}
  BY <1>1 DEF Followed
<1>2. CASE through # {}
  <2>1. \E m \in through : \A k \in through : m <= k
    <3>1. through \subseteq Nat
      BY DEF Path
    <3> HIDE DEF through
    <3> QED BY <1>2, <3>1, Least
  <2>2. n \in through
    <3> HIDE DEF through
    <3> QED BY <2>1
  <2>3. n \in 1..Len(p) /\ links[SubSeq(p, 1, n)] \in Path
    <3> HIDE DEF n
    <3> QED BY <2>2
  <2>4. SubSeq(p, n + 1, Len(p)) \in Path
    <3> HIDE DEF n
    <3> QED BY <2>3 DEF Path
  <2>5. Followed(links, p) = links[SubSeq(p, 1, n)] \o SubSeq(p, n + 1, Len(p))
    BY <1>2 DEF Followed
  <2> HIDE DEF n
  <2> QED BY <2>3, <2>4, <2>5 DEF Path
<1> QED BY <1>1, <1>2

LEMMA LinkFreeStays ==
  ASSUME NEW links, NEW p, LinkFree(links, p)
  PROVE  CanonicalIn(links, p) = p
<1>1. Followed(links, p) = p
  BY DEF Followed, LinkFree
<1> QED BY <1>1 DEF CanonicalIn

LEMMA HostTypes ==
  ASSUME host \in Hosts
  PROVE  /\ host.rustup \subseteq host.files /\ host.files \subseteq Path
         /\ \A l \in DOMAIN host.links : host.links[l] \in Path
         /\ \A f \in host.files : Len(f) > 1 /\ LinkFree(host.links, f)
         /\ \A f \in host.rustup : Last(f) = "rustup"
         /\ \A c \in DOMAIN host.sysrootOf :
              /\ host.sysrootOf[c] \in Path
              /\ \A name \in Programmed :
                   Last(Canonical(host.sysrootOf[c] \o <<"bin", name>>)) # "rustup"
         /\ \A d \in RuntimeDirectories : Canonical(d) # Root
         /\ \A d \in RuntimeDirectories \cup {Join(host.cwd, host.path[i]) : i \in DOMAIN host.path} :
              Canonical(d) \in Path /\ Canonical(Canonical(d)) = Canonical(d)
BY ToolchainAssumption DEF Path, LinkFree, Canonical

LEMMA CanonicalType ==
  ASSUME host \in Hosts, NEW p \in Path
  PROVE  Canonical(p) \in Path
<1>1. Followed(host.links, p) \in Path
  BY HostTypes, FollowedType
<1>2. Followed(host.links, Followed(host.links, p)) \in Path
  BY <1>1, HostTypes, FollowedType
<1> QED BY <1>2 DEF Canonical, CanonicalIn

\* A file, and every directory above it, is at its canonical path.
LEMMA FilesAreCanonical ==
  ASSUME host \in Hosts, NEW f \in host.files, NEW d \in Path, StartsWith(f, d)
  PROVE  Canonical(d) = d
<1>1. f \in Path /\ LinkFree(host.links, f)
  BY HostTypes
<1>2. /\ d = SubSeq(f, 1, Len(d)) /\ Len(d) \in Nat /\ Len(f) \in Nat /\ Len(d) <= Len(f)
  BY <1>1 DEF StartsWith, Path
<1>3. ASSUME NEW n \in 1..Len(d)
      PROVE  SubSeq(d, 1, n) = SubSeq(f, 1, n) /\ n \in 1..Len(f)
  <2>1. n \in 1..Len(f)
    BY <1>2
  <2>2. \A i \in 1..n : d[i] = f[i]
    BY <1>1, <1>2 DEF Path
  <2> QED BY <1>1, <1>2, <2>1, <2>2 DEF Path
<1>4. LinkFree(host.links, d)
  BY <1>1, <1>3 DEF LinkFree
<1> QED BY <1>4, LinkFreeStays DEF Canonical

\* A genuine program is where its name says, in a directory that can be mounted.
LEMMA GenuinePlace ==
  ASSUME host \in Hosts, NEW p, Genuine(p)
  PROVE  /\ p \in Path /\ p # None /\ Canonical(p) = p /\ p \notin host.rustup
         /\ Parent(p) \in Path /\ Parent(p) # Root /\ StartsWith(p, Parent(p))
         /\ Canonical(Parent(p)) = Parent(p)
<1>1. p \in host.files /\ p \in Path /\ Len(p) > 1 /\ Last(p) # "rustup"
  BY HostTypes DEF Genuine
<1>2. p # None
  <2>1. SUFFICES ASSUME p = None PROVE FALSE
    OBVIOUS
  <2>2. Len(p) = 1
    BY <2>1 DEF None
  <2>3. Len(p) \in Nat
    BY <1>1 DEF Path
  <2> QED BY <1>1, <2>2, <2>3
<1>3. StartsWith(p, p)
  BY <1>1 DEF StartsWith, Path
<1>4. /\ Parent(p) \in Path /\ Len(Parent(p)) = Len(p) - 1
  BY <1>1 DEF Parent, Path
<1>5. Parent(p) # Root
  BY <1>1, <1>4 DEF Root, Path
<1>6. StartsWith(p, Parent(p))
  BY <1>1, <1>4 DEF StartsWith, Parent, Path
<1> QED BY <1>1, <1>2, <1>3, <1>4, <1>5, <1>6, HostTypes, FilesAreCanonical

-----------------------------------------------------------------------------
(* Finding a program *)

\* What is a file is a proxy, which goes by its name, or a genuine program.
LEMMA Validated ==
  ASSUME host \in Hosts, NEW p, validate_executable_path(p) # None
  PROVE  /\ IsFile(p)
         /\ \/ is_rustup_proxy(p) /\ validate_executable_path(p) = p
            \/ ~is_rustup_proxy(p) /\ Genuine(validate_executable_path(p))
BY DEF validate_executable_path, is_rustup_proxy, Genuine, IsFile

LEMMA ProgramResolved ==
  ASSUME host \in Hosts, NEW name, NEW variable, resolve_program(name, variable) # None
  PROVE  \/ is_rustup_proxy(resolve_program(name, variable))
         \/ Genuine(resolve_program(name, variable))
<1>1. PICK p : resolve_program(name, variable) = validate_executable_path(p)
  BY DEF resolve_program
<1> QED BY <1>1, Validated

\* What is selected is never a proxy: a sysroot holds none, and another is
\* refused.
LEMMA ProgramSelected ==
  ASSUME host \in Hosts, NEW name \in Programmed, NEW fallback,
         sysroot \in {host.sysrootOf[c] : c \in DOMAIN host.sysrootOf},
         select_toolchain_program(name, fallback) # None
  PROVE  Genuine(select_toolchain_program(name, fallback))
<1> DEFINE candidate == sysroot \o <<"bin", name>>
<1>1. CASE IsFile(candidate)
  <2>1. ~is_rustup_proxy(candidate)
    BY HostTypes DEF is_rustup_proxy
  <2>2. select_toolchain_program(name, fallback) = validate_executable_path(candidate)
    BY <1>1 DEF select_toolchain_program
  <2> QED BY <2>1, <2>2, Validated
<1>2. CASE ~IsFile(candidate)
  <2>1. /\ ~is_rustup_proxy(fallback)
        /\ select_toolchain_program(name, fallback) = validate_executable_path(fallback)
    BY <1>2 DEF select_toolchain_program
  <2> QED BY <2>1, Validated
<1> QED BY <1>1, <1>2

\* None of this depends on anything but the host.
LEMMA SameHost ==
  ASSUME host' = host
  PROVE  /\ \A p : Canonical(p)' = Canonical(p)
         /\ \A p : (is_rustup_proxy(p)' <=> is_rustup_proxy(p)) /\ (Genuine(p)' <=> Genuine(p))
         /\ resolve_program("rustc", "RUSTC")' = resolve_program("rustc", "RUSTC")
         /\ \A c : Trusted(c)' <=> Trusted(c)
         /\ \A d : is_private_host_path(d)' <=> is_private_host_path(d)
<1>1. \A p : Canonical(p)' = Canonical(p)
  BY DEF Canonical
<1>2. \A p : IsFile(p)' <=> IsFile(p)
  BY <1>1 DEF IsFile
<1>3. \A p : is_rustup_proxy(p)' <=> is_rustup_proxy(p)
  BY <1>1, <1>2 DEF is_rustup_proxy
<1>4. \A p : validate_executable_path(p)' = validate_executable_path(p)
  BY <1>1, <1>2, <1>3 DEF validate_executable_path
<1>5. resolve_program("rustc", "RUSTC")' = resolve_program("rustc", "RUSTC")
  <2> DEFINE requested(h) == IF h.vars["RUSTC"] = NoPath THEN Rel(<<"rustc">>) ELSE h.vars["RUSTC"]
  <2> DEFINE at(h, i) == Join(h.cwd, h.path[i]) \o requested(h).names
  <2> DEFINE hits == {i \in DOMAIN host.path : IsFile(at(host, i))}
  <2> DEFINE chosen(h, set) == at(h, CHOOSE i \in set : \A j \in set : i <= j)
  <2>1. hits' = hits
    <3>1. \A i : IsFile(at(host, i))' <=> IsFile(at(host, i))
      BY <1>2
    <3> QED BY <3>1
  <2>2. /\ validate_executable_path(chosen(host, hits))' = validate_executable_path(chosen(host, hits))
        /\ validate_executable_path(Join(host.cwd, requested(host)))'
             = validate_executable_path(Join(host.cwd, requested(host)))
    <3>1. (chosen(host, hits))' = chosen(host, hits)
      BY <2>1
    <3> QED BY <1>4, <3>1
  <2>3. resolve_program("rustc", "RUSTC") =
          IF requested(host).root \/ Len(requested(host).names) > 1
            THEN validate_executable_path(Join(host.cwd, requested(host)))
          ELSE IF hits = {} THEN None ELSE validate_executable_path(chosen(host, hits))
    BY DEF resolve_program
  <2>4. resolve_program("rustc", "RUSTC")' =
          IF requested(host').root \/ Len(requested(host').names) > 1
            THEN validate_executable_path(Join(host.cwd, requested(host)))'
          ELSE IF hits' = {} THEN None ELSE validate_executable_path(chosen(host, hits))'
    BY DEF resolve_program
  <2>5. requested(host') = requested(host)
    OBVIOUS
  <2> HIDE DEF requested, hits, chosen
  <2> QED BY <2>1, <2>2, <2>3, <2>4, <2>5
<1>6. \A c : Trusted(c)' <=> Trusted(c)
  BY <1>3, <1>5 DEF Trusted
<1>7. \A p : Genuine(p)' <=> Genuine(p)
  BY DEF Genuine
<1>8. \A d : is_private_host_path(d)' <=> is_private_host_path(d)
  BY DEF is_private_host_path, PrivatePaths
<1> QED BY <1>1, <1>3, <1>5, <1>6, <1>7, <1>8

\* How a path begins: what it starts with is no longer, and agrees with it.
LEMMA BeginsWith ==
  ASSUME NEW p \in Path, NEW q, Len(q) \in Nat, StartsWith(p, q)
  PROVE  Len(q) <= Len(p) /\ \A i \in 1..Len(q) : p[i] = q[i]
<1>1. /\ Len(q) <= Len(p) /\ Len(q) \in Nat /\ Len(p) \in Nat
      /\ SubSeq(p, 1, Len(q)) = q
  BY DEF StartsWith, Path
<1>2. \A i \in 1..Len(q) : SubSeq(p, 1, Len(q))[i] = p[i]
  BY <1>1 DEF Path
<1> QED BY <1>1, <1>2

LEMMA FirstOf ==
  ASSUME NEW S, NEW p \in Seq(S), Len(p) > 0
  PROVE  StartsWith(p, <<p[1]>>)
<1>1. /\ SubSeq(p, 1, 1) \in Seq(S) /\ Len(SubSeq(p, 1, 1)) = 1
      /\ SubSeq(p, 1, 1)[1] = p[1]
  OBVIOUS
<1>2. p[1] \in S
  OBVIOUS
<1>3. <<p[1]>> \in Seq(S) /\ Len(<<p[1]>>) = 1 /\ <<p[1]>>[1] = p[1]
  BY <1>2
<1>4. SubSeq(p, 1, 1) = <<p[1]>>
  <2> DEFINE s == SubSeq(p, 1, 1)
  <2> DEFINE t == <<p[1]>>
  <2>1. s \in Seq(S) /\ t \in Seq(S) /\ Len(s) = Len(t) /\ Len(s) = 1 /\ s[1] = t[1]
    BY <1>1, <1>3
  <2> HIDE DEF s, t
  <2>2. \A i \in 1..Len(s) : s[i] = t[i]
    BY <2>1
  <2>3. s = t
    BY <2>1, <2>2, SeqEqual
  <2> QED BY <2>3 DEF s, t
<1> QED BY <1>3, <1>4 DEF StartsWith

\* The system's directories of programs are in its own.
LEMMA SystemPaths ==
  ASSUME NEW p \in Path, is_standard_runtime_path(p)
  PROVE  p # Root /\ \E m \in System : StartsWith(p, m)
<1>1. PICK d \in RuntimeDirectories : StartsWith(p, d)
  BY DEF is_standard_runtime_path
<1>2. Len(d) \in Nat /\ Len(d) > 0 /\ d[1] \in {"usr", "bin", "sbin"}
  BY DEF RuntimeDirectories
<1>3. Len(p) > 0 /\ p[1] = d[1]
  <2>1. Len(d) <= Len(p) /\ \A i \in 1..Len(d) : p[i] = d[i]
    BY <1>1, <1>2, BeginsWith
  <2>2. 1 \in 1..Len(d) /\ Len(p) \in Nat
    BY <1>2 DEF Path
  <2> QED BY <1>2, <2>1, <2>2
<1>4. StartsWith(p, <<p[1]>>)
  BY <1>3, FirstOf DEF Path
<1>5. <<p[1]>> \in System
  BY <1>2, <1>3 DEF System
<1>6. p # Root
  BY <1>3 DEF Root
<1> QED BY <1>4, <1>5, <1>6

\* What is below a standard directory is standard.
LEMMA BelowStandard ==
  ASSUME NEW p \in Path, NEW d \in Path, StartsWith(p, d), is_standard_runtime_path(d)
  PROVE  is_standard_runtime_path(p)
<1>1. PICK r \in RuntimeDirectories : StartsWith(d, r)
  BY DEF is_standard_runtime_path
<1>2. Len(r) \in Nat
  BY DEF RuntimeDirectories
<1>3. /\ Len(r) <= Len(d) /\ Len(d) <= Len(p) /\ d = SubSeq(p, 1, Len(d))
      /\ r = SubSeq(d, 1, Len(r)) /\ Len(d) \in Nat /\ Len(p) \in Nat
  BY <1>1 DEF StartsWith, Path
<1>4. SubSeq(p, 1, Len(r)) = SubSeq(d, 1, Len(r))
  <2> DEFINE s == SubSeq(p, 1, Len(r))
  <2> DEFINE t == SubSeq(d, 1, Len(r))
  <2>1. s \in Path /\ t \in Path /\ Len(s) = Len(r) /\ Len(t) = Len(r)
    BY <1>2, <1>3 DEF Path
  <2>2. ASSUME NEW i \in 1..Len(r) PROVE s[i] = t[i]
    <3>1. i \in 1..Len(d) /\ s[i] = p[i] /\ t[i] = d[i]
      BY <1>2, <1>3 DEF Path
    <3>2. d[i] = p[i]
      BY <1>3, <3>1 DEF Path
    <3> QED BY <3>1, <3>2
  <2> HIDE DEF s, t
  <2>3. s = t
    BY <2>1, <2>2, SeqEqual DEF Path
  <2> QED BY <2>3 DEF s, t
<1>5. StartsWith(p, r)
  BY <1>2, <1>3, <1>4 DEF StartsWith
<1> QED BY <1>5 DEF is_standard_runtime_path

LEMMA StartsWithItself ==
  ASSUME NEW p \in Path
  PROVE  StartsWith(p, p)
BY DEF StartsWith, Path

-----------------------------------------------------------------------------
(* The steps *)

LEMMA FindingKeeps ==
  ASSUME ToolchainInv, ResolveCargo \/ canonical_home \/ ResolveRustc \/ AskRustup \/ query_sysroot
  PROVE  ToolchainInv'
<1> USE DEF Finding, Selecting, Finishing, Then
<1>0. host' = host /\ host \in Hosts
  BY DEF ToolchainInv, ResolveCargo, canonical_home, ResolveRustc, AskRustup, query_sysroot
<1>1. CASE ResolveCargo
  <2>1. ran' = ran /\ pc' \in {"home", "failed"}
    BY <1>1 DEF ResolveCargo
  <2>2. pc' = "home" => Genuine(cargo') \/ is_rustup_proxy(cargo')
    BY <1>0, <1>1, ProgramResolved DEF ResolveCargo
  <2> QED BY <1>0, <2>1, <2>2, SameHost DEF ToolchainInv, RunsOnlyTrusted
<1>2. CASE canonical_home
  <2>1. ran' = ran /\ cargo' = cargo /\ pc = "home" /\ pc' \in {"rustc", "failed"}
    BY <1>2 DEF canonical_home
  <2> QED BY <1>0, <2>1, SameHost DEF ToolchainInv, RunsOnlyTrusted
<1>3. CASE ResolveRustc
  <2>1. /\ ran' = ran /\ cargo' = cargo /\ pc = "rustc" /\ pc' \in {"rustup", "failed"}
        /\ rustc' = resolve_program("rustc", "RUSTC")
    BY <1>3 DEF ResolveRustc
  <2> QED BY <1>0, <2>1, SameHost DEF ToolchainInv, RunsOnlyTrusted
<1>4. CASE AskRustup
  <2>1. /\ ran' = ran /\ cargo' = cargo /\ pc = "rustup" /\ pc' \in {"sysroot", "failed"}
    BY <1>4 DEF AskRustup
  <2>2. ASSUME pc' = "sysroot" PROVE Trusted(compiler')
    <3>1. CASE is_rustup_proxy(rustc)
      <4>1. is_trusted_rustup_compiler(compiler')
        BY <1>4, <2>2, <3>1 DEF AskRustup, Selectable
      <4>2. CASE StartsWith(compiler', Child(host.rustupHome, "toolchains"))
        BY <4>2 DEF Trusted
      <4>3. CASE is_standard_runtime_path(compiler')
        <5>1. compiler' \in Path
          BY <1>0, <1>4, <2>2, <3>1, HostTypes DEF AskRustup, Selectable
        <5> QED BY <4>3, <5>1, SystemPaths DEF Trusted
      <4> QED BY <4>1, <4>2, <4>3 DEF is_trusted_rustup_compiler
    <3>2. CASE ~is_rustup_proxy(rustc)
      <4>1. compiler' = rustc
        BY <1>4, <3>2 DEF AskRustup
      <4> QED BY <2>1, <3>2, <4>1 DEF ToolchainInv, Trusted
    <3> QED BY <3>1, <3>2
  <2> QED BY <1>0, <2>1, <2>2, SameHost DEF ToolchainInv, RunsOnlyTrusted
<1>5. CASE query_sysroot
  <2>1. /\ ran' = ran \cup {compiler} /\ cargo' = cargo /\ compiler' = compiler
        /\ pc = "sysroot" /\ pc' \in {"select", "failed"}
    BY <1>5 DEF query_sysroot
  <2>2. ASSUME pc' = "select"
        PROVE  sysroot' \in {host.sysrootOf[c] : c \in DOMAIN host.sysrootOf}
    BY <1>5, <2>2 DEF query_sysroot
  <2> QED BY <1>0, <2>1, <2>2, SameHost DEF ToolchainInv, RunsOnlyTrusted
<1> QED BY <1>1, <1>2, <1>3, <1>4, <1>5

LEMMA SelectingKeeps ==
  ASSUME ToolchainInv, SelectRustc \/ SelectRustdoc \/ SelectCargo
  PROVE  ToolchainInv'
<1> USE DEF Finding, Selecting, Finishing, Then
<1>0. /\ host' = host /\ host \in Hosts /\ ran' = ran /\ sysroot' = sysroot /\ doc' = doc
      /\ pc \in Selecting
      /\ sysroot \in {host.sysrootOf[c] : c \in DOMAIN host.sysrootOf}
  BY DEF ToolchainInv, SelectRustc, SelectRustdoc, SelectCargo
<1>1. CASE SelectRustc
  <2>1. cargo' = cargo /\ pc = "select" /\ pc' \in {"rustdoc", "failed"}
    BY <1>1 DEF SelectRustc
  <2>2. pc' = "rustdoc" => Genuine(rustc')
    <3>1. "rustc" \in Programmed
      BY DEF Programmed
    <3> QED BY <1>0, <1>1, <3>1, ProgramSelected DEF SelectRustc
  <2> QED BY <1>0, <2>1, <2>2, SameHost DEF ToolchainInv, RunsOnlyTrusted
<1>2. CASE SelectRustdoc
  <2>1. /\ cargo' = cargo /\ rustc' = rustc /\ pc = "rustdoc"
        /\ pc' \in {"proxied cargo", "failed"}
    BY <1>2 DEF SelectRustdoc
  <2>2. "rustdoc" \in Programmed
    BY DEF Programmed
  <2>3. pc' = "proxied cargo" => IF rustdoc' = None THEN ~doc ELSE Genuine(rustdoc')
    BY <1>0, <1>2, <2>2, ProgramSelected DEF SelectRustdoc
  <2> QED BY <1>0, <2>1, <2>3, SameHost DEF ToolchainInv, RunsOnlyTrusted
<1>3. CASE SelectCargo
  <2>1. /\ rustc' = rustc /\ rustdoc' = rustdoc /\ pc = "proxied cargo"
        /\ pc' \in {"path", "failed"}
    BY <1>3 DEF SelectCargo
  <2>2. "cargo" \in Programmed
    BY DEF Programmed
  <2>3. pc' = "path" => Genuine(cargo')
    BY <1>0, <1>3, <2>2, ProgramSelected DEF SelectCargo, ToolchainInv
  <2> QED BY <1>0, <2>1, <2>3, SameHost DEF ToolchainInv, RunsOnlyTrusted
<1> QED BY <1>1, <1>2, <1>3

LEMMA ProgramsPlace ==
  ASSUME ToolchainInv, pc \in Finishing
  PROVE  /\ \A p \in Programs : Genuine(p)
         /\ \A d \in Required : \E p \in Programs : d = Parent(p)
         /\ \A p \in Programs : Parent(p) \in Required
         /\ \A d \in Required : d \in Path /\ d # Root /\ Canonical(d) = d
<1>1. host \in Hosts
  BY DEF ToolchainInv
<1>2. \A p \in Programs : Genuine(p)
  BY DEF ToolchainInv, Programs, Finishing
<1>3. \A p \in Programs : Canonical(Parent(p)) = Parent(p) /\ Parent(p) \in Path /\ Parent(p) # Root
  BY <1>1, <1>2, GenuinePlace
<1> QED BY <1>2, <1>3 DEF Required

LEMMA SameRequired ==
  ASSUME host' = host, cargo' = cargo, rustc' = rustc, rustdoc' = rustdoc
  PROVE  Required' = Required /\ \A d : Listed(d)' <=> Listed(d)
<1>1. Programs' = Programs
  BY DEF Programs
<1>2. Required' = Required
  BY <1>1, SameHost DEF Required
<1> QED BY <1>2, SameHost DEF Listed

LEMMA FinishingKeeps ==
  ASSUME ToolchainInv, sandbox_path \/ toolchain_mount_paths
  PROVE  ToolchainInv'
<1> USE DEF Finding, Selecting, Finishing, Then
<1>0. /\ host' = host /\ host \in Hosts /\ ran' = ran /\ sysroot' = sysroot /\ doc' = doc
      /\ cargo' = cargo /\ rustc' = rustc /\ rustdoc' = rustdoc /\ pc \in {"path", "mounts"}
  BY DEF ToolchainInv, sandbox_path, toolchain_mount_paths
<1>1. CASE sandbox_path
  <2>1. pc' \in {"mounts", "failed"}
    BY <1>1 DEF sandbox_path
  <2>2. ASSUME NEW d \in path' PROVE Listed(d)
    <3>1. CASE d \in Required
      BY <1>0, <3>1, ProgramsPlace DEF Listed, Path
    <3>2. CASE \E r \in RuntimeDirectories : d = Canonical(r)
      BY <1>0, <3>2, HostTypes DEF Listed, Path
    <3>3. CASE \E i \in DOMAIN host.path : d = Canonical(Join(host.cwd, host.path[i])) /\ FromCaller(d)
      <4>1. d \in Path /\ Canonical(d) = d
        BY <1>0, <3>3, HostTypes
      <4>2. d \notin Required => is_standard_runtime_path(d) /\ ~is_private_host_path(d)
        BY <3>3 DEF FromCaller
      <4> QED BY <3>1, <4>1, <4>2, SystemPaths DEF Listed, Path
    <3> QED BY <1>1, <3>1, <3>2, <3>3 DEF sandbox_path
  <2> QED BY <1>0, <2>1, <2>2, SameHost, SameRequired DEF ToolchainInv, RunsOnlyTrusted
<1>2. CASE toolchain_mount_paths
  <2>1. /\ pc' = "done" /\ path' = path /\ pc = "mounts"
        /\ mounts' = ({sysroot} \ {Root}) \cup Unmounted(Required) \cup Unmounted(path)
    BY <1>2 DEF toolchain_mount_paths
  <2>2. Unmounted(Required)' = Unmounted(Required) /\ Unmounted(path)' = Unmounted(path)
    BY <1>0, <2>1, SameRequired DEF Unmounted
  <2> QED BY <1>0, <2>1, <2>2, SameHost, SameRequired DEF ToolchainInv, RunsOnlyTrusted
<1> QED BY <1>1, <1>2

LEMMA StutterKeeps ==
  ASSUME ToolchainInv, UNCHANGED vars
  PROVE  ToolchainInv'
<1>1. /\ host' = host /\ ran' = ran /\ sysroot' = sysroot /\ doc' = doc /\ pc' = pc
      /\ cargo' = cargo /\ rustc' = rustc /\ rustdoc' = rustdoc /\ path' = path
      /\ mounts' = mounts /\ compiler' = compiler
  BY DEF vars
<1>2. Unmounted(Required)' = Unmounted(Required) /\ Unmounted(path)' = Unmounted(path)
  BY <1>1, SameRequired DEF Unmounted
<1> QED BY <1>1, <1>2, SameHost, SameRequired DEF ToolchainInv, RunsOnlyTrusted

-----------------------------------------------------------------------------
(* The theorems *)

\* The invariant holds on every host, whatever is on it.
THEOREM ToolchainInvariant == Spec => []ToolchainInv
<1>1. Init => ToolchainInv
  BY DEF Init, ToolchainInv, RunsOnlyTrusted, Finding, Selecting, Finishing
<1>2. ToolchainInv /\ [Next]_vars => ToolchainInv'
  BY FindingKeeps, SelectingKeeps, FinishingKeeps, StutterKeeps DEF Next
<1> QED BY <1>1, <1>2, PTL DEF Spec

\* No compiler runs outside the sandbox that is neither the system's, nor in
\* Rustup's toolchains, nor the caller's own choice: query_sysroot is only ever
\* reached with one that has been judged.
THEOREM OnlyTrustedRuns == Spec => []RunsOnlyTrusted
<1>1. ToolchainInv => RunsOnlyTrusted
  BY DEF ToolchainInv
<1> QED BY <1>1, ToolchainInvariant, PTL

\* No program of the sandbox is Rustup's proxy: what is selected comes from a
\* sysroot or was found to be no proxy.
THEOREM NoProxyIsLeft == Spec => []ProxiesAreResolved
<1>1. ToolchainInv => ProxiesAreResolved
  <2>1. SUFFICES ASSUME ToolchainInv, Done, NEW p \in Programs
                 PROVE  Canonical(p) \notin host.rustup
    BY DEF ProxiesAreResolved
  <2>2. Genuine(p) /\ host \in Hosts
    BY <2>1, ProgramsPlace DEF Done, Finishing, ToolchainInv
  <2> QED BY <2>2, GenuinePlace
<1> QED BY <1>1, ToolchainInvariant, PTL

\* Every command has its programs, and they and all of PATH can be seen in the
\* sandbox: toolchain_mount_paths leaves out only what the system's mounts show.
THEOREM EveryToolIsMounted == Spec => []ToolsAreMounted
<1>1. ToolchainInv => ToolsAreMounted
  <2>1. SUFFICES ASSUME ToolchainInv, Done
                 PROVE  /\ None \notin {cargo, rustc} /\ (doc => rustdoc # None)
                        /\ \A p \in Programs \cup path :
                             \E m \in mounts \cup System : StartsWith(Canonical(p), m)
    BY DEF ToolsAreMounted
  <2>2. /\ pc = "done" /\ pc \in Finishing /\ host \in Hosts
        /\ mounts = ({sysroot} \ {Root}) \cup Unmounted(Required) \cup Unmounted(path)
    BY <2>1 DEF Done, Finishing, ToolchainInv
  <2>3. None \notin {cargo, rustc} /\ (doc => rustdoc # None)
    BY <2>1, <2>2, GenuinePlace DEF ToolchainInv, Finishing
  <2>4. ASSUME NEW p \in Programs
        PROVE  \E m \in mounts \cup System : StartsWith(Canonical(p), m)
    <3>1. /\ p \in Path /\ Canonical(p) = p /\ Parent(p) \in Path
          /\ Parent(p) # Root /\ StartsWith(p, Parent(p)) /\ Parent(p) \in Required
      BY <2>1, <2>2, ProgramsPlace, GenuinePlace
    <3>2. CASE is_standard_runtime_path(Parent(p))
      BY <3>1, <3>2, BelowStandard, SystemPaths
    <3>3. CASE ~is_standard_runtime_path(Parent(p))
      BY <2>2, <3>1, <3>3 DEF Unmounted
    <3> QED BY <3>2, <3>3
  <2>5. ASSUME NEW d \in path
        PROVE  \E m \in mounts \cup System : StartsWith(Canonical(d), m)
    <3>1. d \in Path /\ d # Root /\ Canonical(d) = d
      BY <2>1, <2>2 DEF ToolchainInv, Listed, Path
    <3>2. CASE is_standard_runtime_path(d)
      BY <3>1, <3>2, SystemPaths
    <3>3. CASE ~is_standard_runtime_path(d)
      BY <2>2, <3>1, <3>3, StartsWithItself DEF Unmounted
    <3> QED BY <3>2, <3>3
  <2> QED BY <2>3, <2>4, <2>5
<1> QED BY <1>1, ToolchainInvariant, PTL

\* Whatever the caller has in PATH, nothing of the private directories is shown
\* that the programs do not need.
THEOREM NothingElsePrivate == Spec => []NothingPrivateBesides
<1>1. ToolchainInv => NothingPrivateBesides
  <2>1. SUFFICES ASSUME ToolchainInv, Done, NEW d \in mounts \cup path, is_private_host_path(d)
                 PROVE  \/ d = sysroot \/ \E p \in Programs : d = Parent(Canonical(p))
                        \/ \E r \in RuntimeDirectories : d = Canonical(r)
    BY DEF NothingPrivateBesides
  <2>2. /\ pc = "done" /\ pc \in Finishing /\ host \in Hosts
        /\ mounts = ({sysroot} \ {Root}) \cup Unmounted(Required) \cup Unmounted(path)
    BY <2>1 DEF Done, Finishing, ToolchainInv
  <2>3. d = sysroot \/ d \in Required \/ d \in path
    BY <2>1, <2>2 DEF Unmounted
  <2>4. CASE d \in Required
    BY <2>1, <2>2, <2>4, ProgramsPlace, GenuinePlace
  <2>5. CASE d \in path
    BY <2>1, <2>2, <2>4, <2>5 DEF ToolchainInv, Listed
  <2> QED BY <2>3, <2>4, <2>5
<1> QED BY <1>1, ToolchainInvariant, PTL
=============================================================================
