----------------------------- MODULE ToolchainInv -----------------------------
(***************************************************************************)
(* What is true of the programs found so far between any two steps of      *)
(* resolve_toolchain.                                                      *)
(***************************************************************************)
EXTENDS Toolchain

\* A program that goes by its canonical name, and is not Rustup's.
Genuine(p) == p \in host.files /\ Last(p) # "rustup"

\* A directory of PATH: a program's, the system's, or one the caller has in
\* PATH that is the system's and not private.
Listed(d) ==
  /\ d \in Seq(STRING) /\ d # Root /\ Canonical(d) = d
  /\ \/ d \in Required
     \/ \E r \in RuntimeDirectories : d = Canonical(r)
     \/ is_standard_runtime_path(d) /\ ~is_private_host_path(d)

Finding   == {"home", "rustc", "rustup", "sysroot"}
Selecting == {"select", "rustdoc", "proxied cargo"}
Finishing == {"path", "mounts", "done"}

ToolchainInv ==
  /\ host \in Hosts /\ pc \in {"cargo", "failed"} \cup Finding \cup Selecting \cup Finishing
  /\ pc \in Finding \cup Selecting => Genuine(cargo) \/ is_rustup_proxy(cargo)
  /\ pc = "rustup" => rustc = resolve_program("rustc", "RUSTC")
  /\ pc = "sysroot" => Trusted(compiler)
  /\ pc \in Selecting \cup Finishing =>
       sysroot \in {host.sysrootOf[c] : c \in DOMAIN host.sysrootOf}
  /\ pc \in {"rustdoc", "proxied cargo"} \cup Finishing => Genuine(rustc)
  /\ pc \in {"proxied cargo"} \cup Finishing =>
       IF rustdoc = None THEN ~doc ELSE Genuine(rustdoc)
  /\ pc \in Finishing => Genuine(cargo)
  /\ pc \in {"mounts", "done"} => \A d \in path : Listed(d)
  /\ pc = "done" => mounts = ({sysroot} \ {Root}) \cup Unmounted(Required) \cup Unmounted(path)
  /\ RunsOnlyTrusted
=============================================================================
