---------------------------- MODULE MCSandboxRun ----------------------------
(* Small instances of SandboxRun for TLC.                                  *)
EXTENDS SandboxRunInv, TLC

CallerSymmetry == Permutations(Callers)
=============================================================================
