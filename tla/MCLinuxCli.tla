----------------------------- MODULE MCLinuxCli -----------------------------
(* Small instances of LinuxCli. *)
EXTENDS LinuxCli, TLC

Symmetry == Permutations(Procs) \cup Permutations(Grants) \cup Permutations(Devices)
=============================================================================
