---------------------------- MODULE MCLauncher ----------------------------
(* Small instances of Launcher for TLC. *)
EXTENDS Launcher, TLC

\* Processes, transactions and launchers are interchangeable.
Symmetric == Permutations(Proc) \cup Permutations(Tx) \cup Permutations(Digest)

=============================================================================
