---------------------------- MODULE MCDurability ----------------------------
(* Small instances of Durability for TLC. *)
EXTENDS Durability, TLC

\* Whatever is signed is published.
AllSigned == Version \X Sig

\* Processes are interchangeable.
Symmetric == Permutations(Proc)

=============================================================================
