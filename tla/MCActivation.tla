---------------------------- MODULE MCActivation ----------------------------
(* Small instances of Activation for TLC. *)
EXTENDS ActivationInv, TLC

\* Every version was published once, version 2 with each signature.
SomeSig == CHOOSE s \in Sig : TRUE
ResignedOnce == {r \in Version \X Sig : r[1] = 2 \/ r[2] = SomeSig}

\* Processes, ids and transaction ids are interchangeable.
Symmetric == Permutations(Proc) \cup Permutations(Id) \cup Permutations(Tx)

=============================================================================
