-------------------------------- MODULE Sums --------------------------------
(* Sums of sequences of numbers.                                            *)
EXTENDS Naturals, Sequences

SumSeq(w) ==
    LET sum[n \in 0..Len(w)] == IF n = 0 THEN 0 ELSE sum[n - 1] + w[n]
    IN  sum[Len(w)]

=============================================================================
