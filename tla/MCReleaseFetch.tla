--------------------------- MODULE MCReleaseFetch ---------------------------
(* Small instances of ReleaseFetch for TLC. *)
EXTENDS ReleaseFetch, TLC

\* Either much is published while time stands still, or time goes on until
\* every date has passed for every clock.
RacesOrExpiry ==
    {[time |-> 0, published |-> 3, dates |-> {0}],
     [time |-> 3, published |-> 2, dates |-> {0, 1}]}

\* What an archive holds does not matter, only whether it is the same.
Symmetric == Permutations(Archive)

=============================================================================
