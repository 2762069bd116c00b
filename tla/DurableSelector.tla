--------------------------- MODULE DurableSelector ---------------------------
(***************************************************************************)
(* What an installation promises whoever runs the command when power can   *)
(* be lost: it is a Selector of which no more than the last change can be  *)
(* taken back, and then as a whole.                                        *)
(***************************************************************************)
EXTENDS Selector

VARIABLE durable    \* the selector as a power loss would leave it at least

durableSelector == <<selector, durable>>

DurableInit ==
    /\ Init
    /\ durable = selector

\* The next change waits until the last one is certain.
Change ==
    /\ durable = selector
    /\ Next
    /\ UNCHANGED durable

\* What was changed can no longer be lost.
Settle ==
    /\ durable' = selector
    /\ UNCHANGED selector

\* Power is lost, and the last change with it.
Lose ==
    /\ selector' = durable
    /\ UNCHANGED durable

DurableNext == Change \/ Settle \/ Lose

DurableSpec == DurableInit /\ [][DurableNext]_durableSelector

=============================================================================
