------------------------------ MODULE Selector ------------------------------
(***************************************************************************)
(* What an installation promises whoever runs the command: one current     *)
(* version and the one before it, both retained, that change in one step.  *)
(* No journal, no lock, no crash: an activation happened or it did not.    *)
(***************************************************************************)
CONSTANTS Version, None

VARIABLES
    current,    \* the version the command runs, or None
    previous,   \* the version rollback would return to, or None
    retained    \* the versions kept on disk

selector == <<current, previous, retained>>

Init ==
    /\ current = None
    /\ previous = None
    /\ retained = {}

\* A verified release is added to the retained ones; none is ever dropped.
Retain(v) ==
    /\ v \notin retained
    /\ retained' = retained \cup {v}
    /\ UNCHANGED <<current, previous>>

\* The command changes to a retained version, which remembers the old one.
Activate(v) ==
    /\ v \in retained \ {current}
    /\ current' = v
    /\ previous' = current
    /\ UNCHANGED retained

\* install.json was lost: what came before is forgotten, the command is not.
Forget ==
    /\ previous' = None
    /\ UNCHANGED <<current, retained>>

Next ==
    \/ \E v \in Version : Retain(v) \/ Activate(v)
    \/ Forget

Spec == Init /\ [][Next]_selector

=============================================================================
