----------------------------- MODULE PrivateDir -----------------------------
(***************************************************************************)
(* ensure_private_dir (src/src/fs/security.rs), which comes before the     *)
(* lock, as the lock lies inside: the first runs on a machine make the     *)
(* managed root at the same time, and someone else may put a directory of  *)
(* that name there, of this user or of another one, or a link to one.      *)
(* What is at the path stays there: nobody removes or replaces it.         *)
(***************************************************************************)
EXTENDS Naturals

CONSTANTS
    Starter,    \* runs that start
    Else,       \* who else makes directories
    NoDir       \* no directory

ASSUME StarterAssumption == Else \notin Starter /\ NoDir \notin Starter

\* A directory of the user of the runs, one of another user, or a link to one
\* of the user's, and whether no one but its owner has access to it.
DirKind == {"own", "foreign", "link"}
Directory == [maker : Starter \cup {Else}, kind : DirKind, secluded : BOOLEAN]

ASSUME NoDirAssumption == NoDir \notin Directory

VARIABLES
    windows,    \* the platform
    managed,    \* the directory at the path
    start       \* where each run is

dirVars == <<windows, managed, start>>

DirTypeOK ==
    /\ windows \in BOOLEAN
    /\ managed \in Directory \cup {NoDir}
    /\ start \in [Starter -> {"look", "make", "tighten", "confirm", "reopen",
                              "admitted", "refused", "failed"}]
    /\ \A s \in Starter : start[s] \in {"tighten", "confirm", "reopen"} =>
          managed # NoDir /\ (windows <=> start[s] = "reopen")

DirInit ==
    /\ windows \in BOOLEAN
    /\ managed \in {NoDir} \cup [maker : {Else}, kind : DirKind, secluded : BOOLEAN]
    /\ start = [s \in Starter |-> "look"]

-----------------------------------------------------------------------------
Step(s, p) == start' = [start EXCEPT ![s] = p]

Verdict == IF managed.kind = "own" /\ managed.secluded THEN "admitted" ELSE "refused"

\* What is found is validated, and never changed.
LookForDir(s) ==
    /\ start[s] = "look"
    /\ Step(s, IF managed = NoDir THEN "make" ELSE Verdict)
    /\ UNCHANGED <<windows, managed>>

\* A bug: whoever comes second is refused.
WinnerOnly == "refused"

\* What becomes of a run that finds the directory made meanwhile: on Unix
\* create, being recursive, takes whatever leads to a directory; on Windows it
\* is opened again.
Lost == IF windows THEN "reopen" ELSE "tighten"

\* On Windows the directory is made with its descriptor and validated through
\* the handle of its creation.
MakeDir(s) ==
    /\ start[s] = "make"
    /\ IF managed = NoDir
       THEN /\ managed' = [maker |-> s, kind |-> "own", secluded |-> TRUE]
            /\ Step(s, IF windows THEN "admitted" ELSE "tighten")
       ELSE Step(s, Lost) /\ UNCHANGED managed
    /\ UNCHANGED windows

\* set_permissions goes by the path: it follows a link, and fails on what
\* belongs to another user.
Tighten(s) ==
    /\ start[s] = "tighten"
    /\ IF managed.kind = "foreign"
       THEN Step(s, "failed") /\ UNCHANGED managed
       ELSE Step(s, "confirm") /\ managed' = [managed EXCEPT !.secluded = TRUE]
    /\ UNCHANGED windows

\* The same validation a directory that was there gets.
Reopen(s) ==
    /\ start[s] = "reopen"
    /\ Step(s, Verdict)
    /\ UNCHANGED <<windows, managed>>

\* A link that was taken for a directory is found out.
Confirm(s) ==
    /\ start[s] = "confirm"
    /\ Step(s, Verdict)
    /\ UNCHANGED <<windows, managed>>

\* Any call may fail for other reasons, and ends it.
DirFails(s) ==
    /\ start[s] \notin {"admitted", "refused", "failed"}
    /\ Step(s, "failed")
    /\ UNCHANGED <<windows, managed>>

ElseMakes ==
    /\ managed = NoDir
    /\ managed' \in [maker : {Else}, kind : DirKind, secluded : BOOLEAN]
    /\ UNCHANGED <<windows, start>>

DirNext ==
    \/ \E s \in Starter :
         \/ LookForDir(s) \/ MakeDir(s) \/ Tighten(s) \/ Reopen(s) \/ Confirm(s) \/ DirFails(s)
    \/ ElseMakes

DirSpec == DirInit /\ [][DirNext]_dirVars

-----------------------------------------------------------------------------
\* A run goes on only in a directory of its user that is private, whoever made
\* it, whatever came to the path between the look and the making of it, and
\* whichever run it lost the race to; and when no one but the runs made it,
\* none of them is refused (the comment in the AlreadyExists arm).
AdmittedIsPrivate ==
    \A s \in Starter :
        /\ start[s] = "admitted" =>
             managed # NoDir /\ managed.kind = "own" /\ managed.secluded
        /\ start[s] = "refused"  => managed # NoDir /\ managed.maker = Else

=============================================================================
