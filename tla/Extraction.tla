----------------------------- MODULE Extraction -----------------------------
(***************************************************************************)
(* extract_archive (src/src/release/archive.rs): an archive is inspected   *)
(* as in ArchiveScan, and the files found are created in a directory that  *)
(* is held open, while others may move the directory away and create or    *)
(* remove files of the same names.  A failure undoes what was done.        *)
(***************************************************************************)
EXTENDS ArchiveScan

CONSTANTS
    Dir,        \* directories, as inodes
    MaxMeddled  \* bound: what others do

Name == {"payload", "launcher"}
Ours == {"partial", "whole"}

ASSUME DirAssumption == None \notin Dir \cup Ours \cup {"other"} /\ MaxMeddled \in Nat

VARIABLES
    step,       \* where extract_archive is
    dest,       \* the directory the destination's path names, or None
    handle,     \* destination_handle, or None
    name,       \* the file it is about
    file,       \* the files of the directories: of ours, another's, or None
    stuck,      \* history: the files whose removal failed
    taken,      \* history: files of ours that others removed
    meddled     \* how often others did something

outputs == <<handle, file, stuck, taken>>
others == <<dest, taken, meddled>>
extractVars == <<step, dest, handle, name, file, stuck, taken, meddled>>

ExtractTypeOK ==
    /\ TypeOK
    /\ step \in {"inspect", "create", "fill", "unlink", "undo", "identify", "clean", "done", "failed"}
    /\ dest \in Dir \cup {None}
    /\ handle \in Dir \cup {None}
    /\ name \in Name
    /\ file \in [Dir -> [Name -> Ours \cup {"other", None}]]
    /\ stuck \subseteq Name
    /\ taken \subseteq Dir \X Name
    /\ meddled \in 0..MaxMeddled

ExtractInit ==
    /\ Init
    /\ step = "inspect"
    /\ dest \in Dir
    /\ handle = None
    /\ name = "payload"
    /\ file = [d \in Dir |-> [n \in Name |-> None]]
    /\ stuck = {} /\ taken = {}
    /\ meddled = 0

-----------------------------------------------------------------------------
Inspect == at \in {"scan", "accepted"} /\ (Next \/ Return) /\ UNCHANGED extractVars

\* The directory is opened once; all that follows is relative to it.
Open ==
    /\ step = "inspect" /\ at = "returned"
    /\ \/ dest # None /\ handle' = dest /\ step' = "create"
       \/ handle' = handle /\ step' = "failed"
    /\ UNCHANGED <<vars, others, name, file, stuck>>

\* A bug: the file that failed is removed as well.
AbandonBoth == step' = IF name = "launcher" THEN "clean" ELSE "failed"

\* A bug: the payload stays.
AbandonPayload == step' = "failed"

\* One file could not be written.
Abandon == step' = IF name = "launcher" THEN "undo" ELSE "failed"

\* openat with O_EXCL.
Create ==
    /\ step = "create"
    /\ \/ /\ file[handle][name] = None
          /\ file' = [file EXCEPT ![handle][name] = "partial"]
          /\ step' = "fill"
       \/ /\ Abandon
          /\ UNCHANGED file
    /\ UNCHANGED <<vars, others, name, handle, stuck>>

\* Writing goes to the open file, wherever its name is by now.
Filled == [file EXCEPT ![handle][name] = IF @ = "partial" THEN "whole" ELSE @]

Fill ==
    /\ step = "fill"
    /\ file' = Filled
    /\ IF name = "payload" /\ "launcher" \in found
       THEN name' = "launcher" /\ step' = "create"
       ELSE step' = "identify" /\ UNCHANGED name
    /\ UNCHANGED <<vars, others, handle, stuck>>

\* Written in part or whole, and then an error.
FillFails ==
    /\ step = "fill"
    /\ file' \in {file, Filled}
    /\ step' = "unlink"
    /\ UNCHANGED <<vars, others, name, handle, stuck>>

\* unlinkat, which goes by the name; or it fails.
Remove(n) ==
    \/ /\ file[handle][n] # None
       /\ file' = [file EXCEPT ![handle][n] = None]
       /\ UNCHANGED stuck
    \/ /\ stuck' = stuck \cup {n}
       /\ UNCHANGED file

\* create_new_file_at undoes itself.
Unlink ==
    /\ step = "unlink"
    /\ Remove(name)
    /\ Abandon
    /\ UNCHANGED <<vars, others, name, handle>>

Undo ==
    /\ step = "undo"
    /\ Remove("payload")
    /\ step' = "failed"
    /\ UNCHANGED <<vars, others, name, handle>>

\* path_still_identifies_directory
Identified == dest = handle

Identify ==
    /\ step = "identify"
    /\ \/ Identified /\ step' = "done"
       \/ step' = "clean"       \* another directory, none, or it cannot be opened
    /\ UNCHANGED <<vars, others, name, handle, file, stuck>>

\* The launcher first, if there is one, and then the payload, whatever came
\* of the launcher.
Clean ==
    /\ step = "clean"
    /\ Remove(name)
    /\ IF name = "launcher"
       THEN name' = "payload" /\ UNCHANGED step
       ELSE step' = "failed" /\ UNCHANGED name
    /\ UNCHANGED <<vars, others, handle>>

-----------------------------------------------------------------------------
(* Others: a user, or another extraction into the same place.              *)

Meddle ==
    /\ at = "returned" /\ step \notin {"done", "failed"}
    /\ meddled < MaxMeddled
    /\ meddled' = meddled + 1
    /\ UNCHANGED <<vars, step, handle, name, stuck>>

OthersMove(d) ==
    /\ Meddle
    /\ d # dest /\ dest' = d
    /\ UNCHANGED <<file, taken>>

OthersCreate(d, n) ==
    /\ Meddle
    /\ file[d][n] = None
    /\ file' = [file EXCEPT ![d][n] = "other"]
    /\ UNCHANGED <<dest, taken>>

OthersRemove(d, n) ==
    /\ Meddle
    /\ file[d][n] # None
    /\ file' = [file EXCEPT ![d][n] = None]
    /\ taken' = IF file[d][n] \in Ours THEN taken \cup {<<d, n>>} ELSE taken
    /\ UNCHANGED dest

ExtractNext ==
    \/ Inspect
    \/ Open \/ Create \/ Fill \/ FillFails \/ Unlink \/ Undo \/ Identify \/ Clean
    \/ \E d \in Dir \cup {None} : OthersMove(d)
    \/ \E d \in Dir, n \in Name : OthersCreate(d, n) \/ OthersRemove(d, n)

ExtractSpec == ExtractInit /\ [][ExtractNext]_<<vars, extractVars>>

-----------------------------------------------------------------------------
\* An extraction that fails leaves nothing behind, in whatever directory, but
\* what it tried to remove and could not; whichever file failed, at whichever
\* point, and wherever the directory was moved to.
FailedLeavesNothing ==
    step = "failed" =>
        \A d \in Dir, n \in Name :
            file[d][n] \in Ours => d = handle /\ n \in stuck

\* When it succeeds, the path it was given names the directory that holds
\* what it found, whole, unless others have taken it away since.
SucceedsInPlace ==
    step = "done" =>
        /\ dest # None
        /\ \A n \in found : file[dest][n] = "whole" \/ <<dest, n>> \in taken
        /\ \A n \in Name \ found : file[dest][n] \notin Ours

\* An extraction is whole and in place, or nothing is left of it
\* (extract_archive).
AllOrNothing == FailedLeavesNothing /\ SucceedsInPlace

\* Another's file is never replaced, nor removed in the clean-up, unless it
\* came in place of one of ours.
OthersKept ==
    [][\A d \in Dir, n \in Name :
          file[d][n] = "other" /\ file'[d][n] # "other" =>
              meddled' # meddled \/ <<d, n>> \in taken]_<<vars, extractVars>>

=============================================================================
