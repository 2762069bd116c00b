----------------------------- MODULE Durability -----------------------------
(***************************************************************************)
(* Activation on a disk that can lose power.  What a process writes is     *)
(* visible to every process at once, but survives a power loss for certain *)
(* only after the directory that holds the entry has been synced.  Until   *)
(* then the entry may come back as any of the values it has had since the  *)
(* last sync, whatever happened to other entries.                          *)
(*                                                                         *)
(* Each action of Activation that changes an entry is followed by the      *)
(* sync_dir calls the code makes after it, one step each, in their order.  *)
(* The contents of a file are synced before the rename that publishes it,  *)
(* and are always whole.  The directories themselves are taken to exist.   *)
(***************************************************************************)
EXTENDS Activation, Sequences

CONSTANT
    LeftUnsynced    \* the entries that who dies, or fails to sync, may leave unsynced

Entry == {"pointer", "pending", "install", "versions"}

ASSUME LeftUnsyncedAssumption == LeftUnsynced \subseteq Entry

VARIABLES
    survivors,  \* what each entry may hold after a power loss
    syncing     \* the directories each process has still to sync, in order

dvars == <<vars, survivors, syncing>>

\* The parents of the entries: the installation root has pending.json and
\* install.json, versions/ the retained versions, the third the command.
Dirs == {"root", "versions", "command"}
AffectedParents == <<"root", "versions", "command">>

Written == [pointer |-> pointer, pending |-> pending,
            install |-> install, versions |-> versions]

Certain(w) ==
    [pointer |-> {w.pointer}, pending |-> {w.pending}, install |-> {w.install},
     versions |-> [v \in Version |-> {w.versions[v]}]]

DTypeOK ==
    /\ survivors \in [pointer : SUBSET (VersionOrNone \cup UserCommand),
                      pending : SUBSET (Pending \cup {None}),
                      install : SUBSET (Install \cup {None}),
                      versions : [Version -> SUBSET (Retained \cup {None})]]
    /\ syncing \in [Proc -> Seq(Dirs)]
    /\ \A p \in Proc : syncing[p] # <<>> => lock = p

DInit ==
    /\ Init
    /\ survivors = Certain(Written)
    /\ syncing = [p \in Proc |-> <<>>]

\* What is written now may survive, and so may what it replaced.
Dirty ==
    survivors' =
        [pointer |-> survivors.pointer \cup {pointer'},
         pending |-> survivors.pending \cup {pending'},
         install |-> survivors.install \cup {install'},
         versions |-> [v \in Version |-> survivors.versions[v] \cup {versions'[v]}]]

Then(p, dirs) ==
    /\ syncing' = [syncing EXCEPT ![p] = dirs]
    /\ Dirty

-----------------------------------------------------------------------------
(* The steps of Activation and the syncs that follow them.                 *)

\* atomic_replace_file_with_mode syncs the parent of the document.
ReplaceFile(p) ==
    /\ RecoverForward(p) \/ WritePending(p) \/ WriteInstall(p)
    /\ Then(p, <<"root">>)

\* A bug: the parent of the command is left to sync_affected_parents.
SwitchSymlinkUnsynced(p) ==
    /\ SwitchPointer(p)
    /\ Then(p, <<>>)

\* atomic_switch_symlink syncs the parent of the command.
SwitchSymlink(p) ==
    /\ SwitchPointer(p)
    /\ Then(p, <<"command">>)

\* A bug: the rename of the version directory is not synced.
RenameNewUnsynced(p) ==
    /\ RenameVersion(p)
    /\ Then(p, <<>>)

\* rename_new syncs the parent the directory has come to.
RenameNew(p) ==
    /\ RenameVersion(p)
    /\ Then(p, IF versions' = versions THEN <<>> ELSE <<"versions">>)

\* A bug: sync_affected_parents is left out.
RemoveFileUnsynced(p) ==
    /\ RecoverUnjournal(p) \/ RemovePending(p)
    /\ Then(p, <<>>)

\* remove_pending leaves the sync to the sync_affected_parents that follows.
RemoveFile(p) ==
    /\ RecoverUnjournal(p) \/ RemovePending(p)
    /\ Then(p, AffectedParents)

\* A repair writes install.json and syncs all the parents.
RepairFile(p) ==
    /\ RecoverRepair(p)
    /\ Then(p, <<"root">> \o AffectedParents)

\* Everything else leaves the four files as they are.
Quiet(p) ==
    /\ \/ CallExact(p) \/ CallPlain(p) \/ Preparation(p) \/ Acquire(p)
       \/ RecoverProbe(p) \/ RecoverRefused(p) \/ RecoverBackward(p)
       \/ RecoverConsistent(p) \/ RecoverNothing(p) \/ RecoverClean(p)
       \/ DownloadLocked(p) \/ PrepareVersion(p) \/ StageVersion(p)
       \/ ExistingLocked(p) \/ SwitchCheck(p) \/ FinishActivation(p)
    /\ UNCHANGED <<survivors, syncing>>

Step(p) ==
    /\ syncing[p] = <<>>
    /\ \/ ReplaceFile(p)
       \/ SwitchSymlink(p)
       \/ RenameNew(p)
       \/ RemoveFile(p)
       \/ RepairFile(p)
       \/ Quiet(p)

SyncDir(p) ==
    /\ syncing[p] # <<>>
    /\ syncing' = [syncing EXCEPT ![p] = Tail(@)]
    /\ LET d == Head(syncing[p])
           now == Certain(Written)
       IN  survivors' =
             [pointer  |-> IF d = "command" THEN now.pointer ELSE survivors.pointer,
              pending  |-> IF d = "root" THEN now.pending ELSE survivors.pending,
              install  |-> IF d = "root" THEN now.install ELSE survivors.install,
              versions |-> IF d = "versions" THEN now.versions ELSE survivors.versions]
    /\ UNCHANGED vars

\* The entries of which another value than the written one may survive.
AtRisk == {e \in Entry : survivors[e] # Certain(Written)[e]}

\* A process dies, or returns an error, between any two steps: before, between
\* and after the syncs that are to come, or because one of them fails.
Die(p) ==
    /\ Fail(p)
    /\ syncing[p] # <<>> => AtRisk \subseteq LeftUnsynced
    /\ syncing' = [syncing EXCEPT ![p] = <<>>]
    /\ UNCHANGED survivors

\* Every process is gone, and each entry is one of its survivors.
PowerLoss ==
    /\ pointer' \in survivors.pointer
    /\ pending' \in survivors.pending
    /\ install' \in survivors.install
    /\ \E f \in [Version -> UNION {survivors.versions[v] : v \in Version}] :
         /\ \A v \in Version : f[v] \in survivors.versions[v]
         /\ versions' = f
    /\ survivors' = Certain(Written)'
    /\ syncing' = [p \in Proc |-> <<>>]
    /\ staging' \in SUBSET staging
    /\ lock' = None
    /\ pc'   = [p \in Proc |-> "idle"]
    /\ op'   = [p \in Proc |-> None]
    /\ ret'  = [p \in Proc |-> None]
    /\ tgt'  = [p \in Proc |-> None]
    /\ sig'  = [p \in Proc |-> None]
    /\ from' = [p \in Proc |-> None]
    /\ id'   = [p \in Proc |-> None]
    /\ tx'   = [p \in Proc |-> None]
    /\ UNCHANGED aux

DNext ==
    \/ \E p \in Proc : Step(p) \/ SyncDir(p) \/ Die(p)
    \/ PowerLoss

DSpec == DInit /\ [][DNext]_dvars

-----------------------------------------------------------------------------
\* What Activation keeps over crashes of processes it keeps over power losses
\* as well: whatever mixture of old and new entries comes back, the journal
\* accounts for the pointer, what is named is retained, install.json is right
\* and recovery does not refuse (the sync_dir after each rename).
SurvivesPowerLoss ==
    /\ PendingExplainsPointer
    /\ NamedVersionsRetained
    /\ InstallDescribesPointer
    /\ RecoveryNeverRefuses

\* What a returned activation has done is there after any power loss.
Committed ==
    \A p \in Proc : pc[p] = "finish" /\ syncing[p] = <<>> =>
        survivors = Certain(Written)

-----------------------------------------------------------------------------
(* The disk that comes back at worst: the command and the retained versions *)
(* as they were before the write that is not certain yet.  Which journal    *)
(* and which install.json come back is the same to who reads the selector.  *)

Earlier(values, now) == CHOOSE x \in values : values = {x, now}

AtWorst == INSTANCE Activation WITH
    pointer <- Earlier(survivors.pointer, pointer),
    versions <- [v \in Version |-> Earlier(survivors.versions[v], versions[v])]

DurableSelector == INSTANCE DurableSelector WITH
    current <- Current,
    previous <- Previous,
    retained <- {v \in Version : versions[v] # None},
    durable <- AtWorst!Selector!selector

\* A power loss takes back the last change of the selector or nothing, never
\* half of one or two of them: each write of an activation, and of its
\* recovery, is synced before the next.
ImplementsDurableSelector == DurableSelector!DurableSpec

=============================================================================
