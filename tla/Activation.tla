----------------------------- MODULE Activation -----------------------------
(***************************************************************************)
(* The installation engine of relswap on Unix (src/src/install): the       *)
(* operations install_version, update, rollback, rollback_to and recover,  *)
(* each run by a process of its own over one shared installation root.     *)
(*                                                                         *)
(* What the processes share is the disk and one advisory file lock.  The   *)
(* disk is the command symlink (the pointer), the pending journal,         *)
(* install.json, the retained version directories and the staging          *)
(* directory.  Much is read BEFORE the lock is taken, so the steps below   *)
(* are cut where another process, a crash or the user can come between.    *)
(*                                                                         *)
(* A step that only prepares data nobody else can see (extracting the      *)
(* archive, writing version.json, the self test) is part of the step that  *)
(* publishes it.  Failing, being killed and returning an I/O error are one *)
(* action, Fail: each leaves the disk as it is and drops the lock.         *)
(***************************************************************************)
EXTENDS Naturals, FiniteSets

CONSTANTS
    Proc,       \* the processes that call the library
    Version,    \* release versions, ordered as numbers
    Id,         \* installation ids
    Sig,        \* the signed metadata a release may have been published with
    Published,  \* the versions, each with signed metadata, that can be fetched
    Tx,         \* staging transaction ids
    None,       \* an absent file or value
    UserFile,   \* the user's own regular file at the command path
    UserLink    \* the user's own symlink at the command path

UserCommand == {UserFile, UserLink}
VersionOrNone == Version \cup {None}
Retained == [id : Id, sig : Sig]
Pending  == [from : VersionOrNone, to : Version]
Install  == [active : VersionOrNone, previous : VersionOrNone, id : Id]

Ops == {"install", "update", "rollback", "rollbackTo", "recover"}
Returns == {"resolve", "unmanaged"}

ASSUME VersionAssumption == Version \subseteq Nat
ASSUME NoneAssumption ==
    /\ None \notin Version
    /\ None \notin Id \cup Sig \cup Tx \cup Proc
    /\ None \notin Ops \cup Returns
    /\ None \notin Retained \cup Pending \cup Install
ASSUME UserAssumption ==
    /\ UserCommand \cap VersionOrNone = {}
    /\ UserFile # UserLink

VARIABLES
    pointer,    \* what is at the command path: None, a version, or the user's
    pending,    \* pending.json
    install,    \* install.json
    versions,   \* the retained version directory of each version, or None
    staging,    \* transaction directories under staging/
    edited,     \* history: install.json was lost or blanked since last written
    late,       \* history: the user's command appeared after the ownership check
    lock,       \* the process that holds the file lock .lock
    pc,         \* where each process is
    op,         \* the operation it runs
    ret,        \* where recover_if_managed returns to
    tgt,        \* the version it is to activate
    sig,        \* the signed metadata it fetched for tgt
    from,       \* the current version as it last read it
    id,         \* the installation id it chose
    tx          \* its staging transaction

disk   == <<pointer, pending, install, versions, staging>>
aux    == <<edited, late>>
locals == <<op, ret, tgt, sig, from, id, tx>>
vars   == <<disk, aux, lock, pc, locals>>

\* The labels at which a process owns the lock, in the order of the code.
RecoveryPC   == {"recover", "unjournal", "clean"}
ActivationPC == {"locked", "prepare", "stage", "rename", "journal",
                 "switch", "relink", "describe", "commit", "finish"}
LockedPC     == RecoveryPC \cup ActivationPC
UnlockedPC   == {"idle", "probe", "lockExisting", "current", "described",
                 "fetch", "target", "unmanaged", "lockForMutation"}
PC           == LockedPC \cup UnlockedPC

\* From ensure_command_owned to the rename that replaces the command.
OwnedPC == {"stage", "rename", "journal", "switch", "relink"}

TypeOK ==
    /\ pointer \in VersionOrNone \cup UserCommand
    /\ pending \in Pending \cup {None}
    /\ install \in Install \cup {None}
    /\ versions \in [Version -> Retained \cup {None}]
    /\ staging \in SUBSET Tx
    /\ edited \in BOOLEAN
    /\ late \in BOOLEAN
    /\ lock \in Proc \cup {None}
    /\ pc \in [Proc -> PC]
    /\ op \in [Proc -> Ops \cup {None}]
    /\ ret \in [Proc -> Returns \cup {None}]
    /\ tgt \in [Proc -> VersionOrNone]
    /\ sig \in [Proc -> Sig \cup {None}]
    /\ from \in [Proc -> VersionOrNone]
    /\ id \in [Proc -> Id \cup {None}]
    /\ tx \in [Proc -> Tx \cup {None}]

Init ==
    /\ pointer \in {None} \cup UserCommand
    /\ pending = None
    /\ install = None
    /\ versions = [v \in Version |-> None]
    /\ staging = {}
    /\ edited = FALSE
    /\ late = FALSE
    /\ lock = None
    /\ pc   = [p \in Proc |-> "idle"]
    /\ op   = [p \in Proc |-> None]
    /\ ret  = [p \in Proc |-> None]
    /\ tgt  = [p \in Proc |-> None]
    /\ sig  = [p \in Proc |-> None]
    /\ from = [p \in Proc |-> None]
    /\ id   = [p \in Proc |-> None]
    /\ tx   = [p \in Proc |-> None]

-----------------------------------------------------------------------------
(* What the code reads from the disk.                                      *)

\* verify_final_version(v, Some(i)): the retained directory of v is whole and
\* belongs to installation i.
Verified(v, i) == versions[v] # None /\ versions[v].id = i

\* A bug: a command nobody manages is taken for ours.
CommandOwnedOrUnmanaged(active) ==
    \/ active = None \/ pointer = None
    \/ install # None /\ install.active = active /\ pointer = active

\* ensure_command_owned(active, install), on Unix.
CommandOwned(active) ==
    \/ pointer = None
    \/ /\ active # None
       /\ install # None
       /\ install.active = active
       /\ Verified(active, install.id)
       /\ pointer = active

\* choose_installation_id: the ids it may return for v; none where it fails.
RetainedIds == {versions[v].id : v \in {w \in Version : versions[w] # None}}

\* A bug: without install.json, always a new id.
FreshInstallationIds(v) == IF install # None THEN {install.id} ELSE Id

InstallationIds(v) ==
    IF install # None THEN {install.id}
    ELSE IF versions[v] # None THEN {versions[v].id}
    ELSE IF RetainedIds = {} THEN Id
    ELSE IF \E i \in Id : RetainedIds = {i} THEN RetainedIds
    ELSE {}

\* recover_locked's branches that return an error, the verify_final_version
\* calls of the repairs included.
RecoveryRefuses ==
    \/ pointer \in UserCommand
    \/ /\ pending # None
       /\ pointer = pending.to
       /\ \/ versions[pointer] = None
          \/ install # None /\ install.id # versions[pointer].id
    \/ pending # None /\ pointer \notin {pending.from, pending.to}
    \/ pending = None /\ pointer = None /\ install # None /\ install.active # None
    \/ pending = None /\ pointer \in Version /\ versions[pointer] = None

\* install.json describes the pointer and needs no repair.
Described ==
    /\ install # None
    /\ install.active = pointer
    /\ install.id = versions[pointer].id

-----------------------------------------------------------------------------
(* Control shared by the operations.                                       *)

Goto(p, label) == pc' = [pc EXCEPT ![p] = label]

\* The call returns, or dies: its locals are gone, and the lock with it.
Finish(p) ==
    /\ pc'   = [pc EXCEPT ![p] = "idle"]
    /\ op'   = [op EXCEPT ![p] = None]
    /\ ret'  = [ret EXCEPT ![p] = None]
    /\ tgt'  = [tgt EXCEPT ![p] = None]
    /\ sig'  = [sig EXCEPT ![p] = None]
    /\ from' = [from EXCEPT ![p] = None]
    /\ id'   = [id EXCEPT ![p] = None]
    /\ tx'   = [tx EXCEPT ![p] = None]
    /\ lock' = IF lock = p THEN None ELSE lock

\* recover_if_managed returns to its caller: to the start of the operation,
\* or to activate_download, which calls it a second time after the download.
RecoverReturn(p) ==
    IF op[p] = "recover"
    THEN Finish(p)
    ELSE /\ Goto(p, IF ret[p] = "unmanaged" THEN "unmanaged"
                    ELSE IF op[p] = "install" THEN "fetch"
                    ELSE "current")
         /\ ret' = [ret EXCEPT ![p] = None]
         /\ lock' = IF lock = p THEN None ELSE lock
         /\ UNCHANGED <<op, tgt, sig, from, id, tx>>

-----------------------------------------------------------------------------
(* A call begins.                                                          *)

Call(p, o, v) ==
    /\ pc[p] = "idle"
    /\ pc' = [pc EXCEPT ![p] = "probe"]
    /\ op' = [op EXCEPT ![p] = o]
    /\ tgt' = [tgt EXCEPT ![p] = v]
    /\ ret' = [ret EXCEPT ![p] = "resolve"]
    /\ UNCHANGED <<disk, aux, lock, sig, from, id, tx>>

\* install_version, rollback_to: the caller names the version.
CallExact(p) == \E o \in {"install", "rollbackTo"}, v \in Version : Call(p, o, v)

\* update, rollback, recover: no argument.
CallPlain(p) == \E o \in {"update", "rollback", "recover"} : Call(p, o, None)

-----------------------------------------------------------------------------
(* recover_if_managed and recover_locked.                                  *)

\* The unlocked probes.  Nothing there, or only a symlink that is not ours:
\* return without taking the lock.
RecoverProbe(p) ==
    /\ pc[p] = "probe"
    /\ IF install = None /\ pending = None /\ pointer \notin Version
       THEN RecoverReturn(p)
       ELSE /\ Goto(p, "lockExisting")
            /\ UNCHANGED <<lock, locals>>
    /\ UNCHANGED <<disk, aux>>

\* A bug: recovery does not wait for the lock.
RecoverUnlocked(p) ==
    /\ pc[p] = "lockExisting"
    /\ Goto(p, "recover")
    /\ UNCHANGED <<disk, aux, lock, locals>>

LockExisting(p) ==
    /\ pc[p] = "lockExisting"
    /\ lock = None
    /\ lock' = p
    /\ Goto(p, "recover")
    /\ UNCHANGED <<disk, aux, locals>>

RecoverRefused(p) ==
    /\ pc[p] = "recover"
    /\ RecoveryRefuses
    /\ Finish(p)
    /\ UNCHANGED <<disk, aux>>

\* A bug: a finished switch is taken for a finished activation.
RecoverForwardUnwritten(p) ==
    /\ pc[p] = "recover"
    /\ ~RecoveryRefuses
    /\ pending # None
    /\ pointer = pending.to
    /\ Goto(p, "unjournal")
    /\ UNCHANGED <<disk, aux, lock, locals>>

\* The pointer reached the journal's target: finish the activation.
RecoverForward(p) ==
    /\ pc[p] = "recover"
    /\ ~RecoveryRefuses
    /\ pending # None
    /\ pointer = pending.to
    /\ install' = [active |-> pending.to, previous |-> pending.from,
                   id |-> versions[pending.to].id]
    /\ edited' = FALSE
    /\ Goto(p, "unjournal")
    /\ UNCHANGED <<pointer, pending, versions, staging, late, lock, locals>>

\* The pointer is still the journal's source, or was absent and still is:
\* the activation never took effect.
RecoverBackward(p) ==
    /\ pc[p] = "recover"
    /\ ~RecoveryRefuses
    /\ pending # None
    /\ pointer = pending.from
    /\ Goto(p, "unjournal")
    /\ UNCHANGED <<disk, aux, lock, locals>>

RecoverUnjournal(p) ==
    /\ pc[p] = "unjournal"
    /\ pending' = None
    /\ Goto(p, "clean")
    /\ UNCHANGED <<pointer, install, versions, staging, aux, lock, locals>>

\* No journal: the pointer is authoritative and install.json is rewritten
\* from it.
RecoverRepair(p) ==
    /\ pc[p] = "recover"
    /\ ~RecoveryRefuses
    /\ pending = None
    /\ pointer \in Version
    /\ ~Described
    /\ LET i == versions[pointer].id
           old == IF install = None THEN None ELSE install.previous
           keep == old \in Version \ {pointer} /\ Verified(old, i)
       IN  install' = [active |-> pointer,
                       previous |-> IF keep THEN old ELSE None,
                       id |-> i]
    /\ edited' = FALSE
    /\ Goto(p, "clean")
    /\ UNCHANGED <<pointer, pending, versions, staging, late, lock, locals>>

RecoverConsistent(p) ==
    /\ pc[p] = "recover"
    /\ ~RecoveryRefuses
    /\ pending = None
    /\ pointer \in Version
    /\ Described
    /\ Goto(p, "clean")
    /\ UNCHANGED <<disk, aux, lock, locals>>

\* A bug: the early return keeps the lock.
RecoverNothingLocked(p) ==
    /\ pc[p] = "recover"
    /\ ~RecoveryRefuses
    /\ pending = None
    /\ pointer = None
    /\ Goto(p, IF ret[p] = "unmanaged" THEN "unmanaged"
               ELSE IF op[p] = "install" THEN "fetch" ELSE "current")
    /\ ret' = [ret EXCEPT ![p] = None]
    /\ UNCHANGED <<disk, aux, lock, op, tgt, sig, from, id, tx>>

\* Neither journal nor pointer: nothing managed, staging is left alone.
RecoverNothing(p) ==
    /\ pc[p] = "recover"
    /\ ~RecoveryRefuses
    /\ pending = None
    /\ pointer = None
    /\ RecoverReturn(p)
    /\ UNCHANGED <<disk, aux>>

\* sync_affected_parents, cleanup_staging, and the lock is dropped.
RecoverClean(p) ==
    /\ pc[p] = "clean"
    /\ staging' = {}
    /\ RecoverReturn(p)
    /\ UNCHANGED <<pointer, pending, install, versions, aux>>

-----------------------------------------------------------------------------
(* The unlocked part of update, rollback, rollback_to and install.         *)

\* require_managed_current reads the pointer first ...
RequirePointer(p) ==
    /\ pc[p] = "current"
    /\ IF pointer \in Version
       THEN /\ from' = [from EXCEPT ![p] = pointer]
            /\ Goto(p, "described")
            /\ UNCHANGED <<lock, op, ret, tgt, sig, id, tx>>
       ELSE Finish(p)
    /\ UNCHANGED <<disk, aux>>

\* ... and install.json, the version directory and the command after it.
RequireDescribed(p) ==
    /\ pc[p] = "described"
    /\ IF /\ install # None
          /\ install.active = from[p]
          /\ Verified(from[p], install.id)
          /\ CommandOwned(from[p])
       THEN /\ Goto(p, IF op[p] = "update" THEN "fetch" ELSE "target")
            /\ UNCHANGED <<lock, locals>>
       ELSE Finish(p)
    /\ UNCHANGED <<disk, aux>>

\* install_version: fetch the exact release, then activate_download.
FetchExact(p) ==
    /\ pc[p] = "fetch"
    /\ op[p] = "install"
    /\ \E s \in Sig :
         /\ <<tgt[p], s>> \in Published
         /\ sig' = [sig EXCEPT ![p] = s]
    /\ ret' = [ret EXCEPT ![p] = "unmanaged"]
    /\ Goto(p, "probe")
    /\ UNCHANGED <<disk, aux, lock, op, tgt, from, id, tx>>

\* update: the latest release may be any; only a newer one is downloaded.
FetchLatest(p) ==
    /\ pc[p] = "fetch"
    /\ op[p] = "update"
    /\ \E v \in Version, s \in Sig :
         /\ <<v, s>> \in Published
         /\ IF v > from[p]
            THEN /\ tgt' = [tgt EXCEPT ![p] = v]
                 /\ sig' = [sig EXCEPT ![p] = s]
                 /\ ret' = [ret EXCEPT ![p] = "unmanaged"]
                 /\ from' = [from EXCEPT ![p] = None]
                 /\ Goto(p, "probe")
                 /\ UNCHANGED <<lock, op, id, tx>>
            ELSE Finish(p)
    /\ UNCHANGED <<disk, aux>>

\* rollback reads install.json again for its target; rollback_to was given one.
PickTarget(p) ==
    /\ pc[p] = "target"
    /\ LET v == IF op[p] = "rollbackTo" THEN tgt[p]
                ELSE IF install = None THEN None ELSE install.previous
       IN  IF v \in Version /\ v < from[p]
           THEN /\ tgt' = [tgt EXCEPT ![p] = v]
                /\ from' = [from EXCEPT ![p] = None]
                /\ Goto(p, "lockForMutation")
                /\ UNCHANGED <<lock, op, ret, sig, id, tx>>
           ELSE Finish(p)
    /\ UNCHANGED <<disk, aux>>

\* activate_download refuses a command without install.json, still unlocked.
RefuseUnmanaged(p) ==
    /\ pc[p] = "unmanaged"
    /\ IF pointer # None /\ install = None
       THEN Finish(p)
       ELSE /\ Goto(p, "lockForMutation")
            /\ UNCHANGED <<lock, locals>>
    /\ UNCHANGED <<disk, aux>>

LockForMutation(p) ==
    /\ pc[p] = "lockForMutation"
    /\ lock = None
    /\ lock' = p
    /\ Goto(p, "locked")
    /\ UNCHANGED <<disk, aux, locals>>

-----------------------------------------------------------------------------
(* activate_download_locked, activate_existing_locked and                  *)
(* activate_pointer_and_state: the steps under the lock.                   *)

Downloads(p) == op[p] \in {"install", "update"}

\* A bug: update's check of the version before the lock is thought enough.
NeverTooOld(p) == FALSE

\* A managed installation refuses an older release, and leaves the one it has.
NotNewer(p) ==
    /\ install # None
    /\ pointer \in Version
    /\ tgt[p] <= pointer

DownloadLocked(p) ==
    /\ pc[p] = "locked"
    /\ Downloads(p)
    /\ IF pointer \in UserCommand \/ NotNewer(p)
       THEN Finish(p)
       ELSE /\ from' = [from EXCEPT ![p] = pointer]
            /\ Goto(p, "prepare")
            /\ UNCHANGED <<lock, op, ret, tgt, sig, id, tx>>
    /\ UNCHANGED <<disk, aux>>

\* A bug: a retained release that was signed again is refreshed in place.
PrepareVersionRefreshed(p) ==
    /\ pc[p] = "prepare"
    /\ \E i \in InstallationIds(tgt[p]) :
         /\ CommandOwned(from[p])
         /\ id' = [id EXCEPT ![p] = i]
         /\ IF versions[tgt[p]] = None
            THEN Goto(p, "stage") /\ UNCHANGED versions
            ELSE /\ Goto(p, "journal")
                 /\ versions' = [versions EXCEPT ![tgt[p]] = [id |-> i, sig |-> sig[p]]]
    /\ staging' = {}
    /\ UNCHANGED <<pointer, pending, install, aux, lock, op, ret, tgt, sig, from, tx>>

\* choose_installation_id, cleanup_staging, ensure_command_owned, and the
\* check of a version directory that is already there.
PrepareVersion(p) ==
    /\ pc[p] = "prepare"
    /\ \/ /\ InstallationIds(tgt[p]) = {}
          /\ Finish(p)
          /\ UNCHANGED staging
       \/ \E i \in InstallationIds(tgt[p]) :
            /\ staging' = IF from[p] # None \/ pointer = None THEN {} ELSE staging
            /\ IF /\ CommandOwned(from[p])
                  /\ versions[tgt[p]] \in {None, [id |-> i, sig |-> sig[p]]}
               THEN /\ id' = [id EXCEPT ![p] = i]
                    /\ Goto(p, IF versions[tgt[p]] = None THEN "stage" ELSE "journal")
                    /\ UNCHANGED <<lock, op, ret, tgt, sig, from, tx>>
               ELSE Finish(p)
    /\ UNCHANGED <<pointer, pending, install, versions, aux>>

\* A bug: the journal is written before the directory is in place.
StageVersionOnly(p) ==
    /\ pc[p] = "stage"
    /\ \E t \in Tx \ staging :
         /\ staging' = staging \cup {t}
         /\ tx' = [tx EXCEPT ![p] = t]
    /\ Goto(p, "journal")
    /\ UNCHANGED <<pointer, pending, install, versions, aux, lock,
                   op, ret, tgt, sig, from, id>>

\* create_transaction, write_downloaded_version, verify and sync.
StageVersion(p) ==
    /\ pc[p] = "stage"
    /\ \E t \in Tx \ staging :
         /\ staging' = staging \cup {t}
         /\ tx' = [tx EXCEPT ![p] = t]
    /\ Goto(p, "rename")
    /\ UNCHANGED <<pointer, pending, install, versions, aux, lock,
                   op, ret, tgt, sig, from, id>>

\* rename_new: the verified directory becomes the retained one.
RenameVersion(p) ==
    /\ pc[p] = "rename"
    /\ IF versions[tgt[p]] # None
       THEN /\ Finish(p)
            /\ UNCHANGED versions
       ELSE /\ versions' = [versions EXCEPT ![tgt[p]] = [id |-> id[p], sig |-> sig[p]]]
            /\ Goto(p, "journal")
            /\ UNCHANGED <<lock, locals>>
    /\ UNCHANGED <<pointer, pending, install, staging, aux>>

\* activate_existing_locked: the retained target of a rollback.
ExistingLocked(p) ==
    /\ pc[p] = "locked"
    /\ ~Downloads(p)
    /\ IF /\ install # None
          /\ pointer \in Version
          /\ tgt[p] < pointer
          /\ CommandOwned(pointer)
          /\ Verified(tgt[p], install.id)
       THEN /\ from' = [from EXCEPT ![p] = pointer]
            /\ id' = [id EXCEPT ![p] = install.id]
            /\ Goto(p, "journal")
            /\ UNCHANGED <<lock, op, ret, tgt, sig, tx>>
       ELSE Finish(p)
    /\ UNCHANGED <<disk, aux>>

\* run_self_test passed (if it fails, see Fail); write_pending.
WritePending(p) ==
    /\ pc[p] = "journal"
    /\ pending' = [from |-> from[p], to |-> tgt[p]]
    /\ Goto(p, "switch")
    /\ UNCHANGED <<pointer, install, versions, staging, aux, lock, locals>>

\* atomic_switch_symlink looks before it replaces ...
SwitchCheck(p) ==
    /\ pc[p] = "switch"
    /\ IF pointer = UserFile
       THEN Finish(p)
       ELSE /\ Goto(p, "relink")
            /\ UNCHANGED <<lock, locals>>
    /\ UNCHANGED <<disk, aux>>

\* A bug: the old symlink is removed before the new one is made.
SwitchByUnlink(p) ==
    /\ pc[p] = "relink"
    /\ IF pointer = None
       THEN pointer' = tgt[p] /\ Goto(p, "describe")
       ELSE pointer' = None /\ UNCHANGED pc
    /\ late' = FALSE
    /\ UNCHANGED <<pending, install, versions, staging, edited, lock, locals>>

\* ... and renames a new symlink over whatever is there.
SwitchPointer(p) ==
    /\ pc[p] = "relink"
    /\ pointer' = tgt[p]
    /\ late' = FALSE
    /\ Goto(p, "describe")
    /\ UNCHANGED <<pending, install, versions, staging, edited, lock, locals>>

\* A bug: previous is kept from the document that is replaced.
WriteInstallKeeping(p) ==
    /\ pc[p] = "describe"
    /\ install' = [active |-> tgt[p],
                   previous |-> IF install = None THEN None ELSE install.previous,
                   id |-> id[p]]
    /\ edited' = FALSE
    /\ Goto(p, "commit")
    /\ UNCHANGED <<pointer, pending, versions, staging, late, lock, locals>>

WriteInstall(p) ==
    /\ pc[p] = "describe"
    /\ install' = [active |-> tgt[p], previous |-> from[p], id |-> id[p]]
    /\ edited' = FALSE
    /\ Goto(p, "commit")
    /\ UNCHANGED <<pointer, pending, versions, staging, late, lock, locals>>

RemovePending(p) ==
    /\ pc[p] = "commit"
    /\ pending' = None
    /\ Goto(p, "finish")
    /\ UNCHANGED <<pointer, install, versions, staging, aux, lock, locals>>

\* remove_transaction_after_rename, sync_affected_parents, unlock.
FinishActivation(p) ==
    /\ pc[p] = "finish"
    /\ staging' = staging \ {tx[p]}
    /\ Finish(p)
    /\ UNCHANGED <<pointer, pending, install, versions, aux>>

-----------------------------------------------------------------------------
(* Failures, and the user.                                                 *)

\* An I/O error, a failed download or self test, an injected fault, or the
\* death of the process, between any two steps.
Fail(p) ==
    /\ pc[p] # "idle"
    /\ Finish(p)
    /\ UNCHANGED <<disk, aux>>

\* The user puts a command of their own where none is, at any time.
UserCreatesCommand ==
    /\ pointer = None
    /\ pointer' \in UserCommand
    /\ late' = \E p \in Proc : pc[p] \in OwnedPC
    /\ UNCHANGED <<pending, install, versions, staging, edited, lock, pc, locals>>

UserRemovesCommand ==
    /\ pointer \in UserCommand
    /\ pointer' = None
    /\ late' = FALSE
    /\ UNCHANGED <<pending, install, versions, staging, edited, lock, pc, locals>>

\* install.json is deleted, or blanked as in the test
\* valid_pointer_repairs_disagreeing_descriptive_metadata, while no one works.
InstallLost ==
    /\ lock = None
    /\ install # None
    /\ install' \in {None, [install EXCEPT !.active = None, !.previous = None]}
    /\ edited' = TRUE
    /\ UNCHANGED <<pointer, pending, versions, staging, late, lock, pc, locals>>

-----------------------------------------------------------------------------
Recovery(p) ==
    \/ RecoverProbe(p)
    \/ RecoverRefused(p)
    \/ RecoverForward(p)
    \/ RecoverBackward(p)
    \/ RecoverUnjournal(p)
    \/ RecoverRepair(p)
    \/ RecoverConsistent(p)
    \/ RecoverNothing(p)
    \/ RecoverClean(p)

Preparation(p) ==
    \/ RequirePointer(p)
    \/ RequireDescribed(p)
    \/ FetchExact(p)
    \/ FetchLatest(p)
    \/ PickTarget(p)
    \/ RefuseUnmanaged(p)

Activation(p) ==
    \/ DownloadLocked(p)
    \/ PrepareVersion(p)
    \/ StageVersion(p)
    \/ RenameVersion(p)
    \/ ExistingLocked(p)
    \/ WritePending(p)
    \/ SwitchCheck(p)
    \/ SwitchPointer(p)
    \/ WriteInstall(p)
    \/ RemovePending(p)
    \/ FinishActivation(p)

Work(p) == Recovery(p) \/ Preparation(p) \/ Activation(p)
Acquire(p) == LockExisting(p) \/ LockForMutation(p)

Environment == UserCreatesCommand \/ UserRemovesCommand \/ InstallLost

Next ==
    \/ \E p \in Proc : \/ CallExact(p)
                       \/ CallPlain(p)
                       \/ Work(p)
                       \/ Acquire(p)
                       \/ Fail(p)
    \/ Environment

Spec == Init /\ [][Next]_vars

\* A process that is not failing keeps going, and a process that waits for
\* the lock is not passed over for ever: flock(2) waiters are queued.
Fairness == \A p \in Proc : WF_vars(Work(p)) /\ SF_vars(Acquire(p))

FairSpec == Spec /\ Fairness

-----------------------------------------------------------------------------
(* Safety.                                                                 *)

\* pending.json always accounts for the pointer, whoever crashed where and
\* whoever overwrote an earlier journal (activate_pointer_and_state runs
\* without a recovery under its own lock): recover_locked can tell on which
\* side of the switch the activation stopped.
PendingExplainsPointer ==
    pending # None =>
        \/ pointer \in {pending.from, pending.to}
        \/ pending.from = None /\ pointer \in UserCommand

\* The error branches of recover_locked are dead code after any sequence of
\* crashes: only a command of the user's own can make recovery fail.
RecoveryNeverRefuses == pointer \notin UserCommand => ~RecoveryRefuses

\* Whatever the command, the journal or install.json names is a version
\* directory that was renamed into place before it was named.
NamedVersionsRetained ==
    /\ pointer \in Version => versions[pointer] # None
    /\ pending # None =>
         \A v \in {pending.from, pending.to} \ {None} : versions[v] # None
    /\ install # None =>
         \A v \in {install.active, install.previous} \ {None} : versions[v] # None

\* However many installs crashed before install.json existed, everything
\* retained carries one installation id: choose_installation_id finds it again.
OneInstallation ==
    /\ \A v, w \in Version :
         versions[v] # None /\ versions[w] # None => versions[v].id = versions[w].id
    /\ install # None =>
         \A v \in Version : versions[v] # None => versions[v].id = install.id

\* Without a journal, install.json describes the command, unless somebody
\* edited it; with one that was carried out, it is the old or the new document.
InstallDescribesPointer ==
    /\ pending = None /\ pointer \in Version /\ ~edited =>
         install # None /\ install.active = pointer
    /\ pending # None /\ pointer = pending.to /\ install # None =>
         \/ install.active = pending.to /\ install.previous = pending.from
         \/ install.active \in {pending.from, None}

\* cleanup_staging never takes a transaction somebody is still working on,
\* and runs often enough that dead ones do not pile up.
StagingKept ==
    /\ \A p \in Proc : tx[p] # None => tx[p] \in staging
    /\ Cardinality(staging) <= 1

-----------------------------------------------------------------------------
(* What a step may never do.                                               *)

\* install and update only ever move the command up, rollback and rollback_to
\* only down, by what is active when the lock is held and not by the version
\* that was read before it.
DirectionKept ==
    [][(pointer \in Version /\ pointer' \in Version \ {pointer}) =>
         \E p \in Proc :
             /\ pc[p] = "relink"
             /\ IF Downloads(p) THEN pointer < pointer' ELSE pointer' < pointer]_vars

\* A retained version directory never changes again: neither its payload's
\* signed metadata nor its installation id.
RetainedImmutable ==
    [][\A v \in Version : versions[v] # None => versions'[v] = versions[v]]_vars

\* A command of the user's own is replaced only if it appeared after the
\* ownership check of the activation that replaces it.
UserCommandKept ==
    [][(pointer \in UserCommand /\ pointer' \in Version) => late]_vars

\* The documentation of rollback: where install.json names a previous version,
\* the command goes back to that one.
RollbackGoesToPrevious ==
    [][\A p \in Proc :
         (/\ pc[p] = "relink" /\ op[p] = "rollback"
          /\ pointer' # pointer /\ install.previous # None)
             => pointer' = install.previous]_vars

-----------------------------------------------------------------------------
(* Progress.                                                               *)

\* Every call returns: no process waits for ever for another's lock.
CallsReturn == \A p \in Proc : pc[p] # "idle" ~> pc[p] = "idle"

-----------------------------------------------------------------------------
(* The two-field selector the disk stands for.  Until the journal's pointer *)
(* switch has happened the old record counts; from then on the journal is   *)
(* the record, whatever install.json still says.                            *)

Current == IF pointer \in Version THEN pointer ELSE None

Previous ==
    IF pending # None /\ pointer = pending.to THEN pending.from
    ELSE IF install = None THEN None
    ELSE install.previous

Selector == INSTANCE Selector WITH
    current <- Current,
    previous <- Previous,
    retained <- {v \in Version : versions[v] # None}

\* Every crash point and every recovery of the detailed protocol is a step of
\* the selector or no step at all.
ImplementsSelector == Selector!Spec

=============================================================================
