---------------------------- MODULE ActivationInv ----------------------------
(***************************************************************************)
(* The inductive invariant of Activation, in named parts: what TLC checks  *)
(* on the small instances and ActivationProofs proves of every instance.   *)
(***************************************************************************)
EXTENDS Activation

-----------------------------------------------------------------------------
(* The locals of a process, by where it is.                                *)

\* The lock has one owner, which is exactly the process in a locked section.
LockOwned == \A p \in Proc : (lock = p) <=> (pc[p] \in LockedPC)

\* From the second recovery on, a download has its version and metadata.
Resolved(p) ==
    /\ tgt[p] \in Version
    /\ Downloads(p) => sig[p] \in Sig

LocalsOK == \A p \in Proc :
    /\ pc[p] # "idle" => op[p] \in Ops
    /\ op[p] \in {"install", "rollbackTo"} => tgt[p] \in Version
    /\ ret[p] = "unmanaged" => Downloads(p) /\ Resolved(p)
    /\ pc[p] = "unmanaged" => Downloads(p) /\ Resolved(p)
    /\ pc[p] \in ActivationPC \cup {"lockForMutation"} =>
         op[p] # "recover" /\ Resolved(p)
    /\ pc[p] \in {"prepare", "stage", "rename"} => Downloads(p)
    /\ pc[p] \in {"current", "described"} => op[p] \in {"update", "rollback", "rollbackTo"}
    /\ pc[p] \in {"described", "target"} => from[p] \in Version
    /\ pc[p] = "fetch" => op[p] \in {"install", "update"}
    /\ pc[p] = "fetch" /\ op[p] = "update" => from[p] \in Version
    /\ pc[p] = "target" => op[p] \in {"rollback", "rollbackTo"}
    /\ pc[p] \in ActivationPC \ {"locked", "prepare"} => id[p] \in Id
    /\ pc[p] = "rename" => tx[p] \in Tx

-----------------------------------------------------------------------------
(* The disk, whatever the processes are doing.                             *)

\* install.json comes after the pointer, and the pointer is never removed.
InstallImpliesPointer ==
    /\ install # None => pointer \in Version
    /\ pending # None => pending.from # pending.to
    /\ pending # None /\ pending.from # None => pointer \in Version

\* Where no journal overrides it, install.json is the document written with
\* the pointer, or was edited since; an edit can only blank it.
InstallCurrent ==
    /\ pointer \in Version /\ (pending = None \/ pointer # pending.to) =>
         /\ ~edited => install # None /\ install.active = pointer
         /\ install # None => install.active \in {pointer, None}
    /\ install # None /\ install.active = None => install.previous = None

DiskOK ==
    /\ PendingExplainsPointer
    /\ NamedVersionsRetained
    /\ OneInstallation
    /\ InstallDescribesPointer
    /\ InstallImpliesPointer
    /\ InstallCurrent

-----------------------------------------------------------------------------
(* What the process under the lock has established.                        *)

\* from is what the pointer was, with the user's command counted as none.
FromIsPointer(p) ==
    \/ from[p] = pointer
    \/ from[p] = None /\ pointer \in UserCommand

\* The checks of activate_download_locked and activate_existing_locked.
\* from[p] # None comes with an install.json that names it.
Owner(p) ==
    /\ from[p] # None =>
         /\ install # None /\ install.active = from[p]
         /\ IF Downloads(p) THEN from[p] < tgt[p] ELSE tgt[p] < from[p]
    /\ from[p] = None => Downloads(p)
    /\ install # None => id[p] = install.id
    /\ \A v \in Version : versions[v] # None => versions[v].id = id[p]

Journaled(p) == pending = [from |-> from[p], to |-> tgt[p]]

Holder(p) ==
    /\ pc[p] = "unjournal" =>
         /\ pending # None
         /\ pointer = pending.to =>
              /\ install # None
              /\ install.active = pending.to
              /\ install.previous = pending.from
    /\ pc[p] = "prepare" =>
         /\ FromIsPointer(p)
         /\ from[p] # None /\ install # None => from[p] < tgt[p]
    /\ pc[p] \in OwnedPC => FromIsPointer(p) /\ Owner(p)
    /\ pc[p] \in {"journal", "switch", "relink"} => versions[tgt[p]] # None
    /\ pc[p] \in {"switch", "relink"} => Journaled(p)
    /\ pc[p] \in {"describe", "commit"} =>
         /\ Journaled(p)
         /\ pointer = tgt[p]
         /\ tgt[p] # from[p]
         /\ \A v \in Version : versions[v] # None => versions[v].id = id[p]
    /\ pc[p] = "commit" =>
         install = [active |-> tgt[p], previous |-> from[p], id |-> id[p]]

HolderOK == \A p \in Proc : Holder(p)

\* The invariant the proofs rest on.
IInv == TypeOK /\ LockOwned /\ LocalsOK /\ DiskOK /\ HolderOK

-----------------------------------------------------------------------------
(* The staging directory and the user's command.                           *)

\* Where a process has made its transaction and not yet returned.
StagedPC == ActivationPC \ {"locked", "prepare", "stage"}

\* Who has made a transaction is under the lock and alone in staging/; before
\* one is made, cleanup_staging has emptied it.
StagingOwned ==
    /\ staging = {} \/ \E t \in Tx : staging = {t}
    /\ \A p \in Proc :
         /\ tx[p] # None => pc[p] \in StagedPC /\ staging = {tx[p]}
         /\ pc[p] = "stage" => staging = {}

\* An activation that passed its ownership check faces a command of the
\* user's own only where that appeared since.
LateKept ==
    pointer \in UserCommand /\ (\E p \in Proc : pc[p] \in OwnedPC) => late

=============================================================================
