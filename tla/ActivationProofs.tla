-------------------------- MODULE ActivationProofs --------------------------
(***************************************************************************)
(* What holds of Activation for every set of processes, versions, ids,     *)
(* signatures and transactions.                                            *)
(***************************************************************************)
EXTENDS ActivationInv, FiniteSetTheorems, TLAPS

(***************************************************************************)
(* choose_installation_id.                                                 *)
(***************************************************************************)

\* Whatever is on disk, an id choose_installation_id returns is an id.
LEMMA InstallationIdsType ==
    ASSUME TypeOK, NEW v \in Version
    PROVE  InstallationIds(v) \subseteq Id
<1>1. RetainedIds \subseteq Id
  BY DEF TypeOK, RetainedIds, Retained
<1>2. CASE install # None
  BY <1>2 DEF TypeOK, Install, InstallationIds
<1>3. CASE install = None
  BY <1>1, <1>3 DEF TypeOK, Retained, InstallationIds
<1> QED BY <1>2, <1>3

(***************************************************************************)
(* Types.                                                                  *)
(***************************************************************************)

\* TypeOK is about the disk, with its history, and about the processes.
DiskTypes ==
    /\ pointer \in VersionOrNone \cup UserCommand
    /\ pending \in Pending \cup {None}
    /\ install \in Install \cup {None}
    /\ versions \in [Version -> Retained \cup {None}]
    /\ staging \in SUBSET Tx
    /\ edited \in BOOLEAN
    /\ late \in BOOLEAN

LocalTypes ==
    /\ lock \in Proc \cup {None}
    /\ pc \in [Proc -> PC]
    /\ op \in [Proc -> Ops \cup {None}]
    /\ ret \in [Proc -> Returns \cup {None}]
    /\ tgt \in [Proc -> VersionOrNone]
    /\ sig \in [Proc -> Sig \cup {None}]
    /\ from \in [Proc -> VersionOrNone]
    /\ id \in [Proc -> Id \cup {None}]
    /\ tx \in [Proc -> Tx \cup {None}]

\* A call that returns, and one that goes on with the locals it has.
LEMMA FinishTypes ==
    ASSUME LocalTypes, NEW p \in Proc, Finish(p)
    PROVE  LocalTypes'
<1>1. pc' \in [Proc -> PC] /\ lock' \in Proc \cup {None}
  BY DEF LocalTypes, Finish, PC, UnlockedPC
<1>2. op' \in [Proc -> Ops \cup {None}] /\ ret' \in [Proc -> Returns \cup {None}]
  BY DEF LocalTypes, Finish
<1>3. tgt' \in [Proc -> VersionOrNone] /\ from' \in [Proc -> VersionOrNone]
  BY DEF LocalTypes, Finish, VersionOrNone
<1>4. sig' \in [Proc -> Sig \cup {None}] /\ id' \in [Proc -> Id \cup {None}]
      /\ tx' \in [Proc -> Tx \cup {None}]
  BY DEF LocalTypes, Finish
<1> QED BY <1>1, <1>2, <1>3, <1>4 DEF LocalTypes

LEMMA GotoTypes ==
    ASSUME LocalTypes, NEW p \in Proc, NEW l \in PC, Goto(p, l), UNCHANGED <<lock, locals>>
    PROVE  LocalTypes'
  BY DEF LocalTypes, Goto, locals

LEMMA RecoverReturnTypes ==
    ASSUME LocalTypes, NEW p \in Proc, RecoverReturn(p)
    PROVE  LocalTypes'
<1>1. CASE op[p] = "recover"
  BY <1>1, FinishTypes DEF RecoverReturn
<1>2. CASE op[p] # "recover"
  <2>1. pc' \in [Proc -> PC]
    BY <1>2 DEF RecoverReturn, Goto, LocalTypes, PC, UnlockedPC
  <2> QED BY <1>2, <2>1 DEF RecoverReturn, LocalTypes
<1> QED BY <1>1, <1>2

\* Every label is one.
LEMMA LabelTypes ==
    /\ LockedPC \subseteq PC /\ UnlockedPC \subseteq PC
    /\ {"lockExisting", "fetch", "target", "lockForMutation", "unjournal", "clean",
        "journal", "switch", "relink", "describe", "commit", "finish", "described",
        "prepare", "probe", "stage", "rename", "recover", "locked"} \subseteq PC
  BY DEF PC, LockedPC, UnlockedPC, RecoveryPC, ActivationPC

\* The processes go on with values of their own types.
LEMMA LocalTypeStep ==
    ASSUME TypeOK, LocalsOK, [Next]_vars
    PROVE  LocalTypes'
<1>0. LocalTypes
  BY DEF TypeOK, LocalTypes
<1> DEFINE Same(p) == \E l \in PC : Goto(p, l) /\ UNCHANGED <<lock, locals>>
<1>a. ASSUME NEW p \in Proc, Finish(p) \/ RecoverReturn(p) \/ Same(p) PROVE LocalTypes'
  BY <1>0, <1>a, FinishTypes, RecoverReturnTypes, GotoTypes
<1> HIDE DEF Same
<1>1. ASSUME NEW p \in Proc, CallExact(p) \/ CallPlain(p) PROVE LocalTypes'
  <2>1. PICK o \in Ops, v \in VersionOrNone : Call(p, o, v)
    BY <1>1 DEF CallExact, CallPlain, Ops, VersionOrNone
  <2>2. "resolve" \in Returns
    BY DEF Returns
  <2> QED BY <1>0, <2>1, <2>2, LabelTypes DEF Call, LocalTypes
<1>2. ASSUME NEW p \in Proc, Recovery(p) PROVE LocalTypes'
  <2>1. Finish(p) \/ RecoverReturn(p) \/ Same(p)
    BY <1>2, LabelTypes
       DEF Recovery, RecoverProbe, RecoverRefused, RecoverForward, RecoverBackward,
           RecoverUnjournal, RecoverRepair, RecoverConsistent, RecoverNothing,
           RecoverClean, Same
  <2> QED BY <1>a, <2>1
<1>3. ASSUME NEW p \in Proc, Preparation(p) PROVE LocalTypes'
  <2>1. CASE RequirePointer(p)
    <3>1. CASE pointer \in Version
      BY <1>0, <2>1, <3>1, LabelTypes DEF RequirePointer, Goto, LocalTypes, VersionOrNone
    <3> QED BY <1>a, <2>1, <3>1 DEF RequirePointer
  <2>2. CASE RequireDescribed(p)
    <3>1. Finish(p) \/ Same(p)
      BY <2>2, LabelTypes DEF RequireDescribed, Same
    <3> QED BY <1>a, <3>1
  <2>3. CASE FetchExact(p)
    BY <1>0, <2>3, LabelTypes DEF FetchExact, Goto, LocalTypes, Returns
  <2>4. CASE FetchLatest(p)
    <3>1. CASE Finish(p)
      BY <1>a, <3>1
    <3>2. ASSUME NEW v \in Version, NEW s \in Sig,
                 tgt' = [tgt EXCEPT ![p] = v], sig' = [sig EXCEPT ![p] = s],
                 ret' = [ret EXCEPT ![p] = "unmanaged"], from' = [from EXCEPT ![p] = None],
                 Goto(p, "probe"), UNCHANGED <<lock, op, id, tx>>
          PROVE  LocalTypes'
      BY <1>0, <3>2, LabelTypes DEF Goto, LocalTypes, VersionOrNone, Returns
    <3> QED BY <2>4, <3>1, <3>2 DEF FetchLatest
  <2>5. CASE PickTarget(p)
    <3>1. CASE Finish(p)
      BY <1>a, <3>1
    <3>2. ASSUME NEW v \in Version,
                 tgt' = [tgt EXCEPT ![p] = v], from' = [from EXCEPT ![p] = None],
                 Goto(p, "lockForMutation"), UNCHANGED <<lock, op, ret, sig, id, tx>>
          PROVE  LocalTypes'
      BY <1>0, <3>2, LabelTypes DEF Goto, LocalTypes, VersionOrNone
    <3> QED BY <2>5, <3>1, <3>2 DEF PickTarget
  <2>6. CASE RefuseUnmanaged(p)
    <3>1. Finish(p) \/ Same(p)
      BY <2>6, LabelTypes DEF RefuseUnmanaged, Same
    <3> QED BY <1>a, <3>1
  <2> QED BY <1>3, <2>1, <2>2, <2>3, <2>4, <2>5, <2>6 DEF Preparation
<1>4. ASSUME NEW p \in Proc, Activation(p) PROVE LocalTypes'
  <2>1. CASE DownloadLocked(p)
    <3>1. CASE Finish(p)
      BY <1>a, <3>1
    <3>2. CASE ~Finish(p)
      <4>1. pointer \in VersionOrNone
        BY <2>1, <3>2 DEF DownloadLocked, TypeOK
      <4> QED BY <1>0, <2>1, <3>2, <4>1, LabelTypes DEF DownloadLocked, Goto, LocalTypes
    <3> QED BY <3>1, <3>2
  <2>2. CASE PrepareVersion(p)
    <3>1. InstallationIds(tgt[p]) \subseteq Id
      BY <2>2, InstallationIdsType DEF PrepareVersion, Resolved, LocalsOK, ActivationPC
    <3>2. CASE Finish(p)
      BY <1>a, <3>2
    <3>3. ASSUME NEW i \in Id, NEW l \in {"stage", "journal"},
                 id' = [id EXCEPT ![p] = i], Goto(p, l),
                 UNCHANGED <<lock, op, ret, tgt, sig, from, tx>>
          PROVE  LocalTypes'
      <4>1. l \in PC
        BY LabelTypes
      <4> QED BY <1>0, <3>3, <4>1 DEF Goto, LocalTypes
    <3> QED BY <2>2, <3>1, <3>2, <3>3 DEF PrepareVersion
  <2>3. CASE StageVersion(p)
    BY <1>0, <2>3, LabelTypes DEF StageVersion, Goto, LocalTypes
  <2>4. CASE ExistingLocked(p)
    <3>1. CASE Finish(p)
      BY <1>a, <3>1
    <3>2. CASE ~Finish(p)
      <4>1. pointer \in VersionOrNone /\ install.id \in Id
        BY <2>4, <3>2 DEF ExistingLocked, TypeOK, Install, VersionOrNone
      <4> QED BY <1>0, <2>4, <3>2, <4>1, LabelTypes DEF ExistingLocked, Goto, LocalTypes
    <3> QED BY <3>1, <3>2
  <2>5. CASE RenameVersion(p) \/ WritePending(p) \/ SwitchCheck(p) \/ SwitchPointer(p)
             \/ WriteInstall(p) \/ RemovePending(p) \/ FinishActivation(p)
    <3>1. Finish(p) \/ Same(p)
      BY <2>5, LabelTypes
         DEF RenameVersion, WritePending, SwitchCheck, SwitchPointer, WriteInstall,
             RemovePending, FinishActivation, Same
    <3> QED BY <1>a, <3>1
  <2> QED BY <1>4, <2>1, <2>2, <2>3, <2>4, <2>5 DEF Activation
<1>5. ASSUME NEW p \in Proc, Acquire(p) PROVE LocalTypes'
  BY <1>0, <1>5, LabelTypes DEF Acquire, LockExisting, LockForMutation, Goto, LocalTypes, locals
<1>6. ASSUME NEW p \in Proc, Fail(p) PROVE LocalTypes'
  BY <1>a, <1>6 DEF Fail
<1>7. CASE Environment \/ UNCHANGED vars
  <2>1. UNCHANGED <<lock, pc, locals>>
    BY <1>7 DEF Environment, UserCreatesCommand, UserRemovesCommand, InstallLost, vars
  <2> QED BY <1>0, <2>1 DEF LocalTypes, locals
<1> QED BY <1>1, <1>2, <1>3, <1>4, <1>5, <1>6, <1>7 DEF Next, Work

\* What is written to the disk is of its type.
LEMMA DiskTypeStep ==
    ASSUME TypeOK, LocalsOK, [Next]_vars
    PROVE  DiskTypes'
<1>0. DiskTypes
  BY DEF TypeOK, DiskTypes
<1>a. ASSUME UNCHANGED <<disk, aux>> PROVE DiskTypes'
  BY <1>0, <1>a DEF DiskTypes, disk, aux
<1>1. ASSUME NEW p \in Proc, CallExact(p) \/ CallPlain(p) PROVE DiskTypes'
  BY <1>1, <1>a DEF CallExact, CallPlain, Call
<1>2. ASSUME NEW p \in Proc, Recovery(p) PROVE DiskTypes'
  <2>1. CASE RecoverProbe(p) \/ RecoverRefused(p) \/ RecoverBackward(p)
             \/ RecoverConsistent(p) \/ RecoverNothing(p)
    BY <2>1, <1>a DEF RecoverProbe, RecoverRefused, RecoverBackward, RecoverConsistent,
                      RecoverNothing
  <2>2. CASE RecoverForward(p)
    BY <1>0, <2>2 DEF RecoverForward, RecoveryRefuses, DiskTypes, Pending, Install, Retained
  <2>3. CASE RecoverUnjournal(p)
    BY <1>0, <2>3 DEF RecoverUnjournal, DiskTypes, aux
  <2>4. CASE RecoverRepair(p)
    <3>1. versions[pointer] \in Retained
      BY <1>0, <2>4 DEF RecoverRepair, RecoveryRefuses, DiskTypes
    <3>2. install' \in Install
      BY <2>4, <3>1 DEF RecoverRepair, Install, Retained, VersionOrNone
    <3> QED BY <1>0, <2>4, <3>2 DEF RecoverRepair, DiskTypes
  <2>5. CASE RecoverClean(p)
    BY <1>0, <2>5 DEF RecoverClean, DiskTypes, aux
  <2> QED BY <1>2, <2>1, <2>2, <2>3, <2>4, <2>5 DEF Recovery
<1>3. ASSUME NEW p \in Proc, Preparation(p) PROVE DiskTypes'
  BY <1>3, <1>a DEF Preparation, RequirePointer, RequireDescribed, FetchExact, FetchLatest,
                    PickTarget, RefuseUnmanaged
<1>4. ASSUME NEW p \in Proc, Activation(p) PROVE DiskTypes'
  <2>0. pc[p] \in ActivationPC => Resolved(p)
    BY DEF LocalsOK
  <2>1. CASE DownloadLocked(p) \/ ExistingLocked(p) \/ SwitchCheck(p)
    BY <2>1, <1>a DEF DownloadLocked, ExistingLocked, SwitchCheck
  <2>2. CASE PrepareVersion(p)
    <3>1. staging' \in SUBSET Tx
      BY <1>0, <2>2 DEF PrepareVersion, DiskTypes
    <3> QED BY <1>0, <2>2, <3>1 DEF PrepareVersion, DiskTypes, aux
  <2>3. CASE StageVersion(p)
    BY <1>0, <2>3 DEF StageVersion, DiskTypes, aux
  <2>4. CASE RenameVersion(p)
    <3>1. tgt[p] \in Version /\ sig[p] \in Sig /\ id[p] \in Id
      BY <2>4 DEF RenameVersion, Resolved, Downloads, LocalsOK, ActivationPC
    <3>2. versions' \in [Version -> Retained \cup {None}]
      BY <1>0, <2>4, <3>1 DEF RenameVersion, DiskTypes, Retained
    <3> QED BY <1>0, <2>4, <3>2 DEF RenameVersion, DiskTypes, aux
  <2>5. CASE WritePending(p)
    <3>1. tgt[p] \in Version /\ from[p] \in VersionOrNone
      BY <2>0, <2>5 DEF WritePending, Resolved, TypeOK, ActivationPC
    <3>2. pending' \in Pending
      BY <2>5, <3>1 DEF WritePending, Pending
    <3> QED BY <1>0, <2>5, <3>2 DEF WritePending, DiskTypes, aux
  <2>6. CASE SwitchPointer(p)
    <3>1. tgt[p] \in Version
      BY <2>0, <2>6 DEF SwitchPointer, Resolved, ActivationPC
    <3> QED BY <1>0, <2>6, <3>1 DEF SwitchPointer, DiskTypes, VersionOrNone
  <2>7. CASE WriteInstall(p)
    <3>1. tgt[p] \in Version /\ from[p] \in VersionOrNone /\ id[p] \in Id
      BY <2>0, <2>7 DEF WriteInstall, Resolved, TypeOK, LocalsOK, ActivationPC
    <3>2. install' \in Install
      BY <2>7, <3>1 DEF WriteInstall, Install, VersionOrNone
    <3> QED BY <1>0, <2>7, <3>2 DEF WriteInstall, DiskTypes
  <2>8. CASE RemovePending(p)
    BY <1>0, <2>8 DEF RemovePending, DiskTypes, aux
  <2>9. CASE FinishActivation(p)
    BY <1>0, <2>9 DEF FinishActivation, DiskTypes, aux
  <2> QED BY <1>4, <2>1, <2>2, <2>3, <2>4, <2>5, <2>6, <2>7, <2>8, <2>9 DEF Activation
<1>5. ASSUME NEW p \in Proc, Acquire(p) PROVE DiskTypes'
  BY <1>5, <1>a DEF Acquire, LockExisting, LockForMutation
<1>6. ASSUME NEW p \in Proc, Fail(p) PROVE DiskTypes'
  BY <1>6, <1>a DEF Fail
<1>7. CASE Environment
  BY <1>0, <1>7 DEF Environment, UserCreatesCommand, UserRemovesCommand, InstallLost,
                    DiskTypes, UserCommand, VersionOrNone, Install
<1>8. CASE UNCHANGED vars
  BY <1>8, <1>a DEF vars
<1> QED BY <1>1, <1>2, <1>3, <1>4, <1>5, <1>6, <1>7, <1>8 DEF Next, Work

\* Every step keeps every variable in its type.
LEMMA TypeStep ==
    ASSUME TypeOK, LocalsOK, [Next]_vars
    PROVE  TypeOK'
  BY LocalTypeStep, DiskTypeStep DEF TypeOK, LocalTypes, DiskTypes

\* The lock has one owner, the process in a locked section.
LEMMA LockStep ==
    ASSUME TypeOK, LockOwned, [Next]_vars
    PROVE  LockOwned'
<1> USE NoneAssumption DEF TypeOK, LockOwned, PC, LockedPC, UnlockedPC, RecoveryPC, ActivationPC
<1>1. ASSUME NEW p \in Proc, CallExact(p) PROVE LockOwned'
  BY <1>1 DEF CallExact, Call, disk, aux
<1>2. ASSUME NEW p \in Proc, CallPlain(p) PROVE LockOwned'
  BY <1>2 DEF CallPlain, Call, disk, aux
<1>3. ASSUME NEW p \in Proc, Recovery(p) PROVE LockOwned'
  <2>1. CASE RecoverProbe(p)
    BY <2>1 DEF RecoverProbe, RecoverReturn, Finish, Goto, disk, aux, locals
  <2>2. CASE RecoverRefused(p)
    BY <2>2 DEF RecoverRefused, Finish, disk, aux, locals
  <2>3. CASE RecoverForward(p)
    BY <2>3 DEF RecoverForward, Goto, disk, aux, locals
  <2>4. CASE RecoverBackward(p)
    BY <2>4 DEF RecoverBackward, Goto, disk, aux, locals
  <2>5. CASE RecoverUnjournal(p)
    BY <2>5 DEF RecoverUnjournal, Goto, disk, aux, locals
  <2>6. CASE RecoverRepair(p)
    BY <2>6 DEF RecoverRepair, Goto, disk, aux, locals
  <2>7. CASE RecoverConsistent(p)
    BY <2>7 DEF RecoverConsistent, Goto, disk, aux, locals
  <2>8. CASE RecoverNothing(p)
    BY <2>8 DEF RecoverNothing, RecoverReturn, Finish, Goto, disk, aux, locals
  <2>9. CASE RecoverClean(p)
    BY <2>9 DEF RecoverClean, RecoverReturn, Finish, Goto, disk, aux, locals
  <2> QED BY <1>3, <2>1, <2>2, <2>3, <2>4, <2>5, <2>6, <2>7, <2>8, <2>9 DEF Recovery
<1>4. ASSUME NEW p \in Proc, Preparation(p) PROVE LockOwned'
  <2>1. CASE RequirePointer(p)
    BY <2>1 DEF RequirePointer, Finish, Goto, disk, aux, locals
  <2>2. CASE RequireDescribed(p)
    BY <2>2 DEF RequireDescribed, Finish, Goto, disk, aux, locals
  <2>3. CASE FetchExact(p)
    BY <2>3 DEF FetchExact, Goto, disk, aux, locals
  <2>4. CASE FetchLatest(p)
    BY <2>4 DEF FetchLatest, Finish, Goto, disk, aux, locals
  <2>5. CASE PickTarget(p)
    BY <2>5 DEF PickTarget, Finish, Goto, disk, aux, locals
  <2>6. CASE RefuseUnmanaged(p)
    BY <2>6 DEF RefuseUnmanaged, Finish, Goto, disk, aux, locals
  <2> QED BY <1>4, <2>1, <2>2, <2>3, <2>4, <2>5, <2>6 DEF Preparation
<1>5. ASSUME NEW p \in Proc, Activation(p) PROVE LockOwned'
  <2>1. CASE DownloadLocked(p)
    BY <2>1 DEF DownloadLocked, Finish, Goto, disk, aux, locals
  <2>2. CASE PrepareVersion(p)
    BY <2>2 DEF PrepareVersion, Finish, Goto, disk, aux, locals
  <2>3. CASE StageVersion(p)
    BY <2>3 DEF StageVersion, Goto, disk, aux, locals
  <2>4. CASE RenameVersion(p)
    BY <2>4 DEF RenameVersion, Finish, Goto, disk, aux, locals
  <2>5. CASE ExistingLocked(p)
    BY <2>5 DEF ExistingLocked, Finish, Goto, disk, aux, locals
  <2>6. CASE WritePending(p)
    BY <2>6 DEF WritePending, Goto, disk, aux, locals
  <2>7. CASE SwitchCheck(p)
    BY <2>7 DEF SwitchCheck, Finish, Goto, disk, aux, locals
  <2>8. CASE SwitchPointer(p)
    BY <2>8 DEF SwitchPointer, Goto, disk, aux, locals
  <2>9. CASE WriteInstall(p)
    BY <2>9 DEF WriteInstall, Goto, disk, aux, locals
  <2>10. CASE RemovePending(p)
    BY <2>10 DEF RemovePending, Goto, disk, aux, locals
  <2>11. CASE FinishActivation(p)
    BY <2>11 DEF FinishActivation, Finish, disk, aux, locals
  <2> QED BY <1>5, <2>1, <2>2, <2>3, <2>4, <2>5, <2>6, <2>7, <2>8, <2>9, <2>10, <2>11 DEF Activation
<1>6. ASSUME NEW p \in Proc, Acquire(p) PROVE LockOwned'
  BY <1>6 DEF Acquire, LockExisting, LockForMutation, Goto, disk, aux, locals
<1>7. ASSUME NEW p \in Proc, Fail(p) PROVE LockOwned'
  BY <1>7 DEF Fail, Finish, disk, aux
<1>8. CASE Environment
  <2>1. UNCHANGED <<lock, pc>>
    BY <1>8 DEF Environment, UserCreatesCommand, UserRemovesCommand, InstallLost
  <2> QED BY <2>1
<1>9. CASE UNCHANGED vars
  BY <1>9 DEF vars, disk, aux, locals
<1> QED BY <1>1, <1>2, <1>3, <1>4, <1>5, <1>6, <1>7, <1>8, <1>9 DEF Next, Work

\* Every step leaves each process with the locals its next steps need.
LEMMA LocalsStep ==
    ASSUME TypeOK, LocalsOK, [Next]_vars
    PROVE  LocalsOK'
<1> USE NoneAssumption DEF TypeOK, LocalsOK, Resolved, Downloads, Ops, Returns, VersionOrNone,
            PC, LockedPC, UnlockedPC, RecoveryPC, ActivationPC
<1>0. ASSUME NEW p \in Proc, Finish(p) PROVE LocalsOK'
  BY <1>0 DEF Finish
<1>1. ASSUME NEW p \in Proc, CallExact(p) PROVE LocalsOK'
  BY <1>1 DEF CallExact, Call, disk, aux
<1>2. ASSUME NEW p \in Proc, CallPlain(p) PROVE LocalsOK'
  BY <1>2 DEF CallPlain, Call, disk, aux
<1>3. ASSUME NEW p \in Proc, Recovery(p) PROVE LocalsOK'
  <2>1. CASE RecoverProbe(p)
    BY <1>0, <2>1 DEF RecoverProbe, RecoverReturn, Goto, disk, aux, locals
  <2>2. CASE RecoverRefused(p)
    BY <1>0, <2>2 DEF RecoverRefused, disk, aux, locals
  <2>3. CASE RecoverForward(p)
    BY <2>3 DEF RecoverForward, Goto, disk, aux, locals
  <2>4. CASE RecoverBackward(p)
    BY <2>4 DEF RecoverBackward, Goto, disk, aux, locals
  <2>5. CASE RecoverUnjournal(p)
    BY <2>5 DEF RecoverUnjournal, Goto, disk, aux, locals
  <2>6. CASE RecoverRepair(p)
    BY <2>6 DEF RecoverRepair, Goto, disk, aux, locals
  <2>7. CASE RecoverConsistent(p)
    BY <2>7 DEF RecoverConsistent, Goto, disk, aux, locals
  <2>8. CASE RecoverNothing(p)
    BY <1>0, <2>8 DEF RecoverNothing, RecoverReturn, Goto, disk, aux, locals
  <2>9. CASE RecoverClean(p)
    BY <1>0, <2>9 DEF RecoverClean, RecoverReturn, Goto, disk, aux, locals
  <2> QED BY <1>3, <2>1, <2>2, <2>3, <2>4, <2>5, <2>6, <2>7, <2>8, <2>9 DEF Recovery
<1>4. ASSUME NEW p \in Proc, Preparation(p) PROVE LocalsOK'
  <2>1. CASE RequirePointer(p)
    BY <1>0, <2>1 DEF RequirePointer, Goto, disk, aux, locals
  <2>2. CASE RequireDescribed(p)
    <3>1. CASE Goto(p, IF op[p] = "update" THEN "fetch" ELSE "target") /\ UNCHANGED locals
      BY <2>2, <3>1 DEF RequireDescribed, Goto, locals
    <3> QED BY <1>0, <2>2, <3>1 DEF RequireDescribed
  <2>3. CASE FetchExact(p)
    BY <2>3 DEF FetchExact, Goto, disk, aux, locals
  <2>4. CASE FetchLatest(p)
    BY <1>0, <2>4 DEF FetchLatest, Goto, disk, aux, locals
  <2>5. CASE PickTarget(p)
    BY <1>0, <2>5 DEF PickTarget, Goto, disk, aux, locals
  <2>6. CASE RefuseUnmanaged(p)
    BY <1>0, <2>6 DEF RefuseUnmanaged, Goto, disk, aux, locals
  <2> QED BY <1>4, <2>1, <2>2, <2>3, <2>4, <2>5, <2>6 DEF Preparation
<1>5. ASSUME NEW p \in Proc, Activation(p) PROVE LocalsOK'
  <2>1. CASE DownloadLocked(p)
    BY <1>0, <2>1 DEF DownloadLocked, Goto, disk, aux, locals
  <2>2. CASE PrepareVersion(p)
    <3>1. ASSUME NEW i \in InstallationIds(tgt[p]), NEW l \in {"stage", "journal"},
                 id' = [id EXCEPT ![p] = i], Goto(p, l),
                 UNCHANGED <<op, ret, tgt, sig, from, tx>>
          PROVE  LocalsOK'
      <4>1. i \in Id
        BY <2>2, InstallationIdsType DEF PrepareVersion
      <4> QED BY <2>2, <3>1, <4>1 DEF PrepareVersion, Goto
    <3> QED BY <1>0, <2>2, <3>1 DEF PrepareVersion
  <2>3. CASE StageVersion(p)
    BY <2>3 DEF StageVersion, Goto, disk, aux, locals
  <2>4. CASE RenameVersion(p)
    BY <1>0, <2>4 DEF RenameVersion, Goto, disk, aux, locals
  <2>5. CASE ExistingLocked(p)
    <3>1. CASE /\ install # None
               /\ from' = [from EXCEPT ![p] = pointer]
               /\ id' = [id EXCEPT ![p] = install.id]
               /\ Goto(p, "journal")
               /\ UNCHANGED <<lock, op, ret, tgt, sig, tx>>
      <4>1. install.id \in Id
        BY <3>1 DEF Install
      <4> QED BY <2>5, <3>1, <4>1 DEF ExistingLocked, Goto
    <3> QED BY <1>0, <2>5, <3>1 DEF ExistingLocked
  <2>6. CASE WritePending(p)
    BY <2>6 DEF WritePending, Goto, disk, aux, locals
  <2>7. CASE SwitchCheck(p)
    BY <1>0, <2>7 DEF SwitchCheck, Goto, disk, aux, locals
  <2>8. CASE SwitchPointer(p)
    BY <2>8 DEF SwitchPointer, Goto, disk, aux, locals
  <2>9. CASE WriteInstall(p)
    BY <2>9 DEF WriteInstall, Goto, disk, aux, locals
  <2>10. CASE RemovePending(p)
    BY <2>10 DEF RemovePending, Goto, disk, aux, locals
  <2>11. CASE FinishActivation(p)
    BY <1>0, <2>11 DEF FinishActivation, disk, aux, locals
  <2> QED BY <1>5, <2>1, <2>2, <2>3, <2>4, <2>5, <2>6, <2>7, <2>8, <2>9, <2>10, <2>11 DEF Activation
<1>6. ASSUME NEW p \in Proc, Acquire(p) PROVE LocalsOK'
  BY <1>6 DEF Acquire, LockExisting, LockForMutation, Goto, disk, aux, locals
<1>7. ASSUME NEW p \in Proc, Fail(p) PROVE LocalsOK'
  BY <1>0, <1>7 DEF Fail
<1>8. CASE Environment
  <2>1. UNCHANGED <<pc, locals>>
    BY <1>8 DEF Environment, UserCreatesCommand, UserRemovesCommand, InstallLost
  <2> QED BY <2>1 DEF locals
<1>9. CASE UNCHANGED vars
  BY <1>9 DEF vars, disk, aux, locals
<1> QED BY <1>1, <1>2, <1>3, <1>4, <1>5, <1>6, <1>7, <1>8, <1>9 DEF Next, Work

(***************************************************************************)
(* The disk.                                                               *)
(***************************************************************************)

\* What a step that writes none of the four files and edits nothing keeps.
LEMMA DiskFrame ==
    ASSUME DiskOK, UNCHANGED <<pointer, pending, install, versions, edited>>
    PROVE  DiskOK'
BY DEF DiskOK, PendingExplainsPointer, NamedVersionsRetained, OneInstallation,
       InstallDescribesPointer, InstallImpliesPointer, InstallCurrent

\* The steps of recover_locked that write.
LEMMA RecoveryDisk ==
    ASSUME IInv, NEW p \in Proc,
           RecoverForward(p) \/ RecoverUnjournal(p) \/ RecoverRepair(p)
    PROVE  DiskOK'
<1> USE NoneAssumption, UserAssumption
    DEF IInv, TypeOK, DiskOK, HolderOK, Holder, PendingExplainsPointer,
        NamedVersionsRetained, OneInstallation, InstallDescribesPointer,
        InstallImpliesPointer, InstallCurrent, VersionOrNone, UserCommand,
        Retained, Pending, Install
<1>1. CASE RecoverForward(p)
  <2> DEFINE i == versions[pending.to].id
  <2>1. /\ pending \in Pending /\ pointer = pending.to /\ pointer \in Version
        /\ versions[pending.to] # None /\ i \in Id
    BY <1>1 DEF RecoverForward, RecoveryRefuses
  <2>2. /\ install' = [active |-> pending.to, previous |-> pending.from, id |-> i]
        /\ install' # None
        /\ UNCHANGED <<pointer, pending, versions>>
        /\ edited' = FALSE
    BY <1>1, <2>1 DEF RecoverForward
  <2>3. NamedVersionsRetained' /\ OneInstallation'
    BY <2>1, <2>2
  <2>4. PendingExplainsPointer' /\ InstallDescribesPointer'
    BY <2>1, <2>2
  <2>5. InstallImpliesPointer' /\ InstallCurrent'
    BY <2>1, <2>2
  <2> QED BY <2>3, <2>4, <2>5
<1>2. CASE RecoverUnjournal(p)
  <2>1. /\ pending' = None
        /\ pc[p] = "unjournal"
        /\ UNCHANGED <<pointer, install, versions, edited>>
    BY <1>2 DEF RecoverUnjournal, aux
  <2>2. NamedVersionsRetained' /\ OneInstallation'
    BY <2>1
  <2>3. PendingExplainsPointer' /\ InstallDescribesPointer'
    BY <2>1
  <2>4. InstallImpliesPointer' /\ InstallCurrent'
    BY <2>1
  <2> QED BY <2>2, <2>3, <2>4
<1>3. CASE RecoverRepair(p)
  BY <1>3 DEF RecoverRepair, RecoveryRefuses, Verified
<1> QED BY <1>1, <1>2, <1>3

\* What the locals of the process in an activation are.
LEMMA ActivationLocals ==
    ASSUME IInv, NEW p \in Proc, pc[p] \in ActivationPC
    PROVE  /\ tgt[p] \in Version /\ from[p] \in VersionOrNone
           /\ pc[p] \notin {"locked", "prepare"} => id[p] \in Id
           /\ pc[p] = "rename" => [id |-> id[p], sig |-> sig[p]] \in Retained
           /\ pc[p] = "rename" => [id |-> id[p], sig |-> sig[p]] # None
           /\ Holder(p)
BY NoneAssumption
   DEF IInv, TypeOK, LocalsOK, Resolved, Downloads, HolderOK, Retained, ActivationPC

\* A new version directory changes what is retained and nothing else.
LEMMA RenameDisk ==
    ASSUME IInv, NEW p \in Proc, RenameVersion(p)
    PROVE  DiskOK'
<1> DEFINE r == [id |-> id[p], sig |-> sig[p]]
<1>1. /\ pc[p] = "rename"
      /\ UNCHANGED <<pointer, pending, install, edited>>
  BY DEF RenameVersion, aux
<1>2. CASE UNCHANGED versions
  BY <1>1, <1>2, DiskFrame DEF IInv
<1>3. CASE versions' = [versions EXCEPT ![tgt[p]] = r]
  <2>1. tgt[p] \in Version /\ r # None /\ r.id = id[p] /\ Owner(p)
    BY <1>1, ActivationLocals DEF ActivationPC, Holder, OwnedPC
  <2>2. \A v \in Version : versions'[v] = IF v = tgt[p] THEN r ELSE versions[v]
    BY <1>3, <2>1 DEF IInv, TypeOK
  <2> HIDE DEF r
  <2>3. NamedVersionsRetained'
    BY <1>1, <2>1, <2>2 DEF IInv, DiskOK, NamedVersionsRetained, TypeOK, Pending,
                            Install, VersionOrNone
  <2>4. OneInstallation'
    BY <1>1, <2>1, <2>2 DEF Owner, OneInstallation
  <2> QED BY <1>1, <2>3, <2>4
          DEF IInv, DiskOK, PendingExplainsPointer, InstallDescribesPointer,
              InstallImpliesPointer, InstallCurrent
<1> QED BY <1>2, <1>3 DEF RenameVersion

\* The journal names the pointer as its source and a retained target.
LEMMA WritePendingDisk ==
    ASSUME IInv, NEW p \in Proc, WritePending(p)
    PROVE  DiskOK'
<1>1. /\ pending' = [from |-> from[p], to |-> tgt[p]]
      /\ UNCHANGED <<pointer, install, versions, edited>>
      /\ pc[p] = "journal"
  BY DEF WritePending, aux
<1>2. /\ tgt[p] \in Version /\ from[p] \in VersionOrNone
      /\ FromIsPointer(p) /\ Owner(p) /\ versions[tgt[p]] # None
  BY <1>1, ActivationLocals DEF ActivationPC, Holder, OwnedPC
<1>3. from[p] # tgt[p]
  <2>1. from[p] # None => from[p] \in Nat /\ tgt[p] \in Nat
    BY <1>2, VersionAssumption DEF VersionOrNone
  <2> QED BY <1>2, <2>1, NoneAssumption DEF Owner
<1>4. /\ from[p] # None => pointer \in Version
      /\ pointer \in Version => pointer = from[p] /\ from[p] # None
  BY <1>2, NoneAssumption, UserAssumption DEF FromIsPointer, VersionOrNone
<1>5. DiskOK
  BY DEF IInv
<1>6. PendingExplainsPointer'
  BY <1>1, <1>2 DEF PendingExplainsPointer, FromIsPointer
<1>7. NamedVersionsRetained' /\ OneInstallation'
  BY <1>1, <1>2, <1>4, <1>5 DEF DiskOK, NamedVersionsRetained, OneInstallation,
                                FromIsPointer
<1>8. pointer # tgt[p] /\ pending' # None /\ pending'.to = tgt[p]
  <2>1. pending' \in Pending
    BY <1>1, <1>2 DEF Pending
  <2> QED BY <1>1, <1>2, <1>3, <1>4, <2>1, NoneAssumption
<1>9. InstallDescribesPointer'
  BY <1>1, <1>8 DEF InstallDescribesPointer
<1>10. InstallImpliesPointer'
  BY <1>1, <1>3, <1>4, <1>5 DEF DiskOK, InstallImpliesPointer
<1>11. InstallCurrent'
  BY <1>1, <1>2, <1>4, <1>5 DEF DiskOK, InstallCurrent, Owner
<1> QED BY <1>6, <1>7, <1>9, <1>10, <1>11 DEF DiskOK

\* The switch: what the journal announced becomes the pointer.
LEMMA SwitchDisk ==
    ASSUME IInv, NEW p \in Proc, SwitchPointer(p)
    PROVE  DiskOK'
<1>1. /\ pointer' = tgt[p]
      /\ UNCHANGED <<pending, install, versions, edited>>
      /\ pc[p] = "relink"
  BY DEF SwitchPointer
<1>2. /\ tgt[p] \in Version /\ from[p] \in VersionOrNone
      /\ FromIsPointer(p) /\ Owner(p) /\ Journaled(p) /\ versions[tgt[p]] # None
  BY <1>1, ActivationLocals DEF ActivationPC, Holder, OwnedPC
<1>3. DiskOK
  BY DEF IInv
<1>4. pending.from = from[p] /\ pending.to = tgt[p] /\ pending # None
  <2>1. pending \in Pending
    BY <1>2 DEF Journaled, Pending
  <2> QED BY <1>2, <2>1, NoneAssumption DEF Journaled
<1>5. from[p] = None => install = None
  BY <1>2, <1>3, NoneAssumption, UserAssumption
     DEF FromIsPointer, DiskOK, InstallImpliesPointer, VersionOrNone
<1>6. PendingExplainsPointer'
  BY <1>1, <1>4 DEF PendingExplainsPointer
<1>7. NamedVersionsRetained' /\ OneInstallation'
  BY <1>1, <1>2, <1>3 DEF DiskOK, NamedVersionsRetained, OneInstallation
<1>8. InstallDescribesPointer'
  BY <1>1, <1>2, <1>4, <1>5 DEF InstallDescribesPointer, Owner
<1>9. InstallImpliesPointer'
  BY <1>1, <1>2, <1>3 DEF DiskOK, InstallImpliesPointer
<1>10. InstallCurrent'
  BY <1>1, <1>3, <1>4 DEF DiskOK, InstallCurrent
<1> QED BY <1>6, <1>7, <1>8, <1>9, <1>10 DEF DiskOK

\* install.json catches up with the journal.
LEMMA WriteInstallDisk ==
    ASSUME IInv, NEW p \in Proc, WriteInstall(p)
    PROVE  DiskOK'
<1>1. /\ install' = [active |-> tgt[p], previous |-> from[p], id |-> id[p]]
      /\ UNCHANGED <<pointer, pending, versions>>
      /\ edited' = FALSE
      /\ pc[p] = "describe"
  BY DEF WriteInstall
<1>2. /\ tgt[p] \in Version /\ from[p] \in VersionOrNone /\ id[p] \in Id
      /\ Journaled(p) /\ pointer = tgt[p] /\ tgt[p] # from[p]
      /\ \A v \in Version : versions[v] # None => versions[v].id = id[p]
  BY <1>1, ActivationLocals DEF ActivationPC, Holder
<1>3. DiskOK /\ pending # None /\ install' # None
  <2>1. pending \in Pending
    BY <1>2 DEF Journaled, Pending
  <2>2. install' \in Install
    BY <1>1, <1>2 DEF Install, VersionOrNone
  <2> QED BY <2>1, <2>2, NoneAssumption DEF IInv
<1>4. pending.from = from[p] /\ pending.to = tgt[p]
  BY <1>2 DEF Journaled
<1>5. PendingExplainsPointer' /\ InstallDescribesPointer'
  BY <1>1, <1>2, <1>3, <1>4 DEF PendingExplainsPointer, InstallDescribesPointer
<1>6. NamedVersionsRetained' /\ OneInstallation'
  BY <1>1, <1>2, <1>3, <1>4 DEF DiskOK, NamedVersionsRetained, OneInstallation
<1>7. InstallImpliesPointer' /\ InstallCurrent'
  BY <1>1, <1>2, <1>3, <1>4, NoneAssumption
     DEF DiskOK, InstallImpliesPointer, InstallCurrent
<1> QED BY <1>5, <1>6, <1>7 DEF DiskOK

\* The journal goes, and install.json describes the pointer by itself.
LEMMA RemovePendingDisk ==
    ASSUME IInv, NEW p \in Proc, RemovePending(p)
    PROVE  DiskOK'
<1>1. /\ pending' = None
      /\ UNCHANGED <<pointer, install, versions, edited>>
      /\ pc[p] = "commit"
  BY DEF RemovePending, aux
<1>2. /\ tgt[p] \in Version /\ pointer = tgt[p]
      /\ install = [active |-> tgt[p], previous |-> from[p], id |-> id[p]]
      /\ id[p] \in Id /\ from[p] \in VersionOrNone
  BY <1>1, ActivationLocals DEF ActivationPC, Holder
<1>3. DiskOK /\ install # None
  <2>1. install \in Install
    BY <1>2 DEF Install, VersionOrNone
  <2> QED BY <2>1, NoneAssumption DEF IInv
<1>4. PendingExplainsPointer' /\ InstallDescribesPointer'
  BY <1>1, <1>2, <1>3 DEF PendingExplainsPointer, InstallDescribesPointer
<1>5. NamedVersionsRetained' /\ OneInstallation'
  BY <1>1, <1>3 DEF DiskOK, NamedVersionsRetained, OneInstallation
<1>6. InstallImpliesPointer' /\ InstallCurrent'
  BY <1>1, <1>2, <1>3, NoneAssumption
     DEF DiskOK, InstallImpliesPointer, InstallCurrent
<1> QED BY <1>4, <1>5, <1>6 DEF DiskOK

\* The user's own command comes and goes only where nothing is managed, and
\* what is lost of install.json can be said again from the pointer.
LEMMA EnvironmentDisk ==
    ASSUME IInv, Environment
    PROVE  DiskOK'
<1>0. DiskOK /\ TypeOK
  BY DEF IInv
<1>1. CASE UserCreatesCommand \/ UserRemovesCommand
  <2>1. /\ UNCHANGED <<pending, install, versions, edited>>
        /\ pointer \in UserCommand \cup {None}
        /\ pointer' \in UserCommand \cup {None}
    BY <1>1 DEF UserCreatesCommand, UserRemovesCommand
  <2>2. pointer \notin Version /\ pointer' \notin Version
    BY <2>1, NoneAssumption, UserAssumption DEF VersionOrNone
  <2>3. install = None /\ (pending # None => pending.from = None /\ pending.to \in Version)
    BY <1>0, <2>2 DEF DiskOK, InstallImpliesPointer, TypeOK, Pending
  <2>4. PendingExplainsPointer' /\ InstallDescribesPointer'
    BY <2>1, <2>2, <2>3 DEF PendingExplainsPointer, InstallDescribesPointer
  <2>5. NamedVersionsRetained' /\ OneInstallation'
    BY <1>0, <2>1, <2>2 DEF DiskOK, NamedVersionsRetained, OneInstallation
  <2>6. InstallImpliesPointer' /\ InstallCurrent'
    BY <1>0, <2>1, <2>2, <2>3 DEF DiskOK, InstallImpliesPointer, InstallCurrent
  <2> QED BY <2>4, <2>5, <2>6 DEF DiskOK
<1>2. CASE InstallLost
  <2>1. /\ UNCHANGED <<pointer, pending, versions>>
        /\ edited' = TRUE
        /\ install \in Install
    BY <1>0, <1>2 DEF InstallLost, TypeOK
  <2>2. \/ install' = None
        \/ /\ install' = [active |-> None, previous |-> None, id |-> install.id]
           /\ install # None
    BY <1>2, <2>1 DEF InstallLost, Install
  <2>3. PendingExplainsPointer' /\ InstallDescribesPointer'
    BY <1>0, <2>1, <2>2 DEF DiskOK, PendingExplainsPointer, InstallDescribesPointer
  <2>4. NamedVersionsRetained' /\ OneInstallation'
    BY <1>0, <2>1, <2>2 DEF DiskOK, NamedVersionsRetained, OneInstallation
  <2>5. InstallImpliesPointer' /\ InstallCurrent'
    BY <1>0, <2>1, <2>2 DEF DiskOK, InstallImpliesPointer, InstallCurrent
  <2> QED BY <2>3, <2>4, <2>5 DEF DiskOK
<1> QED BY <1>1, <1>2 DEF Environment

(***************************************************************************)
(* What the process under the lock has established.                        *)
(***************************************************************************)

\* The labels at which Holder says nothing.
FreePC == UnlockedPC \cup {"recover", "clean", "locked", "finish"}

\* A step of p to such a label, the four files as they were, disturbs nobody.
LEMMA HolderFrame ==
    ASSUME IInv, NEW p \in Proc, NEW l \in FreePC,
           pc' = [pc EXCEPT ![p] = l],
           \A q \in Proc \ {p} :
             /\ op'[q] = op[q] /\ tgt'[q] = tgt[q]
             /\ from'[q] = from[q] /\ id'[q] = id[q],
           UNCHANGED <<pointer, pending, install, versions>>
    PROVE  HolderOK'
<1>1. Holder(p)'
  BY DEF IInv, TypeOK, Holder, FreePC, UnlockedPC, OwnedPC
<1>2. ASSUME NEW q \in Proc \ {p} PROVE Holder(q)'
  <2>1. pc'[q] = pc[q]
    BY DEF IInv, TypeOK
  <2>2. Holder(q)
    BY DEF IInv, HolderOK
  <2> QED BY <2>1, <2>2 DEF Holder, FromIsPointer, Owner, Journaled, Downloads
<1> QED BY <1>1, <1>2 DEF HolderOK

\* Who is under the lock is alone there: only its own part is at stake.
LEMMA HolderAlone ==
    ASSUME IInv, NEW p \in Proc, pc[p] \in LockedPC, NEW l \in PC,
           pc' = [pc EXCEPT ![p] = l], Holder(p)'
    PROVE  HolderOK'
<1>1. ASSUME NEW q \in Proc \ {p} PROVE Holder(q)'
  <2>1. pc[q] \notin LockedPC /\ pc'[q] = pc[q]
    BY DEF IInv, TypeOK, LockOwned
  <2> QED BY <2>1 DEF Holder, OwnedPC, LockedPC, RecoveryPC, ActivationPC
<1> QED BY <1>1 DEF HolderOK

LEMMA FinishHolder ==
    ASSUME IInv, NEW p \in Proc, Finish(p),
           UNCHANGED <<pointer, pending, install, versions>>
    PROVE  HolderOK'
BY HolderFrame DEF Finish, FreePC, UnlockedPC, IInv, TypeOK

LEMMA ReturnHolder ==
    ASSUME IInv, NEW p \in Proc, RecoverReturn(p),
           UNCHANGED <<pointer, pending, install, versions>>
    PROVE  HolderOK'
<1> DEFINE l == IF ret[p] = "unmanaged" THEN "unmanaged"
                ELSE IF op[p] = "install" THEN "fetch" ELSE "current"
<1>1. CASE Finish(p)
  BY <1>1, FinishHolder
<1>2. CASE Goto(p, l) /\ UNCHANGED <<op, tgt, from, id>>
  <2>1. l \in FreePC
    BY DEF FreePC, UnlockedPC
  <2> HIDE DEF l
  <2> QED BY <1>2, <2>1, HolderFrame DEF Goto
<1> QED BY <1>1, <1>2 DEF RecoverReturn

\* Steps outside the lock establish and disturb nothing.
LEMMA UnlockedHolder ==
    ASSUME IInv, NEW p \in Proc,
           \/ CallExact(p) \/ CallPlain(p) \/ Preparation(p)
           \/ Acquire(p) \/ Fail(p)
    PROVE  HolderOK'
<1> USE DEF FreePC, UnlockedPC, Goto, disk, locals
<1>1. CASE CallExact(p) \/ CallPlain(p)
  BY <1>1, HolderFrame DEF CallExact, CallPlain, Call, IInv, TypeOK
<1>2. CASE RequirePointer(p)
  BY <1>2, HolderFrame, FinishHolder DEF RequirePointer, IInv, TypeOK
<1>3. CASE RequireDescribed(p)
  BY <1>3, HolderFrame, FinishHolder DEF RequireDescribed
<1>4. CASE FetchExact(p)
  BY <1>4, HolderFrame DEF FetchExact
<1>5. CASE FetchLatest(p)
  BY <1>5, HolderFrame, FinishHolder DEF FetchLatest, IInv, TypeOK
<1>6. CASE PickTarget(p)
  BY <1>6, HolderFrame, FinishHolder DEF PickTarget, IInv, TypeOK
<1>7. CASE RefuseUnmanaged(p)
  BY <1>7, HolderFrame, FinishHolder DEF RefuseUnmanaged
<1>8. CASE Acquire(p)
  BY <1>8, HolderFrame DEF Acquire, LockExisting, LockForMutation
<1>9. CASE Fail(p)
  BY <1>9, FinishHolder DEF Fail
<1> QED BY <1>1, <1>2, <1>3, <1>4, <1>5, <1>6, <1>7, <1>8, <1>9 DEF Preparation

LEMMA RecoveryHolder ==
    ASSUME IInv, NEW p \in Proc, Recovery(p)
    PROVE  HolderOK'
<1> USE DEF FreePC, UnlockedPC, LockedPC, RecoveryPC, PC, Goto, disk, locals
<1>1. CASE RecoverProbe(p)
  BY <1>1, HolderFrame, ReturnHolder DEF RecoverProbe
<1>2. CASE RecoverRefused(p)
  BY <1>2, FinishHolder DEF RecoverRefused
<1>3. CASE RecoverForward(p)
  <2>1. Holder(p)'
    BY <1>3, NoneAssumption
       DEF RecoverForward, RecoveryRefuses, Holder, IInv, TypeOK, OwnedPC,
           Pending, Install, Retained
  <2> QED BY <1>3, <2>1, HolderAlone DEF RecoverForward
<1>4. CASE RecoverBackward(p)
  <2>1. Holder(p)'
    BY <1>4 DEF RecoverBackward, Holder, IInv, TypeOK, OwnedPC, DiskOK,
                InstallImpliesPointer
  <2> QED BY <1>4, <2>1, HolderAlone DEF RecoverBackward
<1>5. CASE RecoverUnjournal(p)
  <2>1. Holder(p)'
    BY <1>5 DEF RecoverUnjournal, Holder, IInv, TypeOK, OwnedPC
  <2> QED BY <1>5, <2>1, HolderAlone DEF RecoverUnjournal
<1>6. CASE RecoverRepair(p)
  <2>1. Holder(p)'
    BY <1>6 DEF RecoverRepair, Holder, IInv, TypeOK, OwnedPC
  <2> QED BY <1>6, <2>1, HolderAlone DEF RecoverRepair
<1>7. CASE RecoverConsistent(p)
  BY <1>7, HolderFrame DEF RecoverConsistent
<1>8. CASE RecoverNothing(p)
  BY <1>8, ReturnHolder DEF RecoverNothing
<1>9. CASE RecoverClean(p)
  BY <1>9, ReturnHolder DEF RecoverClean
<1> QED BY <1>1, <1>2, <1>3, <1>4, <1>5, <1>6, <1>7, <1>8, <1>9 DEF Recovery

LEMMA ActivationHolder ==
    ASSUME IInv, NEW p \in Proc, Activation(p)
    PROVE  HolderOK'
<1> USE DEF LockedPC, ActivationPC, PC, Goto, disk, locals
<1>0. Holder(p) /\ TypeOK /\ pc[p] \in PC
  BY DEF IInv, HolderOK, TypeOK
<1>1. CASE DownloadLocked(p)
  <2>1. CASE Finish(p)
    BY <1>1, <2>1, FinishHolder DEF DownloadLocked
  <2>2. CASE ~Finish(p)
    <3>1. /\ pc' = [pc EXCEPT ![p] = "prepare"]
          /\ from' = [from EXCEPT ![p] = pointer]
          /\ UNCHANGED <<op, tgt, id, pointer, install>>
          /\ pointer \in VersionOrNone
          /\ ~NotNewer(p)
      BY <1>0, <1>1, <2>2 DEF DownloadLocked, TypeOK
    <3>2. tgt[p] \in Nat
      BY <1>1, VersionAssumption DEF DownloadLocked, IInv, LocalsOK, Resolved
    <3>3. pointer # None /\ install # None => pointer < tgt[p]
      BY <3>1, <3>2, VersionAssumption DEF NotNewer, VersionOrNone
    <3>4. Holder(p)'
      BY <1>0, <3>1, <3>3 DEF Holder, TypeOK, OwnedPC, FromIsPointer
    <3> QED BY <1>1, <3>1, <3>4, HolderAlone DEF DownloadLocked
  <2> QED BY <2>1, <2>2
<1>2. CASE PrepareVersion(p)
  <2>1. CASE Finish(p)
    BY <1>2, <2>1, FinishHolder DEF PrepareVersion
  <2>2. ASSUME NEW i \in InstallationIds(tgt[p]), CommandOwned(from[p]),
               versions[tgt[p]] \in {None, [id |-> i, sig |-> sig[p]]},
               id' = [id EXCEPT ![p] = i],
               Goto(p, IF versions[tgt[p]] = None THEN "stage" ELSE "journal"),
               UNCHANGED <<op, tgt, from, pointer, pending, install, versions>>
        PROVE  HolderOK'
    <3>1. /\ tgt[p] \in Version
          /\ i \in Id
          /\ Downloads(p)
      BY <1>0, <1>2, InstallationIdsType DEF PrepareVersion, IInv, LocalsOK, Resolved
    <3>2. FromIsPointer(p) /\ (from[p] # None /\ install # None => from[p] < tgt[p])
      BY <1>0, <1>2 DEF PrepareVersion, Holder
    <3>3. \A v \in Version : versions[v] # None => versions[v].id = i
      BY <3>1 DEF InstallationIds, RetainedIds, IInv, DiskOK, OneInstallation
    <3>4. install # None => i = install.id
      BY DEF InstallationIds
    <3>5. from[p] # None => install # None /\ install.active = from[p]
      BY <2>2, <3>2, UserAssumption DEF CommandOwned, FromIsPointer, VersionOrNone
    <3>6. FromIsPointer(p)' /\ Owner(p)'
      BY <1>0, <2>2, <3>1, <3>2, <3>3, <3>4, <3>5
         DEF FromIsPointer, Owner, Downloads, TypeOK
    <3>7. Holder(p)'
      BY <1>0, <2>2, <3>6 DEF Holder, OwnedPC, TypeOK
    <3> QED BY <1>2, <2>2, <3>7, HolderAlone DEF PrepareVersion
  <2> QED BY <1>2, <2>1, <2>2 DEF PrepareVersion
<1>3. CASE StageVersion(p)
  <2>1. Holder(p)'
    BY <1>0, <1>3 DEF StageVersion, Holder, TypeOK, OwnedPC, FromIsPointer, Owner, Downloads
  <2> QED BY <1>3, <2>1, HolderAlone DEF StageVersion
<1>4. CASE RenameVersion(p)
  <2>1. CASE Finish(p) /\ UNCHANGED versions
    BY <1>4, <2>1, FinishHolder DEF RenameVersion
  <2>2. CASE /\ versions' = [versions EXCEPT ![tgt[p]] = [id |-> id[p], sig |-> sig[p]]]
             /\ Goto(p, "journal")
             /\ UNCHANGED locals
    <3>1. /\ tgt[p] \in Version
          /\ [id |-> id[p], sig |-> sig[p]] # None
      BY <1>0, <1>4, NoneAssumption
         DEF RenameVersion, IInv, LocalsOK, Resolved, Downloads, Retained
    <3>2. Holder(p)'
      BY <1>0, <1>4, <2>2, <3>1
         DEF RenameVersion, Holder, TypeOK, OwnedPC, FromIsPointer, Owner, Downloads
    <3> QED BY <1>4, <2>2, <3>2, HolderAlone DEF RenameVersion
  <2> QED BY <1>4, <2>1, <2>2 DEF RenameVersion
<1>5. CASE ExistingLocked(p)
  <2>1. CASE Finish(p)
    BY <1>5, <2>1, FinishHolder DEF ExistingLocked
  <2>2. CASE ~Finish(p)
    <3>1. Holder(p)'
      BY <1>0, <1>5, <2>2, NoneAssumption
         DEF ExistingLocked, CommandOwned, Verified, Holder, TypeOK, OwnedPC,
             FromIsPointer, Owner, Downloads, IInv, DiskOK, OneInstallation
    <3> QED BY <1>5, <2>2, <3>1, HolderAlone DEF ExistingLocked
  <2> QED BY <2>1, <2>2
<1>6. CASE WritePending(p)
  <2>1. Holder(p)'
    BY <1>0, <1>6
       DEF WritePending, Holder, TypeOK, OwnedPC, FromIsPointer, Owner, Downloads, Journaled
  <2> QED BY <1>6, <2>1, HolderAlone DEF WritePending
<1>7. CASE SwitchCheck(p)
  <2>1. CASE Finish(p)
    BY <1>7, <2>1, FinishHolder DEF SwitchCheck
  <2>2. CASE Goto(p, "relink") /\ UNCHANGED locals
    <3>1. Holder(p)'
      BY <1>0, <1>7, <2>2
         DEF SwitchCheck, Holder, TypeOK, OwnedPC, FromIsPointer, Owner, Downloads, Journaled
    <3> QED BY <1>7, <2>2, <3>1, HolderAlone DEF SwitchCheck
  <2> QED BY <1>7, <2>1, <2>2 DEF SwitchCheck
<1>8. CASE SwitchPointer(p)
  <2>1. tgt[p] \in Version /\ tgt[p] # from[p]
    <3>1. tgt[p] \in Version
      BY <1>8 DEF SwitchPointer, IInv, LocalsOK, Resolved
    <3>2. from[p] # None => from[p] < tgt[p] \/ tgt[p] < from[p]
      BY <1>0, <1>8 DEF SwitchPointer, Holder, OwnedPC, Owner
    <3>3. from[p] # None => from[p] \in Nat /\ tgt[p] \in Nat
      BY <1>0, <3>1, VersionAssumption DEF TypeOK, VersionOrNone
    <3> QED BY <3>1, <3>2, <3>3, NoneAssumption
  <2>2. /\ Journaled(p)
        /\ \A v \in Version : versions[v] # None => versions[v].id = id[p]
    BY <1>0, <1>8 DEF SwitchPointer, Holder, OwnedPC, Owner
  <2>3. /\ pc' = [pc EXCEPT ![p] = "describe"]
        /\ pointer' = tgt[p]
        /\ UNCHANGED <<op, tgt, from, id, pending, install, versions>>
    BY <1>8 DEF SwitchPointer
  <2>4. Holder(p)'
    BY <1>0, <2>1, <2>2, <2>3 DEF Holder, TypeOK, OwnedPC, Journaled
  <2> QED BY <1>8, <2>3, <2>4, HolderAlone DEF SwitchPointer
<1>9. CASE WriteInstall(p)
  <2>1. Holder(p)'
    BY <1>0, <1>9 DEF WriteInstall, Holder, TypeOK, OwnedPC, Journaled
  <2> QED BY <1>9, <2>1, HolderAlone DEF WriteInstall
<1>10. CASE RemovePending(p)
  <2>1. Holder(p)'
    BY <1>0, <1>10 DEF RemovePending, Holder, TypeOK, OwnedPC
  <2> QED BY <1>10, <2>1, HolderAlone DEF RemovePending
<1>11. CASE FinishActivation(p)
  BY <1>11, FinishHolder DEF FinishActivation
<1> QED BY <1>1, <1>2, <1>3, <1>4, <1>5, <1>6, <1>7, <1>8, <1>9, <1>10, <1>11
        DEF Activation

\* The user acts on the command only where no activation relies on it, and
\* on install.json only while nobody holds the lock.
LEMMA EnvironmentHolder ==
    ASSUME IInv, Environment
    PROVE  HolderOK'
<1>0. ASSUME NEW p \in Proc PROVE Holder(p)
  BY DEF IInv, HolderOK
<1>1. CASE UserCreatesCommand \/ UserRemovesCommand
  <2>1. /\ pointer \in UserCommand \cup {None}
        /\ pointer' \in UserCommand \cup {None}
        /\ UNCHANGED <<pc, op, tgt, from, id, pending, install, versions>>
    BY <1>1 DEF UserCreatesCommand, UserRemovesCommand, locals
  <2>2. pointer \notin Version /\ pointer' \notin Version
    BY <2>1, NoneAssumption, UserAssumption DEF VersionOrNone
  <2>3. install = None
    BY <2>2 DEF IInv, DiskOK, InstallImpliesPointer
  <2>4. ASSUME NEW p \in Proc PROVE Holder(p)'
    <3>1. CASE pc[p] = "unjournal"
      BY <1>0, <2>1, <2>2, <3>1 DEF Holder, IInv, TypeOK, Pending, OwnedPC
    <3>2. CASE pc[p] \in {"describe", "commit"}
      BY <1>0, <2>2, <3>2 DEF Holder, IInv, LocalsOK, Resolved, ActivationPC
    <3>3. CASE pc[p] \in OwnedPC \cup {"prepare"}
      <4>1. FromIsPointer(p)
        BY <1>0, <3>3 DEF Holder
      <4>2. from[p] = None
        BY <2>1, <2>2, <4>1 DEF FromIsPointer, IInv, TypeOK, VersionOrNone, UserCommand
      <4>3. FromIsPointer(p)'
        BY <2>1, <4>2 DEF FromIsPointer
      <4> QED BY <1>0, <2>1, <3>3, <4>3 DEF Holder, OwnedPC, Owner, Downloads, Journaled
    <3> QED BY <2>1, <3>1, <3>2, <3>3 DEF Holder, OwnedPC
  <2> QED BY <2>4 DEF HolderOK
<1>2. CASE InstallLost
  <2>1. \A p \in Proc : pc[p] \notin LockedPC
    BY <1>2, NoneAssumption DEF InstallLost, IInv, LockOwned
  <2> QED BY <1>2, <2>1
        DEF InstallLost, HolderOK, Holder, OwnedPC, LockedPC, RecoveryPC, ActivationPC
<1> QED BY <1>1, <1>2 DEF Environment

(***************************************************************************)
(* The theorems.                                                           *)
(***************************************************************************)

LEMMA InitInvariant == Init => IInv
<1> SUFFICES ASSUME Init PROVE IInv
  OBVIOUS
<1> USE NoneAssumption DEF Init
<1>1. TypeOK
  BY DEF TypeOK, VersionOrNone, PC, UnlockedPC
<1>2. LockOwned /\ LocalsOK
  BY DEF LockOwned, LocalsOK, LockedPC, RecoveryPC, ActivationPC, Ops, Returns
<1>3. DiskOK
  BY UserAssumption
     DEF DiskOK, PendingExplainsPointer, NamedVersionsRetained, OneInstallation,
         InstallDescribesPointer, InstallImpliesPointer, InstallCurrent,
         VersionOrNone, UserCommand
<1>4. HolderOK
  BY DEF HolderOK, Holder, OwnedPC
<1> QED BY <1>1, <1>2, <1>3, <1>4 DEF IInv

\* A step of a process that writes none of the four files; the others are in
\* the lemmas above.
LEMMA DiskStep ==
    ASSUME IInv, [Next]_vars
    PROVE  DiskOK'
<1> USE DEF disk, aux
<1>0. DiskOK
  BY DEF IInv
<1>1. ASSUME NEW p \in Proc, CallExact(p) \/ CallPlain(p) PROVE DiskOK'
  BY <1>0, <1>1, DiskFrame DEF CallExact, CallPlain, Call
<1>2. ASSUME NEW p \in Proc, Recovery(p) PROVE DiskOK'
  <2>1. CASE RecoverForward(p) \/ RecoverUnjournal(p) \/ RecoverRepair(p)
    BY <2>1, RecoveryDisk
  <2>2. CASE ~(RecoverForward(p) \/ RecoverUnjournal(p) \/ RecoverRepair(p))
    BY <1>0, <1>2, <2>2, DiskFrame
       DEF Recovery, RecoverProbe, RecoverRefused, RecoverBackward,
           RecoverConsistent, RecoverNothing, RecoverClean
  <2> QED BY <2>1, <2>2
<1>3. ASSUME NEW p \in Proc, Preparation(p) \/ Acquire(p) \/ Fail(p) PROVE DiskOK'
  BY <1>0, <1>3, DiskFrame
     DEF Preparation, RequirePointer, RequireDescribed, FetchExact, FetchLatest,
         PickTarget, RefuseUnmanaged, Acquire, LockExisting, LockForMutation, Fail
<1>4. ASSUME NEW p \in Proc, Activation(p) PROVE DiskOK'
  <2> DEFINE writes == \/ RenameVersion(p) \/ WritePending(p) \/ SwitchPointer(p)
                       \/ WriteInstall(p) \/ RemovePending(p)
  <2>1. CASE writes
    BY <2>1, RenameDisk, WritePendingDisk, SwitchDisk, WriteInstallDisk, RemovePendingDisk
  <2>2. CASE ~writes
    BY <1>0, <1>4, <2>2, DiskFrame
       DEF Activation, DownloadLocked, PrepareVersion, StageVersion,
           ExistingLocked, SwitchCheck, FinishActivation
  <2> QED BY <2>1, <2>2
<1>5. CASE Environment
  BY <1>5, EnvironmentDisk
<1>6. CASE UNCHANGED vars
  BY <1>0, <1>6, DiskFrame DEF vars
<1> QED BY <1>1, <1>2, <1>3, <1>4, <1>5, <1>6 DEF Next, Work

LEMMA HolderStep ==
    ASSUME IInv, [Next]_vars
    PROVE  HolderOK'
<1>1. ASSUME NEW p \in Proc,
             \/ CallExact(p) \/ CallPlain(p) \/ Preparation(p)
             \/ Acquire(p) \/ Fail(p)
      PROVE  HolderOK'
  BY <1>1, UnlockedHolder
<1>2. ASSUME NEW p \in Proc, Recovery(p) PROVE HolderOK'
  BY <1>2, RecoveryHolder
<1>3. ASSUME NEW p \in Proc, Activation(p) PROVE HolderOK'
  BY <1>3, ActivationHolder
<1>4. CASE Environment
  BY <1>4, EnvironmentHolder
<1>5. CASE UNCHANGED vars
  BY <1>5 DEF vars, disk, locals, IInv, HolderOK, Holder, FromIsPointer, Owner,
              Journaled, Downloads
<1> QED BY <1>1, <1>2, <1>3, <1>4, <1>5 DEF Next, Work

LEMMA InvariantStep ==
    ASSUME IInv, [Next]_vars
    PROVE  IInv'
BY TypeStep, LockStep, LocalsStep, DiskStep, HolderStep DEF IInv

\* The inductive invariant holds of every behaviour: whatever processes call,
\* fail, crash and race, and whatever the user does to the command.
THEOREM Invariant == Spec => []IInv
<1>1. Init => IInv
  BY InitInvariant
<1>2. IInv /\ [Next]_vars => IInv'
  BY InvariantStep
<1> QED BY <1>1, <1>2, PTL DEF Spec

\* The variables keep their types.
THEOREM TypeCorrect == Spec => []TypeOK
<1>1. IInv => TypeOK
  BY DEF IInv
<1> QED BY <1>1, Invariant, PTL

\* activate_pointer_and_state and recover_locked: the journal always accounts
\* for the pointer, whatever crashed where.
THEOREM JournalExplains == Spec => []PendingExplainsPointer
<1>1. IInv => PendingExplainsPointer
  BY DEF IInv, DiskOK
<1> QED BY <1>1, Invariant, PTL

\* rename_new comes before every document that names the version.
THEOREM NamedRetained == Spec => []NamedVersionsRetained
<1>1. IInv => NamedVersionsRetained
  BY DEF IInv, DiskOK
<1> QED BY <1>1, Invariant, PTL

\* choose_installation_id finds the one id of the installation again.
THEOREM OneId == Spec => []OneInstallation
<1>1. IInv => OneInstallation
  BY DEF IInv, DiskOK
<1> QED BY <1>1, Invariant, PTL

\* write_install_state and recover_locked: install.json describes the pointer.
THEOREM DescribesPointer == Spec => []InstallDescribesPointer
<1>1. IInv => InstallDescribesPointer
  BY DEF IInv, DiskOK
<1> QED BY <1>1, Invariant, PTL

LEMMA RecoveryOK == IInv => RecoveryNeverRefuses
<1> SUFFICES ASSUME IInv, pointer \notin UserCommand PROVE ~RecoveryRefuses
  BY DEF RecoveryNeverRefuses
<1>1. TypeOK /\ DiskOK /\ pointer \in VersionOrNone
  BY DEF IInv, TypeOK
<1>2. pending # None =>
        /\ pending.to \in Version
        /\ pointer \in {pending.from, pending.to}
  BY <1>1 DEF TypeOK, DiskOK, PendingExplainsPointer, Pending
<1>3. pointer \in Version => versions[pointer] # None
  BY <1>1 DEF DiskOK, NamedVersionsRetained
<1>4. pointer \in Version /\ install # None => install.id = versions[pointer].id
  BY <1>1, <1>3 DEF DiskOK, OneInstallation
<1>5. pointer = None => install = None
  BY <1>1, NoneAssumption DEF DiskOK, InstallImpliesPointer
<1> QED BY <1>2, <1>3, <1>4, <1>5 DEF RecoveryRefuses

\* recover_locked's error branches are dead code unless the user's own
\* command is in the way.
THEOREM RecoverySucceeds == Spec => []RecoveryNeverRefuses
BY RecoveryOK, Invariant, PTL

(***************************************************************************)
(* What a step may never do.                                               *)
(***************************************************************************)

\* Only switch_pointer moves the command from one version to another.
LEMMA PointerMoves ==
    ASSUME IInv, [Next]_vars, pointer' # pointer, pointer' \in Version
    PROVE  \E p \in Proc : SwitchPointer(p)
<1> USE DEF disk, aux
<1>1. ASSUME NEW p \in Proc, CallExact(p) \/ CallPlain(p) PROVE FALSE
  BY <1>1 DEF CallExact, CallPlain, Call
<1>2. ASSUME NEW p \in Proc, Recovery(p) PROVE FALSE
  BY <1>2 DEF Recovery, RecoverProbe, RecoverRefused, RecoverForward,
              RecoverBackward, RecoverUnjournal, RecoverRepair,
              RecoverConsistent, RecoverNothing, RecoverClean
<1>3. ASSUME NEW p \in Proc, Preparation(p) \/ Acquire(p) \/ Fail(p) PROVE FALSE
  BY <1>3 DEF Preparation, RequirePointer, RequireDescribed, FetchExact,
              FetchLatest, PickTarget, RefuseUnmanaged, Acquire, LockExisting,
              LockForMutation, Fail
<1>4. ASSUME NEW p \in Proc, Activation(p) PROVE SwitchPointer(p)
  BY <1>4 DEF Activation, DownloadLocked, PrepareVersion, StageVersion,
              RenameVersion, ExistingLocked, WritePending, SwitchCheck,
              WriteInstall, RemovePending, FinishActivation
<1>5. CASE Environment
  BY <1>5, NoneAssumption, UserAssumption
     DEF Environment, UserCreatesCommand, UserRemovesCommand, InstallLost, VersionOrNone
<1>6. CASE UNCHANGED vars
  BY <1>6 DEF vars
<1> QED BY <1>1, <1>2, <1>3, <1>4, <1>5, <1>6 DEF Next, Work

\* The version check that counts is the one under the lock: install and update
\* never move the command down, rollback and rollback_to never up.
THEOREM DirectionIsKept == Spec => DirectionKept
<1>1. IInv /\ [Next]_vars =>
        [(pointer \in Version /\ pointer' \in Version \ {pointer}) =>
           \E p \in Proc :
             /\ pc[p] = "relink"
             /\ IF Downloads(p) THEN pointer < pointer' ELSE pointer' < pointer]_vars
  <2> SUFFICES ASSUME IInv, [Next]_vars, pointer \in Version,
                      pointer' \in Version \ {pointer}
               PROVE  \E p \in Proc :
                        /\ pc[p] = "relink"
                        /\ IF Downloads(p) THEN pointer < pointer' ELSE pointer' < pointer
    OBVIOUS
  <2>1. PICK p \in Proc : SwitchPointer(p)
    BY PointerMoves
  <2>2. pc[p] = "relink" /\ pointer' = tgt[p]
    BY <2>1 DEF SwitchPointer
  <2>3. FromIsPointer(p) /\ Owner(p)
    BY <2>2 DEF IInv, HolderOK, Holder, OwnedPC
  <2>4. from[p] = pointer /\ pointer # None
    BY <2>3, NoneAssumption, UserAssumption DEF FromIsPointer, VersionOrNone
  <2> QED BY <2>2, <2>3, <2>4 DEF Owner
<1> QED BY <1>1, Invariant, PTL DEF Spec, DirectionKept

\* Only rename_new changes a version directory, and only one that is absent.
THEOREM RetainedForever == Spec => RetainedImmutable
<1>1. IInv /\ [Next]_vars =>
        [\A v \in Version : versions[v] # None => versions'[v] = versions[v]]_vars
  <2> SUFFICES ASSUME IInv, [Next]_vars, NEW v \in Version, versions[v] # None
               PROVE  versions'[v] = versions[v]
    OBVIOUS
  <2> USE DEF disk, aux
  <2>1. ASSUME NEW p \in Proc, RenameVersion(p) PROVE versions'[v] = versions[v]
    BY <2>1 DEF RenameVersion, IInv, TypeOK
  <2>2. ASSUME NEW p \in Proc, Recovery(p) PROVE UNCHANGED versions
    BY <2>2 DEF Recovery, RecoverProbe, RecoverRefused, RecoverForward,
                RecoverBackward, RecoverUnjournal, RecoverRepair,
                RecoverConsistent, RecoverNothing, RecoverClean
  <2>3. ASSUME NEW p \in Proc, Activation(p), ~RenameVersion(p) PROVE UNCHANGED versions
    BY <2>3 DEF Activation, DownloadLocked, PrepareVersion, StageVersion,
                ExistingLocked, WritePending, SwitchCheck, SwitchPointer,
                WriteInstall, RemovePending, FinishActivation
  <2>4. ASSUME NEW p \in Proc,
               \/ CallExact(p) \/ CallPlain(p) \/ Preparation(p)
               \/ Acquire(p) \/ Fail(p)
        PROVE  UNCHANGED versions
    BY <2>4 DEF CallExact, CallPlain, Call, Preparation, RequirePointer,
                RequireDescribed, FetchExact, FetchLatest, PickTarget,
                RefuseUnmanaged, Acquire, LockExisting, LockForMutation, Fail
  <2>5. CASE Environment \/ UNCHANGED vars
    BY <2>5 DEF Environment, UserCreatesCommand, UserRemovesCommand, InstallLost, vars
  <2> QED BY <2>1, <2>2, <2>3, <2>4, <2>5 DEF Next, Work
<1> QED BY <1>1, Invariant, PTL DEF Spec, RetainedImmutable

(***************************************************************************)
(* The staging directory.                                                  *)
(***************************************************************************)

\* A step of p that neither makes nor loses a transaction under somebody's feet.
LEMMA StagingFrame ==
    ASSUME TypeOK, StagingOwned, NEW p \in Proc, NEW l \in PC, l # "stage",
           pc' = [pc EXCEPT ![p] = l],
           \/ tx' = [tx EXCEPT ![p] = None]
           \/ tx' = tx /\ (tx[p] # None => l \in StagedPC),
           UNCHANGED staging
    PROVE  StagingOwned'
BY DEF StagingOwned, TypeOK

\* The process under the lock finds or leaves the directory empty, and has no
\* transaction of its own.
LEMMA StagingEmptied ==
    ASSUME TypeOK, LockOwned, StagingOwned, NEW p \in Proc, NEW l \in PC,
           lock = p, tx'[p] = None,
           pc' = [pc EXCEPT ![p] = l],
           tx' \in {tx, [tx EXCEPT ![p] = None]},
           staging' = {}
    PROVE  StagingOwned'
<1>1. ASSUME NEW q \in Proc \ {p} PROVE tx'[q] = None
  <2>1. pc[q] \notin LockedPC
    BY DEF LockOwned
  <2>2. tx[q] = None
    BY <2>1 DEF StagingOwned, StagedPC, LockedPC
  <2> QED BY <2>2 DEF TypeOK
<1>2. \A q \in Proc : tx'[q] = None
  BY <1>1
<1> QED BY <1>2 DEF StagingOwned

LEMMA FinishStaging ==
    ASSUME TypeOK, StagingOwned, NEW p \in Proc, Finish(p), UNCHANGED staging
    PROVE  StagingOwned'
<1>1. "idle" \in PC /\ "idle" # "stage"
  BY DEF PC, UnlockedPC
<1> QED BY <1>1, StagingFrame DEF Finish

LEMMA ReturnStaging ==
    ASSUME TypeOK, StagingOwned, NEW p \in Proc, RecoverReturn(p),
           tx[p] = None, UNCHANGED staging
    PROVE  StagingOwned'
<1> DEFINE l == IF ret[p] = "unmanaged" THEN "unmanaged"
                ELSE IF op[p] = "install" THEN "fetch" ELSE "current"
<1>1. CASE Finish(p)
  BY <1>1, FinishStaging
<1>2. CASE Goto(p, l) /\ UNCHANGED tx
  <2>1. l \in PC /\ l # "stage"
    BY DEF PC, UnlockedPC
  <2> HIDE DEF l
  <2> QED BY <1>2, <2>1, StagingFrame DEF Goto
<1> QED BY <1>1, <1>2 DEF RecoverReturn

\* Outside the steps of an activation only cleanup_staging after a recovery
\* touches the directory.
LEMMA StagingOutside ==
    ASSUME TypeOK, LockOwned, StagingOwned, NEW p \in Proc,
           \/ CallExact(p) \/ CallPlain(p) \/ Recovery(p) \/ Preparation(p)
           \/ Acquire(p) \/ Fail(p)
    PROVE  StagingOwned'
<1> USE LabelTypes DEF disk, locals, Goto
<1>0. pc[p] \notin StagedPC => tx[p] = None
  BY DEF StagingOwned
<1>1. CASE CallExact(p) \/ CallPlain(p)
  <2>1. /\ pc' = [pc EXCEPT ![p] = "probe"] /\ tx' = tx /\ staging' = staging
        /\ pc[p] = "idle"
    BY <1>1 DEF CallExact, CallPlain, Call
  <2> QED BY <1>0, <2>1, StagingFrame DEF StagedPC, ActivationPC
<1>2. CASE Recovery(p)
  <2>0. tx[p] = None
    BY <1>0, <1>2
       DEF Recovery, RecoverProbe, RecoverRefused, RecoverForward, RecoverBackward,
           RecoverUnjournal, RecoverRepair, RecoverConsistent, RecoverNothing,
           RecoverClean, StagedPC, ActivationPC
  <2>1. CASE RecoverProbe(p) \/ RecoverRefused(p) \/ RecoverNothing(p)
    <3>1. UNCHANGED staging
      BY <2>1 DEF RecoverProbe, RecoverRefused, RecoverNothing
    <3>2. Finish(p) \/ RecoverReturn(p) \/ (pc' = [pc EXCEPT ![p] = "lockExisting"] /\ tx' = tx)
      BY <2>1 DEF RecoverProbe, RecoverRefused, RecoverNothing
    <3> QED BY <2>0, <3>1, <3>2, FinishStaging, ReturnStaging, StagingFrame
  <2>2. CASE RecoverForward(p) \/ RecoverBackward(p) \/ RecoverUnjournal(p)
             \/ RecoverRepair(p) \/ RecoverConsistent(p)
    <3>1. PICK l \in {"unjournal", "clean"} :
            pc' = [pc EXCEPT ![p] = l] /\ tx' = tx /\ staging' = staging
      BY <2>2 DEF RecoverForward, RecoverBackward, RecoverUnjournal, RecoverRepair,
                  RecoverConsistent
    <3> QED BY <2>0, <3>1, StagingFrame
  <2>3. CASE RecoverClean(p)
    <3>1. lock = p
      BY <2>3 DEF RecoverClean, LockOwned, LockedPC, RecoveryPC
    <3>2. PICK l \in PC :
            pc' = [pc EXCEPT ![p] = l] /\ tx' \in {tx, [tx EXCEPT ![p] = None]}
      BY <2>3 DEF RecoverClean, RecoverReturn, Finish, PC, UnlockedPC
    <3>3. tx'[p] = None /\ staging' = {}
      BY <2>0, <2>3, <3>2 DEF RecoverClean, TypeOK
    <3> QED BY <3>1, <3>2, <3>3, StagingEmptied
  <2> QED BY <1>2, <2>1, <2>2, <2>3 DEF Recovery
<1>3. CASE Preparation(p)
  <2>0. tx[p] = None /\ UNCHANGED staging
    BY <1>0, <1>3
       DEF Preparation, RequirePointer, RequireDescribed, FetchExact, FetchLatest,
           PickTarget, RefuseUnmanaged, StagedPC, ActivationPC
  <2>1. Finish(p) \/ \E l \in PC \ {"stage"} : pc' = [pc EXCEPT ![p] = l] /\ tx' = tx
    <3>1. {"described", "fetch", "target", "probe", "lockForMutation"} \subseteq PC \ {"stage"}
      OBVIOUS
    <3> QED BY <1>3, <3>1
       DEF Preparation, RequirePointer, RequireDescribed, FetchExact, FetchLatest,
           PickTarget, RefuseUnmanaged
  <2> QED BY <2>0, <2>1, FinishStaging, StagingFrame
<1>4. CASE Acquire(p)
  <2>1. PICK l \in {"recover", "locked"} :
          /\ pc' = [pc EXCEPT ![p] = l] /\ tx' = tx /\ staging' = staging
          /\ pc[p] \notin StagedPC
    BY <1>4 DEF Acquire, LockExisting, LockForMutation, StagedPC, ActivationPC
  <2> QED BY <1>0, <2>1, StagingFrame
<1>5. CASE Fail(p)
  BY <1>5, FinishStaging DEF Fail
<1> QED BY <1>1, <1>2, <1>3, <1>4, <1>5

\* cleanup_staging, create_transaction and remove_transaction_after_rename.
LEMMA StagingActivation ==
    ASSUME TypeOK, LockOwned, StagingOwned, NEW p \in Proc, Activation(p)
    PROVE  StagingOwned'
<1> USE LabelTypes DEF disk, locals, Goto
<1>0. lock = p /\ (pc[p] \notin StagedPC => tx[p] = None)
  BY DEF Activation, DownloadLocked, PrepareVersion, StageVersion, RenameVersion,
         ExistingLocked, WritePending, SwitchCheck, SwitchPointer, WriteInstall,
         RemovePending, FinishActivation, LockOwned, LockedPC, ActivationPC, StagingOwned
<1>1. CASE DownloadLocked(p) \/ ExistingLocked(p)
  <2>1. UNCHANGED staging /\ tx[p] = None
    BY <1>0, <1>1 DEF DownloadLocked, ExistingLocked, StagedPC
  <2>2. Finish(p) \/ \E l \in {"prepare", "journal"} : pc' = [pc EXCEPT ![p] = l] /\ tx' = tx
    BY <1>1 DEF DownloadLocked, ExistingLocked
  <2> QED BY <2>1, <2>2, FinishStaging, StagingFrame
<1>2. CASE PrepareVersion(p)
  <2>0. tx[p] = None
    BY <1>0, <1>2 DEF PrepareVersion, StagedPC
  <2>1. CASE Finish(p) /\ UNCHANGED staging
    BY <2>1, FinishStaging
  <2>2. CASE Finish(p) /\ staging' = {}
    <3>1. pc' = [pc EXCEPT ![p] = "idle"] /\ tx' = [tx EXCEPT ![p] = None] /\ "idle" \in PC
      BY <2>2 DEF Finish, PC, UnlockedPC
    <3>2. tx'[p] = None
      BY <3>1 DEF TypeOK
    <3> QED BY <1>0, <2>2, <3>1, <3>2, StagingEmptied
  <2>3. CASE CommandOwned(from[p]) /\ tx' = tx
             /\ (from[p] # None \/ pointer = None => staging' = {})
             /\ \E l \in {"stage", "journal"} : pc' = [pc EXCEPT ![p] = l]
    <3>1. staging' = {}
      BY <2>3 DEF CommandOwned
    <3> QED BY <1>0, <2>0, <2>3, <3>1, StagingEmptied
  <2> QED BY <1>2, <2>1, <2>2, <2>3 DEF PrepareVersion
<1>3. CASE StageVersion(p)
  <2>1. PICK t \in Tx : staging' = {t} /\ tx' = [tx EXCEPT ![p] = t]
    BY <1>3 DEF StageVersion, StagingOwned
  <2>2. ASSUME NEW q \in Proc \ {p} PROVE tx'[q] = None /\ pc'[q] # "stage"
    <3>1. pc[q] \notin LockedPC
      BY <1>0 DEF LockOwned
    <3>2. tx[q] = None /\ pc[q] # "stage"
      BY <3>1 DEF StagingOwned, StagedPC, LockedPC, ActivationPC
    <3> QED BY <1>3, <2>1, <3>2 DEF StageVersion, TypeOK
  <2>3. tx'[p] = t /\ pc'[p] = "rename"
    BY <1>3, <2>1 DEF StageVersion, TypeOK
  <2>4. "rename" \in StagedPC
    BY DEF StagedPC, ActivationPC
  <2> QED BY <2>1, <2>2, <2>3, <2>4 DEF StagingOwned
<1>4. CASE RenameVersion(p) \/ WritePending(p) \/ SwitchCheck(p) \/ SwitchPointer(p)
           \/ WriteInstall(p) \/ RemovePending(p)
  <2>1. UNCHANGED staging
    BY <1>4 DEF RenameVersion, WritePending, SwitchCheck, SwitchPointer, WriteInstall,
                RemovePending
  <2>2. Finish(p) \/ \E l \in {"journal", "switch", "relink", "describe", "commit", "finish"} :
                       pc' = [pc EXCEPT ![p] = l] /\ tx' = tx
    BY <1>4 DEF RenameVersion, WritePending, SwitchCheck, SwitchPointer, WriteInstall,
                RemovePending
  <2>3. {"journal", "switch", "relink", "describe", "commit", "finish"}
          \subseteq StagedPC \cap (PC \ {"stage"})
    BY DEF StagedPC, ActivationPC
  <2> QED BY <2>1, <2>2, <2>3, FinishStaging, StagingFrame
<1>5. CASE FinishActivation(p)
  <2>1. pc' = [pc EXCEPT ![p] = "idle"] /\ tx' = [tx EXCEPT ![p] = None] /\ "idle" \in PC
    BY <1>5 DEF FinishActivation, Finish, PC, UnlockedPC
  <2>2. CASE tx[p] = None
    <3>1. staging' = staging
      BY <1>5, <2>2, NoneAssumption DEF FinishActivation, TypeOK
    <3> QED BY <1>5, <3>1, FinishStaging DEF FinishActivation
  <2>3. CASE tx[p] # None
    <3>1. staging' = {}
      BY <1>5, <2>3 DEF FinishActivation, StagingOwned
    <3>2. tx'[p] = None
      BY <2>1 DEF TypeOK
    <3> QED BY <1>0, <2>1, <3>1, <3>2, StagingEmptied
  <2> QED BY <2>2, <2>3
<1> QED BY <1>1, <1>2, <1>3, <1>4, <1>5 DEF Activation

\* cleanup_staging never takes a transaction of an activation that is under
\* way, and at most one is ever there.
THEOREM StagingIsKept == Spec => []StagingKept
<1>1. Init => StagingOwned
  BY NoneAssumption DEF Init, StagingOwned
<1>2. IInv /\ StagingOwned /\ [Next]_vars => StagingOwned'
  <2> SUFFICES ASSUME IInv, StagingOwned, [Next]_vars PROVE StagingOwned'
    OBVIOUS
  <2>0. TypeOK /\ LockOwned
    BY DEF IInv
  <2>1. CASE Environment \/ UNCHANGED vars
    BY <2>1 DEF Environment, UserCreatesCommand, UserRemovesCommand, InstallLost, vars,
                disk, locals, StagingOwned
  <2>2. ASSUME NEW p \in Proc,
               CallExact(p) \/ CallPlain(p) \/ Work(p) \/ Acquire(p) \/ Fail(p)
        PROVE  StagingOwned'
    BY <2>0, <2>2, StagingOutside, StagingActivation DEF Work
  <2> QED BY <2>1, <2>2 DEF Next
<1>3. StagingOwned => StagingKept
  <2> SUFFICES ASSUME StagingOwned PROVE StagingKept
    OBVIOUS
  <2>1. Cardinality(staging) <= 1
    <3>1. CASE staging = {}
      <4>1. Cardinality(staging) = 0
        BY <3>1, FS_EmptySet
      <4> QED BY <4>1
    <3>2. ASSUME NEW t \in Tx, staging = {t} PROVE Cardinality(staging) <= 1
      <4>1. Cardinality(staging) = 1
        BY <3>2, FS_Singleton
      <4> QED BY <4>1
    <3> QED BY <3>1, <3>2 DEF StagingOwned
  <2> QED BY <2>1 DEF StagingOwned, StagingKept
<1> QED BY <1>1, <1>2, <1>3, Invariant, PTL DEF Spec

(***************************************************************************)
(* The user's command.                                                     *)
(***************************************************************************)

\* Who comes to replace the command has seen it owned; a command the user has
\* made since then is a late one.
LEMMA LateStep ==
    ASSUME IInv, LateKept, [Next]_vars
    PROVE  LateKept'
<1> SUFFICES ASSUME pointer' \in UserCommand, NEW q \in Proc, pc'[q] \in OwnedPC
             PROVE  late'
  BY DEF LateKept
<1> USE DEF disk, aux, locals, OwnedPC, Goto
<1>0. TypeOK
  BY DEF IInv
<1>a. ASSUME pointer' = pointer, late' = late, pc[q] \in OwnedPC PROVE late'
  BY <1>a DEF LateKept
<1>1. ASSUME NEW p \in Proc, \/ CallExact(p) \/ CallPlain(p) \/ Preparation(p)
                             \/ Recovery(p) \/ Acquire(p) \/ Fail(p)
      PROVE  late'
  <2>1. UNCHANGED <<pointer, late>>
    BY <1>1
       DEF CallExact, CallPlain, Call, Preparation, RequirePointer, RequireDescribed,
           FetchExact, FetchLatest, PickTarget, RefuseUnmanaged, Recovery, RecoverProbe,
           RecoverRefused, RecoverForward, RecoverBackward, RecoverUnjournal,
           RecoverRepair, RecoverConsistent, RecoverNothing, RecoverClean, Acquire,
           LockExisting, LockForMutation, Fail
  <2>2. \/ Finish(p)
        \/ \E l \in UnlockedPC \cup RecoveryPC \cup {"locked"} : pc' = [pc EXCEPT ![p] = l]
    <3>1. CASE Recovery(p)
      <4>1. CASE RecoverProbe(p) \/ RecoverNothing(p) \/ RecoverClean(p)
        BY <4>1 DEF RecoverProbe, RecoverNothing, RecoverClean, RecoverReturn, RecoveryPC, UnlockedPC
      <4>2. CASE ~(RecoverProbe(p) \/ RecoverNothing(p) \/ RecoverClean(p))
        BY <3>1, <4>2
           DEF Recovery, RecoverRefused, RecoverForward, RecoverBackward, RecoverUnjournal,
               RecoverRepair, RecoverConsistent, RecoveryPC, UnlockedPC
      <4> QED BY <4>1, <4>2
    <3>2. CASE Preparation(p)
      BY <3>2
         DEF Preparation, RequirePointer, RequireDescribed, FetchExact, FetchLatest,
             PickTarget, RefuseUnmanaged, RecoveryPC, UnlockedPC
    <3>3. CASE CallExact(p) \/ CallPlain(p) \/ Acquire(p) \/ Fail(p)
      BY <3>3
         DEF CallExact, CallPlain, Call, Acquire, LockExisting, LockForMutation, Fail,
             RecoveryPC, UnlockedPC
    <3> QED BY <1>1, <3>1, <3>2, <3>3
  <2>3. \E l : pc' = [pc EXCEPT ![p] = l] /\ l \notin OwnedPC
    BY <2>2 DEF Finish, RecoveryPC, UnlockedPC
  <2>4. pc[q] \in OwnedPC
    BY <1>0, <2>3 DEF TypeOK
  <2> QED BY <1>a, <2>1, <2>4
<1>2. ASSUME NEW p \in Proc, Activation(p) PROVE late'
  <2>1. CASE PrepareVersion(p) \/ ExistingLocked(p)
    <3>1. UNCHANGED <<pointer, late>>
      BY <2>1 DEF PrepareVersion, ExistingLocked
    <3>2. CASE Finish(p)
      <4>1. pc[q] \in OwnedPC
        BY <1>0, <3>2 DEF Finish, TypeOK
      <4> QED BY <1>a, <3>1, <4>1
    <3>3. CASE ~Finish(p)
      <4>1. CASE PrepareVersion(p)
        <5>1. CommandOwned(from[p]) /\ from[p] \in VersionOrNone
          BY <1>0, <3>3, <4>1 DEF PrepareVersion, TypeOK
        <5> QED BY <3>1, <5>1, UserAssumption DEF CommandOwned, VersionOrNone
      <4>2. CASE ExistingLocked(p)
        <5>1. pointer \in Version
          BY <3>3, <4>2 DEF ExistingLocked
        <5> QED BY <3>1, <5>1, UserAssumption DEF VersionOrNone
      <4> QED BY <2>1, <4>1, <4>2
    <3> QED BY <3>2, <3>3
  <2>2. CASE DownloadLocked(p) \/ WriteInstall(p) \/ RemovePending(p) \/ FinishActivation(p)
    <3>1. UNCHANGED <<pointer, late>>
      BY <2>2 DEF DownloadLocked, WriteInstall, RemovePending, FinishActivation
    <3>2. \E l : pc' = [pc EXCEPT ![p] = l] /\ l \notin OwnedPC
      BY <2>2 DEF DownloadLocked, WriteInstall, RemovePending, FinishActivation, Finish
    <3>3. pc[q] \in OwnedPC
      BY <1>0, <3>2 DEF TypeOK
    <3> QED BY <1>a, <3>1, <3>3
  <2>3. CASE StageVersion(p) \/ RenameVersion(p) \/ WritePending(p) \/ SwitchCheck(p)
    <3>1. UNCHANGED <<pointer, late>> /\ pc[p] \in OwnedPC
      BY <2>3 DEF StageVersion, RenameVersion, WritePending, SwitchCheck
    <3>2. \E l : pc' = [pc EXCEPT ![p] = l]
      BY <2>3 DEF StageVersion, RenameVersion, WritePending, SwitchCheck, Finish
    <3>3. pc[q] \in OwnedPC
      BY <1>0, <3>1, <3>2 DEF TypeOK
    <3> QED BY <1>a, <3>1, <3>3
  <2>4. CASE SwitchPointer(p)
    <3>1. tgt[p] \in Version
      BY <2>4 DEF SwitchPointer, IInv, LocalsOK, Resolved, ActivationPC
    <3> QED BY <2>4, <3>1, UserAssumption DEF SwitchPointer, VersionOrNone
  <2> QED BY <1>2, <2>1, <2>2, <2>3, <2>4 DEF Activation
<1>3. CASE UserCreatesCommand
  BY <1>3 DEF UserCreatesCommand
<1>4. CASE UserRemovesCommand
  BY <1>4, UserAssumption DEF UserRemovesCommand, VersionOrNone
<1>5. CASE InstallLost \/ UNCHANGED vars
  BY <1>5, <1>a DEF InstallLost, vars
<1> QED BY <1>1, <1>2, <1>3, <1>4, <1>5 DEF Next, Work, Environment

\* ensure_command_owned: a command of the user's own is replaced only if it
\* appeared after the check, however the processes and the user interleave.
THEOREM UserCommandIsKept == Spec => UserCommandKept
<1>1. Init => LateKept
  BY DEF Init, LateKept, OwnedPC
<1>2. IInv /\ LateKept /\ [Next]_vars => LateKept'
  BY LateStep
<1>3. IInv /\ LateKept /\ [Next]_vars =>
        [(pointer \in UserCommand /\ pointer' \in Version) => late]_vars
  <2> SUFFICES ASSUME IInv, LateKept, [Next]_vars, pointer \in UserCommand, pointer' \in Version
               PROVE  late
    OBVIOUS
  <2>1. pointer' # pointer
    BY UserAssumption DEF VersionOrNone
  <2>2. PICK p \in Proc : SwitchPointer(p)
    BY <2>1, PointerMoves
  <2>3. pc[p] \in OwnedPC
    BY <2>2 DEF SwitchPointer, OwnedPC
  <2> QED BY <2>3 DEF LateKept
<1> QED BY <1>1, <1>2, <1>3, Invariant, PTL DEF Spec, UserCommandKept

(***************************************************************************)
(* The protocol implements the selector.                                   *)
(***************************************************************************)

\* A step that leaves pointer, versions and the previous version alone.
LEMMA SelectorStutter ==
    ASSUME UNCHANGED <<pointer, pending, install, versions>>
    PROVE  UNCHANGED Selector!selector
BY DEF Selector!selector, Current, Previous

LEMMA RecoveryRefines ==
    ASSUME IInv, NEW p \in Proc, Recovery(p)
    PROVE  [Selector!Next]_(Selector!selector)
<1> USE DEF disk, aux
<1>0. TypeOK /\ DiskOK /\ Holder(p)
  BY DEF IInv, HolderOK
<1>1. CASE RecoverForward(p)
  BY <1>1 DEF RecoverForward, Selector!selector, Current, Previous
<1>2. CASE RecoverUnjournal(p)
  <2>1. pending # None /\ (pointer = pending.to =>
            install # None /\ install.previous = pending.from)
    BY <1>0, <1>2 DEF RecoverUnjournal, Holder
  <2> QED BY <1>2, <2>1 DEF RecoverUnjournal, Selector!selector, Current, Previous
<1>3. CASE RecoverRepair(p)
  <2>1. /\ pending = None /\ pending' = None
        /\ UNCHANGED <<pointer, versions>>
    BY <1>3 DEF RecoverRepair
  <2>2. Previous' \in {Previous, None}
    <3>1. install' # None
      BY <1>0, <1>3, NoneAssumption
         DEF RecoverRepair, RecoveryRefuses, TypeOK, Install, Retained, VersionOrNone
    <3>2. install # None => install'.previous \in {install.previous, None}
      BY <1>3 DEF RecoverRepair
    <3>3. install = None => install'.previous = None
      BY <1>3, NoneAssumption DEF RecoverRepair
    <3> QED BY <2>1, <3>1, <3>2, <3>3 DEF Previous
  <2>3. UNCHANGED <<Current, {v \in Version : versions[v] # None}>>
    BY <2>1 DEF Current
  <2> QED BY <2>2, <2>3 DEF Selector!Next, Selector!Forget, Selector!selector
<1>4. CASE ~(RecoverForward(p) \/ RecoverUnjournal(p) \/ RecoverRepair(p))
  BY <1>4, SelectorStutter
     DEF Recovery, RecoverProbe, RecoverRefused, RecoverBackward,
         RecoverConsistent, RecoverNothing, RecoverClean
<1> QED BY <1>1, <1>2, <1>3, <1>4

LEMMA ActivationRefines ==
    ASSUME IInv, NEW p \in Proc, Activation(p)
    PROVE  [Selector!Next]_(Selector!selector)
<1> USE DEF disk, aux
<1>0. TypeOK /\ DiskOK /\ Holder(p)
  BY DEF IInv, HolderOK
<1> DEFINE retained == {v \in Version : versions[v] # None}
<1>1. CASE RenameVersion(p)
  <2>1. tgt[p] \in Version
    BY <1>1 DEF RenameVersion, IInv, LocalsOK, Resolved, ActivationPC
  <2>2. UNCHANGED <<Current, Previous>>
    BY <1>1 DEF RenameVersion, Current, Previous
  <2>3. CASE UNCHANGED versions
    BY <2>2, <2>3 DEF Selector!selector
  <2>4. CASE /\ versions[tgt[p]] = None
             /\ versions' = [versions EXCEPT ![tgt[p]] = [id |-> id[p], sig |-> sig[p]]]
    <3>1. [id |-> id[p], sig |-> sig[p]] # None
      BY <1>0, <1>1, <2>1, NoneAssumption
         DEF RenameVersion, IInv, LocalsOK, Resolved, ActivationPC, Retained
    <3>2. tgt[p] \notin retained /\ retained' = retained \cup {tgt[p]}
      BY <1>0, <2>1, <2>4, <3>1 DEF TypeOK
    <3> QED BY <2>1, <2>2, <3>2 DEF Selector!Next, Selector!Retain
  <2> QED BY <1>1, <2>3, <2>4 DEF RenameVersion
<1>2. CASE WritePending(p)
  <2>1. FromIsPointer(p) /\ Owner(p) /\ tgt[p] \in Version
    BY <1>0, <1>2 DEF WritePending, Holder, OwnedPC, IInv, LocalsOK, Resolved, ActivationPC
  <2>2. tgt[p] # pointer
    <3>1. CASE from[p] = None
      BY <2>1, <3>1, NoneAssumption, UserAssumption DEF FromIsPointer, VersionOrNone
    <3>2. CASE from[p] # None
      <4>1. from[p] = pointer /\ from[p] \in Version
        BY <1>0, <2>1, <3>2 DEF FromIsPointer, TypeOK, VersionOrNone
      <4>2. from[p] \in Nat /\ tgt[p] \in Nat
        BY <2>1, <4>1, VersionAssumption
      <4>3. from[p] < tgt[p] \/ tgt[p] < from[p]
        BY <2>1, <3>2 DEF Owner
      <4> QED BY <4>1, <4>2, <4>3
    <3> QED BY <3>1, <3>2
  <2>3. pending' = [from |-> from[p], to |-> tgt[p]] /\ UNCHANGED <<pointer, install, versions>>
    BY <1>2 DEF WritePending
  <2>4. pending # None /\ pointer = pending.to =>
          install # None /\ install.previous = pending.from
    <3> SUFFICES ASSUME pending # None, pointer = pending.to
                 PROVE  install # None /\ install.previous = pending.from
      OBVIOUS
    <3>1. pointer \in Version /\ pending.from # pending.to
      BY <1>0 DEF TypeOK, Pending, DiskOK, InstallImpliesPointer
    <3>2. from[p] = pointer
      BY <2>1, <3>1, UserAssumption DEF FromIsPointer, VersionOrNone
    <3>3. install # None /\ install.active = pointer
      BY <2>1, <3>1, <3>2, NoneAssumption DEF Owner
    <3> QED BY <1>0, <3>1, <3>3, NoneAssumption DEF DiskOK, InstallDescribesPointer
  <2>5. UNCHANGED Previous
    BY <2>2, <2>3, <2>4 DEF Previous
  <2> QED BY <2>3, <2>5 DEF Selector!selector, Current
<1>3. CASE SwitchPointer(p)
  <2>1. /\ FromIsPointer(p) /\ Owner(p) /\ Journaled(p)
        /\ tgt[p] \in Version /\ versions[tgt[p]] # None
    BY <1>0, <1>3 DEF SwitchPointer, Holder, OwnedPC, IInv, LocalsOK, Resolved, ActivationPC
  <2>2. pending # None
    BY <1>0, <2>1, NoneAssumption DEF Journaled, TypeOK, Pending
  <2>3. Current' = tgt[p] /\ Previous' = from[p] /\ UNCHANGED versions
    BY <1>3, <2>1, <2>2 DEF SwitchPointer, Current, Previous, Journaled
  <2>4. from[p] = Current
    BY <1>0, <2>1, NoneAssumption, UserAssumption
       DEF FromIsPointer, Current, TypeOK, VersionOrNone
  <2>5. tgt[p] # from[p]
    <3>1. from[p] # None => from[p] \in Nat /\ tgt[p] \in Nat
      BY <1>0, <2>1, VersionAssumption DEF TypeOK, VersionOrNone
    <3> QED BY <2>1, <3>1, NoneAssumption DEF Owner
  <2>6. Selector!Activate(tgt[p])
    BY <2>1, <2>3, <2>4, <2>5 DEF Selector!Activate
  <2> QED BY <2>1, <2>6 DEF Selector!Next
<1>4. CASE WriteInstall(p)
  <2>1. Journaled(p) /\ pointer = tgt[p] /\ pending # None
    <3>1. Journaled(p) /\ pointer = tgt[p]
      BY <1>0, <1>4 DEF WriteInstall, Holder
    <3>2. tgt[p] \in Version /\ from[p] \in VersionOrNone
      BY <1>0, <1>4
         DEF WriteInstall, TypeOK, IInv, LocalsOK, Resolved, ActivationPC
    <3> QED BY <3>1, <3>2, NoneAssumption DEF Journaled, Pending
  <2> QED BY <1>4, <2>1
        DEF WriteInstall, Journaled, Selector!selector, Current, Previous
<1>5. CASE RemovePending(p)
  <2>1. /\ Journaled(p) /\ pointer = tgt[p]
        /\ install = [active |-> tgt[p], previous |-> from[p], id |-> id[p]]
    BY <1>0, <1>5 DEF RemovePending, Holder
  <2>2. pending # None /\ install # None
    BY <1>0, <1>5, <2>1, NoneAssumption
       DEF RemovePending, Journaled, TypeOK, Pending, DiskOK,
           InstallCurrent, Install, IInv, LocalsOK, Resolved, ActivationPC
  <2> QED BY <1>5, <2>1, <2>2
        DEF RemovePending, Journaled, Selector!selector, Current, Previous
<1>6. CASE ~(\/ RenameVersion(p) \/ WritePending(p) \/ SwitchPointer(p)
             \/ WriteInstall(p) \/ RemovePending(p))
  BY <1>6, SelectorStutter
     DEF Activation, DownloadLocked, PrepareVersion, StageVersion,
         ExistingLocked, SwitchCheck, FinishActivation
<1> QED BY <1>1, <1>2, <1>3, <1>4, <1>5, <1>6

LEMMA EnvironmentRefines ==
    ASSUME IInv, Environment
    PROVE  [Selector!Next]_(Selector!selector)
<1>0. TypeOK /\ DiskOK
  BY DEF IInv
<1>1. CASE UserCreatesCommand \/ UserRemovesCommand
  <2>1. pointer \notin Version /\ pointer' \notin Version
    BY <1>1, NoneAssumption, UserAssumption
       DEF UserCreatesCommand, UserRemovesCommand, VersionOrNone
  <2>2. pending # None => pending.to \in Version
    BY <1>0 DEF TypeOK, Pending
  <2> QED BY <1>1, <2>1, <2>2
        DEF UserCreatesCommand, UserRemovesCommand, Selector!selector, Current, Previous
<1>2. CASE InstallLost
  <2>1. UNCHANGED <<Current, {v \in Version : versions[v] # None}>>
    BY <1>2 DEF InstallLost, Current
  <2>2. Previous' \in {Previous, None}
    <3>1. install \in Install /\ UNCHANGED <<pointer, pending>>
      BY <1>0, <1>2 DEF InstallLost, TypeOK
    <3>2. install' = None \/ install'.previous = None
      BY <1>2, <3>1 DEF InstallLost, Install
    <3> QED BY <3>1, <3>2 DEF Previous
  <2> QED BY <2>1, <2>2 DEF Selector!Next, Selector!Forget, Selector!selector
<1> QED BY <1>1, <1>2 DEF Environment

\* Every interleaving, crash and recovery of the protocol shows the selector's
\* behaviour: an activation happened in one step or it did not happen.
THEOREM Refinement == Spec => ImplementsSelector
<1>1. Init => Selector!Init
  BY NoneAssumption, UserAssumption
     DEF Init, Selector!Init, Current, Previous, VersionOrNone
<1>2. IInv /\ [Next]_vars => [Selector!Next]_(Selector!selector)
  <2> SUFFICES ASSUME IInv, [Next]_vars
               PROVE  [Selector!Next]_(Selector!selector)
    OBVIOUS
  <2> USE DEF disk, aux
  <2>1. ASSUME NEW p \in Proc, Recovery(p)
        PROVE  [Selector!Next]_(Selector!selector)
    BY <2>1, RecoveryRefines
  <2>2. ASSUME NEW p \in Proc, Activation(p)
        PROVE  [Selector!Next]_(Selector!selector)
    BY <2>2, ActivationRefines
  <2>3. CASE Environment
    BY <2>3, EnvironmentRefines
  <2>4. ASSUME NEW p \in Proc,
               \/ CallExact(p) \/ CallPlain(p) \/ Preparation(p)
               \/ Acquire(p) \/ Fail(p)
        PROVE  UNCHANGED <<pointer, pending, install, versions>>
    BY <2>4 DEF CallExact, CallPlain, Call, Preparation, RequirePointer,
                RequireDescribed, FetchExact, FetchLatest, PickTarget,
                RefuseUnmanaged, Acquire, LockExisting, LockForMutation, Fail
  <2>5. CASE UNCHANGED vars
    BY <2>5, SelectorStutter DEF vars
  <2> QED BY <2>1, <2>2, <2>3, <2>4, <2>5, SelectorStutter DEF Next, Work
<1> QED BY <1>1, <1>2, Invariant, PTL DEF Spec, ImplementsSelector, Selector!Spec

=============================================================================
