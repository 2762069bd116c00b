--------------------------- MODULE LauncherProofs ---------------------------
(***************************************************************************)
(* What holds of Launcher for every number of processes, versions,         *)
(* launchers and transactions.                                             *)
(***************************************************************************)
EXTENDS Launcher, TLAPS

-----------------------------------------------------------------------------
(* The invariant.                                                          *)

\* Where a call has its version and is past its recovery.
Mutating == Labels \ {"idle", "probe", "await", "recover", "unjournal", "clean"}

\* Where a process holds the lock.
Locked == Labels \ {"idle", "probe", "await", "prove", "mutate"}

\* Where the version and a launcher are in place, up to the last write.
Placed == {"journal", "switch", "describe", "commit"}

\* Before the switch, with active as the process read it.
Unswitched == {"stage", "write", "create", "publish", "journal", "switch"}

\* A retained version carries this launcher.
Carried(d) == \E v \in versions : launcherOf[v] = d

LocalsOK == \A p \in Proc :
    /\ pc[p] # "idle" => op[p] \in {"recover", "install", "rollback"}
    /\ pc[p] \in Mutating => op[p] # "recover"
    /\ pc[p] # "idle" /\ op[p] # "recover" => tgt[p] \in Version

LockOK == \A p \in Proc : pc[p] \in Locked => lock = p

\* The launcher on record is installed, and carried by a retained version from
\* the moment anything is active; before that a marker may vouch for it.
RecordsOK ==
    /\ install # None => Installed(install) /\ Carried(install.launcher) /\ active # None
    /\ active # None => active \in versions /\ command \in Digest /\ Carried(command)
    /\ pending # None => active \in {pending.from, pending.to}
    /\ command \in Digest => Carried(command) \/ \E t \in staged : marker[t] = command
    /\ \A t \in Tx : marker[t] # None =>
         t \in staged /\ \E v \in Version : launcherOf[v] = marker[t]
    /\ selected # None => held /\ selected = active

\* What a process counts on between its steps: active as it read it, its
\* transaction and marker, then the version and the launcher in place.
StepOK(p) ==
    /\ prior[p] # None => Carried(prior[p])
    /\ pc[p] \in {"tidy", "own"} \cup Unswitched => from[p] = active
    /\ pc[p] \in {"write", "create", "publish"} =>
         tx[p] \in staged /\ marker[tx[p]] \in {None, launcherOf[tgt[p]]}
    /\ pc[p] = "create" => marker[tx[p]] = launcherOf[tgt[p]]
    /\ pc[p] = "publish" =>
         command \in Digest /\ (command = launcherOf[tgt[p]] \/ Carried(command))
    /\ pc[p] \in Placed => tgt[p] \in versions /\ command \in Digest /\ Carried(command)
    /\ pc[p] \in {"describe", "commit"} => active = tgt[p]
    /\ pc[p] = "switch" => pending = [from |-> from[p], to |-> tgt[p]]
    /\ pc[p] = "sweep" => active # None

StepsOK == \A p \in Proc : StepOK(p)

\* A journal whose switch is done and described tells the same as install.json.
JournalOK ==
    /\ pending # None => pending.from # pending.to
    /\ pending # None /\ active = pending.to /\ install # None /\ install.active = active =>
         install.previous = pending.from

\* install.json may be lost under a process, but is not replaced by another.
KnowsOK(p) ==
    /\ pc[p] \in {"tidy", "own"} =>
         /\ install \in {known[p], None}
         /\ known[p] # None /\ active # None => tgt[p] # active
    /\ pc[p] \in Unswitched =>
         tgt[p] # active /\ (install # None => install.active = active)
    /\ pc[p] \in {"switch", "describe", "commit"} =>
         pending = [from |-> from[p], to |-> tgt[p]]
    /\ pc[p] \in {"commit", "unjournal"} /\ install # None => install.active = active

HistoryOK == JournalOK /\ \A p \in Proc : KnowsOK(p)

LInv == TypeOK /\ LocalsOK /\ LockOK /\ RecordsOK /\ StepsOK /\ HistoryOK

-----------------------------------------------------------------------------
(* Types, locals and the lock.                                             *)

\* The part of TypeOK that is about processes.
LocalTypes ==
    /\ lock \in Proc \cup {None}
    /\ pc \in [Proc -> Labels]
    /\ op \in [Proc -> {"recover", "install", "rollback", None}]
    /\ tgt \in [Proc -> VersionOrNone]
    /\ from \in [Proc -> VersionOrNone]
    /\ known \in [Proc -> Install \cup {None}]
    /\ prior \in [Proc -> DigestOrNone]
    /\ tx \in [Proc -> Tx \cup {None}]

\* The processes go on with values of their own types.
LEMMA FinishTypes ==
    ASSUME TypeOK, NEW p \in Proc, Finish(p)
    PROVE  LocalTypes'
<1>1. lock' \in Proc \cup {None} /\ pc' \in [Proc -> Labels]
  BY DEF Finish, Goto, TypeOK, Labels
<1>2. op' \in [Proc -> {"recover", "install", "rollback", None}] /\ tgt' \in [Proc -> VersionOrNone]
  BY DEF Finish, TypeOK, VersionOrNone
<1>3. from' \in [Proc -> VersionOrNone] /\ known' \in [Proc -> Install \cup {None}]
  BY DEF Finish, TypeOK, VersionOrNone
<1>4. prior' \in [Proc -> DigestOrNone] /\ tx' \in [Proc -> Tx \cup {None}]
  BY DEF Finish, TypeOK, DigestOrNone
<1> QED BY <1>1, <1>2, <1>3, <1>4 DEF LocalTypes

\* A recovery that decides in favour of what is active finds our launcher.
LEMMA RecoveryDecides ==
    ASSUME TypeOK, ~Undecided, active # None, pending = None \/ active = pending.to
    PROVE  active \in versions /\ active \in Version /\ command \in Digest
<1>1. active \in versions /\ Owned(active, LauncherOn(install))
  BY NoneAssumption DEF Undecided, TypeOK, Pending
<1>2. active \in Version
  BY <1>1 DEF TypeOK
<1>3. command \in Digest
  BY <1>1, <1>2, NoneAssumption DEF Owned, LauncherOn, TypeOK, Install, DigestOrNone
<1> QED BY <1>1, <1>2, <1>3

\* What install.json is made to say.
LEMMA InstallRecord ==
    ASSUME NEW a \in Version, NEW b \in VersionOrNone, NEW d \in Digest
    PROVE  [active |-> a, previous |-> b, launcher |-> d] \in Install
  BY DEF Install

\* Every step keeps every variable in its type.
LEMMA TypeStep ==
    ASSUME TypeOK, LocalsOK, [Next]_vars
    PROVE  TypeOK'
<1> USE NoneAssumption DEF TypeOK, LocalTypes, LocalsOK, Labels, Cleaning, Mutating,
     VersionOrNone, DigestOrNone, Pending, Install
<1>0. ASSUME NEW p \in Proc, Finish(p) PROVE LocalTypes'
  BY <1>0, FinishTypes
<1>1. ASSUME NEW p \in Proc, Call(p) PROVE TypeOK'
  BY <1>1 DEF Call, Goto, disk, locals, launcher
<1>2. ASSUME NEW p \in Proc, Probe(p) PROVE TypeOK'
  BY <1>0, <1>2 DEF Probe, AfterRecovery, Goto, disk, locals, launcher
<1>3. ASSUME NEW p \in Proc, Acquire(p) PROVE TypeOK'
  BY <1>3 DEF Acquire, Goto, disk, locals, launcher
<1>4. ASSUME NEW p \in Proc, RecoverRefused(p) PROVE TypeOK'
  BY <1>0, <1>4 DEF RecoverRefused, disk, locals, launcher
<1>5. ASSUME NEW p \in Proc, RecoverForward(p) PROVE TypeOK'
  <2>1. pending \in Pending /\ active = pending.to
    BY <1>5 DEF RecoverForward, TypeOK
  <2>2. active # None /\ pending.from \in VersionOrNone
    BY <2>1, NoneAssumption DEF Pending
  <2>3. active \in Version /\ command \in Digest
    BY <1>5, <2>1, <2>2, RecoveryDecides DEF RecoverForward
  <2>4. install' \in Install
    BY <1>5, <2>2, <2>3, InstallRecord DEF RecoverForward
  <2> QED BY <1>5, <2>4 DEF RecoverForward, Goto, locals, launcher
<1>6. ASSUME NEW p \in Proc, RecoverBackward(p) PROVE TypeOK'
  BY <1>6 DEF RecoverBackward, Goto, disk, locals, launcher
<1>7. ASSUME NEW p \in Proc, RecoverNothing(p) PROVE TypeOK'
  BY <1>0, <1>7 DEF RecoverNothing, AfterRecovery, Goto, disk, locals, launcher
<1>8. ASSUME NEW p \in Proc, RecoverRepair(p) PROVE TypeOK'
  <2>1. active \in Version /\ command \in Digest
    BY <1>8, RecoveryDecides DEF RecoverRepair
  <2>2. install = None \/ install.previous \in VersionOrNone
    BY DEF Install
  <2>3. install' \in Install \cup {None}
    BY <1>8, <2>1, <2>2, InstallRecord DEF RecoverRepair
  <2> QED BY <1>8, <2>3 DEF RecoverRepair, Goto, locals, launcher
<1>9. ASSUME NEW p \in Proc, CleanRefused(p) PROVE TypeOK'
  BY <1>0, <1>9 DEF CleanRefused, disk, locals, launcher
<1>10. ASSUME NEW p \in Proc, CleanLauncher(p) PROVE TypeOK'
  BY <1>10 DEF CleanLauncher, disk, locals, launcher
<1>11. ASSUME NEW p \in Proc, CleanTransaction(p) PROVE TypeOK'
  BY <1>11 DEF CleanTransaction, disk, locals, launcher
<1>12. ASSUME NEW p \in Proc, CleanDone(p) PROVE TypeOK'
  BY <1>0, <1>12 DEF CleanDone, AfterRecovery, Goto, disk, locals, launcher
<1>13. ASSUME NEW p \in Proc, Prove(p) PROVE TypeOK'
  BY <1>0, <1>13 DEF Prove, Goto, disk, locals, launcher
<1>14. ASSUME NEW p \in Proc, Begin(p) PROVE TypeOK'
  <2>1. CASE Finish(p)
    BY <1>14, <1>0, <2>1 DEF Begin, disk, launcher
  <2>2. CASE /\ known' = [known EXCEPT ![p] = install]
             /\ from' = [from EXCEPT ![p] = active]
             /\ \E d \in DigestOrNone : prior' = [prior EXCEPT ![p] = d]
             /\ \E l \in {"tidy", "own"} : Goto(p, l)
             /\ UNCHANGED <<lock, op, tgt, tx>>
    BY <1>14, <2>2 DEF Begin, Goto, disk, launcher
  <2>3. (IF install # None THEN install.launcher
         ELSE IF Retained THEN command ELSE None) \in DigestOrNone
    BY DEF Retained
  <2> QED BY <1>14, <2>1, <2>2, <2>3 DEF Begin
<1>15. ASSUME NEW p \in Proc, Own(p) PROVE TypeOK'
  BY <1>0, <1>15 DEF Own, Goto, disk, locals, launcher
<1>16. ASSUME NEW p \in Proc, Stage(p) PROVE TypeOK'
  BY <1>16 DEF Stage, Goto, disk, locals, launcher
<1>17. ASSUME NEW p \in Proc, Write(p) PROVE TypeOK'
  BY <1>0, <1>17 DEF Write, Goto, disk, locals, launcher
<1>18. ASSUME NEW p \in Proc, Create(p) PROVE TypeOK'
  BY <1>0, <1>18 DEF Create, Goto, disk, locals, launcher
<1>19. ASSUME NEW p \in Proc, Publish(p) PROVE TypeOK'
  BY <1>19 DEF Publish, Goto, disk, locals, launcher
<1>20. ASSUME NEW p \in Proc, Back(p) PROVE TypeOK'
  BY <1>0, <1>20 DEF Back, Goto, disk, locals, launcher
<1>21. ASSUME NEW p \in Proc, Journal(p) PROVE TypeOK'
  BY <1>21 DEF Journal, Goto, disk, locals, launcher
<1>22. ASSUME NEW p \in Proc, Switch(p) PROVE TypeOK'
  BY <1>0, <1>22 DEF Switch, Goto, disk, locals, launcher
<1>23. ASSUME NEW p \in Proc, Describe(p) PROVE TypeOK'
  <2>1. CASE Finish(p) /\ UNCHANGED install
    BY <1>23, <1>0, <2>1 DEF Describe, disk, launcher
  <2>2. CASE /\ Owned(tgt[p], prior[p])
             /\ install' = [active |-> tgt[p], previous |-> from[p], launcher |-> command]
             /\ Goto(p, "commit")
             /\ UNCHANGED <<lock, locals>>
    <3>1. tgt[p] \in Version /\ from[p] \in VersionOrNone
      BY <1>23 DEF Describe
    <3>2. command \in Digest
      BY <2>2, <3>1 DEF Owned
    <3>3. install' \in Install
      BY <2>2, <3>1, <3>2, InstallRecord DEF Install
    <3> QED BY <1>23, <2>2, <3>3 DEF Describe, Goto, locals, launcher
  <2> QED BY <1>23, <2>1, <2>2 DEF Describe
<1>24. ASSUME NEW p \in Proc, Commit(p) PROVE TypeOK'
  BY <1>24 DEF Commit, Goto, disk, locals, launcher
<1>25. ASSUME NEW p \in Proc, Sweep(p) PROVE TypeOK'
  <2>1. staged' \subseteq Tx /\ marker' \in [Tx -> DigestOrNone]
    BY <1>25 DEF Sweep
  <2> QED BY <1>25, <1>0, <2>1 DEF Sweep, launcher
<1>26. ASSUME NEW p \in Proc, Fail(p) PROVE TypeOK'
  BY <1>0, <1>26 DEF Fail, disk, locals, launcher
<1>27. CASE RunOpens
  BY <1>27 DEF RunOpens, disk, locals, launcher
<1>28. CASE RunReads
  BY <1>28 DEF RunReads, disk, locals, launcher
<1>29. CASE RunEnds
  BY <1>29 DEF RunEnds, disk, locals, launcher
<1>30. CASE UserCreates
  BY <1>30 DEF UserCreates, disk, locals, launcher
<1>31. CASE UserRemoves
  BY <1>31 DEF UserRemoves, disk, locals, launcher
<1>32. CASE InstallLost
  BY <1>32 DEF InstallLost, disk, locals, launcher
<1>33. CASE UNCHANGED vars
  BY <1>33 DEF vars, disk, locals, launcher
<1> QED
  BY <1>1, <1>2, <1>3, <1>4, <1>5, <1>6, <1>7, <1>8, <1>9, <1>10, <1>11, <1>12,
     <1>13, <1>14, <1>15, <1>16, <1>17, <1>18, <1>19, <1>20, <1>21, <1>22, <1>23,
     <1>24, <1>25, <1>26, <1>27, <1>28, <1>29, <1>30, <1>31, <1>32, <1>33 DEF Next

\* Every step leaves each process with the locals its next steps need.
LEMMA LocalsStep ==
    ASSUME TypeOK, LocalsOK, [Next]_vars
    PROVE  LocalsOK'
<1> USE NoneAssumption DEF TypeOK, LocalsOK, Labels, Cleaning, Mutating
<1>0. ASSUME NEW p \in Proc, Finish(p) PROVE LocalsOK'
  BY <1>0 DEF Finish, Goto
<1>1. ASSUME NEW p \in Proc, Call(p) PROVE LocalsOK'
  BY <1>1 DEF Call, Goto, disk, locals, launcher
<1>2. ASSUME NEW p \in Proc, Probe(p) PROVE LocalsOK'
  BY <1>0, <1>2 DEF Probe, AfterRecovery, Goto, disk, locals, launcher
<1>3. ASSUME NEW p \in Proc, Acquire(p) PROVE LocalsOK'
  BY <1>3 DEF Acquire, Goto, disk, locals, launcher
<1>4. ASSUME NEW p \in Proc, RecoverRefused(p) PROVE LocalsOK'
  BY <1>0, <1>4 DEF RecoverRefused, disk, locals, launcher
<1>5. ASSUME NEW p \in Proc, RecoverForward(p) PROVE LocalsOK'
  BY <1>5 DEF RecoverForward, Goto, disk, locals, launcher
<1>6. ASSUME NEW p \in Proc, RecoverBackward(p) PROVE LocalsOK'
  BY <1>6 DEF RecoverBackward, Goto, disk, locals, launcher
<1>7. ASSUME NEW p \in Proc, RecoverNothing(p) PROVE LocalsOK'
  BY <1>0, <1>7 DEF RecoverNothing, AfterRecovery, Goto, disk, locals, launcher
<1>8. ASSUME NEW p \in Proc, RecoverRepair(p) PROVE LocalsOK'
  BY <1>8 DEF RecoverRepair, Goto, disk, locals, launcher
<1>9. ASSUME NEW p \in Proc, CleanRefused(p) PROVE LocalsOK'
  BY <1>0, <1>9 DEF CleanRefused, disk, locals, launcher
<1>10. ASSUME NEW p \in Proc, CleanLauncher(p) PROVE LocalsOK'
  BY <1>10 DEF CleanLauncher, disk, locals, launcher
<1>11. ASSUME NEW p \in Proc, CleanTransaction(p) PROVE LocalsOK'
  BY <1>11 DEF CleanTransaction, disk, locals, launcher
<1>12. ASSUME NEW p \in Proc, CleanDone(p) PROVE LocalsOK'
  BY <1>0, <1>12 DEF CleanDone, AfterRecovery, Goto, disk, locals, launcher
<1>13. ASSUME NEW p \in Proc, Prove(p) PROVE LocalsOK'
  BY <1>0, <1>13 DEF Prove, Goto, disk, locals, launcher
<1>14. ASSUME NEW p \in Proc, Begin(p) PROVE LocalsOK'
  BY <1>0, <1>14 DEF Begin, Goto, disk, locals, launcher
<1>15. ASSUME NEW p \in Proc, Own(p) PROVE LocalsOK'
  BY <1>0, <1>15 DEF Own, Goto, disk, locals, launcher
<1>16. ASSUME NEW p \in Proc, Stage(p) PROVE LocalsOK'
  BY <1>16 DEF Stage, Goto, disk, locals, launcher
<1>17. ASSUME NEW p \in Proc, Write(p) PROVE LocalsOK'
  BY <1>0, <1>17 DEF Write, Goto, disk, locals, launcher
<1>18. ASSUME NEW p \in Proc, Create(p) PROVE LocalsOK'
  BY <1>0, <1>18 DEF Create, Goto, disk, locals, launcher
<1>19. ASSUME NEW p \in Proc, Publish(p) PROVE LocalsOK'
  BY <1>19 DEF Publish, Goto, disk, locals, launcher
<1>20. ASSUME NEW p \in Proc, Back(p) PROVE LocalsOK'
  BY <1>0, <1>20 DEF Back, Goto, disk, locals, launcher
<1>21. ASSUME NEW p \in Proc, Journal(p) PROVE LocalsOK'
  BY <1>21 DEF Journal, Goto, disk, locals, launcher
<1>22. ASSUME NEW p \in Proc, Switch(p) PROVE LocalsOK'
  BY <1>0, <1>22 DEF Switch, Goto, disk, locals, launcher
<1>23. ASSUME NEW p \in Proc, Describe(p) PROVE LocalsOK'
  BY <1>0, <1>23 DEF Describe, Goto, disk, locals, launcher
<1>24. ASSUME NEW p \in Proc, Commit(p) PROVE LocalsOK'
  BY <1>24 DEF Commit, Goto, disk, locals, launcher
<1>25. ASSUME NEW p \in Proc, Sweep(p) PROVE LocalsOK'
  BY <1>0, <1>25 DEF Sweep, disk, locals, launcher
<1>26. ASSUME NEW p \in Proc, Fail(p) PROVE LocalsOK'
  BY <1>0, <1>26 DEF Fail, disk, locals, launcher
<1>27. CASE RunOpens
  BY <1>27 DEF RunOpens, disk, locals, launcher
<1>28. CASE RunReads
  BY <1>28 DEF RunReads, disk, locals, launcher
<1>29. CASE RunEnds
  BY <1>29 DEF RunEnds, disk, locals, launcher
<1>30. CASE UserCreates
  BY <1>30 DEF UserCreates, disk, locals, launcher
<1>31. CASE UserRemoves
  BY <1>31 DEF UserRemoves, disk, locals, launcher
<1>32. CASE InstallLost
  BY <1>32 DEF InstallLost, disk, locals, launcher
<1>33. CASE UNCHANGED vars
  BY <1>33 DEF vars, disk, locals, launcher
<1> QED
  BY <1>1, <1>2, <1>3, <1>4, <1>5, <1>6, <1>7, <1>8, <1>9, <1>10, <1>11, <1>12,
     <1>13, <1>14, <1>15, <1>16, <1>17, <1>18, <1>19, <1>20, <1>21, <1>22, <1>23,
     <1>24, <1>25, <1>26, <1>27, <1>28, <1>29, <1>30, <1>31, <1>32, <1>33 DEF Next

\* The lock has one owner, the process in a locked section.
LEMMA LockStep ==
    ASSUME TypeOK, LockOK, [Next]_vars
    PROVE  LockOK'
<1> USE NoneAssumption DEF TypeOK, LockOK, Labels, Cleaning, Locked
<1>0. ASSUME NEW p \in Proc, Finish(p) PROVE LockOK'
  BY <1>0 DEF Finish, Goto
<1>1. ASSUME NEW p \in Proc, Call(p) PROVE LockOK'
  BY <1>1 DEF Call, Goto, disk, locals, launcher
<1>2. ASSUME NEW p \in Proc, Probe(p) PROVE LockOK'
  BY <1>0, <1>2 DEF Probe, AfterRecovery, Goto, disk, locals, launcher
<1>3. ASSUME NEW p \in Proc, Acquire(p) PROVE LockOK'
  BY <1>3 DEF Acquire, Goto, disk, locals, launcher
<1>4. ASSUME NEW p \in Proc, RecoverRefused(p) PROVE LockOK'
  BY <1>0, <1>4 DEF RecoverRefused, disk, locals, launcher
<1>5. ASSUME NEW p \in Proc, RecoverForward(p) PROVE LockOK'
  BY <1>5 DEF RecoverForward, Goto, disk, locals, launcher
<1>6. ASSUME NEW p \in Proc, RecoverBackward(p) PROVE LockOK'
  BY <1>6 DEF RecoverBackward, Goto, disk, locals, launcher
<1>7. ASSUME NEW p \in Proc, RecoverNothing(p) PROVE LockOK'
  BY <1>0, <1>7 DEF RecoverNothing, AfterRecovery, Goto, disk, locals, launcher
<1>8. ASSUME NEW p \in Proc, RecoverRepair(p) PROVE LockOK'
  BY <1>8 DEF RecoverRepair, Goto, disk, locals, launcher
<1>9. ASSUME NEW p \in Proc, CleanRefused(p) PROVE LockOK'
  BY <1>0, <1>9 DEF CleanRefused, disk, locals, launcher
<1>10. ASSUME NEW p \in Proc, CleanLauncher(p) PROVE LockOK'
  BY <1>10 DEF CleanLauncher, disk, locals, launcher
<1>11. ASSUME NEW p \in Proc, CleanTransaction(p) PROVE LockOK'
  BY <1>11 DEF CleanTransaction, disk, locals, launcher
<1>12. ASSUME NEW p \in Proc, CleanDone(p) PROVE LockOK'
  BY <1>0, <1>12 DEF CleanDone, AfterRecovery, Goto, disk, locals, launcher
<1>13. ASSUME NEW p \in Proc, Prove(p) PROVE LockOK'
  BY <1>0, <1>13 DEF Prove, Goto, disk, locals, launcher
<1>14. ASSUME NEW p \in Proc, Begin(p) PROVE LockOK'
  BY <1>0, <1>14 DEF Begin, Goto, disk, locals, launcher
<1>15. ASSUME NEW p \in Proc, Own(p) PROVE LockOK'
  BY <1>0, <1>15 DEF Own, Goto, disk, locals, launcher
<1>16. ASSUME NEW p \in Proc, Stage(p) PROVE LockOK'
  BY <1>16 DEF Stage, Goto, disk, locals, launcher
<1>17. ASSUME NEW p \in Proc, Write(p) PROVE LockOK'
  BY <1>0, <1>17 DEF Write, Goto, disk, locals, launcher
<1>18. ASSUME NEW p \in Proc, Create(p) PROVE LockOK'
  BY <1>0, <1>18 DEF Create, Goto, disk, locals, launcher
<1>19. ASSUME NEW p \in Proc, Publish(p) PROVE LockOK'
  BY <1>19 DEF Publish, Goto, disk, locals, launcher
<1>20. ASSUME NEW p \in Proc, Back(p) PROVE LockOK'
  BY <1>0, <1>20 DEF Back, Goto, disk, locals, launcher
<1>21. ASSUME NEW p \in Proc, Journal(p) PROVE LockOK'
  BY <1>21 DEF Journal, Goto, disk, locals, launcher
<1>22. ASSUME NEW p \in Proc, Switch(p) PROVE LockOK'
  BY <1>0, <1>22 DEF Switch, Goto, disk, locals, launcher
<1>23. ASSUME NEW p \in Proc, Describe(p) PROVE LockOK'
  BY <1>0, <1>23 DEF Describe, Goto, disk, locals, launcher
<1>24. ASSUME NEW p \in Proc, Commit(p) PROVE LockOK'
  BY <1>24 DEF Commit, Goto, disk, locals, launcher
<1>25. ASSUME NEW p \in Proc, Sweep(p) PROVE LockOK'
  BY <1>0, <1>25 DEF Sweep, disk, locals, launcher
<1>26. ASSUME NEW p \in Proc, Fail(p) PROVE LockOK'
  BY <1>0, <1>26 DEF Fail, disk, locals, launcher
<1>27. CASE RunOpens
  BY <1>27 DEF RunOpens, disk, locals, launcher
<1>28. CASE RunReads
  BY <1>28 DEF RunReads, disk, locals, launcher
<1>29. CASE RunEnds
  BY <1>29 DEF RunEnds, disk, locals, launcher
<1>30. CASE UserCreates
  BY <1>30 DEF UserCreates, disk, locals, launcher
<1>31. CASE UserRemoves
  BY <1>31 DEF UserRemoves, disk, locals, launcher
<1>32. CASE InstallLost
  BY <1>32 DEF InstallLost, disk, locals, launcher
<1>33. CASE UNCHANGED vars
  BY <1>33 DEF vars, disk, locals, launcher
<1> QED
  BY <1>1, <1>2, <1>3, <1>4, <1>5, <1>6, <1>7, <1>8, <1>9, <1>10, <1>11, <1>12,
     <1>13, <1>14, <1>15, <1>16, <1>17, <1>18, <1>19, <1>20, <1>21, <1>22, <1>23,
     <1>24, <1>25, <1>26, <1>27, <1>28, <1>29, <1>30, <1>31, <1>32, <1>33 DEF Next

-----------------------------------------------------------------------------
(* The files of the installation.                                          *)

\* What a step that changes nothing on disk keeps.
LEMMA RecordsFrame ==
    ASSUME RecordsOK, UNCHANGED <<launcherOf, disk, launcher>>
    PROVE  RecordsOK'
  BY DEF RecordsOK, Installed, Carried, disk, launcher

\* Every step leaves the files of the installation in accord with one another.
LEMMA RecordsStep ==
    ASSUME LInv, [Next]_vars
    PROVE  RecordsOK'
<1> USE NoneAssumption DEF LInv, TypeOK, LocalsOK, LockOK, RecordsOK, StepsOK, StepOK,
     Unswitched, Installed, Carried, VersionOrNone, DigestOrNone
<1>1. ASSUME NEW p \in Proc, Call(p) PROVE RecordsOK'
  BY <1>1, RecordsFrame DEF Call
<1>2. ASSUME NEW p \in Proc, Probe(p) PROVE RecordsOK'
  BY <1>2, RecordsFrame DEF Probe
<1>3. ASSUME NEW p \in Proc, Acquire(p) PROVE RecordsOK'
  BY <1>3, RecordsFrame DEF Acquire
<1>4. ASSUME NEW p \in Proc, RecoverRefused(p) PROVE RecordsOK'
  BY <1>4, RecordsFrame DEF RecoverRefused
<1>5. ASSUME NEW p \in Proc, RecoverForward(p) PROVE RecordsOK'
  <2>1. pending \in Pending /\ active = pending.to
    BY <1>5 DEF RecoverForward
  <2>2. active # None
    BY <2>1 DEF Pending
  <2>3. command \in Digest /\ Carried(command)
    BY <1>5, <2>2
  <2>4. install' # None /\ install'.launcher = command
    <3>1. install' = [active |-> active, previous |-> pending.from, launcher |-> command]
      BY <1>5 DEF RecoverForward
    <3>2. active \in Version /\ pending.from \in VersionOrNone
      BY <2>1, <2>2 DEF Pending
    <3> QED BY <2>3, <3>1, <3>2, InstallRecord, RecordAssumption DEF Install
  <2> QED BY <1>5, <2>2, <2>3, <2>4 DEF RecoverForward, launcher
<1>6. ASSUME NEW p \in Proc, RecoverBackward(p) PROVE RecordsOK'
  BY <1>6 DEF RecoverBackward, Goto, disk, launcher
<1>7. ASSUME NEW p \in Proc, RecoverNothing(p) PROVE RecordsOK'
  BY <1>7, RecordsFrame DEF RecoverNothing
<1>8. ASSUME NEW p \in Proc, RecoverRepair(p) PROVE RecordsOK'
  BY <1>8 DEF RecoverRepair, Goto, disk, launcher
<1>9. ASSUME NEW p \in Proc, CleanRefused(p) PROVE RecordsOK'
  BY <1>9, RecordsFrame DEF CleanRefused
<1>10. ASSUME NEW p \in Proc, CleanLauncher(p) PROVE RecordsOK'
  <2>1. active = None /\ install = None
    BY <1>10 DEF CleanLauncher, Orphaned
  <2>2. command' = None /\ command' \notin Digest
    BY <1>10 DEF CleanLauncher
  <2> QED BY <1>10, <2>1, <2>2 DEF CleanLauncher, launcher
<1>11. ASSUME NEW p \in Proc, CleanTransaction(p) PROVE RecordsOK'
  <2>1. PICK t \in staged :
           /\ Orphaned /\ marker[t] # None => command = None \/ Retained
           /\ staged' = staged \ {t}
           /\ marker' = [marker EXCEPT ![t] = None]
    BY <1>11 DEF CleanTransaction
  <2>2. ASSUME command \in Digest, ~Carried(command) PROVE marker[t] # command
    <3>1. active = None /\ install = None
      BY <2>2
    <3> QED BY <2>1, <2>2, <3>1 DEF Orphaned, Retained
  <2>3. command \in Digest => Carried(command) \/ \E u \in staged' : marker'[u] = command
    BY <2>1, <2>2
  <2>4. \A u \in Tx : marker'[u] # None => u \in staged' /\ \E v \in Version : launcherOf[v] = marker'[u]
    BY <2>1
  <2> QED BY <1>11, <2>3, <2>4 DEF CleanTransaction, launcher
<1>12. ASSUME NEW p \in Proc, CleanDone(p) PROVE RecordsOK'
  BY <1>12, RecordsFrame DEF CleanDone
<1>13. ASSUME NEW p \in Proc, Prove(p) PROVE RecordsOK'
  BY <1>13, RecordsFrame DEF Prove
<1>14. ASSUME NEW p \in Proc, Begin(p) PROVE RecordsOK'
  BY <1>14, RecordsFrame DEF Begin
<1>15. ASSUME NEW p \in Proc, Own(p) PROVE RecordsOK'
  BY <1>15, RecordsFrame DEF Own
<1>16. ASSUME NEW p \in Proc, Stage(p) PROVE RecordsOK'
  BY <1>16 DEF Stage, Goto, disk, launcher
<1>17. ASSUME NEW p \in Proc, Write(p) PROVE RecordsOK'
  <2>1. CASE marker' = marker
    BY <1>17, <2>1 DEF Write, launcher
  <2>2. CASE /\ command = None
             /\ marker' = [marker EXCEPT ![tx[p]] = launcherOf[tgt[p]]]
    <3>1. tx[p] \in staged /\ tgt[p] \in Version
      BY <1>17 DEF Write, Mutating, Labels, Cleaning
    <3>2. \A t \in Tx : marker'[t] # None =>
             t \in staged /\ \E v \in Version : launcherOf[v] = marker'[t]
      BY <2>2, <3>1
    <3> QED BY <1>17, <2>2, <3>2 DEF Write, launcher
  <2> QED BY <1>17, <2>1, <2>2 DEF Write
<1>18. ASSUME NEW p \in Proc, Create(p) PROVE RecordsOK'
  BY <1>18 DEF Create, Goto, Finish, disk, launcher
<1>19. ASSUME NEW p \in Proc, Publish(p) PROVE RecordsOK'
  BY <1>19 DEF Publish, Goto, disk, launcher
<1>20. ASSUME NEW p \in Proc, Back(p) PROVE RecordsOK'
  BY <1>20, RecordsFrame DEF Back
<1>21. ASSUME NEW p \in Proc, Journal(p) PROVE RecordsOK'
  BY <1>21 DEF Journal, Goto, disk, launcher
<1>22. ASSUME NEW p \in Proc, Switch(p) PROVE RecordsOK'
  <2>1. CASE active' = active
    BY <1>22, <2>1 DEF Switch, launcher
  <2>2. CASE ~held /\ active' = tgt[p]
    <3>1. tgt[p] \in versions /\ command \in Digest /\ Carried(command)
      BY <1>22 DEF Switch, Placed
    <3>2. pending = [from |-> from[p], to |-> tgt[p]]
      BY <1>22 DEF Switch
    <3>3. active' # None /\ pending.to = active' /\ selected = None
      BY <2>2, <3>1, <3>2
    <3> QED BY <1>22, <2>2, <3>1, <3>3 DEF Switch, launcher
  <2> QED BY <1>22, <2>1, <2>2 DEF Switch
<1>23. ASSUME NEW p \in Proc, Describe(p) PROVE RecordsOK'
  <2>1. CASE install' = install
    BY <1>23, <2>1 DEF Describe, launcher
  <2>2. CASE install' = [active |-> tgt[p], previous |-> from[p], launcher |-> command]
    <3>1. tgt[p] \in versions /\ command \in Digest /\ Carried(command) /\ active = tgt[p]
      BY <1>23 DEF Describe, Placed
    <3>2. install' # None /\ install'.launcher = command /\ active # None
      BY <2>2, <3>1, InstallRecord, RecordAssumption DEF Install
    <3> QED BY <1>23, <3>1, <3>2 DEF Describe, launcher
  <2> QED BY <1>23, <2>1, <2>2 DEF Describe
<1>24. ASSUME NEW p \in Proc, Commit(p) PROVE RecordsOK'
  BY <1>24 DEF Commit, Goto, disk, launcher
<1>25. ASSUME NEW p \in Proc, Sweep(p) PROVE RecordsOK'
  BY <1>25 DEF Sweep, Finish, disk, launcher
<1>26. ASSUME NEW p \in Proc, Fail(p) PROVE RecordsOK'
  BY <1>26, RecordsFrame DEF Fail
<1>27. CASE RunOpens
  BY <1>27 DEF RunOpens, disk, launcher
<1>28. CASE RunReads
  BY <1>28 DEF RunReads, disk, launcher
<1>29. CASE RunEnds
  BY <1>29 DEF RunEnds, disk, launcher
<1>30. CASE UserCreates
  BY <1>30 DEF UserCreates, disk, launcher
<1>31. CASE UserRemoves
  BY <1>31 DEF UserRemoves, disk, launcher
<1>32. CASE InstallLost
  BY <1>32 DEF InstallLost, disk, launcher
<1>33. CASE UNCHANGED vars
  BY <1>33 DEF vars, disk, launcher
<1> QED
  BY <1>1, <1>2, <1>3, <1>4, <1>5, <1>6, <1>7, <1>8, <1>9, <1>10, <1>11, <1>12,
     <1>13, <1>14, <1>15, <1>16, <1>17, <1>18, <1>19, <1>20, <1>21, <1>22, <1>23,
     <1>24, <1>25, <1>26, <1>27, <1>28, <1>29, <1>30, <1>31, <1>32, <1>33 DEF Next

-----------------------------------------------------------------------------
(* What a process counts on between its steps.                             *)

\* A process outside a locked section counts on nothing but its launcher.
LEMMA OutsideOK ==
    ASSUME TypeOK, NEW p \in Proc, pc[p] \notin Locked, prior[p] # None => Carried(prior[p])
    PROVE  StepOK(p)
  BY DEF StepOK, Locked, Labels, Cleaning, Unswitched, Placed

\* What a process counts on is untouched by a step of the one with the lock.
LEMMA OthersStep ==
    ASSUME LInv, TypeOK', NEW p \in Proc, NEW q \in Proc \ {p}, lock = p,
           pc'[q] = pc[q], prior'[q] = prior[q],
           versions \subseteq versions', launcherOf' = launcherOf
    PROVE  StepOK(q)'
<1>1. pc[q] \notin Locked
  BY DEF LInv, LockOK
<1>2. prior[q] # None => \E v \in versions' : launcherOf'[v] = prior'[q]
  BY DEF LInv, StepsOK, StepOK, Carried
<1> QED BY <1>1, <1>2 DEF StepOK, Locked, Labels, Cleaning, Unswitched, Placed, Carried

\* The same of a step that changes nothing on disk.
LEMMA FrameStep ==
    ASSUME LInv, NEW q \in Proc, UNCHANGED <<launcherOf, disk>>,
           pc'[q] = pc[q], tgt'[q] = tgt[q], from'[q] = from[q], prior'[q] = prior[q],
           tx'[q] = tx[q]
    PROVE  StepOK(q)'
<1>1. StepOK(q)
  BY DEF LInv, StepsOK
<1>2. UNCHANGED <<active, pending, command, versions, staged, marker>>
  BY DEF disk
<1> QED BY <1>1, <1>2 DEF StepOK, Carried

\* Every step leaves each process with what its next steps count on.
LEMMA StepsStep ==
    ASSUME LInv, TypeOK', [Next]_vars
    PROVE  StepsOK'
<1> USE NoneAssumption DEF LInv, TypeOK, LocalsOK, LockOK, RecordsOK, StepsOK, StepOK,
     Installed, Carried, Retained, VersionOrNone, DigestOrNone, Labels, Cleaning,
     Unswitched, Locked, Placed, Mutating
<1>0. ASSUME NEW p \in Proc, Finish(p), UNCHANGED <<launcherOf, disk>> PROVE StepsOK'
  <2>1. StepOK(p)'
    BY <1>0 DEF Finish, Goto
  <2>2. ASSUME NEW q \in Proc \ {p} PROVE StepOK(q)'
    <3>1. /\ pc'[q] = pc[q] /\ tgt'[q] = tgt[q] /\ from'[q] = from[q]
          /\ prior'[q] = prior[q] /\ tx'[q] = tx[q]
      BY <1>0 DEF Finish, Goto
    <3> QED BY <1>0, <3>1, FrameStep
  <2> QED BY <2>1, <2>2
<1>1. ASSUME NEW p \in Proc, Call(p) PROVE StepsOK'
  BY <1>1 DEF Call, Goto, disk, locals, launcher
<1>2. ASSUME NEW p \in Proc, Probe(p) PROVE StepsOK'
  BY <1>0, <1>2 DEF Probe, AfterRecovery, Goto, disk, locals, launcher
<1>3. ASSUME NEW p \in Proc, Acquire(p) PROVE StepsOK'
  BY <1>3 DEF Acquire, Goto, disk, locals, launcher
<1>4. ASSUME NEW p \in Proc, RecoverRefused(p) PROVE StepsOK'
  BY <1>0, <1>4 DEF RecoverRefused, disk, locals, launcher
<1>5. ASSUME NEW p \in Proc, RecoverForward(p) PROVE StepsOK'
  BY <1>5 DEF RecoverForward, Goto, disk, locals, launcher
<1>6. ASSUME NEW p \in Proc, RecoverBackward(p) PROVE StepsOK'
  BY <1>6 DEF RecoverBackward, Goto, disk, locals, launcher
<1>7. ASSUME NEW p \in Proc, RecoverNothing(p) PROVE StepsOK'
  BY <1>0, <1>7 DEF RecoverNothing, AfterRecovery, Goto, disk, locals, launcher
<1>8. ASSUME NEW p \in Proc, RecoverRepair(p) PROVE StepsOK'
  BY <1>8 DEF RecoverRepair, Goto, disk, locals, launcher
<1>9. ASSUME NEW p \in Proc, CleanRefused(p) PROVE StepsOK'
  BY <1>0, <1>9 DEF CleanRefused, disk, locals, launcher
<1>10. ASSUME NEW p \in Proc, CleanLauncher(p) PROVE StepsOK'
  BY <1>10 DEF CleanLauncher, disk, locals, launcher
<1>11. ASSUME NEW p \in Proc, CleanTransaction(p) PROVE StepsOK'
  BY <1>11 DEF CleanTransaction, disk, locals, launcher
<1>12. ASSUME NEW p \in Proc, CleanDone(p) PROVE StepsOK'
  BY <1>0, <1>12 DEF CleanDone, AfterRecovery, Goto, disk, locals, launcher
<1>13. ASSUME NEW p \in Proc, Prove(p) PROVE StepsOK'
  BY <1>0, <1>13 DEF Prove, Goto, disk, locals, launcher
<1>14. ASSUME NEW p \in Proc, Begin(p) PROVE StepsOK'
  BY <1>0, <1>14 DEF Begin, Goto, disk, locals, launcher
<1>15. ASSUME NEW p \in Proc, Own(p) PROVE StepsOK'
  <2>1. CASE Finish(p)
    BY <1>15, <1>0, <2>1 DEF Own
  <2>2. CASE /\ CommandOwned(from[p], known[p])
             /\ tgt[p] \in versions /\ Owned(tgt[p], prior[p])
             /\ Goto(p, "journal") /\ UNCHANGED locals
    <3>1. tgt[p] \in Version /\ launcherOf[tgt[p]] \in Digest
      BY <2>2
    <3>2. command \in Digest /\ Carried(command)
      BY <2>2, <3>1 DEF Owned
    <3>3. StepOK(p)'
      BY <1>15, <2>2, <3>2 DEF Own, Goto, disk, locals
    <3>4. ASSUME NEW q \in Proc \ {p} PROVE StepOK(q)'
      BY <1>15, <2>2, FrameStep DEF Own, Goto, locals
    <3> QED BY <3>3, <3>4
  <2>3. CASE Goto(p, "stage") /\ UNCHANGED locals
    <3>1. StepOK(p)'
      BY <1>15, <2>3 DEF Own, Goto, disk, locals
    <3>2. ASSUME NEW q \in Proc \ {p} PROVE StepOK(q)'
      BY <1>15, <2>3, FrameStep DEF Own, Goto, locals
    <3> QED BY <3>1, <3>2
  <2> QED BY <1>15, <2>1, <2>2, <2>3 DEF Own
<1>16. ASSUME NEW p \in Proc, Stage(p) PROVE StepsOK'
  BY <1>16 DEF Stage, Goto, disk, locals, launcher
<1>17. ASSUME NEW p \in Proc, Write(p) PROVE StepsOK'
  <2>1. CASE Finish(p) /\ UNCHANGED marker
    BY <1>17, <1>0, <2>1 DEF Write, disk
  <2>2. CASE /\ LauncherExpected(p)
             /\ Goto(p, IF command = None THEN "create" ELSE "publish")
             /\ marker' = IF command # None THEN marker
                          ELSE [marker EXCEPT ![tx[p]] = launcherOf[tgt[p]]]
             /\ UNCHANGED <<lock, locals>>
    <3>1. lock = p /\ tx[p] \in staged /\ marker[tx[p]] \in {None, launcherOf[tgt[p]]}
      BY <1>17 DEF Write
    <3>2. command # None => command \in Digest /\ Carried(command)
      BY <2>2 DEF LauncherExpected
    <3>3. StepOK(p)'
      BY <1>17, <2>2, <3>1, <3>2 DEF Write, Goto, locals
    <3>4. ASSUME NEW q \in Proc \ {p} PROVE StepOK(q)'
      BY <1>17, <2>2, <3>1, OthersStep DEF Write, Goto, locals
    <3> QED BY <3>3, <3>4
  <2> QED BY <1>17, <2>1, <2>2 DEF Write
<1>18. ASSUME NEW p \in Proc, Create(p) PROVE StepsOK'
  BY <1>0, <1>18 DEF Create, Goto, disk, locals, launcher
<1>19. ASSUME NEW p \in Proc, Publish(p) PROVE StepsOK'
  BY <1>19 DEF Publish, Goto, disk, locals, launcher
<1>20. ASSUME NEW p \in Proc, Back(p) PROVE StepsOK'
  BY <1>0, <1>20 DEF Back, Goto, disk, locals, launcher
<1>21. ASSUME NEW p \in Proc, Journal(p) PROVE StepsOK'
  BY <1>21 DEF Journal, Goto, disk, locals, launcher
<1>22. ASSUME NEW p \in Proc, Switch(p) PROVE StepsOK'
  BY <1>0, <1>22 DEF Switch, Goto, disk, locals, launcher
<1>23. ASSUME NEW p \in Proc, Describe(p) PROVE StepsOK'
  BY <1>0, <1>23 DEF Describe, Goto, disk, locals, launcher
<1>24. ASSUME NEW p \in Proc, Commit(p) PROVE StepsOK'
  BY <1>24 DEF Commit, Goto, disk, locals, launcher
<1>25. ASSUME NEW p \in Proc, Sweep(p) PROVE StepsOK'
  <2>1. StepOK(p)'
    BY <1>25 DEF Sweep, Finish, Goto
  <2>2. ASSUME NEW q \in Proc \ {p} PROVE StepOK(q)'
    BY <1>25, OthersStep DEF Sweep, Finish, Goto
  <2> QED BY <2>1, <2>2
<1>26. ASSUME NEW p \in Proc, Fail(p) PROVE StepsOK'
  BY <1>0, <1>26 DEF Fail, disk, locals, launcher
<1>27. CASE RunOpens
  BY <1>27 DEF RunOpens, disk, locals, launcher
<1>28. CASE RunReads
  BY <1>28 DEF RunReads, disk, locals, launcher
<1>29. CASE RunEnds
  BY <1>29 DEF RunEnds, disk, locals, launcher
<1>30. CASE UserCreates
  BY <1>30 DEF UserCreates, disk, locals, launcher
<1>31. CASE UserRemoves
  BY <1>31 DEF UserRemoves, disk, locals, launcher
<1>32. CASE InstallLost
  BY <1>32 DEF InstallLost, disk, locals, launcher
<1>33. CASE UNCHANGED vars
  BY <1>33 DEF vars, disk, locals, launcher
<1> QED
  BY <1>1, <1>2, <1>3, <1>4, <1>5, <1>6, <1>7, <1>8, <1>9, <1>10, <1>11, <1>12,
     <1>13, <1>14, <1>15, <1>16, <1>17, <1>18, <1>19, <1>20, <1>21, <1>22, <1>23,
     <1>24, <1>25, <1>26, <1>27, <1>28, <1>29, <1>30, <1>31, <1>32, <1>33 DEF Next

-----------------------------------------------------------------------------
(* What came before, in the journal and in install.json.                   *)

\* Nor is what it knows touched by a step of the one with the lock.
LEMMA OthersKnow ==
    ASSUME LInv, NEW p \in Proc, NEW q \in Proc \ {p}, lock = p, pc'[q] = pc[q]
    PROVE  KnowsOK(q)'
<1>1. pc[q] \notin Locked
  BY DEF LInv, LockOK
<1> QED BY <1>1 DEF KnowsOK, Locked, Labels, Cleaning, Unswitched

\* The same of a step that changes nothing on disk.
LEMMA FrameKnows ==
    ASSUME LInv, NEW q \in Proc, UNCHANGED <<active, pending, install>>,
           pc'[q] = pc[q], tgt'[q] = tgt[q], from'[q] = from[q], known'[q] = known[q]
    PROVE  KnowsOK(q)'
  BY DEF LInv, HistoryOK, KnowsOK, Unswitched

\* Every step leaves install.json and the journal in accord on what came before.
LEMMA HistoryStep ==
    ASSUME LInv, TypeOK', [Next]_vars
    PROVE  HistoryOK'
<1> USE NoneAssumption DEF LInv, TypeOK, LocalsOK, LockOK, RecordsOK, StepsOK, StepOK,
     HistoryOK, JournalOK, KnowsOK, Unswitched, Labels, Cleaning, Unswitched, Locked,
     Mutating
<1>0. ASSUME NEW p \in Proc, Finish(p), UNCHANGED <<active, pending, install>> PROVE HistoryOK'
  <2>1. KnowsOK(p)'
    BY <1>0 DEF Finish, Goto
  <2>2. ASSUME NEW q \in Proc \ {p} PROVE KnowsOK(q)'
    <3>1. /\ pc'[q] = pc[q] /\ tgt'[q] = tgt[q] /\ from'[q] = from[q] /\ known'[q] = known[q]
      BY <1>0 DEF Finish, Goto
    <3> QED BY <1>0, <3>1, FrameKnows
  <2> QED BY <1>0, <2>1, <2>2
<1>1. ASSUME NEW p \in Proc, Call(p) PROVE HistoryOK'
  BY <1>1 DEF Call, Goto, disk, locals, launcher
<1>2. ASSUME NEW p \in Proc, Probe(p) PROVE HistoryOK'
  BY <1>0, <1>2 DEF Probe, AfterRecovery, Goto, disk, locals, launcher
<1>3. ASSUME NEW p \in Proc, Acquire(p) PROVE HistoryOK'
  BY <1>3 DEF Acquire, Goto, disk, locals, launcher
<1>4. ASSUME NEW p \in Proc, RecoverRefused(p) PROVE HistoryOK'
  BY <1>0, <1>4 DEF RecoverRefused, disk, locals, launcher
<1>5. ASSUME NEW p \in Proc, RecoverForward(p) PROVE HistoryOK'
  BY <1>5 DEF RecoverForward, Goto, disk, locals, launcher
<1>6. ASSUME NEW p \in Proc, RecoverBackward(p) PROVE HistoryOK'
  BY <1>6 DEF RecoverBackward, Goto, disk, locals, launcher
<1>7. ASSUME NEW p \in Proc, RecoverNothing(p) PROVE HistoryOK'
  BY <1>0, <1>7 DEF RecoverNothing, AfterRecovery, Goto, disk, locals, launcher
<1>8. ASSUME NEW p \in Proc, RecoverRepair(p) PROVE HistoryOK'
  BY <1>8 DEF RecoverRepair, Goto, disk, locals, launcher
<1>9. ASSUME NEW p \in Proc, CleanRefused(p) PROVE HistoryOK'
  BY <1>0, <1>9 DEF CleanRefused, disk, locals, launcher
<1>10. ASSUME NEW p \in Proc, CleanLauncher(p) PROVE HistoryOK'
  BY <1>10 DEF CleanLauncher, disk, locals, launcher
<1>11. ASSUME NEW p \in Proc, CleanTransaction(p) PROVE HistoryOK'
  BY <1>11 DEF CleanTransaction, disk, locals, launcher
<1>12. ASSUME NEW p \in Proc, CleanDone(p) PROVE HistoryOK'
  BY <1>0, <1>12 DEF CleanDone, AfterRecovery, Goto, disk, locals, launcher
<1>13. ASSUME NEW p \in Proc, Prove(p) PROVE HistoryOK'
  BY <1>0, <1>13 DEF Prove, Goto, disk, locals, launcher
<1>14. ASSUME NEW p \in Proc, Begin(p) PROVE HistoryOK'
  <2>1. CASE Finish(p)
    BY <1>14, <1>0, <2>1 DEF Begin, disk
  <2>2. CASE /\ ~(install # None /\ active # None /\ tgt[p] <= active)
             /\ known' = [known EXCEPT ![p] = install]
             /\ from' = [from EXCEPT ![p] = active]
             /\ \E l \in {"tidy", "own"} : Goto(p, l)
             /\ UNCHANGED <<lock, op, tgt, tx>>
    <3>1. install # None /\ active # None => tgt[p] # active
      <4>1. active # None => active \in Nat
        BY VersionAssumption DEF VersionOrNone
      <4>2. active # None => active <= active
        BY <4>1
      <4> QED BY <2>2, <4>2
    <3>2. KnowsOK(p)'
      BY <1>14, <2>2, <3>1 DEF Begin, Goto, disk
    <3>3. ASSUME NEW q \in Proc \ {p} PROVE KnowsOK(q)'
      BY <1>14, <2>2, FrameKnows DEF Begin, Goto, disk
    <3> QED BY <1>14, <3>2, <3>3 DEF Begin, disk
  <2> QED BY <1>14, <2>1, <2>2 DEF Begin
<1>15. ASSUME NEW p \in Proc, Own(p) PROVE HistoryOK'
  <2>1. CASE Finish(p)
    BY <1>15, <1>0, <2>1 DEF Own, disk
  <2>2. CASE /\ CommandOwned(from[p], known[p])
             /\ \E l \in {"journal", "stage"} : Goto(p, l)
             /\ UNCHANGED <<lock, locals>>
    <3>1. from[p] = active /\ tgt[p] \in Version /\ install \in {known[p], None}
      BY <1>15 DEF Own
    <3>2. active # None => known[p] # None /\ known[p].active = active
      BY <2>2, <3>1 DEF CommandOwned
    <3>3. install # None => active # None
      OBVIOUS
    <3>4. tgt[p] # active /\ (install # None => install.active = active)
      BY <1>15, <3>1, <3>2, <3>3 DEF Own
    <3>5. KnowsOK(p)'
      BY <1>15, <2>2, <3>4 DEF Own, Goto, disk, locals
    <3>6. ASSUME NEW q \in Proc \ {p} PROVE KnowsOK(q)'
      BY <1>15, <2>2, FrameKnows DEF Own, Goto, disk, locals
    <3> QED BY <1>15, <3>5, <3>6 DEF Own, disk
  <2> QED BY <1>15, <2>1, <2>2 DEF Own
<1>16. ASSUME NEW p \in Proc, Stage(p) PROVE HistoryOK'
  BY <1>16 DEF Stage, Goto, disk, locals, launcher
<1>17. ASSUME NEW p \in Proc, Write(p) PROVE HistoryOK'
  BY <1>0, <1>17 DEF Write, Goto, disk, locals, launcher
<1>18. ASSUME NEW p \in Proc, Create(p) PROVE HistoryOK'
  BY <1>0, <1>18 DEF Create, Goto, disk, locals, launcher
<1>19. ASSUME NEW p \in Proc, Publish(p) PROVE HistoryOK'
  BY <1>19 DEF Publish, Goto, disk, locals, launcher
<1>20. ASSUME NEW p \in Proc, Back(p) PROVE HistoryOK'
  <2>1. CASE Finish(p)
    BY <1>20, <1>0, <2>1 DEF Back, disk
  <2>2. CASE /\ install # None /\ active # None /\ tgt[p] < active /\ tgt[p] \in versions
             /\ CommandOwned(active, install)
             /\ known' = [known EXCEPT ![p] = install]
             /\ from' = [from EXCEPT ![p] = active]
             /\ Goto(p, "journal")
             /\ UNCHANGED <<lock, op, tgt, tx>>
    <3>1. tgt[p] # active
      BY <2>2, VersionAssumption DEF VersionOrNone
    <3>2. install.active = active
      BY <2>2 DEF CommandOwned
    <3>3. KnowsOK(p)'
      BY <1>20, <2>2, <3>1, <3>2 DEF Back, Goto, disk
    <3>4. ASSUME NEW q \in Proc \ {p} PROVE KnowsOK(q)'
      BY <1>20, <2>2, FrameKnows DEF Back, Goto, disk
    <3> QED BY <1>20, <3>3, <3>4 DEF Back, disk
  <2> QED BY <1>20, <2>1, <2>2 DEF Back
<1>21. ASSUME NEW p \in Proc, Journal(p) PROVE HistoryOK'
  BY <1>21 DEF Journal, Goto, disk, locals, launcher
<1>22. ASSUME NEW p \in Proc, Switch(p) PROVE HistoryOK'
  BY <1>0, <1>22 DEF Switch, Goto, disk, locals, launcher
<1>23. ASSUME NEW p \in Proc, Describe(p) PROVE HistoryOK'
  BY <1>0, <1>23 DEF Describe, Goto, disk, locals, launcher
<1>24. ASSUME NEW p \in Proc, Commit(p) PROVE HistoryOK'
  BY <1>24 DEF Commit, Goto, disk, locals, launcher
<1>25. ASSUME NEW p \in Proc, Sweep(p) PROVE HistoryOK'
  BY <1>0, <1>25 DEF Sweep, disk, locals, launcher
<1>26. ASSUME NEW p \in Proc, Fail(p) PROVE HistoryOK'
  BY <1>0, <1>26 DEF Fail, disk, locals, launcher
<1>27. CASE RunOpens
  BY <1>27 DEF RunOpens, disk, locals, launcher
<1>28. CASE RunReads
  BY <1>28 DEF RunReads, disk, locals, launcher
<1>29. CASE RunEnds
  BY <1>29 DEF RunEnds, disk, locals, launcher
<1>30. CASE UserCreates
  BY <1>30 DEF UserCreates, disk, locals, launcher
<1>31. CASE UserRemoves
  BY <1>31 DEF UserRemoves, disk, locals, launcher
<1>32. CASE InstallLost
  BY <1>32 DEF InstallLost, disk, locals, launcher
<1>33. CASE UNCHANGED vars
  BY <1>33 DEF vars, disk, locals, launcher
<1> QED
  BY <1>1, <1>2, <1>3, <1>4, <1>5, <1>6, <1>7, <1>8, <1>9, <1>10, <1>11, <1>12,
     <1>13, <1>14, <1>15, <1>16, <1>17, <1>18, <1>19, <1>20, <1>21, <1>22, <1>23,
     <1>24, <1>25, <1>26, <1>27, <1>28, <1>29, <1>30, <1>31, <1>32, <1>33 DEF Next

-----------------------------------------------------------------------------
(* The theorems.                                                           *)

\* The invariant holds at the start.
LEMMA InitInvariant == Init => LInv
<1> SUFFICES ASSUME Init PROVE LInv
  OBVIOUS
<1> USE NoneAssumption DEF Init
<1>1. TypeOK
  BY DEF TypeOK, VersionOrNone, DigestOrNone, Labels
<1>2. LocalsOK /\ LockOK
  BY DEF LocalsOK, LockOK, Mutating, Locked, Labels, Cleaning
<1>3. RecordsOK
  BY DEF RecordsOK
<1>4. StepsOK
  BY DEF StepsOK, StepOK, Placed, Unswitched
<1>5. HistoryOK
  BY DEF HistoryOK, JournalOK, KnowsOK, Unswitched
<1> QED BY <1>1, <1>2, <1>3, <1>4, <1>5 DEF LInv

\* Every reachable state satisfies the invariant.
THEOREM Invariant == Spec => []LInv
<1>1. LInv /\ [Next]_vars => LInv'
  <2> SUFFICES ASSUME LInv, [Next]_vars PROVE LInv'
    OBVIOUS
  <2>1. TypeOK'
    BY TypeStep DEF LInv
  <2>2. LocalsOK' /\ LockOK'
    BY LocalsStep, LockStep DEF LInv
  <2> QED BY <2>1, <2>2, RecordsStep, StepsStep, HistoryStep DEF LInv
<1> QED BY <1>1, InitInvariant, PTL DEF Spec

\* Every variable keeps its type: what install.json is made to say of the
\* launcher is always the digest of one (WindowsLauncherIdentity).
THEOREM TypeCorrect == Spec => []TypeOK
<1>1. LInv => TypeOK
  BY DEF LInv
<1> QED BY <1>1, Invariant, PTL

\* A launcher can always be shown to be ours (write_downloaded_version,
\* cleanup_staging).
THEOREM OursProvably == Spec => []LauncherProvable
<1>1. LInv => LauncherProvable
  BY DEF LInv, RecordsOK, LauncherProvable, Retained, Carried
<1> QED BY <1>1, Invariant, PTL

\* install.json tells the launcher that is installed (launcher_ownership_for).
THEOREM RecordedTruly == Spec => []LauncherRecorded
<1>1. LInv => LauncherRecorded
  BY DEF LInv, RecordsOK, LauncherRecorded
<1> QED BY <1>1, Invariant, PTL

\* A launcher starts what is active, and that is retained
\* (run_windows_launcher, switch_pointer).
THEOREM StartsActive == Spec => []RunsWhatIsActive
<1>1. LInv => RunsWhatIsActive
  BY DEF LInv, RecordsOK, RunsWhatIsActive
<1> QED BY <1>1, Invariant, PTL

\* When all releases carry one launcher, a recovery always succeeds
\* (recover_locked, cleanup_staging).
THEOREM OneLauncherRecovers == Spec => []RecoveryNeverRefuses
<1>1. ASSUME LInv, SameLauncher, command # UserFile PROVE ~RecoveryRefuses
  <2> USE <1>1, NoneAssumption DEF LInv, TypeOK, RecordsOK
  <2>1. ASSUME NEW v \in Version, command \in Digest PROVE launcherOf[v] = command
    <3>1. \E w \in Version : launcherOf[w] = command
      BY <2>1 DEF Carried
    <3> QED BY <2>1, <3>1 DEF SameLauncher
  <2>2. active # None => active \in Version /\ active \in versions /\ Owned(active, LauncherOn(install))
    BY <2>1 DEF Owned, LauncherOn, Installed, VersionOrNone, Install
  <2>3. pending # None => active \in {pending.from, pending.to} /\ pending.to # None
    BY DEF Pending
  <2>4. ~Undecided
    BY <2>2, <2>3 DEF Undecided
  <2>5. ASSUME NEW t \in staged PROVE Cleanable(t)
    <3>1. CASE marker[t] # None /\ command \in Digest
      <4>1. PICK v \in Version : launcherOf[v] = marker[t]
        BY <2>5, <3>1
      <4> QED BY <2>1, <3>1, <4>1 DEF Cleanable
    <3>2. command \notin Digest => command = None
      BY DEF DigestOrNone
    <3> QED BY <3>1, <3>2 DEF Cleanable
  <2> QED BY <2>4, <2>5 DEF RecoveryRefuses
<1>2. LInv => RecoveryNeverRefuses
  BY <1>1 DEF RecoveryNeverRefuses
<1> QED BY <1>2, Invariant, PTL

\* The file at the command path is never replaced, and removed only as an
\* orphan of ours (create_new_file, cleanup_staging).
THEOREM NeverReplaced == Spec => NothingReplaced
<1>1. ASSUME LInv, [Next]_vars
      PROVE  [command' # command =>
                \/ command = None
                \/ UserRemoves
                \/ command \in Digest /\ command' = None /\ Orphaned /\ ~Retained]_vars
  <2> SUFFICES ASSUME Next, command' # command, command # None, ~UserRemoves
               PROVE  command \in Digest /\ command' = None /\ Orphaned /\ ~Retained
    BY <1>1
  <2> USE DEF disk
  <2>1. ASSUME NEW p \in Proc, CleanLauncher(p)
        PROVE  command \in Digest /\ command' = None /\ Orphaned /\ ~Retained
    BY <1>1, <2>1, NoneAssumption DEF CleanLauncher, LInv, TypeOK, DigestOrNone
  <2>2. ASSUME NEW p \in Proc,
               \/ Call(p) \/ Probe(p) \/ Acquire(p)
               \/ RecoverRefused(p) \/ RecoverForward(p) \/ RecoverBackward(p)
               \/ RecoverNothing(p) \/ RecoverRepair(p)
               \/ CleanRefused(p) \/ CleanTransaction(p) \/ CleanDone(p)
               \/ Prove(p) \/ Begin(p) \/ Own(p) \/ Stage(p) \/ Write(p) \/ Create(p)
        PROVE  FALSE
    BY <2>2 DEF Call, Probe, Acquire, RecoverRefused, RecoverForward, RecoverBackward,
         RecoverNothing, RecoverRepair, CleanRefused, CleanTransaction, CleanDone,
         Prove, Begin, Own, Stage, Write, Create
  <2>3. ASSUME NEW p \in Proc,
               \/ Publish(p) \/ Back(p)
               \/ Journal(p) \/ Switch(p) \/ Describe(p) \/ Commit(p) \/ Sweep(p)
               \/ Fail(p)
        PROVE  FALSE
    BY <2>3 DEF Publish, Back, Journal, Switch, Describe, Commit, Sweep, Fail
  <2>4. CASE RunOpens \/ RunReads \/ RunEnds \/ UserCreates \/ InstallLost
    BY <2>4 DEF RunOpens, RunReads, RunEnds, UserCreates, InstallLost
  <2> QED BY <2>1, <2>2, <2>3, <2>4 DEF Next
<1> QED BY <1>1, Invariant, PTL DEF Spec, NothingReplaced

-----------------------------------------------------------------------------
(* Launcher implements Selector.                                           *)

\* The version a rollback would go back to, as Selector has it.
Before == IF pending # None /\ active = pending.to THEN pending.from
          ELSE IF install = None THEN None ELSE install.previous

\* Every interleaving, crash and recovery of the Windows strategy shows the
\* selector's behaviour (activate_pointer_and_state, recover_locked).
THEOREM Refinement == Spec => ImplementsSelector
<1>1. Init => S!Init
  BY NoneAssumption DEF Init, S!Init
<1>2. LInv /\ [Next]_vars => [S!Next]_(S!selector)
  <2> SUFFICES ASSUME LInv, [Next]_vars
               PROVE  [S!Next]_(S!selector)
    OBVIOUS
  <2> USE NoneAssumption
  <2>0. TypeOK' /\ TypeOK /\ RecordsOK
    BY TypeStep DEF LInv
  <2>1. UNCHANGED <<active, versions>> /\ Before' \in {Before, None} => [S!Next]_(S!selector)
    BY DEF S!Next, S!Forget, S!selector, Before
  <2>2. UNCHANGED <<active, pending, install, versions>> => [S!Next]_(S!selector)
    BY DEF S!selector
  <2> USE DEF disk
  <2>3. ASSUME NEW p \in Proc, RecoverForward(p) PROVE [S!Next]_(S!selector)
    BY <2>3 DEF RecoverForward, S!selector
  <2>4. ASSUME NEW p \in Proc, RecoverBackward(p) PROVE [S!Next]_(S!selector)
    <3>1. KnowsOK(p) /\ JournalOK
      BY DEF LInv, HistoryOK
    <3>2. Before' \in {Before, None}
      BY <2>0, <2>4, <3>1 DEF RecoverBackward, JournalOK, KnowsOK, Before, TypeOK, Pending
    <3> QED BY <2>1, <2>4, <3>2 DEF RecoverBackward
  <2>5. ASSUME NEW p \in Proc, RecoverRepair(p) PROVE [S!Next]_(S!selector)
    <3>1. install = None => install'.previous = None
      BY <2>5 DEF RecoverRepair
    <3>2. install # None => install'.previous \in {install.previous, None}
      BY <2>5 DEF RecoverRepair
    <3>3. Before' \in {Before, None}
      BY <2>5, <3>1, <3>2 DEF RecoverRepair, Before
    <3> QED BY <2>1, <2>5, <3>3 DEF RecoverRepair
  <2>6. ASSUME NEW p \in Proc, Publish(p) PROVE [S!Next]_(S!selector)
    <3>1. tgt[p] \in Version
      BY <2>6 DEF Publish, LInv, LocalsOK, Mutating, Labels, Cleaning
    <3>2. CASE tgt[p] \in versions
      BY <2>2, <2>6, <3>2 DEF Publish
    <3>3. CASE tgt[p] \notin versions
      BY <2>6, <3>1, <3>3 DEF Publish, S!Next, S!Retain
    <3> QED BY <3>2, <3>3
  <2>7. ASSUME NEW p \in Proc, Journal(p) PROVE [S!Next]_(S!selector)
    <3>1. KnowsOK(p) /\ JournalOK /\ pc[p] = "journal"
      BY <2>7 DEF LInv, HistoryOK, Journal
    <3>2. pending'.to = tgt[p] /\ UNCHANGED <<active, install, versions>>
      BY <2>7 DEF Journal
    <3>3. Before' = IF install = None THEN None ELSE install.previous
      BY <3>1, <3>2 DEF KnowsOK, Unswitched, Before
    <3>4. Before' \in {Before, None}
      BY <3>1, <3>3 DEF KnowsOK, Unswitched, JournalOK, Before
    <3> QED BY <2>1, <3>2, <3>4
  <2>8. ASSUME NEW p \in Proc, Switch(p) PROVE [S!Next]_(S!selector)
    <3>1. /\ pending = [from |-> active, to |-> tgt[p]]
          /\ tgt[p] \in versions /\ tgt[p] # active /\ tgt[p] \in Version
      BY <2>0, <2>8 DEF Switch, LInv, HistoryOK, KnowsOK, Unswitched, StepsOK,
           StepOK, Placed, TypeOK
    <3>2. CASE active' = tgt[p]
      <4>1. pending # None
        BY <2>0, <3>1, RecordAssumption DEF TypeOK, VersionOrNone, Pending
      <4>2. Before' = active
        BY <2>8, <3>1, <3>2, <4>1 DEF Switch, Before
      <4>3. S!Activate(tgt[p])
        BY <2>8, <3>1, <3>2, <4>2 DEF Switch, S!Activate, Before
      <4> QED BY <3>1, <4>3 DEF S!Next
    <3> QED BY <2>2, <2>8, <3>2 DEF Switch
  <2>9. ASSUME NEW p \in Proc, Describe(p) PROVE [S!Next]_(S!selector)
    <3>1. active = tgt[p] /\ pending = [from |-> from[p], to |-> tgt[p]]
      BY <2>9 DEF Describe, LInv, StepsOK, StepOK, HistoryOK, KnowsOK
    <3>2. pending # None /\ UNCHANGED <<active, pending, versions>>
      <4>1. pc[p] = "describe"
        BY <2>9 DEF Describe
      <4>2. tgt[p] \in Version /\ from[p] \in VersionOrNone
        BY <2>0, <4>1 DEF LInv, LocalsOK, Mutating, Labels, Cleaning, TypeOK
      <4>3. pending \in Pending
        BY <3>1, <4>2 DEF Pending
      <4> QED BY <2>9, <4>3, RecordAssumption DEF Describe
    <3>3. Before' = Before
      BY <3>1, <3>2 DEF Before
    <3> QED BY <2>1, <3>2, <3>3
  <2>10. ASSUME NEW p \in Proc, Commit(p) PROVE [S!Next]_(S!selector)
    <3>1. /\ active = tgt[p] /\ pending = [from |-> from[p], to |-> tgt[p]]
          /\ install # None => install.active = active
          /\ JournalOK
      BY <2>10 DEF Commit, LInv, StepsOK, StepOK, HistoryOK, KnowsOK
    <3>2. pending' = None /\ UNCHANGED <<active, install, versions>>
      BY <2>10 DEF Commit
    <3>3. Before' \in {Before, None}
      BY <3>1, <3>2 DEF Before, JournalOK
    <3> QED BY <2>1, <3>2, <3>3
  <2>11. CASE InstallLost
    BY <2>1, <2>11 DEF InstallLost, Before
  <2>12. ASSUME NEW p \in Proc,
                \/ Call(p) \/ Probe(p) \/ Acquire(p) \/ RecoverRefused(p)
                \/ RecoverNothing(p) \/ CleanRefused(p) \/ CleanLauncher(p)
                \/ CleanTransaction(p) \/ CleanDone(p) \/ Prove(p) \/ Begin(p)
         PROVE  UNCHANGED <<active, pending, install, versions>>
    BY <2>12 DEF Call, Probe, Acquire, RecoverRefused, RecoverNothing, CleanRefused,
         CleanLauncher, CleanTransaction, CleanDone, Prove, Begin
  <2>13. ASSUME NEW p \in Proc,
                \/ Own(p) \/ Stage(p) \/ Write(p) \/ Create(p) \/ Back(p) \/ Sweep(p) \/ Fail(p)
         PROVE  UNCHANGED <<active, pending, install, versions>>
    BY <2>13 DEF Own, Stage, Write, Create, Back, Sweep, Fail
  <2>14. CASE \/ RunOpens \/ RunReads \/ RunEnds \/ UserCreates \/ UserRemoves
              \/ UNCHANGED vars
    BY <2>2, <2>14 DEF RunOpens, RunReads, RunEnds, UserCreates, UserRemoves, vars
  <2> QED
    BY <2>2, <2>3, <2>4, <2>5, <2>6, <2>7, <2>8, <2>9, <2>10, <2>11, <2>12, <2>13, <2>14
       DEF Next
<1> QED BY <1>1, <1>2, Invariant, PTL DEF Spec, ImplementsSelector, S!Spec

=============================================================================
