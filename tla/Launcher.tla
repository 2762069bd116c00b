------------------------------ MODULE Launcher ------------------------------
(***************************************************************************)
(* The Windows strategy of the installation engine.  The command is a      *)
(* launcher, created once and never replaced; what it starts is named by   *)
(* the file "active".  Whether the file at the command path is ours is     *)
(* known from install.json, from a retained version that carries the same  *)
(* launcher, or from the marker of the transaction that created it.        *)
(*                                                                         *)
(* install_version and update are a recovery, a fetch, and what is here    *)
(* called an install: activate_download, which recovers once more.  What   *)
(* they and a rollback look at before they take the lock to mutate is in   *)
(* Activation, and the same on both platforms.                             *)
(***************************************************************************)
EXTENDS Naturals

CONSTANTS
    Proc,       \* the processes that call the library
    Version,    \* release versions, ordered as numbers
    Digest,     \* contents a launcher can have
    Tx,         \* staging transaction ids
    MayLose,    \* whether install.json may be lost
    UserFile,   \* the user's own file at the command path
    None        \* an absent file or value

ASSUME VersionAssumption == Version \subseteq Nat
ASSUME MayLoseAssumption == MayLose \in BOOLEAN
ASSUME NoneAssumption ==
    /\ None \notin Version \cup Digest \cup Tx \cup Proc \cup {UserFile}
    /\ UserFile \notin Digest

VersionOrNone == Version \cup {None}
DigestOrNone  == Digest \cup {None}
Pending == [from : VersionOrNone, to : Version]
Install == [active : Version, previous : VersionOrNone, launcher : Digest]

ASSUME RecordAssumption == None \notin Pending \cup Install

VARIABLES
    launcherOf, \* the launcher each release carries
    active,     \* the file active: the pointer
    pending,    \* the journal
    install,    \* install.json
    command,    \* the file at the command path
    versions,   \* the retained versions
    staged,     \* the transactions in staging
    marker,     \* the digest in the .launcher-created of each
    lock,       \* the process that holds the lock
    pc, op,     \* where each process is, and in what
    tgt,        \* the version it activates
    from,       \* active as it read it
    known,      \* install.json as it read it
    prior,      \* the launcher it found to be ours
    tx,         \* its transaction
    held,       \* whether a running launcher has active open
    selected    \* the version that launcher has read

disk     == <<active, pending, install, command, versions, staged, marker>>
locals   == <<op, tgt, from, known, prior, tx>>
launcher == <<held, selected>>
vars     == <<launcherOf, disk, lock, pc, locals, launcher>>

Cleaning == {"clean", "tidy"}   \* in a recovery, at the begin of an install
Labels == Cleaning \cup
    {"idle", "probe", "await", "recover", "unjournal", "prove", "mutate", "begin",
     "back", "own", "stage", "write", "create", "publish", "journal", "switch",
     "describe", "commit", "sweep"}

TypeOK ==
    /\ launcherOf \in [Version -> Digest]
    /\ active \in VersionOrNone
    /\ pending \in Pending \cup {None}
    /\ install \in Install \cup {None}
    /\ command \in DigestOrNone \cup {UserFile}
    /\ versions \subseteq Version
    /\ staged \subseteq Tx
    /\ marker \in [Tx -> DigestOrNone]
    /\ lock \in Proc \cup {None}
    /\ pc \in [Proc -> Labels]
    /\ op \in [Proc -> {"recover", "install", "rollback", None}]
    /\ tgt \in [Proc -> VersionOrNone]
    /\ from \in [Proc -> VersionOrNone]
    /\ known \in [Proc -> Install \cup {None}]
    /\ prior \in [Proc -> DigestOrNone]
    /\ tx \in [Proc -> Tx \cup {None}]
    /\ held \in BOOLEAN
    /\ selected \in VersionOrNone

Init ==
    /\ launcherOf \in [Version -> Digest]
    /\ active = None /\ pending = None /\ install = None
    /\ command \in {None, UserFile}
    /\ versions = {} /\ staged = {} /\ marker = [t \in Tx |-> None]
    /\ lock = None
    /\ pc = [p \in Proc |-> "idle"]
    /\ op = [p \in Proc |-> None]
    /\ tgt = [p \in Proc |-> None]
    /\ from = [p \in Proc |-> None]
    /\ known = [p \in Proc |-> None]
    /\ prior = [p \in Proc |-> None]
    /\ tx = [p \in Proc |-> None]
    /\ held = FALSE
    /\ selected = None

-----------------------------------------------------------------------------
(* What the code looks at.                                                 *)

\* Without install.json and pointer, a launcher in a transaction is an orphan.
Orphaned == active = None /\ install = None

Marked == \E t \in staged : marker[t] # None

\* retained_launcher_ownership: a retained version carries what is installed.
\* It is ours then, whoever put it there.
Retained == \E v \in versions : launcherOf[v] = command

\* verify_installed_launcher.
Installed(i) == command = i.launcher

\* ensure_command_owned, given the pointer and install.json.
CommandOwned(a, i) ==
    IF command = None
    THEN a = None \/ i = None
    ELSE IF a = None
         THEN i = None /\ Retained
         ELSE i # None /\ i.active = a /\ Installed(i)

\* launcher_ownership_for: the launcher on record, or else that of the
\* version, must be what is installed.
Owned(v, d) == command = IF d = None THEN launcherOf[v] ELSE d

LauncherOn(i) == IF i = None THEN None ELSE i.launcher

\* cleanup_staging can remove a transaction: what it may have put at the
\* command path is gone or known to be its own.
Cleanable(t) ==
    \/ ~Orphaned
    \/ marker[t] = None
    \/ command \in {None, marker[t]}

\* recover_locked returns an error before it has written anything.
Undecided ==
    IF pending # None
    THEN \/ active \notin {pending.from, pending.to}
         \/ /\ active = pending.to
            /\ active \notin versions \/ ~Owned(active, LauncherOn(install))
    ELSE IF active = None
         THEN install # None
         ELSE active \notin versions \/ ~Owned(active, LauncherOn(install))

\* As things are on disk, a recovery returns an error, now or in its cleaning.
RecoveryRefuses == Undecided \/ \E t \in staged : ~Cleanable(t)

-----------------------------------------------------------------------------
(* A call.                                                                 *)

Goto(p, l) == pc' = [pc EXCEPT ![p] = l]

Finish(p) ==
    /\ Goto(p, "idle")
    /\ lock' = IF lock = p THEN None ELSE lock
    /\ op' = [op EXCEPT ![p] = None]
    /\ tgt' = [tgt EXCEPT ![p] = None]
    /\ from' = [from EXCEPT ![p] = None]
    /\ known' = [known EXCEPT ![p] = None]
    /\ prior' = [prior EXCEPT ![p] = None]
    /\ tx' = [tx EXCEPT ![p] = None]

Call(p) ==
    /\ pc[p] = "idle"
    /\ \/ op' = [op EXCEPT ![p] = "recover"] /\ UNCHANGED tgt
       \/ \E o \in {"install", "rollback"}, v \in Version :
            op' = [op EXCEPT ![p] = o] /\ tgt' = [tgt EXCEPT ![p] = v]
    /\ Goto(p, "probe")
    /\ UNCHANGED <<launcherOf, disk, lock, from, known, prior, tx, launcher>>

\* What a call does when its recovery has returned.
AfterRecovery(p) ==
    IF op[p] = "recover" THEN Finish(p)
    ELSE /\ Goto(p, IF op[p] = "install" THEN "prove" ELSE "mutate")
         /\ lock' = IF lock = p THEN None ELSE lock
         /\ UNCHANGED locals

\* recover_if_managed: is there anything to recover?
Probe(p) ==
    /\ pc[p] = "probe"
    /\ IF install = None /\ pending = None /\ active = None /\ ~Marked
       THEN AfterRecovery(p)
       ELSE Goto(p, "await") /\ UNCHANGED <<lock, locals>>
    /\ UNCHANGED <<launcherOf, disk, launcher>>

Acquire(p) ==
    /\ pc[p] \in {"await", "mutate"}
    /\ lock = None
    /\ lock' = p
    /\ Goto(p, CASE pc[p] = "await" -> "recover"
                 [] op[p] = "rollback" -> "back"
                 [] OTHER -> "begin")
    /\ UNCHANGED <<launcherOf, disk, locals, launcher>>

\* Recovery gives up and changes nothing.
RecoverRefused(p) ==
    /\ pc[p] = "recover"
    /\ Undecided
    /\ Finish(p)
    /\ UNCHANGED <<launcherOf, disk, launcher>>

\* A bug: the launcher recorded is that of the version now active.
RecoverForwardAnew(p) ==
    /\ pc[p] = "recover"
    /\ ~Undecided
    /\ pending # None /\ active = pending.to
    /\ install' = [active |-> active, previous |-> pending.from,
                   launcher |-> launcherOf[active]]
    /\ Goto(p, "unjournal")
    /\ UNCHANGED <<launcherOf, active, pending, command, versions, staged,
                   marker, lock, locals, launcher>>

\* The pointer was switched: finish the activation.
RecoverForward(p) ==
    /\ pc[p] = "recover"
    /\ ~Undecided
    /\ pending # None /\ active = pending.to
    /\ install' = [active |-> active, previous |-> pending.from, launcher |-> command]
    /\ Goto(p, "unjournal")
    /\ UNCHANGED <<launcherOf, active, pending, command, versions, staged,
                   marker, lock, locals, launcher>>

\* It was not: discard the journal.  Or install.json has just been written.
RecoverBackward(p) ==
    /\ \/ /\ pc[p] = "recover"
          /\ ~Undecided
          /\ pending # None /\ active = pending.from
       \/ pc[p] = "unjournal"
    /\ pending' = None
    /\ Goto(p, "clean")
    /\ UNCHANGED <<launcherOf, active, install, command, versions, staged,
                   marker, lock, locals, launcher>>

\* Nothing is active: at most an orphaned launcher is to be removed.
RecoverNothing(p) ==
    /\ pc[p] = "recover"
    /\ ~Undecided
    /\ pending = None /\ active = None
    /\ IF Marked THEN Goto(p, "clean") /\ UNCHANGED <<lock, locals>>
       ELSE AfterRecovery(p)
    /\ UNCHANGED <<launcherOf, disk, launcher>>

\* The pointer is authoritative: install.json is written again from it.
RecoverRepair(p) ==
    /\ pc[p] = "recover"
    /\ ~Undecided
    /\ pending = None /\ active # None
    /\ install' =
         IF install # None /\ install.active = active THEN install
         ELSE [active   |-> active,
               previous |-> IF install = None \/ install.previous \notin versions \ {active}
                            THEN None ELSE install.previous,
               launcher |-> command]
    /\ Goto(p, "clean")
    /\ UNCHANGED <<launcherOf, active, pending, command, versions, staged,
                   marker, lock, locals, launcher>>

-----------------------------------------------------------------------------
(* cleanup_staging, in a recovery and at the begin of an install.          *)

CleanRefused(p) ==
    /\ pc[p] \in Cleaning
    /\ \E t \in staged : ~Cleanable(t)
    /\ Finish(p)
    /\ UNCHANGED <<launcherOf, disk, launcher>>

\* A bug: every launcher with a marker is removed, also one a version needs.
CleanLauncherAlways(p) ==
    /\ pc[p] \in Cleaning
    /\ Orphaned
    /\ \E t \in staged : Cleanable(t) /\ marker[t] = command
    /\ command # None
    /\ command' = None
    /\ UNCHANGED <<launcherOf, active, pending, install, versions, staged, marker,
                   lock, pc, locals, launcher>>

\* The launcher of a transaction goes first, unless a retained version has it.
CleanLauncher(p) ==
    /\ pc[p] \in Cleaning
    /\ Orphaned
    /\ \E t \in staged : Cleanable(t) /\ marker[t] = command
    /\ command # None /\ ~Retained
    /\ command' = None
    /\ UNCHANGED <<launcherOf, active, pending, install, versions, staged, marker,
                   lock, pc, locals, launcher>>

\* Then the transaction.
CleanTransaction(p) ==
    /\ pc[p] \in Cleaning
    /\ \E t \in staged :
         /\ Cleanable(t)
         /\ Orphaned /\ marker[t] # None => command = None \/ Retained
         /\ staged' = staged \ {t}
         /\ marker' = [marker EXCEPT ![t] = None]
    /\ UNCHANGED <<launcherOf, active, pending, install, command, versions,
                   lock, pc, locals, launcher>>

CleanDone(p) ==
    /\ pc[p] \in Cleaning
    /\ staged = {}
    /\ IF pc[p] = "tidy" THEN Goto(p, "own") /\ UNCHANGED <<lock, locals>>
       ELSE AfterRecovery(p)
    /\ UNCHANGED <<launcherOf, disk, launcher>>

-----------------------------------------------------------------------------
(* An install, after its recovery.                                         *)

\* A command without install.json has to be that of a retained version.
Prove(p) ==
    /\ pc[p] = "prove"
    /\ IF command # None /\ install = None /\ ~Retained
       THEN Finish(p)
       ELSE Goto(p, "mutate") /\ UNCHANGED <<lock, locals>>
    /\ UNCHANGED <<launcherOf, disk, launcher>>

\* What is active stays, or is older; else the staging left over is removed.
Begin(p) ==
    /\ pc[p] = "begin"
    /\ IF install # None /\ active # None /\ tgt[p] <= active
       THEN Finish(p)
       ELSE /\ known' = [known EXCEPT ![p] = install]
            /\ from' = [from EXCEPT ![p] = active]
            /\ prior' = [prior EXCEPT ![p] =
                 IF install # None THEN install.launcher
                 ELSE IF Retained THEN command ELSE None]
            /\ Goto(p, IF active # None \/ command = None \/ install = None
                       THEN "tidy" ELSE "own")
            /\ UNCHANGED <<lock, op, tgt, tx>>
    /\ UNCHANGED <<launcherOf, disk, launcher>>

\* The command is ours, and a version kept from before comes with its launcher.
Own(p) ==
    /\ pc[p] = "own"
    /\ IF \/ ~CommandOwned(from[p], known[p])
          \/ tgt[p] \in versions /\ ~Owned(tgt[p], prior[p])
       THEN Finish(p)
       ELSE /\ Goto(p, IF tgt[p] \in versions THEN "journal" ELSE "stage")
            /\ UNCHANGED <<lock, locals>>
    /\ UNCHANGED <<launcherOf, disk, launcher>>

Stage(p) ==
    /\ pc[p] = "stage"
    /\ \E t \in Tx \ staged :
         /\ staged' = staged \cup {t}
         /\ tx' = [tx EXCEPT ![p] = t]
    /\ Goto(p, "write")
    /\ UNCHANGED <<launcherOf, active, pending, install, command, versions, marker,
                   lock, op, tgt, from, known, prior, launcher>>

\* The launcher in place is ours, or there is none and none is expected.
LauncherExpected(p) ==
    IF command = None THEN prior[p] = None
    ELSE /\ prior[p] # None
         /\ IF install # None THEN Installed(install) ELSE Retained

\* A bug: the launcher is created before its transaction is marked.
WriteUnmarked(p) ==
    /\ pc[p] = "write"
    /\ IF ~LauncherExpected(p)
       THEN Finish(p)
       ELSE Goto(p, IF command = None THEN "create" ELSE "publish")
            /\ UNCHANGED <<lock, locals>>
    /\ UNCHANGED <<launcherOf, disk, launcher>>

\* The marker is written before the launcher it vouches for.
Write(p) ==
    /\ pc[p] = "write"
    /\ IF ~LauncherExpected(p)
       THEN Finish(p) /\ UNCHANGED marker
       ELSE /\ Goto(p, IF command = None THEN "create" ELSE "publish")
            /\ marker' = IF command # None THEN marker
                         ELSE [marker EXCEPT ![tx[p]] = launcherOf[tgt[p]]]
            /\ UNCHANGED <<lock, locals>>
    /\ UNCHANGED <<launcherOf, active, pending, install, command, versions, staged,
                   launcher>>

\* create_new_file: whole or not at all, and never over another file.
Create(p) ==
    /\ pc[p] = "create"
    /\ IF command # None
       THEN Finish(p) /\ UNCHANGED command
       ELSE /\ command' = launcherOf[tgt[p]]
            /\ Goto(p, "publish")
            /\ UNCHANGED <<lock, locals>>
    /\ UNCHANGED <<launcherOf, active, pending, install, versions, staged, marker,
                   launcher>>

Publish(p) ==
    /\ pc[p] = "publish"
    /\ versions' = versions \cup {tgt[p]}
    /\ Goto(p, "journal")
    /\ UNCHANGED <<launcherOf, active, pending, install, command, staged, marker,
                   lock, locals, launcher>>

-----------------------------------------------------------------------------
(* activate_existing_locked, and activate_pointer_and_state for both.      *)

Back(p) ==
    /\ pc[p] = "back"
    /\ IF /\ install # None /\ active # None
          /\ tgt[p] < active /\ tgt[p] \in versions
          /\ CommandOwned(active, install)
       THEN /\ known' = [known EXCEPT ![p] = install]
            /\ from' = [from EXCEPT ![p] = active]
            /\ prior' = [prior EXCEPT ![p] = install.launcher]
            /\ Goto(p, "journal")
            /\ UNCHANGED <<lock, op, tgt, tx>>
       ELSE Finish(p)
    /\ UNCHANGED <<launcherOf, disk, launcher>>

\* A bug: an update is journalled like a first install.
JournalForgetful(p) ==
    /\ pc[p] = "journal"
    /\ pending' = [from |-> None, to |-> tgt[p]]
    /\ Goto(p, "switch")
    /\ UNCHANGED <<launcherOf, active, install, command, versions, staged, marker,
                   lock, locals, launcher>>

Journal(p) ==
    /\ pc[p] = "journal"
    /\ pending' = [from |-> from[p], to |-> tgt[p]]
    /\ Goto(p, "switch")
    /\ UNCHANGED <<launcherOf, active, install, command, versions, staged, marker,
                   lock, locals, launcher>>

\* A bug: active is opened by the launcher for others to replace.
SwitchShared(p) ==
    /\ pc[p] = "switch"
    /\ active' = tgt[p]
    /\ Goto(p, "describe")
    /\ UNCHANGED <<launcherOf, pending, install, command, versions, staged, marker,
                   lock, locals, launcher>>

\* MoveFileEx fails while a launcher has active open: it shares it for reading.
Switch(p) ==
    /\ pc[p] = "switch"
    /\ IF held THEN Finish(p) /\ UNCHANGED active
       ELSE /\ active' = tgt[p]
            /\ Goto(p, "describe")
            /\ UNCHANGED <<lock, locals>>
    /\ UNCHANGED <<launcherOf, pending, install, command, versions, staged, marker,
                   launcher>>

Describe(p) ==
    /\ pc[p] = "describe"
    /\ IF ~Owned(tgt[p], prior[p])
       THEN Finish(p) /\ UNCHANGED install
       ELSE /\ install' = [active |-> tgt[p], previous |-> from[p], launcher |-> command]
            /\ Goto(p, "commit")
            /\ UNCHANGED <<lock, locals>>
    /\ UNCHANGED <<launcherOf, active, pending, command, versions, staged, marker,
                   launcher>>

Commit(p) ==
    /\ pc[p] = "commit"
    /\ pending' = None
    /\ Goto(p, "sweep")
    /\ UNCHANGED <<launcherOf, active, install, command, versions, staged, marker,
                   lock, locals, launcher>>

\* remove_transaction_after_rename.
Sweep(p) ==
    /\ pc[p] = "sweep"
    /\ staged' = staged \ {tx[p]}
    /\ marker' = [t \in Tx |-> IF t = tx[p] THEN None ELSE marker[t]]
    /\ Finish(p)
    /\ UNCHANGED <<launcherOf, active, pending, install, command, versions, launcher>>

-----------------------------------------------------------------------------
(* Failures, the launcher at work, and others.                             *)

\* An error or the end of the process, between any two steps.
Fail(p) ==
    /\ pc[p] # "idle"
    /\ Finish(p)
    /\ UNCHANGED <<launcherOf, disk, launcher>>

\* run_windows_launcher: active is open from before it is read ...
RunOpens ==
    /\ ~held
    /\ command \in Digest /\ active # None
    /\ held' = TRUE
    /\ UNCHANGED <<launcherOf, disk, lock, pc, locals, selected>>

RunReads ==
    /\ held /\ selected = None
    /\ selected' = active
    /\ UNCHANGED <<launcherOf, disk, lock, pc, locals, held>>

\* ... until the payload has been started, or could not be.
RunEnds ==
    /\ held
    /\ held' = FALSE
    /\ selected' = None
    /\ UNCHANGED <<launcherOf, disk, lock, pc, locals>>

UserCreates ==
    /\ command = None
    /\ command' = UserFile
    /\ UNCHANGED <<launcherOf, active, pending, install, versions, staged, marker,
                   lock, pc, locals, launcher>>

UserRemoves ==
    /\ command = UserFile
    /\ command' = None
    /\ UNCHANGED <<launcherOf, active, pending, install, versions, staged, marker,
                   lock, pc, locals, launcher>>

InstallLost ==
    /\ MayLose
    /\ install # None
    /\ install' = None
    /\ UNCHANGED <<launcherOf, active, pending, command, versions, staged, marker,
                   lock, pc, locals, launcher>>

Next ==
    \/ \E p \in Proc :
         \/ Call(p) \/ Probe(p) \/ Acquire(p)
         \/ RecoverRefused(p) \/ RecoverForward(p) \/ RecoverBackward(p)
         \/ RecoverNothing(p) \/ RecoverRepair(p)
         \/ CleanRefused(p) \/ CleanLauncher(p) \/ CleanTransaction(p) \/ CleanDone(p)
         \/ Prove(p) \/ Begin(p) \/ Own(p) \/ Stage(p) \/ Write(p) \/ Create(p)
         \/ Publish(p) \/ Back(p)
         \/ Journal(p) \/ Switch(p) \/ Describe(p) \/ Commit(p) \/ Sweep(p)
         \/ Fail(p)
    \/ RunOpens \/ RunReads \/ RunEnds
    \/ UserCreates \/ UserRemoves \/ InstallLost

Spec == Init /\ [][Next]_vars

-----------------------------------------------------------------------------
(* Properties.                                                             *)

\* A launcher at the command path can at every moment be shown to be ours, by
\* install.json, a retained version or a marker, whatever failed before
\* (write_downloaded_version and cleanup_staging).
LauncherProvable ==
    command \in Digest =>
        \/ install # None /\ Installed(install)
        \/ Retained
        \/ \E t \in staged : marker[t] = command

\* What install.json says of the launcher is true of the file at the command
\* path, after updates, rollbacks and recoveries in any order
\* (launcher_ownership_for).
LauncherRecorded == install # None => Installed(install)

\* What is at the command path is never replaced, and removed by us only when
\* it is a launcher that neither a version nor an installation needs
\* (create_new_file, cleanup_staging).
NothingReplaced ==
    [][command' # command =>
         \/ command = None
         \/ UserRemoves
         \/ command \in Digest /\ command' = None /\ Orphaned /\ ~Retained]_vars

\* What a launcher starts is active until it has been started, and retained
\* (run_windows_launcher holds active open; switch_pointer).
RunsWhatIsActive == selected # None => selected = active /\ selected \in versions

\* When the releases carry one launcher and no file of the user's is at the
\* command path, a crash or a lost install.json never leaves a state that
\* recovery refuses.
SameLauncher == \A v, w \in Version : launcherOf[v] = launcherOf[w]
RecoveryNeverRefuses == SameLauncher /\ command # UserFile => ~RecoveryRefuses

\* The same of releases that carry different launchers.  The code does not
\* keep this: see the finding.
RecoverySucceeds == command # UserFile => ~RecoveryRefuses

\* The steps of an activation, its failures and its recovery are one change of
\* version for who runs the command.
S == INSTANCE Selector WITH
    current  <- active,
    previous <- IF pending # None /\ active = pending.to THEN pending.from
                ELSE IF install = None THEN None ELSE install.previous,
    retained <- versions
ImplementsSelector == S!Spec

=============================================================================
