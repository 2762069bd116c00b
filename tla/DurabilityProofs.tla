-------------------------- MODULE DurabilityProofs --------------------------
(***************************************************************************)
(* What power losses leave of Activation, for every set of processes,      *)
(* versions, ids and signatures.  Processes die and fail at any step; who  *)
(* leaves something unsynced leaves nothing but pending.json so.           *)
(***************************************************************************)
EXTENDS Durability, ActivationProofs

\* The disk that comes back when these four survive.
Mixture(ptr, pnd, ins, ver) == INSTANCE ActivationInv WITH
    pointer <- ptr, pending <- pnd, install <- ins, versions <- ver

-----------------------------------------------------------------------------
(* The inductive invariant.                                                *)

\* The directories somebody has still to sync.
Entries(dirs) == {dirs[i] : i \in DOMAIN dirs}
Owed == UNION {Entries(syncing[p]) : p \in Proc}

\* Who has something to sync is under the lock.
SyncingOwned == \A p \in Proc : syncing[p] # <<>> => lock = p

\* What is written is among the survivors, and alone there once its directory
\* is synced.
Present ==
    /\ pointer \in survivors.pointer
    /\ pending \in survivors.pending
    /\ install \in survivors.install
    /\ \A v \in Version : versions[v] \in survivors.versions[v]

Synced ==
    /\ "command" \notin Owed => survivors.pointer = {pointer}
    /\ "root" \notin Owed => survivors.install = {install}
    /\ "versions" \notin Owed => \A v \in Version : survivors.versions[v] = {versions[v]}

\* The journal may be left unsynced, time and again: any number of old ones may
\* come back, or none.  It is certain when it matters: to who switches the
\* command, from the switch to its removal, and to who has returned.
JournalCertain == pending # None /\ pointer = pending.to => survivors.pending = {pending}

JournalPC == {"switch", "relink", "finish"}

JournalSynced == \A p \in Proc :
    pc[p] \in JournalPC /\ "root" \notin Entries(syncing[p]) => survivors.pending = {pending}

\* Whichever survivors come back together, they are a consistent disk.
Consistent ==
    \A ptr \in survivors.pointer, pnd \in survivors.pending, ins \in survivors.install,
       ver \in [Version -> Retained \cup {None}] :
         (\A v \in Version : ver[v] \in survivors.versions[v])
           => Mixture(ptr, pnd, ins, ver)!DiskOK

DInv ==
    /\ IInv
    /\ edited = FALSE
    /\ DTypeOK
    /\ Present
    /\ Synced
    /\ JournalCertain
    /\ JournalSynced
    /\ Consistent

(***************************************************************************)
(* Mixtures.                                                               *)
(***************************************************************************)

\* The mixture of what is written is the disk, before and after a step.
LEMMA WrittenMixture == DiskOK => Mixture(pointer, pending, install, versions)!DiskOK
BY DEF DiskOK, PendingExplainsPointer, NamedVersionsRetained, OneInstallation,
       InstallDescribesPointer, InstallImpliesPointer, InstallCurrent,
       Mixture!DiskOK, Mixture!PendingExplainsPointer, Mixture!NamedVersionsRetained,
       Mixture!OneInstallation, Mixture!InstallDescribesPointer,
       Mixture!InstallImpliesPointer, Mixture!InstallCurrent,
       Mixture!UserCommand, UserCommand

\* A mixture is judged by itself and by whether install.json was edited.
LEMMA MixtureKept ==
    ASSUME UNCHANGED edited, NEW ptr, NEW pnd, NEW ins, NEW ver
    PROVE  Mixture(ptr, pnd, ins, ver)!DiskOK' <=> Mixture(ptr, pnd, ins, ver)!DiskOK
BY DEF Mixture!DiskOK, Mixture!PendingExplainsPointer, Mixture!NamedVersionsRetained,
       Mixture!OneInstallation, Mixture!InstallDescribesPointer,
       Mixture!InstallImpliesPointer, Mixture!InstallCurrent

LEMMA WrittenMixtureNext ==
    ASSUME UNCHANGED edited, DiskOK', NEW ptr, NEW pnd, NEW ins, NEW ver,
           ptr = pointer', pnd = pending', ins = install', ver = versions'
    PROVE  Mixture(ptr, pnd, ins, ver)!DiskOK
BY DEF DiskOK, PendingExplainsPointer, NamedVersionsRetained, OneInstallation,
       InstallDescribesPointer, InstallImpliesPointer, InstallCurrent,
       Mixture!DiskOK, Mixture!PendingExplainsPointer, Mixture!NamedVersionsRetained,
       Mixture!OneInstallation, Mixture!InstallDescribesPointer,
       Mixture!InstallImpliesPointer, Mixture!InstallCurrent,
       Mixture!UserCommand, UserCommand

LEMMA MixtureWrittenNext ==
    ASSUME UNCHANGED edited, NEW ptr, NEW pnd, NEW ins, NEW ver,
           ptr = pointer', pnd = pending', ins = install', ver = versions',
           Mixture(ptr, pnd, ins, ver)!DiskOK
    PROVE  DiskOK'
BY DEF DiskOK, PendingExplainsPointer, NamedVersionsRetained, OneInstallation,
       InstallDescribesPointer, InstallImpliesPointer, InstallCurrent,
       Mixture!DiskOK, Mixture!PendingExplainsPointer, Mixture!NamedVersionsRetained,
       Mixture!OneInstallation, Mixture!InstallDescribesPointer,
       Mixture!InstallImpliesPointer, Mixture!InstallCurrent,
       Mixture!UserCommand, UserCommand

\* A disk of the same values is the same mixture.
LEMMA SameVersions ==
    ASSUME NEW S, NEW f \in [Version -> S], NEW g \in [Version -> S],
           \A v \in Version : f[v] = g[v]
    PROVE  f = g
OBVIOUS

(***************************************************************************)
(* Steps.                                                                  *)
(***************************************************************************)

\* Where nobody has anything to sync, what is written is all there is.
LEMMA NothingOwed ==
    ASSUME DTypeOK, SyncingOwned, NEW p \in Proc, lock = p \/ lock = None, syncing[p] = <<>>
    PROVE  \A q \in Proc : syncing[q] = <<>>
BY NoneAssumption DEF SyncingOwned

LEMMA OwedNone ==
    ASSUME \A q \in Proc : syncing[q] = <<>>
    PROVE  Owed = {}
BY DEF Owed, Entries

\* What is certain, by entries.
LEMMA CertainWritten ==
    ASSUME DTypeOK, Synced, Owed = {}, survivors.pending = {pending}
    PROVE  survivors = Certain(Written)
<1>1. /\ survivors = [pointer |-> survivors.pointer, pending |-> survivors.pending,
                      install |-> survivors.install, versions |-> survivors.versions]
      /\ survivors.versions = [v \in Version |-> survivors.versions[v]]
  BY DEF DTypeOK
<1>2. /\ survivors.pointer = {pointer} /\ survivors.pending = {pending}
      /\ survivors.install = {install}
      /\ \A v \in Version : survivors.versions[v] = {versions[v]}
  BY DEF Synced
<1>3. survivors.versions = [v \in Version |-> {versions[v]}]
  BY <1>1, <1>2
<1> QED BY <1>1, <1>2, <1>3 DEF Certain, Written

\* Steps that write none of the entries and sync nothing.
LEMMA QuietDisk ==
    ASSUME Present, Synced, Consistent,
           UNCHANGED <<pointer, pending, install, versions, edited, survivors, syncing>>
    PROVE  Present' /\ Synced' /\ Consistent'
<1>1. Present' /\ Synced'
  BY DEF Present, Synced, Owed, Entries
<1>2. Consistent'
  BY MixtureKept DEF Consistent
<1> QED BY <1>1, <1>2

\* A write replaces one entry.  The journal is written where install.json is
\* right without it; the command and install.json are where it is certain.
Installed == pointer \in Version => install # None /\ install.active = pointer

JournalWrite == UNCHANGED <<pointer, install, versions>> /\ Installed

VersionWrite ==
    /\ UNCHANGED <<pointer, pending, install>>
    /\ \/ UNCHANGED versions
       \/ \E v \in Version, r \in Retained : versions' = [versions EXCEPT ![v] = r]

PointerWrite == UNCHANGED <<pending, install, versions>> /\ survivors.pending = {pending}

InstallWrite ==
    /\ UNCHANGED <<pointer, pending, versions>>
    /\ survivors.pending = {pending}
    /\ pending # None /\ pointer = pending.to

OneEntry == JournalWrite \/ VersionWrite \/ PointerWrite \/ InstallWrite

\* What more is retained suits every journal that suited what was.
LEMMA RenamedMixture ==
    ASSUME TypeOK, DiskOK', UNCHANGED <<pointer, pending, install, edited>>,
           NEW pnd \in Pending \cup {None}, NEW ver, ver = versions',
           \A v \in Version : versions[v] # None => versions'[v] # None,
           Mixture(pointer, pnd, install, versions)!DiskOK
    PROVE  Mixture(pointer, pnd, install, ver)!DiskOK
<1>1. /\ Mixture(pointer, pnd, install, ver)!PendingExplainsPointer
      /\ Mixture(pointer, pnd, install, ver)!InstallDescribesPointer
      /\ Mixture(pointer, pnd, install, ver)!InstallImpliesPointer
      /\ Mixture(pointer, pnd, install, ver)!InstallCurrent
  BY DEF Mixture!DiskOK, Mixture!PendingExplainsPointer, Mixture!InstallDescribesPointer,
         Mixture!InstallImpliesPointer, Mixture!InstallCurrent, Mixture!UserCommand
<1>2. Mixture(pointer, pnd, install, ver)!NamedVersionsRetained
  BY DEF TypeOK, Pending, Install, VersionOrNone, Mixture!DiskOK, Mixture!NamedVersionsRetained
<1>3. Mixture(pointer, pnd, install, ver)!OneInstallation
  BY DEF DiskOK, OneInstallation, Mixture!OneInstallation
<1> QED BY <1>1, <1>2, <1>3 DEF Mixture!DiskOK

\* A write of a version directory, or of none.
LEMMA VersionWritten ==
    ASSUME TypeOK, TypeOK', VersionWrite, NEW ver \in [Version -> Retained \cup {None}],
           \A v \in Version : ver[v] \in {versions[v], versions'[v]}
    PROVE  /\ ver = versions \/ ver = versions'
           /\ \A v \in Version : versions[v] # None => versions'[v] # None
<1>1. /\ versions \in [Version -> Retained \cup {None}]
      /\ versions' \in [Version -> Retained \cup {None}]
  BY DEF TypeOK
<1>2. CASE versions' = versions
  <2>1. ver = versions
    BY <1>1, <1>2, SameVersions
  <2> QED BY <1>2, <2>1
<1>3. ASSUME NEW w \in Version, NEW r \in Retained, versions' = [versions EXCEPT ![w] = r]
      PROVE  /\ ver = versions \/ ver = versions'
             /\ \A v \in Version : versions[v] # None => versions'[v] # None
  <2>1. \A v \in Version \ {w} : ver[v] = versions[v] /\ versions'[v] = versions[v]
    BY <1>1, <1>3
  <2>2. versions'[w] # None
    BY <1>1, <1>3, NoneAssumption
  <2>3. CASE ver[w] = versions[w]
    <3>1. \A v \in Version : ver[v] = versions[v]
      BY <2>1, <2>3
    <3>2. ver = versions
      BY <1>1, <3>1, SameVersions
    <3> QED BY <2>1, <2>2, <3>2
  <2>4. CASE ver[w] = versions'[w]
    <3>1. \A v \in Version : ver[v] = versions'[v]
      BY <2>1, <2>4
    <3>2. ver = versions'
      BY <1>1, <3>1, SameVersions
    <3> QED BY <2>1, <2>2, <3>2
  <2> QED BY <2>3, <2>4
<1> QED BY <1>2, <1>3 DEF VersionWrite

\* What survives of a write: with the journal certain, the old disk and the new
\* one; else any of the journals with what else there is.
LEMMA WriteConsistent ==
    ASSUME DTypeOK, TypeOK, TypeOK', DiskOK, DiskOK', UNCHANGED edited,
           Present, Synced, Consistent, Owed = {}, OneEntry, Dirty
    PROVE  Consistent'
<1>1. /\ survivors.pointer = {pointer} /\ survivors.install = {install}
      /\ \A v \in Version : survivors.versions[v] = {versions[v]}
  BY DEF Synced
<1>2. /\ survivors'.pointer = {pointer, pointer'}
      /\ survivors'.pending = survivors.pending \cup {pending'}
      /\ survivors'.install = {install, install'}
      /\ \A v \in Version : survivors'.versions[v] = {versions[v], versions'[v]}
  BY <1>1 DEF Dirty
<1>3. SUFFICES ASSUME NEW ptr \in {pointer, pointer'},
                      NEW pnd \in survivors.pending \cup {pending'},
                      NEW ins \in {install, install'},
                      NEW ver \in [Version -> Retained \cup {None}],
                      \A v \in Version : ver[v] \in {versions[v], versions'[v]}
               PROVE  Mixture(ptr, pnd, ins, ver)!DiskOK
  BY <1>2, MixtureKept DEF Consistent
<1>4. /\ versions \in [Version -> Retained \cup {None}]
      /\ versions' \in [Version -> Retained \cup {None}]
  BY DEF TypeOK
<1>5. ASSUME ptr = pointer, pnd \in survivors.pending, ins = install, ver = versions
      PROVE  Mixture(ptr, pnd, ins, ver)!DiskOK
  BY <1>1, <1>5, Zenon DEF Consistent
<1>6. ASSUME ptr = pointer', pnd = pending', ins = install', ver = versions'
      PROVE  Mixture(ptr, pnd, ins, ver)!DiskOK
  BY <1>6, WrittenMixtureNext
<1>7. versions' = versions => ver = versions
  BY <1>3, <1>4, SameVersions
<1>8. CASE JournalWrite
  BY <1>3, <1>5, <1>6, <1>7, <1>8 DEF JournalWrite
<1>9. CASE PointerWrite \/ InstallWrite
  BY <1>3, <1>5, <1>6, <1>7, <1>9 DEF PointerWrite, InstallWrite
<1>10. CASE VersionWrite
  <2>1. ptr = pointer /\ ins = install /\ pnd \in survivors.pending
    BY <1>3, <1>10 DEF VersionWrite, Present
  <2>2. /\ ver = versions \/ ver = versions'
        /\ \A v \in Version : versions[v] # None => versions'[v] # None
    BY <1>3, <1>10, VersionWritten
  <2>3. pnd \in Pending \cup {None}
    BY <2>1 DEF DTypeOK
  <2>4. Mixture(pointer, pnd, install, versions)!DiskOK
    BY <1>1, <1>4, <2>1, Zenon DEF Consistent
  <2>5. CASE ver = versions'
    <3>1. UNCHANGED <<pointer, pending, install, edited>>
      BY <1>10 DEF VersionWrite
    <3>2. Mixture(pointer, pnd, install, ver)!DiskOK
      BY <2>2, <2>3, <2>4, <2>5, <3>1, RenamedMixture
    <3> QED BY <2>1, <3>2
  <2> QED BY <1>5, <2>1, <2>2, <2>5
<1> QED BY <1>8, <1>9, <1>10 DEF OneEntry

\* What a process has to sync after a write it owes.
LEMMA WriteOwed ==
    ASSUME DTypeOK, NEW p \in Proc, NEW dirs, syncing' = [syncing EXCEPT ![p] = dirs]
    PROVE  Entries(dirs) \subseteq Owed'
BY DEF DTypeOK, Owed, Entries

\* A write and the syncs that are to follow it.
LEMMA WriteDisk ==
    ASSUME DInv, TypeOK', DiskOK', edited' = FALSE, NEW p \in Proc, lock = p, syncing[p] = <<>>,
           OneEntry, NEW dirs, Then(p, dirs),
           pointer' # pointer => "command" \in Entries(dirs),
           install' # install => "root" \in Entries(dirs),
           versions' # versions => "versions" \in Entries(dirs)
    PROVE  Present' /\ Synced' /\ Consistent'
<1>1. Owed = {}
  BY NothingOwed, OwedNone DEF DInv, DTypeOK, SyncingOwned
<1>2. /\ survivors'.pointer = {pointer, pointer'}
      /\ survivors'.pending = survivors.pending \cup {pending'}
      /\ survivors'.install = {install, install'}
      /\ \A v \in Version : survivors'.versions[v] = {versions[v], versions'[v]}
  BY <1>1 DEF DInv, Synced, Then, Dirty
<1>3. Present'
  BY <1>2 DEF Present
<1>4. Entries(dirs) \subseteq Owed'
  BY WriteOwed DEF DInv, Then
<1>5. Synced'
  <2>1. "command" \notin Owed' => survivors'.pointer = {pointer'}
    BY <1>2, <1>4
  <2>2. "root" \notin Owed' => survivors'.install = {install'}
    BY <1>2, <1>4
  <2>3. "versions" \notin Owed' => \A v \in Version : survivors'.versions[v] = {versions'[v]}
    BY <1>2, <1>4
  <2> QED BY <2>1, <2>2, <2>3 DEF Synced
<1>6. Consistent'
  BY <1>1, WriteConsistent DEF DInv, IInv, Then
<1> QED BY <1>3, <1>5, <1>6

\* The directory that is synced is no longer owed unless it comes again.
LEMMA TailOwed ==
    ASSUME NEW dirs \in Seq(Dirs), dirs # <<>>
    PROVE  Entries(dirs) \subseteq {Head(dirs)} \cup Entries(Tail(dirs))
<1> SUFFICES ASSUME NEW i \in DOMAIN dirs, dirs[i] # Head(dirs)
             PROVE  dirs[i] \in Entries(Tail(dirs))
  BY DEF Entries
<1>1. i \in 2 .. Len(dirs)
  OBVIOUS
<1>2. i - 1 \in 1 .. Len(Tail(dirs)) /\ Tail(dirs)[i - 1] = dirs[i]
  BY <1>1
<1> QED BY <1>2 DEF Entries

LEMMA SyncOwed ==
    ASSUME DTypeOK, NEW p \in Proc, syncing[p] # <<>>,
           syncing' = [syncing EXCEPT ![p] = Tail(@)]
    PROVE  Owed \subseteq {Head(syncing[p])} \cup Owed'
<1> SUFFICES ASSUME NEW q \in Proc, NEW d \in Entries(syncing[q]), d # Head(syncing[p])
             PROVE  \E r \in Proc : d \in Entries(syncing'[r])
  BY DEF Owed
<1>1. CASE q = p
  <2>1. d \in Entries(Tail(syncing[p]))
    BY <1>1, TailOwed DEF DTypeOK
  <2>2. syncing'[p] = Tail(syncing[p])
    BY DEF DTypeOK
  <2> QED BY <2>1, <2>2
<1>2. CASE q # p
  BY <1>2 DEF DTypeOK
<1> QED BY <1>1, <1>2

\* sync_dir makes what is written in the directory the only survivor.
LEMMA SyncDisk ==
    ASSUME DInv, NEW p \in Proc, SyncDir(p)
    PROVE  Present' /\ Synced' /\ Consistent'
<1> DEFINE d == Head(syncing[p])
<1>1. /\ survivors'.pointer = IF d = "command" THEN {pointer} ELSE survivors.pointer
      /\ survivors'.pending = IF d = "root" THEN {pending} ELSE survivors.pending
      /\ survivors'.install = IF d = "root" THEN {install} ELSE survivors.install
      /\ \A v \in Version : survivors'.versions[v] =
           IF d = "versions" THEN {versions[v]} ELSE survivors.versions[v]
  BY DEF SyncDir, Certain, Written
<1>2. UNCHANGED <<pointer, pending, install, versions, edited>>
  BY DEF SyncDir, vars, disk, aux
<1>3. Owed \subseteq {d} \cup Owed'
  BY SyncOwed DEF DInv, SyncDir
<1>4. Present /\ Synced /\ Consistent
  BY DEF DInv
<1> HIDE DEF d
<1>5. Present'
  BY <1>1, <1>2, <1>4 DEF Present
<1>6. Synced'
  <2>1. "command" \notin Owed' => survivors'.pointer = {pointer}
    BY <1>1, <1>3, <1>4 DEF Synced
  <2>2. "root" \notin Owed' => survivors'.install = {install}
    BY <1>1, <1>3, <1>4 DEF Synced
  <2>3. "versions" \notin Owed' => \A v \in Version : survivors'.versions[v] = {versions[v]}
    BY <1>1, <1>3, <1>4 DEF Synced
  <2> QED BY <1>2, <2>1, <2>2, <2>3 DEF Synced
<1>7. Consistent'
  <2>1. /\ survivors'.pointer \subseteq survivors.pointer
        /\ survivors'.pending \subseteq survivors.pending
        /\ survivors'.install \subseteq survivors.install
        /\ \A v \in Version : survivors'.versions[v] \subseteq survivors.versions[v]
    BY <1>1, <1>4 DEF Present
  <2> QED BY <1>2, <1>4, <2>1, MixtureKept DEF Consistent
<1> QED BY <1>5, <1>6, <1>7

\* Whatever comes back after a power loss is consistent, and all there is.
LEMMA PowerLossDisk ==
    ASSUME DInv, PowerLoss
    PROVE  DiskOK' /\ Present' /\ Synced' /\ Consistent'
<1>1. /\ pointer' \in survivors.pointer
      /\ pending' \in survivors.pending
      /\ install' \in survivors.install
      /\ \A v \in Version : versions'[v] \in survivors.versions[v]
      /\ UNCHANGED edited
  BY DEF PowerLoss, aux
<1>2. versions' \in [Version -> Retained \cup {None}]
  <2>1. PICK f \in [Version -> UNION {survivors.versions[v] : v \in Version}] :
          (\A v \in Version : f[v] \in survivors.versions[v]) /\ versions' = f
    BY DEF PowerLoss
  <2>2. \A v \in Version : survivors.versions[v] \subseteq Retained \cup {None}
    BY DEF DInv, DTypeOK
  <2>3. \A v \in Version : f[v] \in Retained \cup {None}
    BY <2>1, <2>2
  <2> QED BY <2>1, <2>3
<1>3. ASSUME NEW ptr, NEW pnd, NEW ins, NEW ver,
             ptr = pointer', pnd = pending', ins = install', ver = versions'
      PROVE  Mixture(ptr, pnd, ins, ver)!DiskOK
  BY <1>1, <1>2, <1>3 DEF DInv, Consistent
<1>4. /\ survivors'.pointer = {pointer'} /\ survivors'.pending = {pending'}
      /\ survivors'.install = {install'}
      /\ \A v \in Version : survivors'.versions[v] = {versions'[v]}
  BY DEF PowerLoss, Certain, Written
<1>5. Present' /\ Synced'
  BY <1>4 DEF Present, Synced
<1>6. Consistent'
  <2> SUFFICES ASSUME NEW ptr, NEW pnd, NEW ins,
                      ptr = pointer', pnd = pending', ins = install',
                      NEW ver \in [Version -> Retained \cup {None}],
                      \A v \in Version : ver[v] \in survivors'.versions[v]
               PROVE  Mixture(ptr, pnd, ins, ver)!DiskOK
    BY <1>1, <1>4, MixtureKept DEF Consistent
  <2>1. \A v \in Version : ver[v] = versions'[v]
    BY <1>4
  <2>2. ver = versions'
    BY <1>2, <2>1, SameVersions
  <2> QED BY <1>3, <2>2
<1>7. DiskOK'
  <2>1. \E ptr, pnd, ins, ver :
          ptr = pointer' /\ pnd = pending' /\ ins = install' /\ ver = versions'
    OBVIOUS
  <2> QED BY <1>1, <1>3, <2>1, MixtureWrittenNext
<1> QED BY <1>5, <1>6, <1>7

\* What is on the disk, and so what may survive, is of its type.
LEMMA SurvivorTypes ==
    ASSUME DTypeOK, TypeOK', Dirty
    PROVE  survivors' \in [pointer : SUBSET (VersionOrNone \cup UserCommand),
                           pending : SUBSET (Pending \cup {None}),
                           install : SUBSET (Install \cup {None}),
                           versions : [Version -> SUBSET (Retained \cup {None})]]
<1>1. /\ survivors.pointer \cup {pointer'} \in SUBSET (VersionOrNone \cup UserCommand)
      /\ survivors.pending \cup {pending'} \in SUBSET (Pending \cup {None})
      /\ survivors.install \cup {install'} \in SUBSET (Install \cup {None})
  BY DEF DTypeOK, TypeOK
<1>2. \A v \in Version :
        survivors.versions[v] \cup {versions'[v]} \in SUBSET (Retained \cup {None})
  BY DEF DTypeOK, TypeOK
<1> QED BY <1>1, <1>2 DEF Dirty

LEMMA CertainTypes ==
    ASSUME TypeOK
    PROVE  Certain(Written) \in [pointer : SUBSET (VersionOrNone \cup UserCommand),
                                 pending : SUBSET (Pending \cup {None}),
                                 install : SUBSET (Install \cup {None}),
                                 versions : [Version -> SUBSET (Retained \cup {None})]]
<1>1. \A v \in Version : {versions[v]} \in SUBSET (Retained \cup {None})
  BY DEF TypeOK
<1> QED BY <1>1 DEF TypeOK, Certain, Written

\* Every step of a process, and its death, is a step of Activation.
LEMMA StepNext ==
    ASSUME NEW p \in Proc, Step(p) \/ Die(p)
    PROVE  Next
BY DEF Step, Die, ReplaceFile, SwitchSymlink, RenameNew, RemoveFile, RepairFile, Quiet,
       Next, Work, Recovery, Activation

\* Where the journal is written or removed, install.json describes the pointer.
LEMMA JournalWritten ==
    ASSUME DInv, NEW p \in Proc, WritePending(p) \/ RemoveFile(p)
    PROVE  JournalWrite
<1> USE DEF aux, disk, locals
<1>0. TypeOK /\ DiskOK /\ Holder(p) /\ edited = FALSE
  BY DEF DInv, IInv, HolderOK
<1>1. CASE WritePending(p)
  <2>1. FromIsPointer(p) /\ Owner(p)
    BY <1>0, <1>1 DEF WritePending, Holder, OwnedPC
  <2>2. Installed
    BY <1>0, <2>1, NoneAssumption, UserAssumption
       DEF FromIsPointer, Owner, Installed, VersionOrNone
  <2> QED BY <1>1, <2>2 DEF WritePending, JournalWrite
<1>2. CASE RecoverUnjournal(p)
  <2>1. pending # None /\ (pointer = pending.to => install # None /\ install.active = pending.to)
    BY <1>0, <1>2 DEF RecoverUnjournal, Holder
  <2>2. Installed
    BY <1>0, <2>1 DEF Installed, DiskOK, InstallCurrent
  <2> QED BY <1>2, <2>2 DEF RecoverUnjournal, JournalWrite
<1>3. CASE RemovePending(p)
  <2>1. pointer = tgt[p] /\ install = [active |-> tgt[p], previous |-> from[p], id |-> id[p]]
    BY <1>0, <1>3 DEF RemovePending, Holder
  <2>2. install # None
    <3>1. tgt[p] \in Version /\ from[p] \in VersionOrNone /\ id[p] \in Id
      BY <1>3, ActivationLocals DEF RemovePending, DInv, ActivationPC
    <3> QED BY <2>1, <3>1, NoneAssumption DEF Install, VersionOrNone
  <2>3. Installed
    BY <2>1, <2>2 DEF Installed
  <2> QED BY <1>3, <2>3 DEF RemovePending, JournalWrite
<1> QED BY <1>1, <1>2, <1>3 DEF RemoveFile

\* install.json is written where the journal that was carried out is certain.
LEMMA InstallWritten ==
    ASSUME DInv, NEW p \in Proc, RecoverForward(p) \/ WriteInstall(p)
    PROVE  InstallWrite
<1>1. CASE RecoverForward(p)
  BY <1>1 DEF RecoverForward, DInv, JournalCertain, InstallWrite
<1>2. CASE WriteInstall(p)
  <2>1. pc[p] = "describe" /\ Journaled(p) /\ pointer = tgt[p]
    BY <1>2 DEF WriteInstall, DInv, IInv, HolderOK, Holder
  <2>2. pending # None
    <3>1. tgt[p] \in Version /\ from[p] \in VersionOrNone
      BY <2>1, ActivationLocals DEF DInv, ActivationPC
    <3> QED BY <2>1, <3>1, NoneAssumption DEF Journaled, Pending
  <2>3. pointer = pending.to
    BY <2>1 DEF Journaled
  <2> QED BY <1>2, <2>2, <2>3 DEF WriteInstall, DInv, JournalCertain, InstallWrite
<1> QED BY <1>1, <1>2

\* Without an edit of install.json there is nothing to repair.
LEMMA NoRepair ==
    ASSUME DInv, NEW p \in Proc
    PROVE  ~RecoverRepair(p)
<1> SUFFICES ASSUME RecoverRepair(p) PROVE FALSE
  OBVIOUS
<1>1. DiskOK /\ edited = FALSE /\ TypeOK
  BY DEF DInv, IInv
<1>2. pending = None /\ pointer \in Version /\ ~Described
  BY DEF RecoverRepair
<1>3. install # None /\ install.active = pointer /\ versions[pointer] # None
  BY <1>1, <1>2 DEF DiskOK, InstallDescribesPointer, NamedVersionsRetained
<1>4. versions[pointer].id = install.id
  BY <1>1, <1>2, <1>3 DEF DiskOK, OneInstallation
<1> QED BY <1>2, <1>3, <1>4 DEF Described

\* A write is one step under the lock, which keeps the lock, and names the
\* directories to sync.
LEMMA Writes ==
    ASSUME DInv, TypeOK', NEW p \in Proc, Step(p), ~Quiet(p)
    PROVE  /\ pc[p] \in LockedPC
           /\ lock = p
           /\ OneEntry
           /\ edited' = FALSE
           /\ \E dirs \in Seq(Dirs) :
                /\ Then(p, dirs)
                /\ dirs # <<>> => lock' = p
                /\ pointer' # pointer => "command" \in Entries(dirs)
                /\ install' # install => "root" \in Entries(dirs)
                /\ versions' # versions => "versions" \in Entries(dirs)
<1> USE DEF aux, disk, locals
<1>0. TypeOK /\ LocalsOK /\ edited = FALSE /\ (pc[p] \in LockedPC => lock = p)
  BY DEF DInv, IInv, LockOwned
<1>1. CASE ReplaceFile(p)
  <2>1. pc[p] \in LockedPC /\ UNCHANGED lock
    BY <1>1 DEF ReplaceFile, RecoverForward, WritePending, WriteInstall, LockedPC,
                RecoveryPC, ActivationPC
  <2>2. UNCHANGED <<pointer, versions>> /\ edited' = FALSE
    BY <1>0, <1>1 DEF ReplaceFile, RecoverForward, WritePending, WriteInstall
  <2>3. OneEntry
    BY <1>1, JournalWritten, InstallWritten DEF ReplaceFile, OneEntry
  <2>4. <<"root">> \in Seq(Dirs) /\ "root" \in Entries(<<"root">>)
    BY DEF Dirs, Entries
  <2> QED BY <1>0, <1>1, <2>1, <2>2, <2>3, <2>4 DEF ReplaceFile
<1>2. CASE SwitchSymlink(p)
  <2>1. pc[p] = "relink" /\ pc[p] \in LockedPC /\ UNCHANGED lock
    BY <1>2 DEF SwitchSymlink, SwitchPointer, LockedPC, ActivationPC
  <2>2. UNCHANGED <<pending, install, versions, edited>>
    BY <1>2 DEF SwitchSymlink, SwitchPointer
  <2>3. survivors.pending = {pending}
    <3>1. syncing[p] = <<>>
      BY DEF Step
    <3> QED BY <2>1, <3>1 DEF DInv, JournalSynced, JournalPC, Entries
  <2>4. <<"command">> \in Seq(Dirs) /\ "command" \in Entries(<<"command">>)
    BY DEF Dirs, Entries
  <2> QED BY <1>0, <1>2, <2>1, <2>2, <2>3, <2>4 DEF SwitchSymlink, OneEntry, PointerWrite
<1>3. CASE RenameNew(p)
  <2>1. pc[p] \in LockedPC /\ UNCHANGED <<pointer, pending, install, edited>>
    BY <1>3 DEF RenameNew, RenameVersion, LockedPC, ActivationPC
  <2>2. CASE versions' = versions
    <3>1. <<>> \in Seq(Dirs)
      OBVIOUS
    <3> QED BY <1>0, <1>3, <2>1, <2>2, <3>1 DEF RenameNew, OneEntry, VersionWrite
  <2>3. CASE versions' # versions
    <3>1. /\ versions' = [versions EXCEPT ![tgt[p]] = [id |-> id[p], sig |-> sig[p]]]
          /\ UNCHANGED lock
      BY <1>3, <2>3 DEF RenameNew, RenameVersion
    <3>2. tgt[p] \in Version /\ [id |-> id[p], sig |-> sig[p]] \in Retained
      BY <1>0, <1>3 DEF RenameNew, RenameVersion, LocalsOK, Resolved, Downloads, ActivationPC,
                        Retained
    <3>3. <<"versions">> \in Seq(Dirs) /\ "versions" \in Entries(<<"versions">>)
      BY DEF Dirs, Entries
    <3> QED BY <1>0, <1>3, <2>1, <2>3, <3>1, <3>2, <3>3 DEF RenameNew, OneEntry, VersionWrite
  <2> QED BY <2>2, <2>3
<1>4. CASE RemoveFile(p)
  <2>1. pc[p] \in LockedPC /\ UNCHANGED <<lock, pointer, install, versions, edited>>
    BY <1>4 DEF RemoveFile, RecoverUnjournal, RemovePending, LockedPC, RecoveryPC, ActivationPC
  <2>2. AffectedParents \in Seq(Dirs) /\ "root" \in Entries(AffectedParents)
    BY DEF Dirs, Entries, AffectedParents
  <2>3. OneEntry
    BY <1>4, JournalWritten DEF OneEntry
  <2> QED BY <1>0, <1>4, <2>1, <2>2, <2>3 DEF RemoveFile
<1>5. ~RepairFile(p)
  BY NoRepair DEF RepairFile
<1> QED BY <1>1, <1>2, <1>3, <1>4, <1>5 DEF Step

\* What is not a write leaves the four entries alone, and the lock to whoever
\* has something to sync.
LEMMA QuietEntries ==
    ASSUME DInv, NEW p \in Proc, Quiet(p) \/ Fail(p)
    PROVE  /\ UNCHANGED <<pointer, pending, install, versions, edited>>
           /\ lock \notin {p, None} => UNCHANGED lock
<1> USE DEF aux, disk
<1>1. CASE Fail(p)
  BY <1>1 DEF Fail, Finish
<1>2. CASE CallExact(p) \/ CallPlain(p) \/ Acquire(p)
  BY <1>2 DEF CallExact, CallPlain, Call, Acquire, LockExisting, LockForMutation
<1>3. CASE Preparation(p)
  BY <1>3 DEF Preparation, RequirePointer, RequireDescribed, FetchExact, FetchLatest,
              PickTarget, RefuseUnmanaged, Finish, locals
<1>4. CASE RecoverProbe(p) \/ RecoverRefused(p) \/ RecoverBackward(p)
           \/ RecoverConsistent(p) \/ RecoverNothing(p) \/ RecoverClean(p)
  BY <1>4 DEF RecoverProbe, RecoverRefused, RecoverBackward, RecoverConsistent,
              RecoverNothing, RecoverClean, RecoverReturn, Finish, locals
<1>5. CASE DownloadLocked(p) \/ PrepareVersion(p) \/ StageVersion(p)
           \/ ExistingLocked(p) \/ SwitchCheck(p) \/ FinishActivation(p)
  BY <1>5 DEF DownloadLocked, PrepareVersion, StageVersion, ExistingLocked, SwitchCheck,
              FinishActivation, Finish, locals
<1> QED BY <1>1, <1>2, <1>3, <1>4, <1>5 DEF Quiet

\* A step that writes nothing brings nobody to where the journal is certain.
LEMMA QuietLabels ==
    ASSUME DInv, NEW p \in Proc, Quiet(p) \/ Fail(p), NEW q \in Proc, pc'[q] \in JournalPC
    PROVE  pc[q] \in JournalPC /\ (Fail(p) => q # p)
<1> USE DEF JournalPC, Goto, locals
<1>0. pc \in [Proc -> PC]
  BY DEF DInv, IInv, TypeOK
<1>1. CASE Fail(p)
  BY <1>0, <1>1 DEF Fail, Finish
<1>2. CASE CallExact(p) \/ CallPlain(p) \/ Acquire(p)
  BY <1>0, <1>2 DEF CallExact, CallPlain, Call, Acquire, LockExisting, LockForMutation, Fail, Finish
<1>3. CASE Preparation(p)
  BY <1>0, <1>3 DEF Preparation, RequirePointer, RequireDescribed, FetchExact, FetchLatest,
                    PickTarget, RefuseUnmanaged, Fail, Finish
<1>4. CASE RecoverProbe(p) \/ RecoverRefused(p) \/ RecoverBackward(p)
           \/ RecoverConsistent(p) \/ RecoverNothing(p) \/ RecoverClean(p)
  BY <1>0, <1>4 DEF RecoverProbe, RecoverRefused, RecoverBackward, RecoverConsistent,
                    RecoverNothing, RecoverClean, RecoverReturn, Fail, Finish
<1>5. CASE DownloadLocked(p) \/ PrepareVersion(p) \/ StageVersion(p)
           \/ ExistingLocked(p) \/ SwitchCheck(p) \/ FinishActivation(p)
  BY <1>0, <1>5 DEF DownloadLocked, PrepareVersion, StageVersion, ExistingLocked, SwitchCheck,
                    FinishActivation, Fail, Finish
<1> QED BY <1>1, <1>2, <1>3, <1>4, <1>5 DEF Quiet

LEMMA QuietJournal ==
    ASSUME DInv, NEW p \in Proc, Quiet(p) \/ Die(p),
           UNCHANGED <<pointer, pending, survivors>>
    PROVE  JournalCertain' /\ JournalSynced'
<1>1. JournalCertain'
  BY DEF DInv, JournalCertain
<1>2. ASSUME NEW q \in Proc, pc'[q] \in JournalPC
      PROVE  pc[q] \in JournalPC /\ syncing'[q] = syncing[q]
  <2>1. CASE Quiet(p)
    BY <1>2, <2>1, QuietLabels DEF Quiet
  <2>2. CASE Die(p)
    BY <1>2, <2>2, QuietLabels DEF Die, DInv, DTypeOK
  <2> QED BY <2>1, <2>2
<1>3. JournalSynced'
  BY <1>2 DEF DInv, JournalSynced, Entries
<1> QED BY <1>1, <1>3

\* Who writes the journal has it to sync before going on; who writes another
\* entry leaves the journal, and what is known of it, as it is.
LEMMA WriteJournal ==
    ASSUME DInv, TypeOK', DiskOK', NEW p \in Proc, Step(p), ~Quiet(p)
    PROVE  JournalCertain' /\ JournalSynced'
<1> USE DEF aux, disk, locals, Goto, Finish
<1>0. /\ TypeOK /\ DTypeOK /\ Present /\ JournalCertain
      /\ pc[p] \in LockedPC /\ lock = p /\ OneEntry
      /\ \A q \in Proc : pc[q] \in LockedPC => lock = q
  BY Writes DEF DInv, IInv, LockOwned
<1>1. /\ survivors'.pending = survivors.pending \cup {pending'}
      /\ \/ ReplaceFile(p) \/ SwitchSymlink(p) \/ RenameNew(p) \/ RemoveFile(p)
  <2>1. \/ ReplaceFile(p) \/ SwitchSymlink(p) \/ RenameNew(p) \/ RemoveFile(p)
    BY NoRepair DEF Step, RepairFile
  <2> QED BY <2>1 DEF ReplaceFile, SwitchSymlink, RenameNew, RemoveFile, Then, Dirty
<1>2. \A q \in Proc \ {p} : pc'[q] \notin JournalPC
  <2>1. \A q \in Proc \ {p} : pc'[q] = pc[q]
    BY <1>0, <1>1
       DEF TypeOK, ReplaceFile, RecoverForward, WritePending, WriteInstall, SwitchSymlink,
           SwitchPointer, RenameNew, RenameVersion, RemoveFile, RecoverUnjournal, RemovePending
  <2> QED BY <1>0, <2>1 DEF JournalPC, LockedPC, ActivationPC
<1>3. pc'[p] \in JournalPC => "root" \in Entries(syncing'[p])
  <2>1. CASE WritePending(p) \/ RemoveFile(p)
    <3>1. syncing'[p] \in {<<"root">>, AffectedParents}
      BY <1>0, <1>1, <2>1
         DEF DTypeOK, TypeOK, ReplaceFile, RemoveFile, SwitchSymlink, RenameNew, Then,
             WritePending, SwitchPointer, RenameVersion, RecoverUnjournal, RemovePending
    <3> QED BY <3>1 DEF AffectedParents, Entries
  <2>2. CASE RecoverForward(p) \/ WriteInstall(p) \/ SwitchPointer(p) \/ RenameVersion(p)
    BY <1>0, <2>2
       DEF TypeOK, RecoverForward, WriteInstall, SwitchPointer, RenameVersion, JournalPC
  <2> QED BY <1>1, <2>1, <2>2 DEF ReplaceFile, SwitchSymlink, RenameNew
<1>4. JournalSynced'
  BY <1>2, <1>3 DEF JournalSynced
<1>5. JournalCertain'
  <2>1. CASE WritePending(p)
    <3>1. pending' = [from |-> from[p], to |-> tgt[p]] /\ pc[p] = "journal" /\ UNCHANGED pointer
      BY <2>1 DEF WritePending
    <3>2. FromIsPointer(p) /\ tgt[p] \in Version
      BY <3>1, ActivationLocals DEF DInv, ActivationPC, Holder, OwnedPC
    <3>3. pending' # None => from[p] # tgt[p]
      BY <3>1 DEF DiskOK, InstallImpliesPointer
    <3> QED BY <3>1, <3>2, <3>3, UserAssumption DEF FromIsPointer, JournalCertain, VersionOrNone
  <2>2. CASE RemoveFile(p)
    BY <2>2 DEF RemoveFile, RecoverUnjournal, RemovePending, JournalCertain
  <2>3. CASE SwitchSymlink(p) \/ RecoverForward(p) \/ WriteInstall(p)
    <3>1. UNCHANGED pending /\ survivors.pending = {pending}
      <4>1. CASE RecoverForward(p) \/ WriteInstall(p)
        BY <4>1, InstallWritten DEF InstallWrite
      <4>2. CASE SwitchSymlink(p)
        <5>1. pc[p] = "relink" /\ syncing[p] = <<>> /\ UNCHANGED pending
          BY <4>2 DEF SwitchSymlink, SwitchPointer, Step
        <5> QED BY <5>1 DEF DInv, JournalSynced, JournalPC, Entries
      <4> QED BY <2>3, <4>1, <4>2
    <3> QED BY <1>1, <3>1 DEF JournalCertain
  <2>4. CASE RenameNew(p)
    BY <1>0, <1>1, <2>4 DEF RenameNew, RenameVersion, JournalCertain, Present
  <2> QED BY <1>1, <2>1, <2>2, <2>3, <2>4 DEF ReplaceFile
<1> QED BY <1>4, <1>5

\* Who has synced the root has made the journal certain.
LEMMA SyncJournal ==
    ASSUME DInv, NEW p \in Proc, SyncDir(p)
    PROVE  JournalCertain' /\ JournalSynced'
<1> DEFINE d == Head(syncing[p])
<1>1. /\ survivors'.pending = IF d = "root" THEN {pending} ELSE survivors.pending
      /\ UNCHANGED <<pointer, pending, pc>>
  BY DEF SyncDir, Certain, Written, vars, disk
<1>2. /\ syncing[p] \in Seq(Dirs) /\ syncing[p] # <<>>
      /\ syncing'[p] = Tail(syncing[p])
      /\ \A q \in Proc \ {p} : syncing'[q] = syncing[q]
  BY DEF DInv, DTypeOK, SyncDir
<1>3. Entries(syncing[p]) \subseteq {d} \cup Entries(syncing'[p])
  BY <1>2, TailOwed
<1> HIDE DEF d
<1>4. JournalCertain'
  BY <1>1 DEF DInv, JournalCertain
<1>5. JournalSynced'
  <2> SUFFICES ASSUME NEW q \in Proc, pc'[q] \in JournalPC, "root" \notin Entries(syncing'[q]),
                      d # "root"
               PROVE  survivors.pending = {pending}
    BY <1>1 DEF JournalSynced
  <2>1. "root" \notin Entries(syncing[q])
    BY <1>2, <1>3
  <2> QED BY <1>1, <2>1 DEF DInv, JournalSynced
<1> QED BY <1>4, <1>5

\* Who leaves nothing but the journal unsynced leaves the rest certain.
LEMMA DeathDisk ==
    ASSUME DInv, NEW p \in Proc, Die(p), LeftUnsynced \subseteq {"pending"}
    PROVE  Present' /\ Synced' /\ Consistent'
<1>1. UNCHANGED <<pointer, pending, install, versions, edited, survivors>>
  BY QuietEntries DEF Die
<1>2. Present' /\ Consistent'
  BY <1>1, MixtureKept DEF DInv, Present, Consistent
<1>3. syncing \in [Proc -> Seq(Dirs)] /\ syncing' = [syncing EXCEPT ![p] = <<>>]
  BY DEF DInv, DTypeOK, Die
<1>4. CASE syncing[p] = <<>>
  <2>1. UNCHANGED syncing
    BY <1>3, <1>4
  <2> QED BY <1>1, <1>2, <2>1 DEF DInv, Synced, Owed, Entries
<1>5. CASE syncing[p] # <<>>
  <2>1. \A e \in {"pointer", "install", "versions"} : survivors[e] = Certain(Written)[e]
    BY <1>5 DEF Die, AtRisk, Entry
  <2>2. /\ survivors.pointer = {pointer} /\ survivors.install = {install}
        /\ \A v \in Version : survivors.versions[v] = {versions[v]}
    BY <2>1 DEF Certain, Written
  <2> QED BY <1>1, <1>2, <2>2 DEF Synced
<1> QED BY <1>4, <1>5

\* A power loss takes every process and every lock, and leaves what is written.
LEMMA PowerLossInvariant ==
    ASSUME DInv, PowerLoss, DiskOK'
    PROVE  IInv'
<1> USE NoneAssumption DEF PowerLoss
<1>0. TypeOK /\ DTypeOK
  BY DEF DInv, IInv
<1>1. TypeOK'
  <2>1. /\ pointer' \in VersionOrNone \cup UserCommand
        /\ pending' \in Pending \cup {None}
        /\ install' \in Install \cup {None}
    BY <1>0 DEF DTypeOK
  <2>2. versions' \in [Version -> Retained \cup {None}]
    <3>1. PICK f \in [Version -> UNION {survivors.versions[v] : v \in Version}] :
            (\A v \in Version : f[v] \in survivors.versions[v]) /\ versions' = f
      OBVIOUS
    <3>2. \A v \in Version : survivors.versions[v] \subseteq Retained \cup {None}
      BY <1>0 DEF DTypeOK
    <3>3. \A v \in Version : f[v] \in Retained \cup {None}
      BY <3>1, <3>2
    <3> QED BY <3>1, <3>3
  <2>3. /\ staging' \in SUBSET Tx /\ edited' \in BOOLEAN /\ late' \in BOOLEAN
        /\ lock' \in Proc \cup {None}
        /\ pc' \in [Proc -> PC]
    BY <1>0 DEF TypeOK, aux, PC, UnlockedPC
  <2>4. /\ op' \in [Proc -> Ops \cup {None}]
        /\ ret' \in [Proc -> Returns \cup {None}]
        /\ tgt' \in [Proc -> VersionOrNone]
        /\ sig' \in [Proc -> Sig \cup {None}]
    BY DEF VersionOrNone
  <2>5. /\ from' \in [Proc -> VersionOrNone]
        /\ id' \in [Proc -> Id \cup {None}]
        /\ tx' \in [Proc -> Tx \cup {None}]
    BY DEF VersionOrNone
  <2> QED BY <2>1, <2>2, <2>3, <2>4, <2>5 DEF TypeOK
<1>2. LockOwned'
  BY DEF LockOwned, LockedPC, RecoveryPC, ActivationPC
<1>3. LocalsOK'
  BY DEF LocalsOK, ActivationPC, Ops, Returns
<1>4. HolderOK'
  BY DEF HolderOK, Holder, OwnedPC
<1> QED BY <1>1, <1>2, <1>3, <1>4 DEF IInv

\* Every step keeps the invariant.
LEMMA DurabilityStep ==
    ASSUME LeftUnsynced \subseteq {"pending"}, DInv, [DNext]_dvars
    PROVE  DInv'
<1>0. /\ IInv /\ TypeOK /\ DTypeOK /\ edited = FALSE
      /\ Present /\ Synced /\ Consistent
      /\ syncing \in [Proc -> Seq(Dirs)]
      /\ \A p \in Proc : syncing[p] # <<>> => lock = p
  BY DEF DInv, IInv, DTypeOK
<1>1. ASSUME NEW p \in Proc, Step(p), ~Quiet(p) PROVE DInv'
  <2>1. IInv' /\ TypeOK' /\ DiskOK'
    BY <1>0, <1>1, StepNext, InvariantStep DEF IInv
  <2>2. lock = p /\ OneEntry /\ edited' = FALSE
    BY <1>1, <2>1, Writes
  <2>3. PICK dirs \in Seq(Dirs) :
          /\ Then(p, dirs)
          /\ dirs # <<>> => lock' = p
          /\ pointer' # pointer => "command" \in Entries(dirs)
          /\ install' # install => "root" \in Entries(dirs)
          /\ versions' # versions => "versions" \in Entries(dirs)
    BY <1>1, <2>1, Writes
  <2>4. syncing[p] = <<>>
    BY <1>1 DEF Step
  <2>5. Present' /\ Synced' /\ Consistent'
    BY <2>1, <2>2, <2>3, <2>4, WriteDisk
  <2>6. \A q \in Proc : syncing[q] = <<>>
    BY <1>0, <2>2, <2>4, NothingOwed DEF SyncingOwned
  <2>7. DTypeOK'
    <3>1. syncing' \in [Proc -> Seq(Dirs)] /\ \A q \in Proc : syncing'[q] # <<>> => lock' = q
      BY <1>0, <2>3, <2>6 DEF Then
    <3> QED BY <1>0, <2>1, <2>3, <3>1, SurvivorTypes DEF Then, DTypeOK
  <2>8. JournalCertain' /\ JournalSynced'
    BY <1>1, <2>1, WriteJournal
  <2> QED BY <2>1, <2>2, <2>5, <2>7, <2>8 DEF DInv
<1>2. ASSUME NEW p \in Proc, (Step(p) /\ Quiet(p)) \/ Die(p) PROVE DInv'
  <2>1. IInv'
    BY <1>0, <1>2, StepNext, InvariantStep
  <2>2. /\ UNCHANGED <<pointer, pending, install, versions, edited>>
        /\ lock \notin {p, None} => UNCHANGED lock
    BY <1>2, QuietEntries DEF Die
  <2>3. /\ UNCHANGED survivors
        /\ syncing'[p] = <<>>
        /\ \A q \in Proc \ {p} : syncing'[q] = syncing[q]
        /\ syncing' \in [Proc -> Seq(Dirs)]
    <3>1. CASE Step(p) /\ Quiet(p)
      BY <1>0, <3>1 DEF Step, Quiet
    <3>2. CASE Die(p)
      BY <1>0, <3>2 DEF Die
    <3> QED BY <1>2, <3>1, <3>2
  <2>4. Present' /\ Synced' /\ Consistent'
    BY <1>0, <1>2, <2>2, QuietDisk, DeathDisk DEF Quiet
  <2>5. JournalCertain' /\ JournalSynced'
    BY <1>2, <2>2, <2>3, QuietJournal
  <2>6. \A q \in Proc : syncing'[q] # <<>> => lock' = q
    BY <1>0, <2>2, <2>3, NoneAssumption
  <2>7. DTypeOK'
    BY <1>0, <2>3, <2>6 DEF DTypeOK
  <2> QED BY <1>0, <2>1, <2>2, <2>4, <2>5, <2>7 DEF DInv
<1>3. ASSUME NEW p \in Proc, SyncDir(p) PROVE DInv'
  <2>1. UNCHANGED vars
    BY <1>3 DEF SyncDir
  <2>2. IInv' /\ edited' = FALSE /\ UNCHANGED lock
    <3>1. IInv'
      BY <1>0, <2>1, InvariantStep
    <3> QED BY <1>0, <2>1, <3>1 DEF vars, aux
  <2>3. Present' /\ Synced' /\ Consistent'
    BY <1>3, SyncDisk
  <2>4. DTypeOK'
    <3>1. syncing[p] # <<>> /\ syncing' = [syncing EXCEPT ![p] = Tail(@)]
      BY <1>3 DEF SyncDir
    <3>2. Tail(syncing[p]) \in Seq(Dirs)
      BY <1>0, <3>1
    <3>3. syncing' \in [Proc -> Seq(Dirs)]
      BY <1>0, <3>1, <3>2
    <3>4. \A q \in Proc : syncing'[q] # <<>> => lock' = q
      BY <1>0, <2>2, <3>1
    <3>5. /\ survivors'.pointer \in SUBSET (VersionOrNone \cup UserCommand)
          /\ survivors'.pending \in SUBSET (Pending \cup {None})
          /\ survivors'.install \in SUBSET (Install \cup {None})
          /\ survivors'.versions \in [Version -> SUBSET (Retained \cup {None})]
          /\ survivors' = [pointer |-> survivors'.pointer, pending |-> survivors'.pending,
                           install |-> survivors'.install, versions |-> survivors'.versions]
      BY <1>0, <1>3, CertainTypes DEF SyncDir, DTypeOK
    <3> QED BY <3>3, <3>4, <3>5 DEF DTypeOK
  <2>5. JournalCertain' /\ JournalSynced'
    BY <1>3, SyncJournal
  <2> QED BY <2>2, <2>3, <2>4, <2>5 DEF DInv
<1>4. CASE PowerLoss
  <2>1. DiskOK' /\ Present' /\ Synced' /\ Consistent'
    BY <1>4, PowerLossDisk
  <2>2. IInv'
    BY <1>4, <2>1, PowerLossInvariant
  <2>3. survivors' = Certain(Written)' /\ syncing' = [p \in Proc |-> <<>>] /\ edited' = FALSE
    BY <1>0, <1>4 DEF PowerLoss, aux
  <2>4. DTypeOK'
    <3>1. Certain(Written)' \in [pointer : SUBSET (VersionOrNone \cup UserCommand),
                                 pending : SUBSET (Pending \cup {None}),
                                 install : SUBSET (Install \cup {None}),
                                 versions : [Version -> SUBSET (Retained \cup {None})]]
      BY <2>2, CertainTypes DEF IInv, TypeOK, Certain, Written
    <3>2. syncing' \in [Proc -> Seq(Dirs)] /\ \A q \in Proc : syncing'[q] = <<>>
      BY <2>3
    <3> QED BY <2>3, <3>1, <3>2 DEF DTypeOK
  <2>5. JournalCertain' /\ JournalSynced'
    BY <2>3 DEF Certain, Written, JournalCertain, JournalSynced
  <2> QED BY <2>1, <2>2, <2>3, <2>4, <2>5 DEF DInv
<1>5. CASE UNCHANGED dvars
  <2>1. IInv'
    BY <1>0, <1>5, InvariantStep DEF dvars
  <2>2. UNCHANGED <<pointer, pending, install, versions, edited, survivors, syncing, lock>>
    BY <1>5 DEF dvars, vars, disk, aux
  <2>3. Present' /\ Synced' /\ Consistent'
    BY <1>0, <2>2, QuietDisk
  <2>4. DTypeOK'
    BY <1>0, <2>2 DEF DTypeOK
  <2>5. JournalCertain' /\ JournalSynced'
    BY <1>5, <2>2 DEF DInv, JournalCertain, JournalSynced, Entries, dvars, vars
  <2> QED BY <1>0, <2>1, <2>2, <2>3, <2>4, <2>5 DEF DInv
<1> QED BY <1>1, <1>2, <1>3, <1>4, <1>5 DEF DNext

(***************************************************************************)
(* The theorems.  Processes die, fail to sync and lose power at any step;  *)
(* LeftUnsynced \subseteq {"pending"} says that nobody dies or fails        *)
(* between the rename of the command, of install.json or of a version      *)
(* directory and the sync_dir that ends the same call.  Without that they  *)
(* are false, as durability_unsynced and durability_reused show.           *)
(***************************************************************************)

LEMMA InitDurable == DInit => DInv
<1> SUFFICES ASSUME DInit PROVE DInv
  OBVIOUS
<1> USE DEF DInit
<1>1. IInv /\ edited = FALSE
  BY InitInvariant DEF Init
<1>2. /\ survivors.pointer = {pointer} /\ survivors.pending = {pending}
      /\ survivors.install = {install}
      /\ \A v \in Version : survivors.versions[v] = {versions[v]}
  BY DEF Certain, Written
<1>3. Present /\ Synced /\ JournalCertain /\ JournalSynced
  BY <1>2 DEF Present, Synced, JournalCertain, JournalSynced
<1>4. Consistent
  <2> SUFFICES ASSUME NEW ver \in [Version -> Retained \cup {None}],
                      \A v \in Version : ver[v] \in survivors.versions[v]
               PROVE  Mixture(pointer, pending, install, ver)!DiskOK
    BY <1>2 DEF Consistent
  <2>1. versions \in [Version -> Retained \cup {None}] /\ \A v \in Version : ver[v] = versions[v]
    BY <1>1, <1>2 DEF IInv, TypeOK
  <2>2. ver = versions
    BY <2>1, SameVersions
  <2> QED BY <1>1, <2>2, WrittenMixture DEF IInv
<1>5. DTypeOK
  <2>1. syncing \in [Proc -> Seq(Dirs)] /\ \A p \in Proc : syncing[p] = <<>>
    OBVIOUS
  <2> QED BY <1>1, <2>1, CertainTypes DEF DTypeOK, IInv
<1> QED BY <1>1, <1>3, <1>4, <1>5 DEF DInv

\* The inductive invariant holds of every behaviour, whatever power losses,
\* failures and races it has.
THEOREM DurabilityInvariant ==
    ASSUME LeftUnsynced \subseteq {"pending"}
    PROVE  DSpec => []DInv
<1>1. DInit => DInv
  BY InitDurable
<1>2. DInv /\ [DNext]_dvars => DInv'
  BY DurabilityStep
<1> QED BY <1>1, <1>2, PTL DEF DSpec

\* What may survive is of its type, and only who holds the lock of
\* activate_pointer_and_state or recover_locked has a directory still to sync.
THEOREM DurabilityTypes ==
    ASSUME LeftUnsynced \subseteq {"pending"}
    PROVE  DSpec => []DTypeOK
<1>1. DInv => DTypeOK
  BY DEF DInv
<1> QED BY <1>1, DurabilityInvariant, PTL

\* sync_dir after each rename, and whatever becomes of the unlink of the
\* journal (FaultPoint::PendingRemoved): whatever mixture of old and new entries comes
\* back, the journal accounts for the pointer, what is named is retained,
\* install.json is right and recover_locked does not refuse.
THEOREM PowerLossSurvived ==
    ASSUME LeftUnsynced \subseteq {"pending"}
    PROVE  DSpec => []SurvivesPowerLoss
<1>1. DInv => SurvivesPowerLoss
  BY RecoveryOK DEF DInv, IInv, DiskOK, SurvivesPowerLoss
<1> QED BY <1>1, DurabilityInvariant, PTL

\* sync_affected_parents comes before activate_pointer_and_state returns: what
\* it has done is there after any power loss.
THEOREM ReturnedIsCommitted ==
    ASSUME LeftUnsynced \subseteq {"pending"}
    PROVE  DSpec => []Committed
<1>1. DInv => Committed
  <2> SUFFICES ASSUME DInv, NEW p \in Proc, pc[p] = "finish", syncing[p] = <<>>
               PROVE  survivors = Certain(Written)
    BY DEF Committed
  <2>1. lock = p
    BY DEF DInv, IInv, LockOwned, LockedPC, ActivationPC
  <2>2. Owed = {}
    BY <2>1, NothingOwed, OwedNone DEF DInv, DTypeOK, SyncingOwned
  <2>3. survivors.pending = {pending}
    BY DEF DInv, JournalSynced, JournalPC, Entries
  <2> QED BY <2>2, <2>3, CertainWritten DEF DInv
<1> QED BY <1>1, DurabilityInvariant, PTL

(***************************************************************************)
(* A disk that can lose power implements a selector whose last change can   *)
(* be taken back.                                                           *)
(***************************************************************************)

\* The command and the versions as they were before the write that is not
\* certain yet.
WasPointer == Earlier(survivors.pointer, pointer)
WasVersions == [v \in Version |-> Earlier(survivors.versions[v], versions[v])]

\* They come back as they are or as they were, and one of them as it is: each
\* write is synced before the next.
TwoSurvive ==
    /\ survivors.pointer = {WasPointer, pointer}
    /\ \A v \in Version : survivors.versions[v] = {WasVersions[v], versions[v]}

OneAtRisk ==
    \/ WasVersions = versions
    \/ /\ WasPointer = pointer
       /\ \E v \in Version : \A w \in Version \ {v} : WasVersions[w] = versions[w]

\* Whichever journal and install.json come back with a command, the previous
\* version is the same.
PreviousOf(ptr, pnd, ins) ==
    IF pnd # None /\ ptr = pnd.to THEN pnd.from
    ELSE IF ins = None THEN None
    ELSE ins.previous

Moot ==
    \A ptr \in survivors.pointer, pnd \in survivors.pending, ins \in survivors.install :
        PreviousOf(ptr, pnd, ins) = PreviousOf(ptr, pending, install)

LastAtRisk == TwoSurvive /\ OneAtRisk /\ Moot

LEMMA EarlierOfTwo ==
    ASSUME NEW was, NEW now
    PROVE  Earlier({was, now}, now) = was
<1>1. \E x \in {was, now} : {was, now} = {x, now}
  OBVIOUS
<1>2. \A x \in {was, now} : {was, now} = {x, now} => x = was
  OBVIOUS
<1> QED BY <1>1, <1>2 DEF Earlier

LEMMA EarlierOfOne ==
    ASSUME NEW now
    PROVE  Earlier({now}, now) = now
BY DEF Earlier

\* What is certain was as it is.
LEMMA CertainWas ==
    ASSUME TypeOK, survivors.pointer = {pointer},
           \A v \in Version : survivors.versions[v] = {versions[v]}
    PROVE  WasPointer = pointer /\ WasVersions = versions /\ TwoSurvive /\ OneAtRisk
<1>1. WasPointer = pointer
  BY EarlierOfOne DEF WasPointer
<1>2. \A v \in Version : WasVersions[v] = versions[v]
  BY EarlierOfOne DEF WasVersions
<1>3. WasVersions = versions
  BY <1>2 DEF WasVersions, TypeOK
<1> QED BY <1>1, <1>2, <1>3 DEF TwoSurvive, OneAtRisk

\* A write puts the command or one version at risk: what was is what is written.
LEMMA WriteWas ==
    ASSUME TypeOK, DTypeOK, Synced, Owed = {}, OneEntry, Dirty
    PROVE  WasPointer' = pointer /\ WasVersions' = versions /\ TwoSurvive' /\ OneAtRisk'
<1>1. /\ survivors'.pointer = {pointer, pointer'}
      /\ \A v \in Version : survivors'.versions[v] = {versions[v], versions'[v]}
  BY DEF Synced, Dirty
<1>2. WasPointer' = pointer
  BY <1>1, EarlierOfTwo DEF WasPointer
<1>3. WasVersions' = [v \in Version |-> Earlier(survivors'.versions[v], versions'[v])]
  BY DEF WasVersions, Earlier
<1>4. \A v \in Version : Earlier(survivors'.versions[v], versions'[v]) = versions[v]
  BY <1>1, EarlierOfTwo
<1>5. WasVersions' = versions
  BY <1>3, <1>4 DEF TypeOK
<1>6. TwoSurvive'
  BY <1>1, <1>2, <1>5 DEF TwoSurvive
<1>7. OneAtRisk'
  <2>1. (\E v \in Version, r \in Retained : versions' = [versions EXCEPT ![v] = r]) =>
          \E v \in Version : \A w \in Version \ {v} : versions[w] = versions'[w]
    BY DEF TypeOK
  <2> QED BY <1>2, <1>5, <2>1 DEF OneAtRisk, OneEntry, JournalWrite, VersionWrite,
                                  PointerWrite, InstallWrite
<1> QED BY <1>2, <1>5, <1>6, <1>7

\* Where install.json describes the pointer, every journal that may come back
\* with them says what it says.
LEMMA JournalMoot ==
    ASSUME Installed, edited = FALSE, pointer \in VersionOrNone \cup UserCommand,
           NEW pnd \in Pending \cup {None}, NEW ver,
           Mixture(pointer, pnd, install, ver)!DiskOK
    PROVE  PreviousOf(pointer, pnd, install) = IF install = None THEN None ELSE install.previous
BY NoneAssumption, UserAssumption
   DEF Installed, PreviousOf, Pending, VersionOrNone, Mixture!DiskOK,
       Mixture!InstallDescribesPointer, Mixture!InstallImpliesPointer

\* A write leaves the previous version, as long as it leaves the command.
LEMMA WriteMoot ==
    ASSUME DInv, TypeOK', DiskOK', Consistent', Moot, edited' = FALSE, Owed = {},
           OneEntry, Dirty
    PROVE  /\ Moot'
           /\ pointer' = pointer =>
                PreviousOf(pointer', pending', install') = PreviousOf(pointer, pending, install)
<1>1. /\ survivors.pointer = {pointer} /\ survivors.install = {install}
      /\ \A v \in Version : survivors.versions[v] = {versions[v]}
      /\ pending \in survivors.pending
      /\ TypeOK /\ DTypeOK /\ DiskOK /\ edited = FALSE
  BY DEF DInv, Synced, Present, IInv
<1>2. /\ survivors'.pointer = {pointer, pointer'}
      /\ survivors'.pending = survivors.pending \cup {pending'}
      /\ survivors'.install = {install, install'}
      /\ \A v \in Version : survivors'.versions[v] = {versions[v], versions'[v]}
  BY <1>1 DEF Dirty
<1>3. CASE JournalWrite
  <2>1. Installed /\ UNCHANGED <<pointer, install, versions>>
    BY <1>3 DEF JournalWrite
  <2>2. \A pnd \in survivors'.pending :
          PreviousOf(pointer, pnd, install) = IF install = None THEN None ELSE install.previous
    <3> SUFFICES ASSUME NEW pnd \in survivors.pending \cup {pending'}
                 PROVE  PreviousOf(pointer, pnd, install)
                          = IF install = None THEN None ELSE install.previous
      BY <1>2
    <3>1. pnd \in Pending \cup {None}
      BY <1>1 DEF DTypeOK, TypeOK
    <3>2. /\ pointer \in survivors'.pointer /\ pnd \in survivors'.pending
          /\ install \in survivors'.install
          /\ versions \in [Version -> Retained \cup {None}]
          /\ \A v \in Version : versions[v] \in survivors'.versions[v]
      BY <1>1, <1>2 DEF TypeOK
    <3>3. Mixture(pointer, pnd, install, versions)!DiskOK
      BY <1>1, <3>2, MixtureKept DEF Consistent
    <3> QED BY <1>1, <2>1, <3>1, <3>3, JournalMoot DEF TypeOK
  <2>3. Moot'
    BY <1>2, <2>1, <2>2 DEF Moot
  <2> QED BY <1>1, <1>2, <2>1, <2>2, <2>3
<1>4. CASE VersionWrite
  BY <1>1, <1>2, <1>4 DEF VersionWrite, Moot
<1>5. CASE PointerWrite
  <2>1. PointerWrite => (pointer' = pointer =>
          PreviousOf(pointer', pending', install') = PreviousOf(pointer, pending, install))
    BY DEF PointerWrite
  <2> QED BY <1>1, <1>2, <1>5, <2>1 DEF PointerWrite, Moot
<1>6. CASE InstallWrite
  BY <1>1, <1>2, <1>6 DEF InstallWrite, Moot, PreviousOf
<1> QED BY <1>3, <1>4, <1>5, <1>6 DEF OneEntry

\* A sync leaves the risk as it is or takes all of it away.
LEMMA SyncWas ==
    ASSUME TypeOK, Present, LastAtRisk, NEW p \in Proc, SyncDir(p)
    PROVE  /\ LastAtRisk'
           /\ \/ UNCHANGED <<WasPointer, WasVersions>>
              \/ WasPointer' = pointer /\ WasVersions' = versions
<1> DEFINE d == Head(syncing[p])
<1>1. /\ survivors'.pointer = IF d = "command" THEN {pointer} ELSE survivors.pointer
      /\ survivors'.pending = IF d = "root" THEN {pending} ELSE survivors.pending
      /\ survivors'.install = IF d = "root" THEN {install} ELSE survivors.install
      /\ \A v \in Version : survivors'.versions[v] =
           IF d = "versions" THEN {versions[v]} ELSE survivors.versions[v]
  BY DEF SyncDir, Certain, Written
<1>2. UNCHANGED <<pointer, pending, install, versions>>
  BY DEF SyncDir, vars, disk
<1> HIDE DEF d
<1>3. WasPointer' = IF d = "command" THEN pointer ELSE WasPointer
  BY <1>1, <1>2, EarlierOfOne DEF WasPointer
<1>4. WasVersions' = [v \in Version |-> Earlier(survivors'.versions[v], versions[v])]
  BY <1>2 DEF WasVersions, Earlier
<1>5. \A v \in Version : Earlier(survivors'.versions[v], versions[v]) =
        IF d = "versions" THEN versions[v] ELSE WasVersions[v]
  BY <1>1, EarlierOfOne DEF WasVersions
<1>6. WasVersions' = IF d = "versions" THEN versions ELSE WasVersions
  BY <1>4, <1>5 DEF WasVersions, TypeOK
<1>7. TwoSurvive'
  BY <1>1, <1>2, <1>3, <1>6 DEF LastAtRisk, TwoSurvive
<1>8. OneAtRisk'
  BY <1>2, <1>3, <1>6 DEF LastAtRisk, OneAtRisk
<1>9. Moot'
  <2>1. /\ survivors'.pointer \subseteq survivors.pointer
        /\ survivors'.pending \subseteq survivors.pending
        /\ survivors'.install \subseteq survivors.install
    BY <1>1 DEF Present
  <2> QED BY <1>2, <2>1 DEF LastAtRisk, Moot
<1>10. \/ UNCHANGED <<WasPointer, WasVersions>>
       \/ WasPointer' = pointer /\ WasVersions' = versions
  BY <1>3, <1>6 DEF LastAtRisk, OneAtRisk
<1> QED BY <1>7, <1>8, <1>9, <1>10 DEF LastAtRisk

\* A power loss brings back command and versions as they are or as they were,
\* leaves the previous version, and makes all of it certain.
LEMMA PowerLossWas ==
    ASSUME DInv, LastAtRisk, PowerLoss, TypeOK'
    PROVE  /\ LastAtRisk'
           /\ WasPointer' = pointer' /\ WasVersions' = versions'
           /\ PreviousOf(pointer', pending', install') = PreviousOf(pointer', pending, install)
           /\ \/ UNCHANGED <<pointer, versions>>
              \/ pointer' = WasPointer /\ versions' = WasVersions
<1>1. /\ pointer' \in {WasPointer, pointer}
      /\ \A v \in Version : versions'[v] \in {WasVersions[v], versions[v]}
  BY DEF PowerLoss, LastAtRisk, TwoSurvive
<1>2. /\ survivors'.pointer = {pointer'} /\ survivors'.pending = {pending'}
      /\ survivors'.install = {install'}
      /\ \A v \in Version : survivors'.versions[v] = {versions'[v]}
  BY DEF PowerLoss, Certain, Written
<1>3. /\ LastAtRisk'
      /\ WasPointer' = pointer' /\ WasVersions' = versions'
  <2>1. WasPointer' = pointer'
    BY <1>2, EarlierOfOne DEF WasPointer
  <2>2. WasVersions' = [v \in Version |-> Earlier(survivors'.versions[v], versions'[v])]
    BY DEF WasVersions, Earlier
  <2>3. \A v \in Version : Earlier(survivors'.versions[v], versions'[v]) = versions'[v]
    BY <1>2, EarlierOfOne
  <2>4. WasVersions' = versions'
    BY <2>2, <2>3 DEF TypeOK
  <2> QED BY <1>2, <2>1, <2>4 DEF LastAtRisk, TwoSurvive, OneAtRisk, Moot
<1>4. /\ versions \in [Version -> Retained \cup {None}]
      /\ versions' \in [Version -> Retained \cup {None}]
      /\ WasVersions = [v \in Version |-> WasVersions[v]]
  BY DEF DInv, IInv, TypeOK, WasVersions
<1>5. WasVersions = versions => versions' = versions
  BY <1>1, <1>4
<1>6. (\E v \in Version : \A w \in Version \ {v} : WasVersions[w] = versions[w])
        => versions' = versions \/ versions' = WasVersions
  <2> SUFFICES ASSUME NEW v \in Version,
                      \A w \in Version \ {v} : WasVersions[w] = versions[w]
               PROVE  versions' = versions \/ versions' = WasVersions
    OBVIOUS
  <2>1. \A w \in Version \ {v} : versions'[w] = versions[w] /\ versions'[w] = WasVersions[w]
    BY <1>1
  <2>2. CASE versions'[v] = versions[v]
    BY <1>4, <2>1, <2>2
  <2>3. CASE versions'[v] = WasVersions[v]
    BY <1>4, <2>1, <2>3
  <2> QED BY <1>1, <2>2, <2>3
<1>7. UNCHANGED <<pointer, versions>> \/ (pointer' = WasPointer /\ versions' = WasVersions)
  BY <1>1, <1>5, <1>6 DEF LastAtRisk, OneAtRisk
<1>8. PreviousOf(pointer', pending', install') = PreviousOf(pointer', pending, install)
  BY DEF PowerLoss, LastAtRisk, Moot
<1> QED BY <1>3, <1>7, <1>8

\* Steps that leave the entries and their survivors leave the risk.
LEMMA QuietWas ==
    ASSUME UNCHANGED <<pointer, pending, install, versions, survivors>>
    PROVE  /\ UNCHANGED <<WasPointer, WasVersions>>
           /\ LastAtRisk => LastAtRisk'
<1>1. UNCHANGED <<WasPointer, WasVersions>>
  BY DEF WasPointer, WasVersions, Earlier
<1> QED BY <1>1 DEF LastAtRisk, TwoSurvive, OneAtRisk, Moot

\* The selector that a command, a previous version and the retained ones make.
SelectorOf(ptr, prev, ver) ==
    << IF ptr \in Version THEN ptr ELSE None, prev, {v \in Version : ver[v] # None} >>

LEMMA SelectorIs ==
    /\ DurableSelector!selector
         = SelectorOf(pointer, PreviousOf(pointer, pending, install), versions)
    /\ DurableSelector!selector'
         = SelectorOf(pointer', PreviousOf(pointer', pending', install'), versions')
BY DEF DurableSelector!selector, SelectorOf, PreviousOf, Current, Previous

LEMMA AtWorstIs ==
    /\ AtWorst!Selector!selector
         = SelectorOf(WasPointer, PreviousOf(WasPointer, pending, install), WasVersions)
    /\ AtWorst!Selector!selector'
         = SelectorOf(WasPointer', PreviousOf(WasPointer', pending', install'), WasVersions')
BY DEF AtWorst!Selector!selector, AtWorst!Current, AtWorst!Previous, SelectorOf, PreviousOf,
       WasPointer, WasVersions

LEMMA StepRefines ==
    ASSUME IInv, NEW p \in Proc, Step(p)
    PROVE  DurableSelector!Next \/ UNCHANGED DurableSelector!selector
<1>1. CASE Recovery(p) \/ Activation(p)
  BY <1>1, RecoveryRefines, ActivationRefines
     DEF Selector!Next, Selector!selector, Selector!Retain, Selector!Activate,
         Selector!Forget, DurableSelector!Next, DurableSelector!selector,
         DurableSelector!Retain, DurableSelector!Activate, DurableSelector!Forget
<1>2. CASE CallExact(p) \/ CallPlain(p) \/ Preparation(p) \/ Acquire(p)
  <2>1. UNCHANGED <<pointer, pending, install, versions>>
    BY <1>2 DEF CallExact, CallPlain, Call, Preparation, RequirePointer,
                RequireDescribed, FetchExact, FetchLatest, PickTarget,
                RefuseUnmanaged, Acquire, LockExisting, LockForMutation, disk
  <2> QED BY <2>1, SelectorIs
<1> QED
  BY <1>1, <1>2
     DEF Step, ReplaceFile, SwitchSymlink, RenameNew, RemoveFile, RepairFile, Quiet,
         Recovery, Activation

\* A write is one change of the selector, put at risk when nothing else is, or
\* none at all.
LEMMA WriteRefines ==
    ASSUME DInv, DInv', LastAtRisk, NEW p \in Proc, Step(p), ~Quiet(p)
    PROVE  /\ LastAtRisk'
           /\ DurableSelector!Change \/ UNCHANGED DurableSelector!durableSelector
<1>1. IInv /\ TypeOK /\ DTypeOK /\ Synced /\ TypeOK' /\ DiskOK' /\ Consistent'
  BY DEF DInv, IInv
<1>2. lock = p /\ OneEntry /\ edited' = FALSE /\ \E dirs \in Seq(Dirs) : Then(p, dirs)
  BY <1>1, Writes
<1>3. Owed = {}
  BY <1>1, <1>2, NothingOwed, OwedNone DEF Step, DTypeOK, SyncingOwned
<1>4. WasPointer' = pointer /\ WasVersions' = versions /\ TwoSurvive' /\ OneAtRisk'
  BY <1>1, <1>2, <1>3, WriteWas DEF Then
<1>5. /\ Moot'
      /\ pointer' = pointer =>
           PreviousOf(pointer', pending', install') = PreviousOf(pointer, pending, install)
  BY <1>1, <1>2, <1>3, WriteMoot DEF Then, LastAtRisk
<1>6. LastAtRisk'
  BY <1>4, <1>5 DEF LastAtRisk
<1>7. WasPointer = pointer /\ WasVersions = versions
  BY <1>1, <1>3, CertainWas DEF Synced
<1>8. AtWorst!Selector!selector = DurableSelector!selector
  BY <1>7, SelectorIs, AtWorstIs
<1>9. AtWorst!Selector!selector' = DurableSelector!selector
  <2>1. AtWorst!Selector!selector'
          = SelectorOf(pointer, PreviousOf(pointer, pending', install'), versions)
    BY <1>4, AtWorstIs
  <2>2. PreviousOf(pointer, pending', install') = PreviousOf(pointer, pending, install)
    <3>1. CASE pointer' = pointer
      BY <1>5, <3>1
    <3>2. CASE pointer' # pointer
      BY <1>2, <3>2 DEF OneEntry, JournalWrite, VersionWrite, PointerWrite, InstallWrite
    <3> QED BY <3>1, <3>2
  <2> QED BY <2>1, <2>2, SelectorIs
<1>10. DurableSelector!Next \/ UNCHANGED DurableSelector!selector
  BY <1>1, StepRefines
<1> QED
  BY <1>6, <1>8, <1>9, <1>10 DEF DurableSelector!Change, DurableSelector!durableSelector

\* A step changes the selector when that is certain, makes the change certain,
\* takes it back, or does nothing to either.
LEMMA DurableStep ==
    ASSUME DInv, DInv', LastAtRisk, [DNext]_dvars
    PROVE  /\ LastAtRisk'
           /\ [DurableSelector!DurableNext]_(DurableSelector!durableSelector)
<1>0. IInv /\ TypeOK /\ TypeOK' /\ Present
  BY DEF DInv, IInv
<1>1. ASSUME NEW p \in Proc, Step(p), ~Quiet(p)
      PROVE  LastAtRisk' /\ [DurableSelector!DurableNext]_(DurableSelector!durableSelector)
  BY <1>1, WriteRefines DEF DurableSelector!DurableNext
<1>2. ASSUME UNCHANGED <<pointer, pending, install, versions, survivors>>
      PROVE  LastAtRisk' /\ UNCHANGED DurableSelector!durableSelector
  <2>1. LastAtRisk' /\ UNCHANGED <<WasPointer, WasVersions>>
    BY <1>2, QuietWas
  <2>2. UNCHANGED DurableSelector!selector
    BY <1>2, SelectorIs
  <2>3. UNCHANGED AtWorst!Selector!selector
    BY <1>2, <2>1, AtWorstIs
  <2> QED BY <2>1, <2>2, <2>3 DEF DurableSelector!durableSelector
<1>3. ASSUME NEW p \in Proc, Quiet(p) \/ Die(p)
      PROVE  UNCHANGED <<pointer, pending, install, versions, survivors>>
  BY <1>3, QuietEntries DEF Quiet, Die
<1>4. ASSUME NEW p \in Proc, SyncDir(p)
      PROVE  LastAtRisk' /\ [DurableSelector!DurableNext]_(DurableSelector!durableSelector)
  <2>1. /\ LastAtRisk'
        /\ \/ UNCHANGED <<WasPointer, WasVersions>>
           \/ WasPointer' = pointer /\ WasVersions' = versions
    BY <1>0, <1>4, SyncWas
  <2>2. UNCHANGED <<pointer, pending, install, versions>>
    BY <1>4 DEF SyncDir, vars, disk
  <2>3. UNCHANGED DurableSelector!selector
    BY <2>2, SelectorIs
  <2>4. CASE UNCHANGED <<WasPointer, WasVersions>>
    <3>1. UNCHANGED AtWorst!Selector!selector
      BY <2>2, <2>4, AtWorstIs
    <3> QED BY <2>1, <2>3, <3>1 DEF DurableSelector!durableSelector
  <2>5. CASE WasPointer' = pointer /\ WasVersions' = versions
    <3>1. AtWorst!Selector!selector' = DurableSelector!selector
      BY <2>2, <2>5, SelectorIs, AtWorstIs
    <3> QED BY <2>1, <2>3, <3>1 DEF DurableSelector!Settle, DurableSelector!DurableNext
  <2> QED BY <2>1, <2>4, <2>5
<1>5. CASE PowerLoss
  <2>1. /\ LastAtRisk'
        /\ WasPointer' = pointer' /\ WasVersions' = versions'
        /\ PreviousOf(pointer', pending', install') = PreviousOf(pointer', pending, install)
        /\ \/ UNCHANGED <<pointer, versions>>
           \/ pointer' = WasPointer /\ versions' = WasVersions
    BY <1>0, <1>5, PowerLossWas
  <2>2. AtWorst!Selector!selector' = DurableSelector!selector'
    BY <2>1, SelectorIs, AtWorstIs
  <2>3. CASE UNCHANGED <<pointer, versions>>
    <3>1. UNCHANGED DurableSelector!selector
      BY <2>1, <2>3, SelectorIs
    <3> QED BY <2>1, <2>2, <3>1 DEF DurableSelector!Settle, DurableSelector!DurableNext
  <2>4. CASE pointer' = WasPointer /\ versions' = WasVersions
    <3>1. DurableSelector!selector' = AtWorst!Selector!selector
      BY <2>1, <2>4, SelectorIs, AtWorstIs
    <3> QED BY <2>1, <2>2, <3>1 DEF DurableSelector!Lose, DurableSelector!DurableNext
  <2> QED BY <2>1, <2>3, <2>4
<1>6. CASE UNCHANGED dvars
  BY <1>2, <1>6 DEF dvars, vars, disk
<1> QED BY <1>1, <1>2, <1>3, <1>4, <1>5, <1>6 DEF DNext

\* sync_dir after each rename, before the next write: a power loss takes back
\* the last change of the selector as a whole, and nothing that came before it,
\* whichever of the journals that were left unsynced comes back.
THEOREM DurableRefinement ==
    ASSUME LeftUnsynced \subseteq {"pending"}
    PROVE  DSpec => ImplementsDurableSelector
<1>1. DInit => DurableSelector!DurableInit /\ LastAtRisk
  <2> SUFFICES ASSUME DInit PROVE DurableSelector!DurableInit /\ LastAtRisk
    OBVIOUS
  <2>1. DInv /\ TypeOK
    BY InitDurable DEF DInv, IInv
  <2>2. /\ survivors.pointer = {pointer} /\ survivors.pending = {pending}
        /\ survivors.install = {install}
        /\ \A v \in Version : survivors.versions[v] = {versions[v]}
    BY DEF DInit, Certain, Written
  <2>3. WasPointer = pointer /\ WasVersions = versions /\ LastAtRisk
    BY <2>1, <2>2, CertainWas DEF LastAtRisk, Moot
  <2>4. AtWorst!Selector!selector = DurableSelector!selector
    BY <2>3, SelectorIs, AtWorstIs
  <2>5. DurableSelector!Init
    BY NoneAssumption, UserAssumption
       DEF DInit, Init, DurableSelector!Init, Current, Previous, VersionOrNone
  <2> QED BY <2>3, <2>4, <2>5 DEF DurableSelector!DurableInit
<1>2. DInv /\ DInv' /\ LastAtRisk /\ [DNext]_dvars
        => LastAtRisk' /\ [DurableSelector!DurableNext]_(DurableSelector!durableSelector)
  BY DurableStep
<1> QED
  BY <1>1, <1>2, DurabilityInvariant, PTL
     DEF DSpec, ImplementsDurableSelector, DurableSelector!DurableSpec

=============================================================================
