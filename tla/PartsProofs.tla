----------------------------- MODULE PartsProofs -----------------------------
(***************************************************************************)
(* What holds, for every value of the constants, of the parts that Parts   *)
(* puts side by side, one after the other (ArchiveProofs has those of an   *)
(* extraction), and of Parts, which implements each of them.               *)
(***************************************************************************)
EXTENDS Parts, ArchiveProofs, FiniteSetTheorems, TLAPS

-----------------------------------------------------------------------------
(* Reading to a ceiling.                                                   *)

\* What the reading keeps: the types; nothing is received before it begins;
\* and how far the verdict and the observer are ahead of it.
TransferInv ==
    /\ TransferTypeOK
    /\ reading = "begin" => received = 0 /\ reserved = 0 /\ advance = Unknown
    /\ received <= arriving
    /\ reserved <= ceiling
    /\ reader # "stream" => received <= ReadLimit
    /\ reader = "stream" => received <= ceiling + MaxChunk
    /\ reader = "stream" /\ reading = "read" => received <= ceiling
    /\ reader = "regular" => ceiling < MaxWord
    /\ reading = "ok" => received = arriving /\ received <= ceiling
    /\ reading = "refused" => arriving > ceiling \/ ceiling = MaxWord
    /\ HeardExactly
    /\ reading = "read" /\ reader = "observed" => advance # Unknown

\* A read begins with nothing.
LEMMA TransferStarts == TransferInit => TransferInv
  BY WordAssumption
     DEF TransferInit, TransferInv, TransferTypeOK, HeardExactly, ReadLimit, Reader, Bodies

\* Every step of a read keeps what is known of it.
LEMMA TransferStep ==
    ASSUME TransferInv, [TransferNext]_transferVars
    PROVE  TransferInv'
<1> USE WordAssumption, UnknownAssumption
        DEF TransferInv, TransferTypeOK, HeardExactly, ReadLimit, Reader, Bodies
<1>1. CASE TransferBegin
  <2>1. CASE reading' = "refused" /\ UNCHANGED <<reserved, advance>>
             /\ (arriving > ceiling \/ ceiling + 1 > MaxWord)
    BY <1>1, <2>1 DEF TransferBegin
  <2>2. CASE /\ reading' = "read"
             /\ ~(reader \in Bodies /\ Overflow)
             /\ reserved' = CASE reader = "observed" -> Capacity
                              [] reader = "regular"  -> Lesser(arriving, ceiling)
                              [] OTHER               -> 0
             /\ advance' = IF reader = "observed" THEN 0 ELSE Unknown
    <3>1. Capacity \in 0..ceiling /\ Lesser(arriving, ceiling) \in 0..ceiling
      BY DEF Capacity, Lesser
    <3>2. reserved' \in 0..ceiling
      BY <2>2, <3>1
    <3> QED BY <1>1, <2>2, <3>2 DEF TransferBegin, Overflow
  <2> QED BY <1>1, <2>1, <2>2 DEF TransferBegin, Overflow
<1>2. CASE TransferChunk
  <2>1. PICK n \in 1..MaxChunk :
          /\ received + n <= arriving
          /\ reader # "stream" => received + n <= ReadLimit
          /\ received' = received + n
          /\ reading' = IF reader = "stream" /\ received + n > ceiling THEN "refused" ELSE "read"
          /\ advance' = IF reader = "observed" THEN Heard(n) ELSE Unknown
    BY <1>2 DEF TransferChunk
  <2>2. received' \in 0..MaxBody /\ Heard(n) = received' /\ received' <= arriving
    BY <2>1 DEF Heard
  <2>3. reader # "stream" => received' <= ceiling + 1
    BY <2>1
  <2>4. reader = "stream" => received' <= ceiling + MaxChunk
    BY <1>2, <2>1 DEF TransferChunk
  <2>5. reading' # "ok" /\ (reading' = "refused" => arriving > ceiling)
    BY <2>1
  <2>6. reader = "stream" /\ reading' = "read" => received' <= ceiling
    BY <2>1
  <2> QED BY <1>2, <2>1, <2>2, <2>3, <2>4, <2>5, <2>6 DEF TransferChunk
<1>3. CASE TransferEnd
  BY <1>3 DEF TransferEnd
<1>4. CASE TransferFails
  BY <1>4 DEF TransferFails
<1>5. CASE FileGrows
  BY <1>5 DEF FileGrows
<1>6. CASE UNCHANGED transferVars
  BY <1>6 DEF transferVars
<1> QED BY <1>1, <1>2, <1>3, <1>4, <1>5, <1>6 DEF TransferNext

\* Every reachable state of a read satisfies the invariant.
THEOREM TransferInvariant == TransferSpec => []TransferInv
  BY TransferStarts, TransferStep, PTL DEF TransferSpec

\* Every variable keeps its type, and no limit overflows the word it is
\* computed in (progress_read_limit).
THEOREM TransferTypeCorrect == TransferSpec => []TransferTypeOK
<1>1. TransferInv => TransferTypeOK
  BY DEF TransferInv
<1> QED BY <1>1, TransferInvariant, PTL

\* A body is taken whole or refused, at every ceiling and for bodies of every
\* length; what is held and set aside is bounded by the ceiling; and the
\* observer hears of every byte (read_response_body_observed, read_limited,
\* read_regular_limited).
THEOREM BodiesTakenToCeiling == TransferSpec => []TakenToCeiling
<1>1. TransferInv => WholeOrRefused
  BY DEF TransferInv, WholeOrRefused
<1>2. TransferInv => NotPreallocated
  BY WordAssumption
     DEF TransferInv, NotPreallocated, TransferTypeOK, ReadLimit, Reader, Bodies
<1>3. TransferInv => HeardExactly
  BY DEF TransferInv, HeardExactly
<1> QED BY <1>1, <1>2, <1>3, TransferInvariant, PTL DEF TakenToCeiling

-----------------------------------------------------------------------------
(* Private directories.                                                    *)

\* A directory one of the runs made has been private since it was made, and no
\* run gets past the set_permissions of another user's.
DirInv ==
    /\ DirTypeOK
    /\ managed # NoDir /\ managed.maker # Else => managed.kind = "own" /\ managed.secluded
    /\ \A s \in Starter : start[s] = "confirm" => managed.kind # "foreign"
    /\ AdmittedIsPrivate

\* No run is admitted at the start.
LEMMA DirStarts == DirInit => DirInv
  BY StarterAssumption, NoDirAssumption
     DEF DirInit, DirInv, DirTypeOK, AdmittedIsPrivate, Directory, DirKind

\* No step opens a directory again, or refuses one that is the runs' own.
LEMMA DirStep ==
    ASSUME DirInv, [DirNext]_dirVars
    PROVE  DirInv'
<1> USE StarterAssumption, NoDirAssumption
        DEF DirInv, DirTypeOK, AdmittedIsPrivate, Directory, DirKind, Step, Verdict
<1>1. ASSUME NEW s \in Starter, LookForDir(s) PROVE DirInv'
  BY <1>1 DEF LookForDir
<1>2. ASSUME NEW s \in Starter, MakeDir(s) PROVE DirInv'
  <2>1. CASE managed = NoDir
    <3> DEFINE own == [maker |-> s, kind |-> "own", secluded |-> TRUE]
    <3>1. own \in Directory /\ own.maker = s /\ own.kind = "own" /\ own.secluded
      OBVIOUS
    <3>2. own # NoDir
      BY <3>1 DEF Directory
    <3>3. managed' = own
      BY <1>2, <2>1 DEF MakeDir
    <3> HIDE DEF own
    <3> QED BY <1>2, <2>1, <3>1, <3>2, <3>3 DEF MakeDir
  <2>2. CASE managed # NoDir
    BY <1>2, <2>2 DEF MakeDir, Lost
  <2> QED BY <2>1, <2>2
<1>3. ASSUME NEW s \in Starter, Tighten(s) PROVE DirInv'
  <2>1. managed # NoDir /\ managed \in Directory
    BY <1>3 DEF Tighten
  <2>2. CASE managed.kind = "foreign"
    BY <1>3, <2>2 DEF Tighten
  <2>3. CASE managed.kind # "foreign"
    <3> DEFINE shut == [managed EXCEPT !.secluded = TRUE]
    <3>1. /\ shut \in Directory
          /\ shut.maker = managed.maker /\ shut.kind = managed.kind /\ shut.secluded
      BY <2>1
    <3>2. shut # NoDir
      BY <3>1
    <3>3. managed' = shut
      BY <1>3, <2>3 DEF Tighten
    <3> HIDE DEF shut
    <3> QED BY <1>3, <2>1, <2>3, <3>1, <3>2, <3>3 DEF Tighten
  <2> QED BY <2>2, <2>3
<1>4. ASSUME NEW s \in Starter, Reopen(s) PROVE DirInv'
  BY <1>4 DEF Reopen
<1>5. ASSUME NEW s \in Starter, Confirm(s) PROVE DirInv'
  BY <1>5 DEF Confirm
<1>6. ASSUME NEW s \in Starter, DirFails(s) PROVE DirInv'
  BY <1>6 DEF DirFails
<1>7. CASE ElseMakes
  BY <1>7 DEF ElseMakes
<1>8. CASE UNCHANGED dirVars
  BY <1>8 DEF dirVars
<1> QED BY <1>1, <1>2, <1>3, <1>4, <1>5, <1>6, <1>7, <1>8 DEF DirNext

\* Every reachable state satisfies the invariant.
THEOREM DirInvariant == DirSpec => []DirInv
  BY DirStarts, DirStep, PTL DEF DirSpec

\* Every variable keeps its type: no step looks at a directory that is not
\* there (ensure_private_dir).
THEOREM DirTypeCorrect == DirSpec => []DirTypeOK
<1>1. DirInv => DirTypeOK
  BY DEF DirInv
<1> QED BY <1>1, DirInvariant, PTL

\* However many runs race for the directory and whoever else makes one, a run
\* goes on only in a private one, and refuses none of its fellows'
\* (ensure_private_dir).
THEOREM OnlyPrivate == DirSpec => []AdmittedIsPrivate
<1>1. DirInv => AdmittedIsPrivate
  BY DEF DirInv
<1> QED BY <1>1, DirInvariant, PTL

-----------------------------------------------------------------------------
(* Temporary names.                                                        *)

\* Where a thread has a temporary name of its own.
Named == {"open", "write", "publish", "sync", "undo"}

\* The names of the threads of one process differ, and none will be given again.
TicketsApart ==
    /\ \A t \in Thread : point[t] \in Named => ticket[t] < counter
    /\ \A t, u \in Thread :
         t # u /\ point[t] \in Named /\ point[u] \in Named => ticket[t] # ticket[u]

\* What is under a temporary name is held by the thread of that name, which
\* has made it, or is an orphan.
TemporariesOK ==
    /\ \A t \in Thread :
         /\ point[t] \in {"write", "publish"} => temporary[NameOf(t)] # Absent
         /\ point[t] = "publish" => temporary[NameOf(t)].whole
         /\ point[t] = "sync" => temporary[NameOf(t)] = Absent
         /\ Holding(t) => NameOf(t) \notin orphans /\ temporary[NameOf(t)].by = t
    /\ \A n \in Temporary \ orphans :
         temporary[n] # Absent => \E t \in Thread : Holding(t) /\ NameOf(t) = n
    /\ \A n \in orphans : temporary[n] # Absent

\* A thread that was refused m names met m of the orphans O, under earlier numbers.
Met(O, m, below) ==
    \E S \in SUBSET O :
        /\ IsFiniteSet(S) /\ Cardinality(S) = m
        /\ \A n \in S : n[2] < below

TriesOK ==
    \A t \in Thread :
        /\ point[t] \in {"idle", "exhausted", "look"} => tries[t] = 0
        /\ point[t] = "name" => Met(orphans, tries[t], counter)
        /\ point[t] = "open" => Met(orphans, tries[t], ticket[t])
        /\ point[t] = "exhausted" => Cardinality(orphans) >= MaxTries

NFInv == NewFileTypeOK /\ TicketsApart /\ TemporariesOK /\ TriesOK

LEMMA OrphansFinite ==
    ASSUME NEW S \in SUBSET Temporary
    PROVE  IsFiniteSet(S)
<1>1. IsFiniteSet(0..MaxCounter)
  BY FS_Interval, TriesAssumption DEF TriesAssumption
<1>2. IsFiniteSet({"symlink", "file"})
  <2>1. IsFiniteSet({"symlink"})
    BY FS_Singleton
  <2>2. {"symlink", "file"} = {"symlink"} \cup {"file"}
    OBVIOUS
  <2> QED BY <2>1, <2>2, FS_AddElement
<1>3. IsFiniteSet(Temporary)
  BY <1>1, <1>2, FS_Product DEF Temporary
<1> QED BY <1>3, FS_Subset

LEMMA MoreMet ==
    ASSUME NEW m, NEW b \in Nat, NEW c \in Nat, b <= c, NEW O \in SUBSET Temporary, NEW Q, O \subseteq Q,
           Met(O, m, b)
    PROVE  Met(Q, m, c)
<1>1. PICK S \in SUBSET O : IsFiniteSet(S) /\ Cardinality(S) = m /\ \A n \in S : n[2] < b
  BY DEF Met
<1>2. \A n \in S : n[2] \in Nat
  BY <1>1, TriesAssumption DEF TriesAssumption, Temporary
<1>3. \A n \in S : n[2] < c
  BY <1>1, <1>2
<1> QED BY <1>1, <1>3 DEF Met

LEMMA Names ==
    ASSUME NFInv, NEW t \in Thread
    PROVE  /\ NameOf(t) \in Temporary /\ Kind(operation[t]) \in {"symlink", "file"}
           /\ \A u \in Thread : u # t /\ point[u] \in Named /\ point[t] \in Named => NameOf(u) # NameOf(t)
<1>1. Kind(operation[t]) \in {"symlink", "file"} /\ ticket[t] \in 0..MaxCounter
  BY DEF NFInv, NewFileTypeOK, Kind
<1> QED BY <1>1 DEF NameOf, Temporary, NFInv, TicketsApart

-----------------------------------------------------------------------------
(* A step of one thread.                                                   *)

\* What thread t leaves as it is for the others.
OthersAsBefore(t) ==
    \A u \in Thread \ {t} :
        /\ point'[u] = point[u] /\ operation'[u] = operation[u]
        /\ ticket'[u] = ticket[u] /\ tries'[u] = tries[u]

\* Only the file under the thread's own name is made, changed or removed.
OwnName(t) ==
    /\ temporary' \in [Temporary -> Made \cup {Absent}]
    /\ \A n \in Temporary : temporary'[n] # temporary[n] => n = NameOf(t) /\ point[t] \in Named
    /\ orphans \subseteq orphans' /\ orphans' \subseteq orphans \cup {NameOf(t)}
    /\ orphans' # orphans => point[t] \in Named

\* The other threads' files are as they were.
LEMMA OthersHold ==
    ASSUME NFInv, NEW t \in Thread, OthersAsBefore(t), OwnName(t), NEW u \in Thread, u # t
    PROVE  /\ NameOf(u)' = NameOf(u) /\ (Holding(u)' <=> Holding(u))
           /\ point'[u] \in {"write", "publish"} => temporary'[NameOf(u)] # Absent
           /\ point'[u] = "publish" => temporary'[NameOf(u)].whole
           /\ point'[u] = "sync" => temporary'[NameOf(u)] = Absent
           /\ Holding(u)' => NameOf(u) \notin orphans' /\ temporary'[NameOf(u)].by = u
<1>1. point'[u] = point[u] /\ NameOf(u)' = NameOf(u)
  BY DEF OthersAsBefore, NameOf
<1>2. point[u] \in Named /\ point[t] \in Named => NameOf(u) # NameOf(t)
  BY Names
<1>3. NameOf(u) \in Temporary
  BY Names
<1>4. point[u] \in Named =>
        temporary'[NameOf(u)] = temporary[NameOf(u)] /\ (NameOf(u) \in orphans' <=> NameOf(u) \in orphans)
  BY <1>2, <1>3 DEF OwnName
<1>5. Holding(u)' <=> Holding(u)
  BY <1>1, <1>4 DEF Holding, Named
<1> QED BY <1>1, <1>4, <1>5 DEF NFInv, TemporariesOK, Holding, Named

\* The temporary files after a step of t, by what t itself is at.
LEMMA TemporariesAfter ==
    ASSUME NFInv, NEW t \in Thread, OthersAsBefore(t), OwnName(t),
           point'[t] \in {"write", "publish"} => temporary'[NameOf(t)'] # Absent,
           point'[t] = "publish" => temporary'[NameOf(t)'].whole,
           point'[t] = "sync" => temporary'[NameOf(t)'] = Absent,
           Holding(t)' => NameOf(t)' \notin orphans' /\ temporary'[NameOf(t)'].by = t,
           point[t] \in Named /\ temporary'[NameOf(t)] # Absent =>
               \/ NameOf(t) \in orphans'
               \/ Holding(t)' /\ NameOf(t)' = NameOf(t),
           \A n \in orphans' \ orphans : temporary'[n] # Absent,
           point[t] \in Named /\ NameOf(t) \in orphans => temporary'[NameOf(t)] = temporary[NameOf(t)]
    PROVE  TemporariesOK'
<1>1. \A u \in Thread :
         /\ point'[u] \in {"write", "publish"} => temporary'[NameOf(u)'] # Absent
         /\ point'[u] = "publish" => temporary'[NameOf(u)'].whole
         /\ point'[u] = "sync" => temporary'[NameOf(u)'] = Absent
         /\ Holding(u)' => NameOf(u)' \notin orphans' /\ temporary'[NameOf(u)'].by = u
  BY OthersHold
<1>2. ASSUME NEW n \in Temporary \ orphans', temporary'[n] # Absent
      PROVE  \E u \in Thread : Holding(u)' /\ NameOf(u)' = n
  <2>1. CASE n = NameOf(t) /\ point[t] \in Named
    BY <1>2, <2>1
  <2>2. CASE ~(n = NameOf(t) /\ point[t] \in Named)
    <3>1. temporary'[n] = temporary[n] /\ n \in Temporary \ orphans
      BY <2>2 DEF OwnName
    <3>2. PICK u \in Thread : Holding(u) /\ NameOf(u) = n
      BY <1>2, <3>1 DEF NFInv, TemporariesOK
    <3>3. u # t
      BY <2>2, <3>2 DEF Holding, Named
    <3> QED BY <3>2, <3>3, OthersHold
  <2> QED BY <2>1, <2>2
<1>3. \A n \in orphans' : temporary'[n] # Absent
  <2> SUFFICES ASSUME NEW n \in orphans, n \in Temporary PROVE temporary'[n] # Absent
    BY DEF OwnName, NFInv, NewFileTypeOK
  <2>1. temporary[n] # Absent
    BY DEF NFInv, TemporariesOK
  <2> QED BY <2>1 DEF OwnName
<1> QED BY <1>1, <1>2, <1>3 DEF TemporariesOK

\* The tickets, where the thread takes none.
LEMMA TicketsAfter ==
    ASSUME NFInv, NEW t \in Thread, OthersAsBefore(t), UNCHANGED counter,
           point'[t] \in Named => point[t] \in Named /\ ticket'[t] = ticket[t]
    PROVE  TicketsApart'
<1>1. \A u \in Thread : point'[u] \in Named => point[u] \in Named /\ ticket'[u] = ticket[u]
  BY DEF OthersAsBefore
<1> QED BY <1>1 DEF NFInv, TicketsApart

\* The tries of the others go on being explained while orphans only come.
LEMMA TriesAfter ==
    ASSUME NFInv, NEW t \in Thread, OthersAsBefore(t), orphans \subseteq orphans', orphans' \subseteq Temporary,
           counter' \in Nat, counter <= counter',
           point'[t] \in {"idle", "exhausted", "look"} => tries'[t] = 0,
           point'[t] = "name" => Met(orphans', tries'[t], counter'),
           point'[t] = "open" => Met(orphans', tries'[t], ticket'[t]),
           point'[t] = "exhausted" => Cardinality(orphans') >= MaxTries
    PROVE  TriesOK'
<1>1. ASSUME NEW u \in Thread, u # t
      PROVE  /\ point'[u] \in {"idle", "exhausted", "look"} => tries'[u] = 0
             /\ point'[u] = "name" => Met(orphans', tries'[u], counter')
             /\ point'[u] = "open" => Met(orphans', tries'[u], ticket'[u])
             /\ point'[u] = "exhausted" => Cardinality(orphans') >= MaxTries
  <2>1. /\ point'[u] = point[u] /\ tries'[u] = tries[u] /\ ticket'[u] = ticket[u]
        /\ counter \in Nat /\ ticket[u] \in Nat /\ orphans \subseteq Temporary
    BY <1>1, TriesAssumption DEF TriesAssumption, OthersAsBefore, NFInv, NewFileTypeOK
  <2>2. point[u] = "name" => Met(orphans', tries'[u], counter')
    BY <2>1, MoreMet DEF NFInv, TriesOK
  <2>3. point[u] = "open" => Met(orphans', tries'[u], ticket'[u])
    BY <2>1, MoreMet DEF NFInv, TriesOK
  <2>4. point[u] = "exhausted" => Cardinality(orphans') >= MaxTries
    <3>1. IsFiniteSet(orphans')
      BY OrphansFinite
    <3>2. Cardinality(orphans) <= Cardinality(orphans') /\ Cardinality(orphans') \in Nat
          /\ Cardinality(orphans) \in Nat
      BY <3>1, FS_Subset, FS_CardinalityType
    <3> QED BY <3>2, TriesAssumption DEF TriesAssumption, NFInv, TriesOK
  <2> QED BY <2>1, <2>2, <2>3, <2>4 DEF NFInv, TriesOK
<1> QED BY <1>1 DEF TriesOK

-----------------------------------------------------------------------------
LEMMA NewFileStarts == NewFileInit => NFInv
<1> SUFFICES ASSUME NewFileInit PROVE NFInv
  OBVIOUS
<1>1. NewFileTypeOK
  BY TriesAssumption DEF TriesAssumption, NewFileInit, NewFileTypeOK, Operation, Points
<1>2. TicketsApart
  BY DEF NewFileInit, TicketsApart, Named
<1>3. \A n \in Temporary : temporary[n] = Absent
  BY DEF NewFileInit
<1>4. \A t \in Thread : NameOf(t) \in Temporary
  BY <1>1 DEF NewFileTypeOK, NameOf, Temporary, Kind
<1>5. TemporariesOK
  BY <1>3, <1>4 DEF NewFileInit, TemporariesOK, Holding
<1>6. TriesOK
  BY DEF NewFileInit, TriesOK
<1> QED BY <1>1, <1>2, <1>5, <1>6 DEF NFInv

-----------------------------------------------------------------------------
(* Every step keeps the invariant.                                         *)

\* The types, by function.
LEMMA ThreadTypes ==
    ASSUME NFInv
    PROVE  /\ temporary \in [Temporary -> Made \cup {Absent}] /\ counter \in 0..MaxCounter
           /\ operation \in [Thread -> Operation] /\ point \in [Thread -> Points]
           /\ ticket \in [Thread -> 0..MaxCounter] /\ tries \in [Thread -> 0..MaxTries]
           /\ orphans \subseteq Temporary /\ kills \in 0..MaxKills
           /\ published \in Made \cup {Absent} /\ (published # Absent => published.whole)
           /\ {MaxCounter, MaxKills} \subseteq Nat /\ MaxTries \in Nat \ {0}
           /\ 0 \in 0..MaxCounter /\ 0 \in 0..MaxTries
BY TriesAssumption DEF TriesAssumption, NFInv, NewFileTypeOK

\* Proceed moves one thread.
LEMMA Proceeds ==
    ASSUME NFInv, NEW t \in Thread, NEW p \in Points, Proceed(t, p)
    PROVE  /\ OthersAsBefore(t) /\ point'[t] = p /\ point' \in [Thread -> Points]
           /\ operation' = operation /\ ticket' = ticket /\ tries' = tries
           /\ NameOf(t)' = NameOf(t)
BY ThreadTypes DEF Proceed, OthersAsBefore, NameOf

\* Finish sets one thread's locals back.
LEMMA Finishes ==
    ASSUME NFInv, NEW t \in Thread, NEW p \in Points, Finish(t, p)
    PROVE  /\ OthersAsBefore(t) /\ point'[t] = p /\ tries'[t] = 0
           /\ point' \in [Thread -> Points] /\ operation' \in [Thread -> Operation]
           /\ ticket' \in [Thread -> 0..MaxCounter] /\ tries' \in [Thread -> 0..MaxTries]
BY ThreadTypes DEF Finish, OthersAsBefore, Operation

\* A step of t that leaves the files alone.
LEMMA FilesAlone ==
    ASSUME NFInv, NEW t \in Thread, OthersAsBefore(t), UNCHANGED <<temporary, orphans, counter>>,
           \/ point'[t] \notin Named /\ (point[t] \in Named => ~Holding(t))
           \/ /\ NameOf(t)' = NameOf(t) /\ ticket'[t] = ticket[t]
              /\ point[t] \in Named
              /\ \/ point[t] = "publish" /\ point'[t] = "undo"
                 \/ point[t] = "sync" /\ point'[t] = "undo"
    PROVE  TicketsApart' /\ TemporariesOK'
<1>1. OwnName(t)
  BY ThreadTypes DEF OwnName
<1>2. TicketsApart'
  BY TicketsAfter DEF Named
<1>3. NameOf(t) \in Temporary
  BY Names
<1>4. point[t] \in Named /\ temporary[NameOf(t)] # Absent =>
        NameOf(t) \in orphans \/ (Holding(t) /\ point[t] # "sync")
           \/ point[t] = "open"
  BY DEF NFInv, TemporariesOK, Holding, Named
<1>5. CASE point'[t] \notin Named /\ (point[t] \in Named => ~Holding(t))
  <2>1. point[t] \in Named /\ temporary[NameOf(t)] # Absent => NameOf(t) \in orphans
    <3> SUFFICES ASSUME point[t] \in Named, temporary[NameOf(t)] # Absent, NameOf(t) \notin orphans
                 PROVE  FALSE
      OBVIOUS
    <3>1. PICK u \in Thread : Holding(u) /\ NameOf(u) = NameOf(t)
      BY <1>3 DEF NFInv, TemporariesOK
    <3> QED BY <1>5, <3>1, Names DEF Holding, Named
  <2>2. ~Holding(t)'
    BY <1>5 DEF Holding, Named
  <2> QED BY <1>1, <1>2, <1>5, <2>1, <2>2, TemporariesAfter DEF Named
<1>6. CASE /\ NameOf(t)' = NameOf(t) /\ point'[t] = "undo" /\ point[t] \in {"publish", "sync"}
  <2>1. Holding(t)' => temporary[NameOf(t)] # Absent
    BY <1>6 DEF Holding
  <2>2. Holding(t)' => point[t] = "publish" /\ Holding(t)
    BY <1>6, <2>1 DEF Holding, NFInv, TemporariesOK
  <2>3. temporary[NameOf(t)] # Absent => Holding(t)'
    BY <1>6 DEF Holding
  <2>4. Holding(t)' => NameOf(t)' \notin orphans' /\ temporary'[NameOf(t)'].by = t
    BY <1>6, <2>2 DEF NFInv, TemporariesOK
  <2> QED BY <1>1, <1>2, <1>6, <2>3, <2>4, TemporariesAfter
<1> QED BY <1>5, <1>6

LEMMA ThreadStep ==
    ASSUME NFInv, NEW t \in Thread,
           \/ Ask(t) \/ LookAt(t) \/ TakeName(t) \/ OpenTemporary(t) \/ TryAgain(t) \/ OpenFails(t)
           \/ WriteTemporary(t) \/ Publish(t) \/ PublishFails(t) \/ SyncParent(t)
           \/ RemoveTemporary(t)
    PROVE  NFInv'
<1>0. NameOf(t) \in Temporary
  BY Names
<1>1. CASE Ask(t)
  <2>1. /\ point[t] \in {"idle", "exhausted"}
        /\ UNCHANGED <<published, temporary, counter, ticket, tries, orphans, kills>>
    BY <1>1 DEF Ask
  <2>2. PICK o \in Operation : operation' = [operation EXCEPT ![t] = o]
    BY <1>1 DEF Ask
  <2>3. /\ OthersAsBefore(t) /\ point'[t] = "look" /\ point' \in [Thread -> Points]
        /\ operation' \in [Thread -> Operation] /\ tries'[t] = 0
    <3>1. point' = [point EXCEPT ![t] = "look"]
      BY <1>1 DEF Ask
    <3>2. tries[t] = 0
      BY <2>1 DEF NFInv, TriesOK
    <3> QED BY <2>1, <2>2, <3>1, <3>2, ThreadTypes DEF OthersAsBefore, Points
  <2>4. NewFileTypeOK'
    BY <2>1, <2>3, ThreadTypes DEF NewFileTypeOK
  <2>5. TicketsApart' /\ TemporariesOK'
    BY <2>1, <2>3, FilesAlone DEF Named
  <2>6. TriesOK'
    BY <2>1, <2>3, ThreadTypes, TriesAfter
  <2> QED BY <2>4, <2>5, <2>6 DEF NFInv
<1>2. CASE LookAt(t)
  <2>1. point[t] = "look" /\ UNCHANGED <<published, temporary, counter, orphans, kills>>
    BY <1>2 DEF LookAt
  <2>2. CASE Proceed(t, "name")
    <3>1. /\ OthersAsBefore(t) /\ point'[t] = "name" /\ point' \in [Thread -> Points]
          /\ operation' = operation /\ ticket' = ticket /\ tries' = tries
      BY <2>2, Proceeds DEF Points
    <3>2. NewFileTypeOK'
      BY <2>1, <3>1, ThreadTypes DEF NewFileTypeOK
    <3>3. TicketsApart' /\ TemporariesOK'
      BY <2>1, <3>1, FilesAlone DEF Named
    <3>4. Met(orphans', tries'[t], counter')
      <4>1. tries'[t] = 0
        BY <2>1, <3>1 DEF NFInv, TriesOK
      <4> QED BY <4>1, FS_EmptySet DEF Met
    <3>5. TriesOK'
      BY <2>1, <3>1, <3>4, ThreadTypes, TriesAfter
    <3> QED BY <3>2, <3>3, <3>5 DEF NFInv
  <2>3. CASE Finish(t, "idle")
    <3>1. /\ OthersAsBefore(t) /\ point'[t] = "idle" /\ tries'[t] = 0
          /\ point' \in [Thread -> Points] /\ operation' \in [Thread -> Operation]
          /\ ticket' \in [Thread -> 0..MaxCounter] /\ tries' \in [Thread -> 0..MaxTries]
      BY <2>3, Finishes DEF Points
    <3>2. NewFileTypeOK'
      BY <2>1, <3>1, ThreadTypes DEF NewFileTypeOK
    <3>3. TicketsApart' /\ TemporariesOK'
      BY <2>1, <3>1, FilesAlone DEF Named
    <3>4. TriesOK'
      BY <2>1, <3>1, ThreadTypes, TriesAfter
    <3> QED BY <3>2, <3>3, <3>4 DEF NFInv
  <2> QED BY <1>2, <2>2, <2>3 DEF LookAt
<1>3. CASE TakeName(t)
  <2>1. /\ point[t] = "name" /\ counter < MaxCounter /\ counter' = counter + 1
        /\ ticket' = [ticket EXCEPT ![t] = counter] /\ point' = [point EXCEPT ![t] = "open"]
        /\ UNCHANGED <<published, temporary, operation, tries, orphans, kills>>
    BY <1>3 DEF TakeName
  <2>2. counter \in Nat /\ counter \in 0..MaxCounter /\ counter' \in 0..MaxCounter /\ counter' \in Nat
    BY <2>1, ThreadTypes
  <2>3. /\ OthersAsBefore(t) /\ point'[t] = "open" /\ ticket'[t] = counter
        /\ point' \in [Thread -> Points] /\ ticket' \in [Thread -> 0..MaxCounter]
    BY <2>1, <2>2, ThreadTypes DEF OthersAsBefore, Points
  <2>4. NewFileTypeOK'
    BY <2>1, <2>2, <2>3, ThreadTypes DEF NewFileTypeOK
  <2>5. TicketsApart'
    <3>1. \A u \in Thread : u # t /\ point'[u] \in Named => ticket'[u] < counter /\ point[u] \in Named
                                                           /\ ticket'[u] = ticket[u]
      BY <2>3 DEF NFInv, TicketsApart, OthersAsBefore
    <3>2. \A u \in Thread : ticket'[u] \in Nat
      BY <2>3, ThreadTypes
    <3> QED BY <2>1, <2>2, <2>3, <3>1, <3>2 DEF NFInv, TicketsApart
  <2>6. OwnName(t) /\ point[t] \notin Named /\ ~Holding(t)'
    BY <2>1, <2>3, ThreadTypes DEF OwnName, Named, Holding
  <2>7. TemporariesOK'
    BY <2>1, <2>3, <2>6, TemporariesAfter
  <2>8. Met(orphans', tries'[t], ticket'[t])
    BY <2>1, <2>3 DEF NFInv, TriesOK
  <2>9. TriesOK'
    BY <2>1, <2>2, <2>3, <2>8, ThreadTypes, TriesAfter
  <2> QED BY <2>4, <2>5, <2>7, <2>9 DEF NFInv
<1>4. CASE OpenTemporary(t)
  <2> DEFINE new == [by |-> t, kind |-> Kind(operation[t]), whole |-> operation[t] = "switch"]
             p == IF operation[t] = "switch" THEN "publish" ELSE "write"
  <2>1. /\ point[t] = "open" /\ temporary[NameOf(t)] = Absent
        /\ temporary' = [temporary EXCEPT ![NameOf(t)] = new]
        /\ Proceed(t, p) /\ UNCHANGED <<published, counter, orphans, kills>>
    BY <1>4 DEF OpenTemporary
  <2>2. new \in Made /\ new.by = t /\ (p = "publish" => new.whole) /\ new # Absent
    <3>1. new \in Made
      BY Names DEF Made
    <3> QED BY <3>1, AbsentAssumption DEF AbsentAssumption
  <2>3. p \in {"publish", "write"}
    OBVIOUS
  <2> HIDE DEF new, p
  <2>4. /\ OthersAsBefore(t) /\ point'[t] = p /\ point' \in [Thread -> Points]
        /\ operation' = operation /\ ticket' = ticket /\ tries' = tries /\ NameOf(t)' = NameOf(t)
    BY <2>1, <2>3, Proceeds DEF Points
  <2>5. /\ temporary' \in [Temporary -> Made \cup {Absent}] /\ temporary'[NameOf(t)] = new
        /\ \A n \in Temporary : n # NameOf(t) => temporary'[n] = temporary[n]
    BY <1>0, <2>1, <2>2, ThreadTypes
  <2>6. NewFileTypeOK'
    BY <2>1, <2>4, <2>5, ThreadTypes DEF NewFileTypeOK
  <2>7. OwnName(t)
    BY <2>1, <2>5 DEF OwnName, Named
  <2>8. TicketsApart'
    BY <2>1, <2>4, TicketsAfter DEF Named
  <2>9. Holding(t)' /\ NameOf(t) \notin orphans
    <3>1. NameOf(t) \notin orphans
      BY <2>1 DEF NFInv, TemporariesOK
    <3> QED BY <2>2, <2>3, <2>4, <2>5, <3>1 DEF Holding
  <2>10. TemporariesOK'
    BY <2>1, <2>2, <2>3, <2>4, <2>5, <2>7, <2>9, TemporariesAfter
  <2>11. TriesOK'
    BY <2>1, <2>3, <2>4, ThreadTypes, TriesAfter
  <2> QED BY <2>6, <2>8, <2>10, <2>11 DEF NFInv
<1>5. CASE TryAgain(t)
  <2>1. /\ point[t] = "open" /\ temporary[NameOf(t)] # Absent
        /\ UNCHANGED <<published, temporary, counter, orphans, kills>>
    BY <1>5 DEF TryAgain
  <2>2. NameOf(t) \in orphans
    <3> SUFFICES ASSUME NameOf(t) \notin orphans PROVE FALSE
      OBVIOUS
    <3>1. PICK u \in Thread : Holding(u) /\ NameOf(u) = NameOf(t)
      BY <1>0, <2>1 DEF NFInv, TemporariesOK
    <3> QED BY <2>1, <3>1, Names DEF Holding, Named
  <2>3. ticket[t] \in Nat /\ counter \in Nat /\ tries[t] \in 0..MaxTries /\ ticket[t] < counter
    BY <2>1, ThreadTypes DEF NFInv, TicketsApart, Named
  <2>4. PICK S \in SUBSET orphans : /\ IsFiniteSet(S) /\ Cardinality(S) = tries[t]
                                   /\ \A n \in S : n[2] < ticket[t]
    BY <2>1 DEF NFInv, TriesOK, Met
  <2> DEFINE Q == S \cup {NameOf(t)}
  <2>5. NameOf(t)[2] = ticket[t]
    BY DEF NameOf
  <2>6. NameOf(t) \notin S
    BY <2>3, <2>4, <2>5
  <2>7. IsFiniteSet(Q) /\ Cardinality(Q) = tries[t] + 1
    BY <2>4, <2>6, FS_AddElement
  <2>8. \A n \in Q : n[2] < counter
    <3>1. \A n \in S : n[2] \in Nat
      BY ThreadTypes DEF Temporary
    <3> QED BY <2>3, <2>4, <2>5, <3>1
  <2>9. Q \in SUBSET orphans
    BY <2>2
  <2> HIDE DEF Q
  <2>10. ~Holding(t)
    BY <2>1 DEF Holding
  <2>11. CASE tries[t] + 1 < MaxTries
    <3>1. /\ tries' = [tries EXCEPT ![t] = @ + 1] /\ point' = [point EXCEPT ![t] = "name"]
          /\ UNCHANGED <<operation, ticket>>
      BY <1>5, <2>11 DEF TryAgain
    <3>2. tries[t] + 1 \in 0..MaxTries
      BY <2>3, <2>11, ThreadTypes
    <3>3. /\ OthersAsBefore(t) /\ point'[t] = "name" /\ tries'[t] = tries[t] + 1
          /\ point' \in [Thread -> Points] /\ tries' \in [Thread -> 0..MaxTries]
      BY <3>1, <3>2, ThreadTypes DEF OthersAsBefore, Points
    <3>4. NewFileTypeOK'
      BY <2>1, <3>1, <3>3, ThreadTypes DEF NewFileTypeOK
    <3>5. TicketsApart' /\ TemporariesOK'
      BY <2>1, <2>10, <3>3, FilesAlone DEF Named
    <3>6. Met(orphans', tries'[t], counter')
      BY <2>1, <2>7, <2>8, <2>9, <3>3 DEF Met
    <3>7. TriesOK'
      BY <2>1, <3>3, <3>6, ThreadTypes, TriesAfter
    <3> QED BY <3>4, <3>5, <3>7 DEF NFInv
  <2>12. CASE ~(tries[t] + 1 < MaxTries)
    <3>1. Finish(t, "exhausted")
      BY <1>5, <2>12 DEF TryAgain
    <3>2. /\ OthersAsBefore(t) /\ point'[t] = "exhausted" /\ tries'[t] = 0
          /\ point' \in [Thread -> Points] /\ operation' \in [Thread -> Operation]
          /\ ticket' \in [Thread -> 0..MaxCounter] /\ tries' \in [Thread -> 0..MaxTries]
      BY <3>1, Finishes DEF Points
    <3>3. NewFileTypeOK'
      BY <2>1, <3>2, ThreadTypes DEF NewFileTypeOK
    <3>4. TicketsApart' /\ TemporariesOK'
      BY <2>1, <2>10, <3>2, FilesAlone DEF Named
    <3>5. Cardinality(orphans) >= MaxTries
      <4>1. IsFiniteSet(orphans)
        BY ThreadTypes, OrphansFinite
      <4>2. Cardinality(Q) <= Cardinality(orphans) /\ Cardinality(orphans) \in Nat
        BY <2>9, <4>1, FS_Subset, FS_CardinalityType
      <4>3. MaxTries \in Nat
        BY ThreadTypes
      <4> QED BY <2>3, <2>7, <2>12, <4>2, <4>3
    <3>6. TriesOK'
      BY <2>1, <3>2, <3>5, ThreadTypes, TriesAfter
    <3> QED BY <3>3, <3>4, <3>6 DEF NFInv
  <2> QED BY <2>11, <2>12
<1>6. CASE OpenFails(t)
  <2>1. /\ point[t] = "open" /\ Finish(t, "idle")
        /\ UNCHANGED <<published, temporary, counter, orphans, kills>>
    BY <1>6 DEF OpenFails
  <2>2. /\ OthersAsBefore(t) /\ point'[t] = "idle" /\ tries'[t] = 0
        /\ point' \in [Thread -> Points] /\ operation' \in [Thread -> Operation]
        /\ ticket' \in [Thread -> 0..MaxCounter] /\ tries' \in [Thread -> 0..MaxTries]
    BY <2>1, Finishes DEF Points
  <2>3. NewFileTypeOK'
    BY <2>1, <2>2, ThreadTypes DEF NewFileTypeOK
  <2>4. TicketsApart' /\ TemporariesOK'
    BY <2>1, <2>2, FilesAlone DEF Named, Holding
  <2>5. TriesOK'
    BY <2>1, <2>2, ThreadTypes, TriesAfter
  <2> QED BY <2>3, <2>4, <2>5 DEF NFInv
<1>7. CASE WriteTemporary(t)
  <2>1. point[t] = "write" /\ UNCHANGED <<published, counter, orphans, kills>>
    BY <1>7 DEF WriteTemporary
  <2>2. PICK w \in BOOLEAN, p \in {"publish", "undo"} :
          /\ temporary' = [temporary EXCEPT ![NameOf(t)].whole = w] /\ Proceed(t, p)
          /\ p = "publish" => w = TRUE
    BY <1>7 DEF WriteTemporary
  <2>3. /\ OthersAsBefore(t) /\ point'[t] = p /\ point' \in [Thread -> Points]
        /\ operation' = operation /\ ticket' = ticket /\ tries' = tries /\ NameOf(t)' = NameOf(t)
    BY <2>2, Proceeds DEF Points
  <2>4. temporary[NameOf(t)] \in Made /\ Holding(t) /\ temporary[NameOf(t)].by = t
        /\ NameOf(t) \notin orphans
    BY <1>0, <2>1, ThreadTypes DEF NFInv, TemporariesOK, Holding
  <2>5. /\ temporary' \in [Temporary -> Made \cup {Absent}]
        /\ temporary'[NameOf(t)] \in Made /\ temporary'[NameOf(t)].by = t
        /\ temporary'[NameOf(t)].whole = w
        /\ \A n \in Temporary : n # NameOf(t) => temporary'[n] = temporary[n]
    BY <1>0, <2>2, <2>4, ThreadTypes DEF Made
  <2>6. temporary'[NameOf(t)] # Absent
    BY <2>5, AbsentAssumption DEF AbsentAssumption
  <2>7. NewFileTypeOK'
    BY <2>1, <2>3, <2>5, ThreadTypes DEF NewFileTypeOK
  <2>8. OwnName(t)
    BY <2>1, <2>5 DEF OwnName, Named
  <2>9. TicketsApart'
    BY <2>1, <2>3, TicketsAfter DEF Named
  <2>10. Holding(t)'
    BY <2>2, <2>3, <2>6 DEF Holding
  <2>11. TemporariesOK'
    BY <2>1, <2>2, <2>3, <2>4, <2>5, <2>6, <2>8, <2>10, TemporariesAfter
  <2>12. TriesOK'
    BY <2>1, <2>2, <2>3, ThreadTypes, TriesAfter
  <2> QED BY <2>7, <2>9, <2>11, <2>12 DEF NFInv
<1>8. CASE Publish(t)
  <2>1. /\ point[t] = "publish" /\ published' = temporary[NameOf(t)]
        /\ temporary' = [temporary EXCEPT ![NameOf(t)] = Absent]
        /\ Proceed(t, "sync") /\ UNCHANGED <<counter, orphans, kills>>
    BY <1>8 DEF Publish
  <2>2. /\ OthersAsBefore(t) /\ point'[t] = "sync" /\ point' \in [Thread -> Points]
        /\ operation' = operation /\ ticket' = ticket /\ tries' = tries /\ NameOf(t)' = NameOf(t)
    BY <2>1, Proceeds DEF Points
  <2>3. temporary[NameOf(t)] \in Made /\ temporary[NameOf(t)].whole /\ NameOf(t) \notin orphans
    BY <1>0, <2>1, ThreadTypes DEF NFInv, TemporariesOK, Holding
  <2>4. /\ temporary' \in [Temporary -> Made \cup {Absent}] /\ temporary'[NameOf(t)] = Absent
        /\ \A n \in Temporary : n # NameOf(t) => temporary'[n] = temporary[n]
    BY <1>0, <2>1, ThreadTypes
  <2>5. NewFileTypeOK'
    BY <2>1, <2>2, <2>3, <2>4, ThreadTypes DEF NewFileTypeOK
  <2>6. OwnName(t)
    BY <2>1, <2>4 DEF OwnName, Named
  <2>7. TicketsApart'
    BY <2>1, <2>2, TicketsAfter DEF Named
  <2>8. ~Holding(t)'
    BY <2>2 DEF Holding
  <2>9. TemporariesOK'
    BY <2>1, <2>2, <2>3, <2>4, <2>6, <2>8, TemporariesAfter
  <2>10. TriesOK'
    BY <2>1, <2>2, ThreadTypes, TriesAfter
  <2> QED BY <2>5, <2>7, <2>9, <2>10 DEF NFInv
<1>9. CASE PublishFails(t) \/ (SyncParent(t) /\ Proceed(t, "undo"))
  <2>1. /\ point[t] \in {"publish", "sync"} /\ Proceed(t, "undo")
        /\ UNCHANGED <<published, temporary, counter, orphans, kills>>
    BY <1>9 DEF PublishFails, SyncParent
  <2>2. /\ OthersAsBefore(t) /\ point'[t] = "undo" /\ point' \in [Thread -> Points]
        /\ operation' = operation /\ ticket' = ticket /\ tries' = tries /\ NameOf(t)' = NameOf(t)
    BY <2>1, Proceeds DEF Points
  <2>3. NewFileTypeOK'
    BY <2>1, <2>2, ThreadTypes DEF NewFileTypeOK
  <2>4. TicketsApart' /\ TemporariesOK'
    BY <2>1, <2>2, FilesAlone DEF Named
  <2>5. TriesOK'
    BY <2>1, <2>2, ThreadTypes, TriesAfter
  <2> QED BY <2>3, <2>4, <2>5 DEF NFInv
<1>10. CASE SyncParent(t) /\ Finish(t, "idle")
  <2>1. point[t] = "sync" /\ UNCHANGED <<published, temporary, counter, orphans, kills>>
    BY <1>10 DEF SyncParent
  <2>2. /\ OthersAsBefore(t) /\ point'[t] = "idle" /\ tries'[t] = 0
        /\ point' \in [Thread -> Points] /\ operation' \in [Thread -> Operation]
        /\ ticket' \in [Thread -> 0..MaxCounter] /\ tries' \in [Thread -> 0..MaxTries]
    BY <1>10, Finishes DEF Points
  <2>3. NewFileTypeOK'
    BY <2>1, <2>2, ThreadTypes DEF NewFileTypeOK
  <2>4. TicketsApart' /\ TemporariesOK'
    BY <2>1, <2>2, FilesAlone DEF Named, Holding
  <2>5. TriesOK'
    BY <2>1, <2>2, ThreadTypes, TriesAfter
  <2> QED BY <2>3, <2>4, <2>5 DEF NFInv
<1>11. CASE RemoveTemporary(t)
  <2>1. point[t] = "undo" /\ Finish(t, "idle") /\ UNCHANGED <<published, counter, kills>>
    BY <1>11 DEF RemoveTemporary
  <2>2. /\ OthersAsBefore(t) /\ point'[t] = "idle" /\ tries'[t] = 0
        /\ point' \in [Thread -> Points] /\ operation' \in [Thread -> Operation]
        /\ ticket' \in [Thread -> 0..MaxCounter] /\ tries' \in [Thread -> 0..MaxTries]
    BY <2>1, Finishes DEF Points
  <2>3. TicketsApart'
    BY <2>1, <2>2, TicketsAfter DEF Named
  <2>4. ~Holding(t)'
    BY <2>2 DEF Holding
  <2>5. temporary[NameOf(t)] # Absent => NameOf(t) \notin orphans
    BY <2>1 DEF NFInv, TemporariesOK, Holding
  <2>6. CASE temporary' = [temporary EXCEPT ![NameOf(t)] = Absent] /\ UNCHANGED orphans
    <3>1. /\ temporary' \in [Temporary -> Made \cup {Absent}] /\ temporary'[NameOf(t)] = Absent
          /\ \A n \in Temporary : n # NameOf(t) => temporary'[n] = temporary[n]
      BY <1>0, <2>6, ThreadTypes
    <3>2. NewFileTypeOK'
      BY <2>1, <2>2, <2>6, <3>1, ThreadTypes DEF NewFileTypeOK
    <3>3. OwnName(t)
      BY <2>1, <2>6, <3>1 DEF OwnName, Named
    <3>4. NameOf(t) \in orphans => temporary'[NameOf(t)] = temporary[NameOf(t)]
      BY <2>5, <3>1
    <3>5. TemporariesOK'
      BY <2>1, <2>2, <2>4, <2>6, <3>1, <3>3, <3>4, TemporariesAfter
    <3>6. TriesOK'
      BY <2>1, <2>2, <2>6, ThreadTypes, TriesAfter
    <3> QED BY <2>3, <3>2, <3>5, <3>6 DEF NFInv
  <2>7. CASE /\ temporary[NameOf(t)] # Absent /\ UNCHANGED temporary
             /\ orphans' = orphans \cup {NameOf(t)}
    <3>1. orphans' \subseteq Temporary
      BY <1>0, <2>7, ThreadTypes
    <3>2. NewFileTypeOK'
      BY <2>1, <2>2, <2>7, <3>1, ThreadTypes DEF NewFileTypeOK
    <3>3. OwnName(t)
      BY <2>1, <2>7, ThreadTypes DEF OwnName, Named
    <3>4. NameOf(t) \in orphans' /\ \A n \in orphans' \ orphans : temporary'[n] # Absent
      BY <2>7
    <3>5. TemporariesOK'
      BY <2>1, <2>2, <2>4, <2>7, <3>3, <3>4, TemporariesAfter
    <3>6. TriesOK'
      BY <2>1, <2>2, <2>7, <3>1, ThreadTypes, TriesAfter
    <3> QED BY <2>3, <3>2, <3>5, <3>6 DEF NFInv
  <2> QED BY <1>11, <2>6, <2>7 DEF RemoveTemporary
<1>12. SyncParent(t) => Proceed(t, "undo") \/ Finish(t, "idle")
  BY DEF SyncParent
<1> QED BY <1>1, <1>2, <1>3, <1>4, <1>5, <1>6, <1>7, <1>8, <1>9, <1>10, <1>11, <1>12

\* After a kill nothing but orphans is left, and the names are given again.
LEMMA KillStep ==
    ASSUME NFInv, Kill
    PROVE  NFInv'
<1>1. /\ counter' = 0 /\ point' = [t \in Thread |-> "idle"] /\ tries' = [t \in Thread |-> 0]
      /\ ticket' = [t \in Thread |-> 0] /\ operation' = [t \in Thread |-> "replace"]
      /\ orphans' = {n \in Temporary : temporary[n] # Absent}
      /\ UNCHANGED <<published, temporary>> /\ kills' = kills + 1 /\ kills < MaxKills
  BY DEF Kill
<1>2. kills' \in 0..MaxKills
  BY <1>1, ThreadTypes
<1>3. NewFileTypeOK'
  BY <1>1, <1>2, ThreadTypes DEF NewFileTypeOK, Points, Operation
<1>4. TicketsApart'
  BY <1>1 DEF TicketsApart, Named
<1>5. TemporariesOK'
  BY <1>1 DEF TemporariesOK, Holding
<1>6. TriesOK'
  BY <1>1 DEF TriesOK
<1> QED BY <1>3, <1>4, <1>5, <1>6 DEF NFInv

LEMMA NewFileKeeps == NFInv /\ [NewFileNext]_newFileVars => NFInv'
<1>1. ASSUME NFInv, UNCHANGED newFileVars PROVE NFInv'
  BY <1>1 DEF newFileVars, NFInv, NewFileTypeOK, TicketsApart, TemporariesOK, TriesOK, Holding, NameOf
<1> QED BY <1>1, ThreadStep, KillStep DEF NewFileNext

\* The names of create_temporary_file and temporary_path: at every point every
\* thread's is its own, and what is in the way of it is an orphan.
THEOREM NewFileInvariant == NewFileSpec => []NFInv
BY NewFileStarts, NewFileKeeps, PTL DEF NewFileSpec

\* Every variable keeps its type: what atomic_replace_file, create_new_file and
\* atomic_switch_symlink put in place is whole.
THEOREM NewFileTypeCorrect == NewFileSpec => []NewFileTypeOK
<1>1. NFInv => NewFileTypeOK
  BY DEF NFInv
<1> QED BY <1>1, NewFileInvariant, PTL

\* However many threads share a counter and however many processes were killed
\* under the same pid, create_temporary_file fails only among as many files
\* left behind as it tries names, and no thread removes another's.
THEOREM NamesStayApart == NewFileSpec => []NamesApart
<1>1. NFInv => TemporariesAccounted
  <2> SUFFICES ASSUME NFInv PROVE TemporariesAccounted
    OBVIOUS
  <2>1. ASSUME NEW n \in Temporary \ orphans, temporary[n] # Absent
        PROVE  Cardinality({t \in Thread : Holding(t) /\ NameOf(t) = n}) = 1
    <3>1. PICK t \in Thread : Holding(t) /\ NameOf(t) = n
      BY <2>1 DEF NFInv, TemporariesOK
    <3>2. \A u \in Thread : Holding(u) /\ NameOf(u) = n => u = t
      BY <3>1, Names DEF Holding, Named
    <3>3. {u \in Thread : Holding(u) /\ NameOf(u) = n} = {t}
      BY <3>1, <3>2
    <3> QED BY <3>3, FS_Singleton
  <2> QED BY <2>1 DEF NFInv, TemporariesOK, TemporariesAccounted
<1>2. NFInv => NamesSuffice
  BY DEF NFInv, TriesOK, NamesSuffice
<1> QED BY <1>1, <1>2, NewFileInvariant, PTL DEF NamesApart

\* rename_new and replace_existing put in place what the thread itself has
\* made, and create_new_file replaces nothing.
THEOREM PublishesOwn == NewFileSpec => PublishedIsOwn
<1> DEFINE Own == published' # published =>
                     \E t \in Thread : /\ point[t] = "publish" /\ published'.by = t
                                       /\ operation[t] = "create" => published = Absent
<1>1. ASSUME NFInv, NewFileNext PROVE Own
  <2> SUFFICES ASSUME published' # published
               PROVE  \E t \in Thread : /\ point[t] = "publish" /\ published'.by = t
                                        /\ operation[t] = "create" => published = Absent
    OBVIOUS
  <2>1. PICK t \in Thread : Publish(t)
    BY <1>1 DEF NewFileNext, Ask, LookAt, TakeName, OpenTemporary, TryAgain, OpenFails, WriteTemporary,
                PublishFails, SyncParent, RemoveTemporary, Kill
  <2>2. Holding(t) /\ point[t] = "publish" /\ published' = temporary[NameOf(t)]
    BY <1>1, <2>1 DEF Publish, NFInv, TemporariesOK, Holding
  <2>3. published'.by = t
    BY <1>1, <2>2 DEF NFInv, TemporariesOK
  <2>4. operation[t] = "create" => published = Absent
    BY <2>1 DEF Publish, Vacant
  <2> QED BY <2>2, <2>3, <2>4
<1>2. NFInv /\ [NewFileNext]_newFileVars => [Own]_newFileVars
  BY <1>1
<1> QED BY <1>2, NewFileInvariant, PTL DEF NewFileSpec, PublishedIsOwn

-----------------------------------------------------------------------------
(* Key generation.                                                         *)

Kept == {"create public", "fill public", "remove", "made"}

\* What each run knows of its files, whichever others are at work on the same
\* paths: a file in its name is where it was told to put it, the private key is
\* whole from the moment the public document is tried, and the public document
\* is never without it but when the run has removed it itself.
RunKnows(m) ==
    /\ stage[m] # "start" => private[m] \in Place /\ public[m] \in Place
    /\ \A p \in Place : keyFile[p] # Nothing /\ keyFile[p].by = m /\ keyFile[p].kind = "private" =>
         /\ p = private[m]
         /\ stage[m] \in Kept \cup {"fill private", "half failed", "killed"}
    /\ \A p \in Place : keyFile[p] # Nothing /\ keyFile[p].by = m /\ keyFile[p].kind = "public" =>
         /\ p = public[m]
         /\ stage[m] \in {"fill public", "remove", "made", "failed", "half failed", "killed"}
         /\ stage[m] # "failed" => OwnWhole(m, private[m], "private")
    /\ stage[m] \in Kept => OwnWhole(m, private[m], "private")
    /\ stage[m] = "fill private" =>
         keyFile[private[m]] = [by |-> m, kind |-> "private", whole |-> FALSE]
    /\ stage[m] = "fill public" =>
         keyFile[public[m]] = [by |-> m, kind |-> "public", whole |-> FALSE]
    /\ stage[m] = "made" => OwnWhole(m, public[m], "public")

KeyTypes ==
    /\ keyFile \in [Place -> KeyFile \cup {Foreign, Nothing}]
    /\ stage \in [Maker -> Stages]
    /\ private \in [Maker -> Place \cup {Nothing}]
    /\ public \in [Maker -> Place \cup {Nothing}]

KeyInv == KeyTypes /\ \A m \in Maker : RunKnows(m)

\* A new file of a run is no other's and is not nothing.
LEMMA NewKeyFile ==
    ASSUME NEW m \in Maker, NEW kind \in {"private", "public"}, NEW w \in BOOLEAN
    PROVE  /\ [by |-> m, kind |-> kind, whole |-> w] \in KeyFile
           /\ [by |-> m, kind |-> kind, whole |-> w] # Nothing
           /\ [by |-> m, kind |-> kind, whole |-> w] # Foreign
  BY MakerAssumption, NothingAssumption DEF KeyFile, Foreign

\* What is in the record of a file, and what filling it makes of it.
LEMMA FileRecord ==
    ASSUME NEW m \in Maker, NEW kind \in {"private", "public"}, NEW w \in BOOLEAN,
           NEW f, f = [by |-> m, kind |-> kind, whole |-> w]
    PROVE  /\ f.by = m /\ f.kind = kind
           /\ [f EXCEPT !.whole = TRUE] = [by |-> m, kind |-> kind, whole |-> TRUE]
<1>1. f \in KeyFile /\ f.by = m /\ f.kind = kind
  BY DEF KeyFile
<1> DEFINE g == [f EXCEPT !.whole = TRUE]
<1>2. g \in KeyFile /\ g.by = f.by /\ g.kind = f.kind /\ g.whole = TRUE
  BY <1>1 DEF KeyFile
<1> HIDE DEF g
<1>3. g = [by |-> m, kind |-> kind, whole |-> TRUE]
  BY <1>1, <1>2 DEF KeyFile
<1> QED BY <1>1, <1>3 DEF g

\* At the start no file is of any run.
LEMMA KeyStarts == KeyInit => KeyInv
<1> SUFFICES ASSUME KeyInit PROVE KeyInv
  OBVIOUS
<1>1. KeyTypes
  BY DEF KeyInit, KeyTypes, Stages
<1>2. ASSUME NEW m \in Maker, NEW p \in Place PROVE keyFile[p] = Nothing \/ keyFile[p].by # m
  <2>1. keyFile[p] \in {Foreign, Nothing}
    BY DEF KeyInit
  <2> QED BY <2>1, MakerAssumption DEF Foreign
<1>3. ASSUME NEW m \in Maker PROVE stage[m] = "start"
  BY DEF KeyInit
<1> QED BY <1>1, <1>2, <1>3 DEF KeyInv, RunKnows, Kept

\* What a run knows it goes on knowing while it stands still, since no other
\* touches its files.
LEMMA OthersKnow ==
    ASSUME KeyInv, NEW n \in Maker,
           stage'[n] = stage[n], private'[n] = private[n], public'[n] = public[n],
           \A p \in Place : \/ keyFile'[p] = keyFile[p]
                            \/ /\ keyFile[p] # Nothing => keyFile[p].by # n
                               /\ keyFile'[p] # Nothing => keyFile'[p].by # n
    PROVE  RunKnows(n)'
<1>1. RunKnows(n)
  BY DEF KeyInv
<1>2. ASSUME NEW p \in Place, NEW kind \in {"private", "public"}, NEW w \in BOOLEAN,
             keyFile[p] = [by |-> n, kind |-> kind, whole |-> w]
      PROVE  keyFile'[p] = keyFile[p]
  <2>1. keyFile[p] # Nothing /\ keyFile[p].by = n
    BY <1>2, NewKeyFile
  <2> QED BY <2>1
<1>3. ASSUME NEW p \in Place, keyFile'[p] # Nothing, keyFile'[p].by = n
      PROVE  keyFile'[p] = keyFile[p]
  BY <1>3
<1>4. stage[n] = "fill public" \/ stage[n] = "made" => stage[n] \in Kept
  BY DEF Kept
<1>5. stage[n] \in Kept \/ stage[n] # "start" => private[n] \in Place /\ public[n] \in Place
  BY <1>1 DEF RunKnows, Kept
<1>6. OwnWhole(n, private[n], "private") /\ private[n] \in Place
         => (OwnWhole(n, private[n], "private"))'
  BY <1>2 DEF OwnWhole
<1>7. (stage[n] \in Kept => OwnWhole(n, private[n], "private"))'
  BY <1>1, <1>5, <1>6 DEF RunKnows, OwnWhole
<1>8. (stage[n] = "fill public" =>
         keyFile[public[n]] = [by |-> n, kind |-> "public", whole |-> FALSE])'
  BY <1>1, <1>2, <1>4, <1>5 DEF RunKnows
<1>12. (stage[n] = "fill private" =>
          keyFile[private[n]] = [by |-> n, kind |-> "private", whole |-> FALSE])'
  BY <1>1, <1>2, <1>5 DEF RunKnows
<1>9. (stage[n] = "made" => OwnWhole(n, public[n], "public"))'
  BY <1>1, <1>2, <1>4, <1>5 DEF RunKnows, OwnWhole
<1>10. ASSUME NEW p \in Place, keyFile'[p] # Nothing, keyFile'[p].by = n,
              keyFile'[p].kind = "private"
       PROVE  p = private[n] /\ stage[n] \in Kept \cup {"fill private", "half failed", "killed"}
  BY <1>1, <1>3, <1>10 DEF RunKnows
<1>11. ASSUME NEW p \in Place, keyFile'[p] # Nothing, keyFile'[p].by = n,
              keyFile'[p].kind = "public"
       PROVE  /\ p = public[n]
              /\ stage[n] \in {"fill public", "remove", "made", "failed", "half failed", "killed"}
              /\ (stage[n] # "failed" => OwnWhole(n, private[n], "private"))'
  <2>1. keyFile[p] # Nothing /\ keyFile[p].by = n /\ keyFile[p].kind = "public"
    BY <1>3, <1>11
  <2>2. /\ p = public[n]
        /\ stage[n] \in {"fill public", "remove", "made", "failed", "half failed", "killed"}
        /\ stage[n] # "failed" => OwnWhole(n, private[n], "private")
    BY <1>1, <2>1 DEF RunKnows
  <2> QED BY <1>5, <1>6, <2>2
<1> QED BY <1>1, <1>7, <1>8, <1>9, <1>10, <1>11, <1>12 DEF RunKnows, OwnWhole

\* A step of a run that leaves its paths alone, and touches no file but its own
\* or a place where nothing was, only needs to be right for itself.
LEMMA OwnFilesOnly ==
    ASSUME KeyInv, NEW m \in Maker, NEW s \in Stages,
           stage' = [stage EXCEPT ![m] = s], UNCHANGED <<private, public>>,
           keyFile' \in [Place -> KeyFile \cup {Foreign, Nothing}],
           \A p \in Place : \/ keyFile'[p] = keyFile[p]
                            \/ /\ keyFile[p] # Nothing => keyFile[p].by = m
                               /\ keyFile'[p] # Nothing => keyFile'[p].by = m,
           RunKnows(m)'
    PROVE  KeyInv'
<1>1. KeyTypes'
  BY DEF KeyInv, KeyTypes
<1>2. ASSUME NEW n \in Maker, n # m PROVE RunKnows(n)'
  <2>1. stage'[n] = stage[n] /\ private'[n] = private[n] /\ public'[n] = public[n]
    BY <1>2 DEF KeyInv, KeyTypes
  <2>2. \A p \in Place : \/ keyFile'[p] = keyFile[p]
                         \/ /\ keyFile[p] # Nothing => keyFile[p].by # n
                            /\ keyFile'[p] # Nothing => keyFile'[p].by # n
    BY <1>2
  <2> QED BY <2>1, <2>2, OthersKnow
<1> QED BY <1>1, <1>2 DEF KeyInv

\* A file in the name of a run is one of the two kinds it makes.
LEMMA OwnFile ==
    ASSUME KeyInv, NEW m \in Maker, NEW p \in Place, keyFile[p] # Nothing, keyFile[p].by = m
    PROVE  keyFile[p] \in KeyFile /\ keyFile[p].kind \in {"private", "public"}
<1>1. keyFile[p] # Foreign
  BY MakerAssumption DEF Foreign
<1>2. keyFile[p] \in KeyFile
  BY <1>1 DEF KeyInv, KeyTypes
<1> QED BY <1>2 DEF KeyFile

\* Whatever a run does with its own files, it and the others know as before.
LEMMA KeyStep ==
    ASSUME KeyInv, [KeyNext]_keyVars
    PROVE  KeyInv'
<1>1. ASSUME NEW m \in Maker, KeyBegin(m) PROVE KeyInv'
  <2>1. RunKnows(m) /\ stage[m] = "start" /\ stage' = [stage EXCEPT ![m] = "check private"]
    BY <1>1 DEF KeyInv, KeyBegin, Reach
  <2>2. PICK p, q \in Place : /\ private' = [private EXCEPT ![m] = p]
                              /\ public' = [public EXCEPT ![m] = q]
    BY <1>1 DEF KeyBegin
  <2>3. KeyTypes'
    BY <1>1, <2>1, <2>2 DEF KeyInv, KeyTypes, KeyBegin, Stages
  <2>4. stage'[m] = "check private" /\ private'[m] \in Place /\ public'[m] \in Place
    BY <2>1, <2>2 DEF KeyInv, KeyTypes
  <2>5. RunKnows(m)'
    BY <1>1, <2>1, <2>4 DEF RunKnows, Kept, KeyBegin
  <2>6. ASSUME NEW n \in Maker, n # m PROVE RunKnows(n)'
    <3>1. stage'[n] = stage[n] /\ private'[n] = private[n] /\ public'[n] = public[n]
      BY <2>1, <2>2, <2>6 DEF KeyInv, KeyTypes
    <3> QED BY <1>1, <3>1, OthersKnow DEF KeyBegin
  <2> QED BY <2>3, <2>5, <2>6 DEF KeyInv
<1>2. ASSUME NEW m \in Maker, NEW s \in {"check public", "create private", "failed"},
             stage[m] \in {"check private", "check public", "create private"},
             Reach(m, s), UNCHANGED <<keyFile, private, public>>
      PROVE  KeyInv'
  <2>1. RunKnows(m) /\ stage'[m] = s /\ s \in Stages
    BY <1>2 DEF KeyInv, KeyTypes, Reach, Stages
  <2>2. RunKnows(m)'
    BY <1>2, <2>1 DEF RunKnows, OwnWhole, Kept
  <2> QED BY <1>2, <2>1, <2>2, OwnFilesOnly DEF KeyInv, KeyTypes, Reach
<1>3. ASSUME NEW m \in Maker, NEW s \in {"remove", "half failed", "killed"},
             stage[m] \notin {"start", "failed"},
             s = "remove" => stage[m] \in Kept,
             Reach(m, s), UNCHANGED <<keyFile, private, public>>
      PROVE  KeyInv'
  <2>1. RunKnows(m) /\ stage'[m] = s /\ s \in Stages
    BY <1>3 DEF KeyInv, KeyTypes, Reach, Stages
  <2>2. RunKnows(m)'
    BY <1>3, <2>1 DEF RunKnows, OwnWhole, Kept
  <2> QED BY <1>3, <2>1, <2>2, OwnFilesOnly DEF KeyInv, KeyTypes, Reach
<1>4. ASSUME NEW m \in Maker, CreatePrivate(m) PROVE KeyInv'
  <2> DEFINE own == [by |-> m, kind |-> "private", whole |-> FALSE]
  <2>1. /\ own \in KeyFile /\ own # Nothing
        /\ own.by = m /\ own.kind = "private"
    BY NewKeyFile
  <2>2. RunKnows(m) /\ stage[m] = "create private"
    BY <1>4 DEF KeyInv, CreatePrivate
  <2>3. private[m] \in Place
    BY <2>2 DEF RunKnows
  <2>4. CASE /\ keyFile[private[m]] = Nothing
             /\ keyFile' = [keyFile EXCEPT ![private[m]] = own]
             /\ Reach(m, "fill private")
    <3>1. /\ keyFile'[private[m]] = own
          /\ \A p \in Place : p # private[m] => keyFile'[p] = keyFile[p]
      BY <2>3, <2>4 DEF KeyInv, KeyTypes
    <3>2. stage'[m] = "fill private" /\ "fill private" \in Stages
      BY <2>4 DEF KeyInv, KeyTypes, Reach, Stages
    <3>3. UNCHANGED <<private, public>>
      BY <1>4 DEF CreatePrivate
    <3>4. keyFile' \in [Place -> KeyFile \cup {Foreign, Nothing}]
      BY <2>1, <2>4 DEF KeyInv, KeyTypes
    <3> HIDE DEF own
    <3>5. \A p \in Place : keyFile'[p] # Nothing /\ keyFile'[p].by = m => p = private[m]
      BY <2>2, <3>1, OwnFile DEF RunKnows, Kept
    <3>6. RunKnows(m)'
      BY <2>1, <2>2, <2>3, <3>1, <3>2, <3>3, <3>5 DEF RunKnows, Kept, own
    <3> QED BY <2>1, <2>4, <3>1, <3>2, <3>3, <3>4, <3>6, OwnFilesOnly DEF Reach
  <2>5. CASE Reach(m, "failed") /\ UNCHANGED keyFile
    BY <1>2, <1>4, <2>2, <2>5 DEF CreatePrivate
  <2> QED BY <1>4, <2>4, <2>5 DEF CreatePrivate, CreateNew
<1>5. ASSUME NEW m \in Maker, FillPrivate(m) PROVE KeyInv'
  <2> DEFINE own == [by |-> m, kind |-> "private", whole |-> TRUE]
  <2>1. /\ own \in KeyFile /\ own # Nothing
        /\ own.by = m /\ own.kind = "private"
    BY NewKeyFile
  <2>2. RunKnows(m) /\ stage[m] = "fill private"
    BY <1>5 DEF KeyInv, FillPrivate
  <2>3. private[m] \in Place /\ keyFile[private[m]] = [by |-> m, kind |-> "private", whole |-> FALSE]
    BY <2>2 DEF RunKnows
  <2>4. ASSUME keyFile' = [keyFile EXCEPT ![private[m]].whole = TRUE],
               NEW s \in {"create public", "half failed"}, Reach(m, s)
        PROVE  KeyInv'
    <3>1. /\ keyFile'[private[m]] = own
          /\ \A p \in Place : p # private[m] => keyFile'[p] = keyFile[p]
      <4>1. /\ keyFile'[private[m]] = [keyFile[private[m]] EXCEPT !.whole = TRUE]
            /\ \A p \in Place : p # private[m] => keyFile'[p] = keyFile[p]
        BY <2>3, <2>4 DEF KeyInv, KeyTypes
      <4>2. [keyFile[private[m]] EXCEPT !.whole = TRUE] = own
        BY <2>3, FileRecord
      <4> QED BY <4>1, <4>2
    <3>2. stage'[m] = s /\ s \in Stages
      BY <2>4 DEF KeyInv, KeyTypes, Reach, Stages
    <3>3. UNCHANGED <<private, public>>
      BY <1>5 DEF FillPrivate
    <3>4. keyFile' \in [Place -> KeyFile \cup {Foreign, Nothing}]
      BY <2>1, <2>3, <2>4, <3>1 DEF KeyInv, KeyTypes
    <3>5. \A p \in Place : p # private[m] /\ keyFile[p] # Nothing => keyFile[p].by # m
      BY <2>2, OwnFile DEF RunKnows, Kept
    <3>6. keyFile[private[m]].by = m
      BY <2>3, FileRecord
    <3> HIDE DEF own
    <3>7. RunKnows(m)'
      BY <2>1, <2>2, <2>3, <3>1, <3>2, <3>3, <3>5 DEF RunKnows, Kept, OwnWhole, own
    <3> QED BY <2>1, <2>4, <3>1, <3>2, <3>3, <3>4, <3>6, <3>7, OwnFilesOnly DEF Reach
  <2>5. CASE Reach(m, "half failed") /\ UNCHANGED keyFile
    BY <1>3, <1>5, <2>2, <2>5 DEF FillPrivate
  <2> QED BY <1>5, <2>4, <2>5 DEF FillPrivate, Reach
<1>6. ASSUME NEW m \in Maker, CreatePublic(m) PROVE KeyInv'
  <2> DEFINE own == [by |-> m, kind |-> "public", whole |-> FALSE]
  <2>1. /\ own \in KeyFile /\ own # Nothing
        /\ own.by = m /\ own.kind = "public"
    BY NewKeyFile
  <2>2. RunKnows(m) /\ stage[m] = "create public" /\ stage[m] \in Kept
    BY <1>6 DEF KeyInv, CreatePublic, Kept
  <2>3. /\ private[m] \in Place /\ public[m] \in Place
        /\ OwnWhole(m, private[m], "private")
    BY <2>2 DEF RunKnows
  <2>4. CASE /\ keyFile[public[m]] = Nothing
             /\ keyFile' = [keyFile EXCEPT ![public[m]] = own]
             /\ Reach(m, "fill public")
    <3>1. /\ keyFile'[public[m]] = own
          /\ \A p \in Place : p # public[m] => keyFile'[p] = keyFile[p]
      BY <2>3, <2>4 DEF KeyInv, KeyTypes
    <3>2. stage'[m] = "fill public" /\ "fill public" \in Stages
      BY <2>4 DEF KeyInv, KeyTypes, Reach, Stages
    <3>3. UNCHANGED <<private, public>>
      BY <1>6 DEF CreatePublic
    <3>4. keyFile' \in [Place -> KeyFile \cup {Foreign, Nothing}]
      BY <2>1, <2>4 DEF KeyInv, KeyTypes
    <3>5. private[m] # public[m]
      BY <2>3, <2>4, NewKeyFile DEF OwnWhole
    <3>6. keyFile'[private[m]] = [by |-> m, kind |-> "private", whole |-> TRUE]
      BY <2>3, <3>1, <3>5 DEF OwnWhole
    <3> HIDE DEF own
    <3>7. RunKnows(m)'
      BY <2>1, <2>2, <2>3, <3>1, <3>2, <3>3, <3>6 DEF RunKnows, Kept, OwnWhole, own
    <3> QED BY <2>1, <2>4, <3>1, <3>2, <3>3, <3>4, <3>7, OwnFilesOnly DEF Reach
  <2>5. CASE Reach(m, "remove") /\ UNCHANGED keyFile
    BY <1>3, <1>6, <2>2, <2>5 DEF CreatePublic
  <2> QED BY <1>6, <2>4, <2>5 DEF CreatePublic, CreateNew
<1>7. ASSUME NEW m \in Maker, FillPublic(m) PROVE KeyInv'
  <2> DEFINE own == [by |-> m, kind |-> "public", whole |-> TRUE]
  <2>1. /\ own \in KeyFile /\ own # Nothing
        /\ own.by = m /\ own.kind = "public"
    BY NewKeyFile
  <2>2. RunKnows(m) /\ stage[m] = "fill public" /\ stage[m] \in Kept
    BY <1>7 DEF KeyInv, FillPublic, Kept
  <2>3. /\ private[m] \in Place /\ public[m] \in Place
        /\ OwnWhole(m, private[m], "private")
        /\ keyFile[public[m]] = [by |-> m, kind |-> "public", whole |-> FALSE]
    BY <2>2 DEF RunKnows
  <2>4. ASSUME keyFile' = [keyFile EXCEPT ![public[m]].whole = TRUE],
               NEW s \in {"made", "remove"}, Reach(m, s)
        PROVE  KeyInv'
    <3>1. /\ keyFile'[public[m]] = own
          /\ \A p \in Place : p # public[m] => keyFile'[p] = keyFile[p]
      <4>1. /\ keyFile'[public[m]] = [keyFile[public[m]] EXCEPT !.whole = TRUE]
            /\ \A p \in Place : p # public[m] => keyFile'[p] = keyFile[p]
        BY <2>3, <2>4 DEF KeyInv, KeyTypes
      <4>2. [keyFile[public[m]] EXCEPT !.whole = TRUE] = own
        BY <2>3, FileRecord
      <4> QED BY <4>1, <4>2
    <3>2. stage'[m] = s /\ s \in Stages
      BY <2>4 DEF KeyInv, KeyTypes, Reach, Stages
    <3>3. UNCHANGED <<private, public>>
      BY <1>7 DEF FillPublic
    <3>4. keyFile' \in [Place -> KeyFile \cup {Foreign, Nothing}]
      BY <2>1, <2>3, <2>4, <3>1 DEF KeyInv, KeyTypes
    <3>5. private[m] # public[m]
      <4>1. keyFile[private[m]].kind = "private" /\ keyFile[public[m]].kind = "public"
        BY <2>3 DEF OwnWhole
      <4> QED BY <4>1
    <3>6. keyFile'[private[m]] = [by |-> m, kind |-> "private", whole |-> TRUE]
      BY <2>3, <3>1, <3>5 DEF OwnWhole
    <3>7. keyFile[public[m]].by = m
      BY <2>3, FileRecord
    <3> HIDE DEF own
    <3>8. RunKnows(m)'
      BY <2>1, <2>2, <2>3, <3>1, <3>2, <3>3, <3>6 DEF RunKnows, Kept, OwnWhole, own
    <3> QED BY <2>1, <2>4, <3>1, <3>2, <3>3, <3>4, <3>7, <3>8, OwnFilesOnly DEF Reach
  <2>5. CASE Reach(m, "remove") /\ UNCHANGED keyFile
    BY <1>3, <1>7, <2>2, <2>5 DEF FillPublic
  <2> QED BY <1>7, <2>4, <2>5 DEF FillPublic, Reach
<1>8. ASSUME NEW m \in Maker, RemovePrivate(m) PROVE KeyInv'
  <2>1. RunKnows(m) /\ stage[m] = "remove" /\ stage[m] \in Kept
    BY <1>8 DEF KeyInv, RemovePrivate, Kept
  <2>2. /\ private[m] \in Place /\ public[m] \in Place
        /\ OwnWhole(m, private[m], "private")
    BY <2>1 DEF RunKnows
  <2>3. CASE keyFile' = [keyFile EXCEPT ![private[m]] = Nothing] /\ Reach(m, "failed")
    <3>1. /\ keyFile'[private[m]] = Nothing
          /\ \A p \in Place : p # private[m] => keyFile'[p] = keyFile[p]
      BY <2>2, <2>3 DEF KeyInv, KeyTypes
    <3>2. stage'[m] = "failed" /\ "failed" \in Stages
      BY <2>3 DEF KeyInv, KeyTypes, Reach, Stages
    <3>3. UNCHANGED <<private, public>>
      BY <1>8 DEF RemovePrivate
    <3>4. keyFile' \in [Place -> KeyFile \cup {Foreign, Nothing}]
      BY <2>3 DEF KeyInv, KeyTypes
    <3>5. keyFile[private[m]].by = m
      BY <2>2 DEF OwnWhole
    <3>6. RunKnows(m)'
      BY <2>1, <2>2, <3>1, <3>2, <3>3 DEF RunKnows, Kept
    <3> QED BY <2>3, <3>1, <3>2, <3>3, <3>4, <3>5, <3>6, OwnFilesOnly DEF Reach
  <2>4. CASE Reach(m, "half failed") /\ UNCHANGED keyFile
    BY <1>3, <1>8, <2>1, <2>4 DEF RemovePrivate
  <2> QED BY <1>8, <2>3, <2>4 DEF RemovePrivate
<1>9. ASSUME NEW p \in Place, SomebodyCreates(p) PROVE KeyInv'
  <2>1. KeyTypes'
    BY <1>9 DEF KeyInv, KeyTypes, SomebodyCreates
  <2>2. ASSUME NEW n \in Maker PROVE RunKnows(n)'
    <3>1. keyFile[p] = Nothing /\ keyFile'[p] = Foreign /\ Foreign.by # n
      BY <1>9, MakerAssumption DEF SomebodyCreates, KeyInv, KeyTypes, Foreign
    <3>2. \A q \in Place : q # p => keyFile'[q] = keyFile[q]
      BY <1>9 DEF SomebodyCreates, KeyInv, KeyTypes
    <3>3. \A q \in Place :
            \/ keyFile'[q] = keyFile[q]
            \/ /\ keyFile[q] # Nothing => keyFile[q].by # n
               /\ keyFile'[q] # Nothing => keyFile'[q].by # n
      BY <3>1, <3>2
    <3>4. stage'[n] = stage[n] /\ private'[n] = private[n] /\ public'[n] = public[n]
      BY <1>9 DEF SomebodyCreates
    <3>5. KeyInv
      OBVIOUS
    <3> QED BY <3>3, <3>4, <3>5, OthersKnow
  <2> QED BY <2>1, <2>2 DEF KeyInv
<1>10. CASE UNCHANGED keyVars
  <2>1. KeyTypes'
    BY <1>10 DEF keyVars, KeyInv, KeyTypes
  <2>2. UNCHANGED <<keyFile, stage, private, public>> /\ KeyInv
    BY <1>10 DEF keyVars
  <2>3. ASSUME NEW n \in Maker PROVE RunKnows(n)'
    BY <2>2, OthersKnow
  <2> QED BY <2>1, <2>3 DEF KeyInv
<1>11. ASSUME NEW m \in Maker, CheckNew(m) PROVE KeyInv'
  BY <1>2, <1>11 DEF CheckNew
<1>12. ASSUME NEW m \in Maker, KeyKilled(m) PROVE KeyInv'
  BY <1>3, <1>12 DEF KeyKilled
<1> QED
  BY <1>1, <1>4, <1>5, <1>6, <1>7, <1>8, <1>9, <1>10, <1>11, <1>12 DEF KeyNext

\* Every reachable state satisfies the invariant.
THEOREM KeyInvariant == KeySpec => []KeyInv
  BY KeyStarts, KeyStep, PTL DEF KeySpec

\* Every variable keeps its type, and a key that is being written is the run's
\* own new file (write_new).
THEOREM KeyTypeCorrect == KeySpec => []KeyTypeOK
<1>1. KeyInv => KeyTypeOK
  BY DEF KeyInv, KeyTypes, KeyTypeOK, RunKnows
<1> QED BY <1>1, KeyInvariant, PTL

\* Success leaves both files, a refusal no private key, and a public document
\* is only ever beside its key (generate_key).
THEOREM PairedOrNothing == KeySpec => []KeysPaired
<1>1. ASSUME KeyInv, NEW m \in Maker, NEW p \in Place, NEW kind \in {"private", "public"},
             OwnWhole(m, p, kind)
      PROVE  keyFile[p] # Nothing /\ keyFile[p].by = m /\ keyFile[p].kind = kind
  <2>1. keyFile[p] = [by |-> m, kind |-> kind, whole |-> TRUE]
    BY <1>1 DEF OwnWhole
  <2>2. [by |-> m, kind |-> kind, whole |-> TRUE] # Nothing
    BY NewKeyFile
  <2>3. keyFile[p].by = m /\ keyFile[p].kind = kind
    BY <2>1, FileRecord
  <2> QED BY <2>1, <2>2, <2>3
<1>2. ASSUME KeyInv, NEW m \in Maker
      PROVE  /\ stage[m] = "made" =>
                  OwnWhole(m, private[m], "private") /\ OwnWhole(m, public[m], "public")
             /\ stage[m] = "failed" => \A p \in Place : ~OwnWhole(m, p, "private")
             /\ \A p \in Place : OwnWhole(m, p, "public") /\ stage[m] # "failed" =>
                  OwnWhole(m, private[m], "private")
  <2>1. RunKnows(m)
    BY <1>2 DEF KeyInv
  <2>2. stage[m] = "made" =>
          OwnWhole(m, private[m], "private") /\ OwnWhole(m, public[m], "public")
    BY <2>1 DEF RunKnows, Kept
  <2>3. ASSUME stage[m] = "failed", NEW p \in Place, OwnWhole(m, p, "private") PROVE FALSE
    BY <1>1, <1>2, <2>1, <2>3 DEF RunKnows, Kept
  <2>4. ASSUME NEW p \in Place, OwnWhole(m, p, "public"), stage[m] # "failed"
        PROVE  OwnWhole(m, private[m], "private")
    <3>1. keyFile[p] # Nothing /\ keyFile[p].by = m /\ keyFile[p].kind = "public"
      BY <1>1, <1>2, <2>4
    <3> QED BY <2>1, <2>4, <3>1 DEF RunKnows
  <2> QED BY <2>2, <2>3, <2>4
<1>3. KeyInv => KeysPaired
  BY <1>2 DEF KeysPaired
<1> QED BY <1>3, KeyInvariant, PTL

\* No file is overwritten or removed but by the run that created it
\* (create_new in write_new).
THEOREM NothingOverwritten == KeySpec => KeysNotReplaced
<1>1. ASSUME KeyInv, [KeyNext]_keyVars
      PROVE  [\A p \in Place :
                keyFile[p] # Nothing /\ keyFile'[p] # keyFile[p] =>
                    \E m \in Maker : keyFile[p].by = m /\ stage'[m] # stage[m]]_keyVars
  <2> SUFFICES ASSUME KeyNext, NEW p \in Place,
                      keyFile[p] # Nothing, keyFile'[p] # keyFile[p]
               PROVE  \E m \in Maker : keyFile[p].by = m /\ stage'[m] # stage[m]
    BY <1>1
  <2>1. ASSUME NEW m \in Maker,
               \/ KeyBegin(m) \/ CheckNew(m) \/ CreatePrivate(m) \/ FillPrivate(m)
               \/ CreatePublic(m) \/ FillPublic(m) \/ RemovePrivate(m) \/ KeyKilled(m)
        PROVE  keyFile[p].by = m /\ stage'[m] # stage[m]
    <3>1. RunKnows(m) /\ stage[m] \in Stages /\ keyFile \in [Place -> KeyFile \cup {Foreign, Nothing}]
      BY <1>1 DEF KeyInv, KeyTypes
    <3>2. FillPrivate(m) \/ FillPublic(m) \/ RemovePrivate(m)
      BY <2>1, <3>1
         DEF KeyBegin, CheckNew, CreatePrivate, CreatePublic, KeyKilled, CreateNew, RunKnows, Kept
    <3>3. CASE FillPrivate(m)
      <4>1. p = private[m] /\ stage'[m] # stage[m]
        BY <1>1, <3>1, <3>3 DEF FillPrivate, Reach, KeyInv, KeyTypes
      <4>2. keyFile[private[m]] = [by |-> m, kind |-> "private", whole |-> FALSE]
        BY <3>1, <3>3 DEF FillPrivate, RunKnows
      <4> QED BY <4>1, <4>2
    <3>4. CASE FillPublic(m)
      <4>1. p = public[m] /\ stage'[m] # stage[m]
        BY <1>1, <3>1, <3>4 DEF FillPublic, Reach, KeyInv, KeyTypes
      <4>2. keyFile[public[m]] = [by |-> m, kind |-> "public", whole |-> FALSE]
        BY <3>1, <3>4 DEF FillPublic, RunKnows
      <4> QED BY <4>1, <4>2
    <3>5. CASE RemovePrivate(m)
      <4>1. p = private[m] /\ stage'[m] # stage[m]
        BY <1>1, <3>1, <3>5 DEF RemovePrivate, Reach, KeyInv, KeyTypes
      <4>2. OwnWhole(m, private[m], "private")
        BY <3>1, <3>5 DEF RemovePrivate, RunKnows, Kept
      <4> QED BY <4>1, <4>2 DEF OwnWhole
    <3> QED BY <3>2, <3>3, <3>4, <3>5
  <2>2. ASSUME NEW q \in Place, SomebodyCreates(q) PROVE FALSE
    BY <1>1, <2>2 DEF SomebodyCreates, KeyInv, KeyTypes
  <2> QED BY <2>1, <2>2 DEF KeyNext
<1> QED BY <1>1, KeyInvariant, PTL DEF KeySpec, KeysNotReplaced

-----------------------------------------------------------------------------
(* The files and the values in them.                                       *)

LEMMA Paths ==
    /\ \A t \in Target : Archive(t) \in Artifact /\ Checksum(t) \in Artifact
    /\ Manifest \in Artifact /\ Signatures \in Artifact /\ Manifest # Signatures
    /\ \A t, u \in Target : /\ Archive(t) # Checksum(u)
                            /\ t # u => Archive(t) # Archive(u) /\ Checksum(t) # Checksum(u)
    /\ \A t \in Target : {Archive(t), Checksum(t)} \cap {Manifest, Signatures} = {}
    /\ \A f \in Artifact : \/ f \in {Manifest, Signatures}
                           \/ \E t \in Target : f = Archive(t) \/ f = Checksum(t)
<1>1. Manifest # Signatures
  BY DEF Manifest, Signatures
<1>2. \A t, u \in Target : /\ Archive(t) # Checksum(u)
                           /\ t # u => Archive(t) # Archive(u) /\ Checksum(t) # Checksum(u)
  BY DEF Archive, Checksum
<1>3. ASSUME NEW t \in Target, NEW x \in {Archive(t), Checksum(t)}, NEW y \in {Manifest, Signatures}
      PROVE  x # y
  <2>1. Len(x) = 2 /\ Len(y) = 1
    BY <1>3 DEF Archive, Checksum, Manifest, Signatures
  <2> QED BY <2>1
<1> QED BY <1>1, <1>2, <1>3 DEF Artifact

LEMMA ManifestValues ==
    /\ NoAssets \in ManifestValue /\ DOMAIN NoAssets = {}
    /\ \A a \in ManifestValue : DOMAIN a \subseteq Target /\ a \in [DOMAIN a -> Build \cup {Mixed}]
    /\ \A a \in ManifestValue, t \in Target, b \in Build \cup {Mixed} :
         [x \in DOMAIN a \cup {t} |-> IF x = t THEN b ELSE a[x]] \in ManifestValue
<1>1. NoAssets \in [{} -> Build \cup {Mixed}] /\ DOMAIN NoAssets = {}
  BY DEF NoAssets
<1>2. NoAssets \in ManifestValue
  BY <1>1 DEF ManifestValue
<1>3. ASSUME NEW a \in ManifestValue
      PROVE  DOMAIN a \subseteq Target /\ a \in [DOMAIN a -> Build \cup {Mixed}]
  BY DEF ManifestValue
<1>4. ASSUME NEW a \in ManifestValue, NEW t \in Target, NEW b \in Build \cup {Mixed}
      PROVE  [x \in DOMAIN a \cup {t} |-> IF x = t THEN b ELSE a[x]] \in ManifestValue
  <2>1. [x \in DOMAIN a \cup {t} |-> IF x = t THEN b ELSE a[x]] \in [DOMAIN a \cup {t} -> Build \cup {Mixed}]
    BY <1>3
  <2>2. DOMAIN a \cup {t} \in SUBSET Target
    BY <1>3
  <2> QED BY <2>1, <2>2 DEF ManifestValue
<1> QED BY <1>1, <1>2, <1>3, <1>4

LEMMA EnvelopeValues ==
    /\ Unsigned \in EnvelopeValue
    /\ \A e \in EnvelopeValue, k \in Key, a \in ManifestValue :
         [x \in DOMAIN e \cup {k} |-> IF x = k THEN a ELSE e[x]] \in EnvelopeValue
<1>1. Unsigned \in [{} -> ManifestValue]
  BY DEF Unsigned
<1>2. Unsigned \in EnvelopeValue
  BY <1>1 DEF EnvelopeValue
<1>3. ASSUME NEW e \in EnvelopeValue
      PROVE  DOMAIN e \subseteq Key /\ e \in [DOMAIN e -> ManifestValue]
  BY DEF EnvelopeValue
<1>4. ASSUME NEW e \in EnvelopeValue, NEW k \in Key, NEW a \in ManifestValue
      PROVE  [x \in DOMAIN e \cup {k} |-> IF x = k THEN a ELSE e[x]] \in EnvelopeValue
  <2>1. [x \in DOMAIN e \cup {k} |-> IF x = k THEN a ELSE e[x]] \in [DOMAIN e \cup {k} -> ManifestValue]
    BY <1>3
  <2>2. DOMAIN e \cup {k} \in SUBSET Key
    BY <1>3
  <2> QED BY <2>1, <2>2 DEF EnvelopeValue
<1> QED BY <1>2, <1>4

-----------------------------------------------------------------------------
(* The inductive invariant.                                                *)

Doings == {"idle", "probe", "contents", "inspect", "truncate", "fill", "finished", "read", "sign",
           "signed", "check", "archive", "checksum", "rehash", "verified", "refused"}

ToolTypes ==
    /\ scale \in Sizes
    /\ anchor \subseteq Key
    /\ job \in [Worker -> {"manifest", "sign", "append", "verify", Missing}]
    /\ doing \in [Worker -> Doings]
    /\ todo \in [Worker -> SUBSET Target]
    /\ target \in [Worker -> Target \cup {Missing}]
    /\ asset \in [Worker -> Build \cup {Mixed, Missing}]
    /\ assets \in [Worker -> ManifestValue]
    /\ key \in [Worker -> Key \cup {Missing}]
    /\ output \in [Worker -> Artifact \cup {Missing}]
    /\ written = [w \in Worker |-> written[w]]
    /\ alone \subseteq Worker

\* A manifest describes archives that passed inspection.
OfUsable(a) == \A t \in DOMAIN a : a[t] \in Usable

\* Archives are only replaced as a whole, and every file holds what it should.
DiskOK ==
    /\ disk = [f \in Artifact |-> disk[f]]
    /\ \A t \in Target : /\ disk[Archive(t)] \in Build \cup {Missing}
                         /\ disk[Checksum(t)] \in Build \cup {Missing, Torn}
    /\ disk[Manifest] \in ManifestValue \cup {Missing, Torn}
    /\ disk[Signatures] \in EnvelopeValue \cup {Missing, Torn}
    /\ Intact(Manifest) => OfUsable(disk[Manifest])

\* What a command writes, and from what it has it.
Writing(w) ==
    \/ /\ job[w] = "manifest" /\ target[w] \in Target /\ asset[w] \in Usable
       /\ output[w] = Checksum(target[w]) /\ written[w] = asset[w]
    \/ job[w] = "manifest" /\ output[w] = Manifest /\ written[w] = assets[w]
    \/ /\ job[w] \in {"sign", "append"} /\ output[w] = Signatures
       /\ written[w] \in EnvelopeValue
       /\ key[w] \in DOMAIN written[w] /\ written[w][key[w]] = assets[w]

WorkerOK(w) ==
    /\ doing[w] = "idle" => OfUsable(assets[w])
    /\ doing[w] # "idle" =>
         /\ job[w] \in {"manifest", "sign", "append", "verify"}
         /\ job[w] = "manifest" =>
              /\ doing[w] \in {"probe", "contents", "inspect", "truncate", "fill",
                              "finished", "refused"}
              /\ OfUsable(assets[w])
         /\ job[w] \in {"sign", "append"} =>
              /\ doing[w] \in {"read", "sign", "truncate", "fill", "signed", "refused"}
              /\ key[w] \in Key
         /\ job[w] = "verify" =>
              doing[w] \in {"read", "check", "archive", "checksum", "rehash",
                            "verified", "refused"}
    /\ doing[w] = "contents" => target[w] \in Target /\ asset[w] \in Build
    /\ doing[w] = "inspect" => target[w] \in Target /\ asset[w] \in Usable \cup {Mixed}
    /\ doing[w] \in {"truncate", "fill"} => Writing(w)
    /\ \/ output[w] = Missing /\ written[w] = Missing
       \/ output[w] \in Artifact /\ written[w] \in Holds(output[w])

\* What a command knows of files that nobody else has touched since it began.
SignerKnows(w) ==
    /\ doing[w] \in {"sign", "truncate", "fill"} => Intact(Manifest) /\ assets[w] = disk[Manifest]
    /\ doing[w] = "fill" => disk[Signatures] = Torn
    /\ doing[w] = "signed" =>
         /\ Intact(Signatures) /\ key[w] \in DOMAIN disk[Signatures]
         /\ disk[Signatures][key[w]] = disk[Manifest]

VerifierKnows(w) ==
    /\ doing[w] \in {"check", "archive", "checksum", "rehash"} =>
         Intact(Manifest) /\ assets[w] = disk[Manifest]
    /\ doing[w] \in {"archive", "checksum", "rehash"} =>
         /\ Intact(Signatures) /\ Trusted(assets[w], disk[Signatures])
         /\ todo[w] \subseteq DOMAIN assets[w]
         /\ \A t \in DOMAIN assets[w] \ todo[w] :
              disk[Archive(t)] = assets[w][t] /\ disk[Checksum(t)] = assets[w][t]
    /\ doing[w] \in {"checksum", "rehash"} => target[w] \in todo[w]
    /\ doing[w] = "rehash" => disk[Checksum(target[w])] = assets[w][target[w]]
    /\ doing[w] = "verified" => Publishable
    /\ doing[w] = "refused" => ~Publishable

AloneOK(w) ==
    w \in alone =>
        /\ job[w] \in {"sign", "append"} => SignerKnows(w)
        /\ job[w] = "verify" => VerifierKnows(w)

ToolInv ==
    /\ ToolTypes
    /\ DiskOK
    /\ \A w \in Worker : WorkerOK(w) /\ AloneOK(w)

-----------------------------------------------------------------------------
(* A step of one command.                                                  *)

OthersGoOn(w) ==
    \A u \in Worker \ {w} :
        /\ doing'[u] = doing[u] /\ job'[u] = job[u] /\ todo'[u] = todo[u] /\ target'[u] = target[u]
        /\ asset'[u] = asset[u] /\ assets'[u] = assets[u] /\ key'[u] = key[u]
        /\ output'[u] = output[u] /\ written'[u] = written[u]

\* Whoever is still alone has seen no change.
LEMMA OneWorker ==
    ASSUME ToolInv, NEW w \in Worker, OthersGoOn(w), UNCHANGED fixed,
           \A u \in Worker \ {w} : u \in alone' => u \in alone /\ disk' = disk,
           ToolTypes', DiskOK', WorkerOK(w)', AloneOK(w)'
    PROVE  ToolInv'
<1>1. ASSUME NEW u \in Worker \ {w} PROVE WorkerOK(u)' /\ AloneOK(u)'
  <2>1. WorkerOK(u) /\ AloneOK(u)
    BY DEF ToolInv
  <2>2. /\ doing'[u] = doing[u] /\ job'[u] = job[u] /\ todo'[u] = todo[u] /\ target'[u] = target[u]
        /\ asset'[u] = asset[u] /\ assets'[u] = assets[u] /\ key'[u] = key[u]
        /\ output'[u] = output[u] /\ written'[u] = written[u]
    BY DEF OthersGoOn
  <2>3. WorkerOK(u)'
    BY <2>1, <2>2 DEF WorkerOK, Writing
  <2>4. ASSUME u \in alone' PROVE AloneOK(u)'
    <3>1. u \in alone /\ disk' = disk /\ anchor' = anchor
      BY <2>4 DEF fixed
    <3>2. SignerKnows(u) => SignerKnows(u)'
      BY <2>2, <3>1 DEF SignerKnows, Intact
    <3>3. Publishable' <=> Publishable
      BY <3>1 DEF Publishable, Intact, Trusted, Listed
    <3>4. VerifierKnows(u) => VerifierKnows(u)'
      BY <2>2, <3>1, <3>3 DEF VerifierKnows, Intact, Trusted
    <3> QED BY <2>1, <2>2, <3>1, <3>2, <3>4 DEF AloneOK
  <2> QED BY <2>3, <2>4 DEF AloneOK
<1> QED BY <1>1 DEF ToolInv

LEMMA DiskSame ==
    ASSUME ToolInv, UNCHANGED <<disk, fixed>>
    PROVE  DiskOK' /\ (Publishable' <=> Publishable)
<1>1. UNCHANGED <<disk, anchor>>
  BY DEF fixed
<1>2. DiskOK'
  BY <1>1 DEF ToolInv, DiskOK, Intact
<1>3. Publishable' <=> Publishable
  BY <1>1 DEF Publishable, Intact, Trusted, Listed
<1> QED BY <1>2, <1>3

\* What ToolEnd does.
LEMMA Ends ==
    ASSUME ToolInv, NEW w \in Worker, NEW how \in Doings, ToolEnd(w, how), UNCHANGED <<fixed>>,
           alone' \subseteq Worker
    PROVE  /\ OthersGoOn(w) /\ ToolTypes' /\ doing'[w] = how /\ job'[w] = job[w] /\ key'[w] = key[w]
           /\ output'[w] = Missing /\ written'[w] = Missing /\ assets'[w] = NoAssets
<1>1. /\ doing' = [doing EXCEPT ![w] = how] /\ todo' = [todo EXCEPT ![w] = {}]
      /\ target' = [target EXCEPT ![w] = Missing] /\ asset' = [asset EXCEPT ![w] = Missing]
      /\ assets' = [assets EXCEPT ![w] = NoAssets] /\ output' = [output EXCEPT ![w] = Missing]
      /\ written' = [written EXCEPT ![w] = Missing] /\ UNCHANGED <<job, key, scale, anchor>>
  BY DEF ToolEnd, ToolGoto, fixed
<1>2. ToolTypes
  BY DEF ToolInv
<1>3. OthersGoOn(w)
  BY <1>1, <1>2 DEF OthersGoOn, ToolTypes
<1>4. written' = [u \in Worker |-> written'[u]] /\ written'[w] = Missing
  BY <1>1, <1>2 DEF ToolTypes
<1>5. assets' \in [Worker -> ManifestValue] /\ assets'[w] = NoAssets
  BY <1>1, <1>2, ManifestValues DEF ToolTypes
<1>6. ToolTypes'
  BY <1>1, <1>2, <1>4, <1>5 DEF ToolTypes
<1> QED BY <1>1, <1>2, <1>3, <1>4, <1>5, <1>6 DEF ToolTypes

\* A command refuses; verify does only what no client would accept.
LEMMA RefuseStep ==
    ASSUME ToolInv, NEW w \in Worker, ToolEnd(w, "refused"), UNCHANGED <<disk, fixed, alone>>,
           doing[w] # "idle", job[w] = "verify" /\ w \in alone => ~Publishable
    PROVE  ToolInv'
<1>1. /\ OthersGoOn(w) /\ ToolTypes' /\ doing'[w] = "refused" /\ job'[w] = job[w] /\ key'[w] = key[w]
      /\ output'[w] = Missing /\ written'[w] = Missing /\ assets'[w] = NoAssets
  BY Ends DEF Doings, ToolInv, ToolTypes
<1>2. OfUsable(NoAssets)
  BY ManifestValues DEF OfUsable
<1>3. WorkerOK(w)'
  <2>1. job[w] \in {"manifest", "sign", "append", "verify"}
    BY DEF ToolInv, WorkerOK
  <2>2. job[w] \in {"sign", "append"} => key[w] \in Key
    BY DEF ToolInv, WorkerOK
  <2> QED BY <1>1, <1>2, <2>1, <2>2 DEF WorkerOK
<1>4. DiskOK' /\ (Publishable' <=> Publishable)
  BY DiskSame
<1>5. AloneOK(w)'
  BY <1>1, <1>4 DEF AloneOK, SignerKnows, VerifierKnows
<1> QED BY <1>1, <1>3, <1>4, <1>5, OneWorker

-----------------------------------------------------------------------------
(* The steps of a command.                                                 *)

LEMMA ToolStarts == ToolInit => ToolInv
<1> SUFFICES ASSUME ToolInit PROVE ToolInv
  OBVIOUS
<1>1. ToolTypes
  <2>1. anchor \subseteq Key
    BY SizesAssumption DEF SizesAssumption, ToolInit
  <2>2. assets \in [Worker -> ManifestValue]
    BY ManifestValues DEF ToolInit
  <2> QED BY <2>1, <2>2 DEF ToolInit, ToolTypes, Doings
<1>2. \A f \in Artifact : disk[f] = Missing
  BY DEF ToolInit
<1>3. DiskOK
  BY <1>2, Paths DEF ToolInit, DiskOK, Intact
<1>4. \A w \in Worker :
        /\ job[w] = Missing /\ doing[w] = "idle" /\ output[w] = Missing /\ written[w] = Missing
        /\ OfUsable(assets[w])
  BY ManifestValues DEF ToolInit, OfUsable
<1>5. \A w \in Worker : AloneOK(w)
  BY DEF ToolInit, AloneOK
<1>6. \A w \in Worker : WorkerOK(w)
  BY <1>4 DEF WorkerOK
<1> QED BY <1>1, <1>3, <1>5, <1>6 DEF ToolInv

\* What every step of a command starts from.
LEMMA Facts ==
    ASSUME ToolInv, NEW w \in Worker
    PROVE  /\ ToolTypes /\ DiskOK /\ WorkerOK(w) /\ AloneOK(w)
BY DEF ToolInv

\* The start of a command.
LEMMA StartStep ==
    ASSUME ToolInv, NEW w \in Worker, ToolStart(w)
    PROVE  ToolInv'
<1>0. ToolTypes /\ WorkerOK(w)
  BY Facts
<1>1. /\ doing[w] = "idle" /\ alone' = alone \cup {w}
      /\ UNCHANGED <<disk, fixed, scale, anchor, target, asset, assets, output, written>>
  BY DEF ToolStart, fixed
<1>2. PICK j \in {"manifest", "sign", "append", "verify"}, l \in {"probe", "read"} :
        /\ job' = [job EXCEPT ![w] = j] /\ doing' = [doing EXCEPT ![w] = l]
        /\ j = "manifest" <=> l = "probe"
        /\ key' \in [Worker -> Key \cup {Missing}] /\ todo' \in [Worker -> SUBSET Target]
        /\ j \in {"sign", "append"} => key'[w] \in Key
        /\ \A u \in Worker \ {w} : key'[u] = key[u] /\ todo'[u] = todo[u]
  <2>1. CASE /\ job' = [job EXCEPT ![w] = "manifest"] /\ todo' = [todo EXCEPT ![w] = Listed]
             /\ ToolGoto(w, "probe") /\ UNCHANGED key
    <3>1. Listed \in SUBSET Target
      BY DEF Listed
    <3> QED BY <1>0, <2>1, <3>1 DEF ToolTypes, ToolGoto
  <2>2. CASE \E k \in scale.keys :
               /\ \E j \in {"sign", "append"} : job' = [job EXCEPT ![w] = j]
               /\ key' = [key EXCEPT ![w] = k] /\ ToolGoto(w, "read") /\ UNCHANGED todo
    <3>1. scale.keys \subseteq Key
      BY <1>0, SizesAssumption DEF SizesAssumption, ToolTypes
    <3>2. PICK k \in Key, j \in {"sign", "append"} :
               /\ job' = [job EXCEPT ![w] = j]
               /\ key' = [key EXCEPT ![w] = k] /\ ToolGoto(w, "read") /\ UNCHANGED todo
      BY <2>2, <3>1
    <3>3. key' \in [Worker -> Key \cup {Missing}] /\ key'[w] = k
      BY <1>0, <3>2 DEF ToolTypes
    <3>4. \A u \in Worker \ {w} : key'[u] = key[u]
      BY <1>0, <3>2 DEF ToolTypes
    <3> QED BY <1>0, <3>2, <3>3, <3>4 DEF ToolTypes, ToolGoto
  <2>3. CASE job' = [job EXCEPT ![w] = "verify"] /\ ToolGoto(w, "read") /\ UNCHANGED <<todo, key>>
    BY <1>0, <2>3 DEF ToolTypes, ToolGoto
  <2> QED BY <2>1, <2>2, <2>3 DEF ToolStart
<1>3. /\ OthersGoOn(w) /\ job'[w] = j /\ doing'[w] = l
  BY <1>0, <1>1, <1>2 DEF ToolTypes, OthersGoOn
<1>4. ToolTypes'
  <2>1. /\ job' \in [Worker -> {"manifest", "sign", "append", "verify", Missing}]
        /\ doing' \in [Worker -> Doings] /\ alone' \subseteq Worker
    BY <1>0, <1>1, <1>2 DEF ToolTypes, Doings
  <2> QED BY <1>0, <1>1, <1>2, <2>1 DEF ToolTypes
<1>5. DiskOK'
  BY <1>1, DiskSame
<1>6. /\ OfUsable(assets'[w])
      /\ \/ output'[w] = Missing /\ written'[w] = Missing
         \/ output'[w] \in Artifact /\ written'[w] \in Holds(output'[w])
  BY <1>0, <1>1 DEF WorkerOK
<1>7. WorkerOK(w)'
  <2>1. j \in {"sign", "append"} => key'[w] \in Key
    BY <1>2
  <2>2. j = "manifest" <=> l = "probe"
    BY <1>2
  <2> QED BY <1>3, <1>6, <2>1, <2>2 DEF WorkerOK
<1>8. AloneOK(w)'
  BY <1>2, <1>3 DEF AloneOK, SignerKnows, VerifierKnows
<1> QED BY <1>1, <1>3, <1>4, <1>5, <1>7, <1>8, OneWorker

\* What a command at each of its places is.
LEMMA Jobs ==
    ASSUME ToolInv, NEW w \in Worker
    PROVE  /\ doing[w] \in {"probe", "contents", "inspect"} => job[w] = "manifest" /\ OfUsable(assets[w])
           /\ doing[w] = "sign" => job[w] \in {"sign", "append"} /\ key[w] \in Key
           /\ doing[w] = "read" => \/ job[w] = "verify"
                                   \/ job[w] \in {"sign", "append"} /\ key[w] \in Key
           /\ doing[w] \in {"check", "archive", "checksum", "rehash"} => job[w] = "verify"
BY Facts DEF WorkerOK

\* A step that only moves the command on.
LEMMA LocalStep ==
    ASSUME ToolInv, NEW w \in Worker, OthersGoOn(w), UNCHANGED <<disk, fixed, alone>>,
           ToolTypes', WorkerOK(w)', AloneOK(w)'
    PROVE  ToolInv'
<1>1. DiskOK'
  BY DiskSame
<1> QED BY <1>1, OneWorker

LEMMA ProbeArchiveStep ==
    ASSUME ToolInv, NEW w \in Worker, ProbeArchive(w)
    PROVE  ToolInv'
<1>0. ToolTypes /\ DiskOK /\ WorkerOK(w)
  BY Facts
<1>1. doing[w] = "probe" /\ UNCHANGED <<disk, fixed, alone>>
  BY DEF ProbeArchive
<1>2. job[w] = "manifest" /\ OfUsable(assets[w])
  BY <1>1, Jobs
<1>3. CASE ToolEnd(w, "refused")
  BY <1>1, <1>2, <1>3, RefuseStep
<1>4. ASSUME NEW t \in todo[w], disk[Archive(t)] # Missing,
             target' = [target EXCEPT ![w] = t], asset' = [asset EXCEPT ![w] = disk[Archive(t)]],
             ToolGoto(w, "contents"), UNCHANGED <<job, todo, assets, key, output, written>>
      PROVE  ToolInv'
  <2>1. t \in Target /\ disk[Archive(t)] \in Build
    BY <1>0, <1>4 DEF ToolTypes, DiskOK
  <2>2. OthersGoOn(w)
    BY <1>0, <1>4 DEF OthersGoOn, ToolTypes, ToolGoto
  <2>3. /\ target'[w] = t /\ asset'[w] = disk[Archive(t)] /\ doing'[w] = "contents"
        /\ target' \in [Worker -> Target \cup {Missing}]
        /\ asset' \in [Worker -> Build \cup {Mixed, Missing}] /\ doing' \in [Worker -> Doings]
    BY <1>0, <1>4, <2>1 DEF ToolTypes, ToolGoto, Doings
  <2>4. ToolTypes'
    BY <1>0, <1>1, <1>4, <2>3 DEF ToolTypes, fixed
  <2>5. WorkerOK(w)'
    BY <1>0, <1>2, <1>4, <2>1, <2>3 DEF WorkerOK
  <2>6. AloneOK(w)'
    BY <1>2, <1>4 DEF AloneOK
  <2> QED BY <1>1, <2>2, <2>4, <2>5, <2>6, LocalStep
<1> QED BY <1>3, <1>4 DEF ProbeArchive

LEMMA ProbeContentsStep ==
    ASSUME ToolInv, NEW w \in Worker, ProbeContents(w)
    PROVE  ToolInv'
<1>0. ToolTypes /\ DiskOK /\ WorkerOK(w)
  BY Facts
<1>1. doing[w] = "contents" /\ UNCHANGED <<disk, fixed, alone>>
  BY DEF ProbeContents
<1>2. job[w] = "manifest" /\ OfUsable(assets[w])
  BY <1>1, Jobs
<1> DEFINE now == disk[Archive(target[w])]
<1>3. CASE ToolEnd(w, "refused")
  BY <1>1, <1>2, <1>3, RefuseStep
<1>4. ASSUME now \in Usable, asset' = [asset EXCEPT ![w] = IF @ = now THEN now ELSE Mixed],
             ToolGoto(w, "inspect"), UNCHANGED <<job, todo, target, assets, key, output, written>>
      PROVE  ToolInv'
  <2>1. target[w] \in Target /\ now \in Build
    BY <1>0, <1>1, <1>4, BuildAssumption DEF BuildAssumption, WorkerOK
  <2>2. OthersGoOn(w)
    BY <1>0, <1>4 DEF OthersGoOn, ToolTypes, ToolGoto
  <2>3. /\ asset'[w] \in Usable \cup {Mixed} /\ doing'[w] = "inspect"
        /\ asset' \in [Worker -> Build \cup {Mixed, Missing}] /\ doing' \in [Worker -> Doings]
    BY <1>0, <1>4, <2>1 DEF ToolTypes, ToolGoto, Doings
  <2>4. ToolTypes'
    BY <1>0, <1>1, <1>4, <2>3 DEF ToolTypes, fixed
  <2>5. WorkerOK(w)'
    BY <1>0, <1>2, <1>4, <2>1, <2>3 DEF WorkerOK
  <2>6. AloneOK(w)'
    BY <1>2, <1>4 DEF AloneOK
  <2> QED BY <1>1, <2>2, <2>4, <2>5, <2>6, LocalStep
<1> QED BY <1>3, <1>4 DEF ProbeContents, Inspects

\* What ToolWrites does.
LEMMA Writes ==
    ASSUME ToolInv, NEW w \in Worker, NEW f \in Artifact, NEW v, ToolWrites(w, f, v),
           UNCHANGED <<disk, fixed, alone, job, todo, target, asset, assets, key>>
    PROVE  /\ OthersGoOn(w) /\ ToolTypes' /\ doing'[w] = "truncate"
           /\ output'[w] = f /\ written'[w] = v
<1>1. /\ doing' = [doing EXCEPT ![w] = "truncate"] /\ output' = [output EXCEPT ![w] = f]
      /\ written' = [written EXCEPT ![w] = v]
      /\ UNCHANGED <<scale, anchor>>
  BY DEF ToolWrites, ToolGoto, fixed
<1>2. ToolTypes
  BY DEF ToolInv
<1>3. OthersGoOn(w)
  BY <1>1, <1>2 DEF OthersGoOn, ToolTypes
<1>4. written' = [u \in Worker |-> written'[u]] /\ written'[w] = v
  BY <1>1, <1>2 DEF ToolTypes
<1>5. ToolTypes'
  BY <1>1, <1>2, <1>4 DEF ToolTypes, Doings
<1> QED BY <1>1, <1>2, <1>3, <1>4, <1>5 DEF ToolTypes

LEMMA InspectArchiveStep ==
    ASSUME ToolInv, NEW w \in Worker, InspectArchive(w)
    PROVE  ToolInv'
<1>0. ToolTypes /\ DiskOK /\ WorkerOK(w)
  BY Facts
<1>1. doing[w] = "inspect" /\ UNCHANGED <<disk, fixed, alone>>
  BY DEF InspectArchive
<1>2. job[w] = "manifest" /\ OfUsable(assets[w]) /\ target[w] \in Target /\ asset[w] \in Usable \cup {Mixed}
  BY <1>0, <1>1, Jobs DEF WorkerOK
<1>3. CASE ToolEnd(w, "refused")
  BY <1>1, <1>2, <1>3, RefuseStep
<1>4. ASSUME disk[Archive(target[w])] = asset[w], ToolWrites(w, Checksum(target[w]), asset[w]),
             UNCHANGED <<job, todo, target, asset, assets, key>>
      PROVE  ToolInv'
  <2>1. asset[w] \in Usable
    <3>1. asset[w] \in Build \cup {Missing}
      BY <1>0, <1>2, <1>4 DEF DiskOK
    <3> QED BY <1>2, <3>1, ValueAssumption, BuildAssumption DEF ValueAssumption, BuildAssumption
  <2>2. Checksum(target[w]) \in Artifact /\ asset[w] \in Holds(Checksum(target[w]))
    <3>1. Checksum(target[w]) \notin {Manifest, Signatures} /\ Checksum(target[w]) \in Artifact
      BY <1>2, Paths
    <3> QED BY <2>1, <3>1, BuildAssumption DEF BuildAssumption, Holds
  <2>3. /\ OthersGoOn(w) /\ ToolTypes' /\ doing'[w] = "truncate"
        /\ output'[w] = Checksum(target[w]) /\ written'[w] = asset[w]
    BY <1>1, <1>4, <2>2, Writes
  <2>4. WorkerOK(w)'
    BY <1>2, <1>4, <2>1, <2>2, <2>3 DEF WorkerOK, Writing
  <2>5. AloneOK(w)'
    BY <1>2, <1>4 DEF AloneOK
  <2> QED BY <1>1, <2>3, <2>4, <2>5, LocalStep
<1> QED BY <1>3, <1>4 DEF InspectArchive

LEMMA WriteManifestStep ==
    ASSUME ToolInv, NEW w \in Worker, WriteManifest(w)
    PROVE  ToolInv'
<1>0. ToolTypes /\ WorkerOK(w)
  BY Facts
<1>1. doing[w] = "probe" /\ UNCHANGED <<disk, fixed, alone, job, todo, target, asset, assets, key>>
      /\ ToolWrites(w, Manifest, assets[w])
  BY DEF WriteManifest
<1>2. job[w] = "manifest" /\ OfUsable(assets[w])
  BY <1>1, Jobs
<1>3. Manifest \in Artifact /\ assets[w] \in Holds(Manifest)
  BY <1>0, Paths DEF Holds, ToolTypes
<1>4. /\ OthersGoOn(w) /\ ToolTypes' /\ doing'[w] = "truncate"
      /\ output'[w] = Manifest /\ written'[w] = assets[w]
  BY <1>1, <1>3, Writes
<1>5. WorkerOK(w)'
  BY <1>1, <1>2, <1>3, <1>4 DEF WorkerOK, Writing
<1>6. AloneOK(w)'
  BY <1>1, <1>2 DEF AloneOK
<1> QED BY <1>1, <1>4, <1>5, <1>6, LocalStep

LEMMA ReadManifestStep ==
    ASSUME ToolInv, NEW w \in Worker, ReadManifest(w)
    PROVE  ToolInv'
<1>0. ToolTypes /\ DiskOK /\ WorkerOK(w)
  BY Facts
<1>1. doing[w] = "read" /\ UNCHANGED <<disk, fixed, alone>>
  BY DEF ReadManifest
<1>2. job[w] = "verify" \/ (job[w] \in {"sign", "append"} /\ key[w] \in Key)
  BY <1>1, Jobs
<1>3. CASE ~Intact(Manifest) /\ ToolEnd(w, "refused")
  <2>1. ~Publishable
    BY <1>3 DEF Publishable
  <2> QED BY <1>1, <1>3, <2>1, RefuseStep
<1>4. ASSUME Intact(Manifest), assets' = [assets EXCEPT ![w] = disk[Manifest]],
             ToolGoto(w, IF job[w] = "verify" THEN "check" ELSE "sign"),
             UNCHANGED <<job, todo, target, asset, key, output, written>>
      PROVE  ToolInv'
  <2> DEFINE l == IF job[w] = "verify" THEN "check" ELSE "sign"
  <2>1. disk[Manifest] \in ManifestValue
    BY <1>0, <1>4 DEF DiskOK, Intact
  <2>2. OthersGoOn(w)
    BY <1>0, <1>4 DEF OthersGoOn, ToolTypes, ToolGoto
  <2>3. /\ assets'[w] = disk[Manifest] /\ doing'[w] = l
        /\ assets' \in [Worker -> ManifestValue] /\ doing' \in [Worker -> Doings]
    BY <1>0, <1>4, <2>1 DEF ToolTypes, ToolGoto, Doings
  <2>4. ToolTypes'
    BY <1>0, <1>1, <1>4, <2>3 DEF ToolTypes, fixed
  <2>5. WorkerOK(w)'
    BY <1>0, <1>2, <1>4, <2>3 DEF WorkerOK
  <2>6. AloneOK(w)'
    BY <1>1, <1>2, <1>4, <2>3 DEF AloneOK, SignerKnows, VerifierKnows, Intact
  <2> QED BY <1>1, <2>2, <2>4, <2>5, <2>6, LocalStep
<1> QED BY <1>3, <1>4 DEF ReadManifest

LEMMA SignStep ==
    ASSUME ToolInv, NEW w \in Worker, Sign(w)
    PROVE  ToolInv'
<1>0. ToolTypes /\ DiskOK /\ WorkerOK(w) /\ AloneOK(w)
  BY Facts
<1>1. doing[w] = "sign" /\ UNCHANGED <<disk, fixed, alone>>
  BY DEF Sign
<1>2. job[w] \in {"sign", "append"} /\ key[w] \in Key
  BY <1>1, Jobs
<1>3. CASE ToolEnd(w, "refused")
  BY <1>1, <1>2, <1>3, RefuseStep
<1>4. ASSUME ToolWrites(w, Signatures, Signed(w)), UNCHANGED <<job, todo, target, asset, assets, key>>
      PROVE  ToolInv'
  <2>1. Envelope(w) \in EnvelopeValue
    BY <1>0, EnvelopeValues DEF Envelope, DiskOK, Intact
  <2>2. /\ Signed(w) \in EnvelopeValue /\ key[w] \in DOMAIN Signed(w)
        /\ Signed(w)[key[w]] = assets[w]
    BY <1>0, <1>2, <2>1, EnvelopeValues DEF Signed, ToolTypes
  <2>3. Signatures \in Artifact /\ Signed(w) \in Holds(Signatures)
    BY <2>2, Paths DEF Holds
  <2>4. /\ OthersGoOn(w) /\ ToolTypes' /\ doing'[w] = "truncate"
        /\ output'[w] = Signatures /\ written'[w] = Signed(w)
    BY <1>1, <1>4, <2>3, Writes
  <2>5. WorkerOK(w)'
    BY <1>2, <1>4, <2>2, <2>3, <2>4 DEF WorkerOK, Writing
  <2>6. AloneOK(w)'
    BY <1>0, <1>1, <1>2, <1>4, <2>4 DEF AloneOK, SignerKnows, Intact
  <2> QED BY <1>1, <2>4, <2>5, <2>6, LocalStep
<1> QED BY <1>3, <1>4 DEF Sign

-----------------------------------------------------------------------------
(* verify.                                                                 *)

\* Only its place and what is left to do change in the steps of verify.
LEMMA Verifies ==
    ASSUME ToolInv, NEW w \in Worker, NEW l \in {"archive", "checksum", "rehash"},
           doing[w] \in {"check", "archive", "checksum", "rehash"},
           ToolGoto(w, l), UNCHANGED <<disk, fixed, alone, job, asset, assets, key, output, written>>,
           NEW U \in SUBSET Target, todo' = [todo EXCEPT ![w] = U],
           NEW t \in Target \cup {Missing}, target' = [target EXCEPT ![w] = t],
           w \in alone => VerifierKnows(w)'
    PROVE  ToolInv'
<1>0. ToolTypes /\ WorkerOK(w)
  BY Facts
<1>1. job[w] = "verify"
  BY Jobs
<1>2. OthersGoOn(w)
  BY <1>0 DEF OthersGoOn, ToolTypes, ToolGoto
<1>3. /\ doing'[w] = l /\ doing' \in [Worker -> Doings] /\ todo' \in [Worker -> SUBSET Target]
      /\ target' \in [Worker -> Target \cup {Missing}]
  BY <1>0 DEF ToolTypes, ToolGoto, Doings
<1>4. ToolTypes'
  BY <1>0, <1>3 DEF ToolTypes, fixed
<1>5. WorkerOK(w)'
  BY <1>0, <1>1, <1>3 DEF WorkerOK
<1>6. AloneOK(w)'
  BY <1>1 DEF AloneOK
<1> QED BY <1>2, <1>4, <1>5, <1>6, LocalStep

LEMMA CheckSignaturesStep ==
    ASSUME ToolInv, NEW w \in Worker, CheckSignatures(w)
    PROVE  ToolInv'
<1>0. ToolTypes /\ AloneOK(w)
  BY Facts
<1>1. doing[w] = "check" /\ UNCHANGED <<disk, fixed, alone>> /\ job[w] = "verify"
  BY Jobs DEF CheckSignatures
<1>2. w \in alone => Intact(Manifest) /\ assets[w] = disk[Manifest]
  BY <1>0, <1>1 DEF AloneOK, VerifierKnows
<1>3. ASSUME ~(Intact(Signatures) /\ HasKeys /\ Trusted(assets[w], disk[Signatures])),
             ToolEnd(w, "refused")
      PROVE  ToolInv'
  <2>1. w \in alone => ~Publishable
    BY <1>2, <1>3 DEF Publishable, HasKeys, Trusted
  <2> QED BY <1>1, <1>3, <2>1, RefuseStep
<1>4. ASSUME Intact(Signatures), Trusted(assets[w], disk[Signatures]),
             todo' = [todo EXCEPT ![w] = DOMAIN assets[w]], ToolGoto(w, "archive"),
             UNCHANGED <<job, target, asset, assets, key, output, written>>
      PROVE  ToolInv'
  <2>1. DOMAIN assets[w] \in SUBSET Target
    BY <1>0, ManifestValues DEF ToolTypes
  <2>2. doing'[w] = "archive" /\ todo'[w] = DOMAIN assets[w] /\ UNCHANGED anchor
    BY <1>0, <1>1, <1>4 DEF ToolTypes, ToolGoto, fixed
  <2>3. w \in alone => VerifierKnows(w)'
    BY <1>1, <1>2, <1>4, <2>2 DEF VerifierKnows, Intact, Trusted
  <2>4. target[w] \in Target \cup {Missing} /\ target' = [target EXCEPT ![w] = target[w]]
    BY <1>0, <1>4 DEF ToolTypes
  <2> QED BY <1>1, <1>4, <2>1, <2>3, <2>4, Verifies
<1> QED BY <1>3, <1>4 DEF CheckSignatures

\* What verify knows while it goes through the targets.
LEMMA Verifier ==
    ASSUME ToolInv, NEW w \in Worker, doing[w] \in {"archive", "checksum", "rehash"}, w \in alone
    PROVE  /\ Intact(Manifest) /\ assets[w] = disk[Manifest]
           /\ Intact(Signatures) /\ Trusted(assets[w], disk[Signatures])
           /\ todo[w] \subseteq DOMAIN assets[w]
           /\ \A t \in DOMAIN assets[w] \ todo[w] :
                disk[Archive(t)] = assets[w][t] /\ disk[Checksum(t)] = assets[w][t]
           /\ doing[w] \in {"checksum", "rehash"} => target[w] \in todo[w]
           /\ doing[w] = "rehash" => disk[Checksum(target[w])] = assets[w][target[w]]
<1>1. AloneOK(w) /\ job[w] = "verify"
  BY Facts, Jobs
<1> QED BY <1>1 DEF AloneOK, VerifierKnows

LEMMA CheckArchiveStep ==
    ASSUME ToolInv, NEW w \in Worker, CheckArchive(w)
    PROVE  ToolInv'
<1>0. ToolTypes
  BY Facts
<1>1. doing[w] = "archive" /\ UNCHANGED <<disk, fixed, alone>>
  BY DEF CheckArchive
<1>3. ASSUME NEW t \in todo[w], disk[Archive(t)] # assets[w][t], ToolEnd(w, "refused")
      PROVE  ToolInv'
  <2>1. w \in alone => ~Publishable
    BY <1>1, <1>3, Verifier DEF Publishable
  <2> QED BY <1>1, <1>3, <2>1, RefuseStep
<1>4. ASSUME NEW t \in todo[w], disk[Archive(t)] = assets[w][t],
             target' = [target EXCEPT ![w] = t], ToolGoto(w, "checksum"),
             UNCHANGED <<job, todo, asset, assets, key, output, written>>
      PROVE  ToolInv'
  <2>1. doing'[w] = "checksum" /\ target'[w] = t /\ UNCHANGED anchor
    BY <1>0, <1>1, <1>4 DEF ToolTypes, ToolGoto, fixed
  <2>2. w \in alone => VerifierKnows(w)'
    BY <1>1, <1>4, <2>1, Verifier DEF VerifierKnows, Intact, Trusted
  <2>3. todo[w] \in SUBSET Target /\ todo' = [todo EXCEPT ![w] = todo[w]] /\ t \in Target \cup {Missing}
    BY <1>0, <1>4 DEF ToolTypes
  <2> QED BY <1>1, <1>4, <2>2, <2>3, Verifies
<1> QED BY <1>3, <1>4 DEF CheckArchive

LEMMA CheckChecksumStep ==
    ASSUME ToolInv, NEW w \in Worker, CheckChecksum(w)
    PROVE  ToolInv'
<1>0. ToolTypes
  BY Facts
<1>1. doing[w] = "checksum" /\ UNCHANGED <<disk, fixed, alone>>
  BY DEF CheckChecksum
<1>3. ASSUME disk[Checksum(target[w])] # assets[w][target[w]], ToolEnd(w, "refused")
      PROVE  ToolInv'
  <2>1. w \in alone => ~Publishable
    BY <1>1, <1>3, Verifier DEF Publishable
  <2> QED BY <1>1, <1>3, <2>1, RefuseStep
<1>4. ASSUME disk[Checksum(target[w])] = assets[w][target[w]], ToolGoto(w, "rehash"), UNCHANGED toolLocals
      PROVE  ToolInv'
  <2>0. UNCHANGED <<job, todo, target, asset, assets, key, output, written>>
    BY <1>4 DEF toolLocals
  <2>1. doing'[w] = "rehash" /\ UNCHANGED anchor
    BY <1>0, <1>1, <1>4 DEF ToolTypes, ToolGoto, fixed
  <2>2. w \in alone => VerifierKnows(w)'
    BY <1>1, <1>4, <2>0, <2>1, Verifier DEF VerifierKnows, Intact, Trusted
  <2>3. /\ todo[w] \in SUBSET Target /\ todo' = [todo EXCEPT ![w] = todo[w]]
        /\ target[w] \in Target \cup {Missing} /\ target' = [target EXCEPT ![w] = target[w]]
    BY <1>0, <2>0 DEF ToolTypes
  <2> QED BY <1>1, <1>4, <2>0, <2>2, <2>3, Verifies
<1> QED BY <1>3, <1>4 DEF CheckChecksum

LEMMA CheckAgainStep ==
    ASSUME ToolInv, NEW w \in Worker, CheckAgain(w)
    PROVE  ToolInv'
<1>0. ToolTypes
  BY Facts
<1>1. doing[w] = "rehash" /\ UNCHANGED <<disk, fixed, alone>>
  BY DEF CheckAgain
<1>3. ASSUME disk[Archive(target[w])] # assets[w][target[w]], ToolEnd(w, "refused")
      PROVE  ToolInv'
  <2>1. w \in alone => ~Publishable
    BY <1>1, <1>3, Verifier DEF Publishable
  <2> QED BY <1>1, <1>3, <2>1, RefuseStep
<1>4. ASSUME disk[Archive(target[w])] = assets[w][target[w]],
             todo' = [todo EXCEPT ![w] = @ \ {target[w]}], ToolGoto(w, "archive"),
             UNCHANGED <<job, target, asset, assets, key, output, written>>
      PROVE  ToolInv'
  <2>1. doing'[w] = "archive" /\ todo'[w] = todo[w] \ {target[w]} /\ UNCHANGED anchor
    BY <1>0, <1>1, <1>4 DEF ToolTypes, ToolGoto, fixed
  <2>2. w \in alone => VerifierKnows(w)'
    BY <1>1, <1>4, <2>1, Verifier DEF VerifierKnows, Intact, Trusted
  <2>3. /\ todo[w] \ {target[w]} \in SUBSET Target
        /\ todo' = [todo EXCEPT ![w] = todo[w] \ {target[w]}]
        /\ target[w] \in Target \cup {Missing} /\ target' = [target EXCEPT ![w] = target[w]]
    BY <1>0, <1>4 DEF ToolTypes
  <2> QED BY <1>1, <1>4, <2>2, <2>3, Verifies
<1> QED BY <1>3, <1>4 DEF CheckAgain

LEMMA CheckListingStep ==
    ASSUME ToolInv, NEW w \in Worker, CheckListing(w)
    PROVE  ToolInv'
<1>1. doing[w] = "archive" /\ todo[w] = {} /\ UNCHANGED <<disk, fixed, alone>>
  BY DEF CheckListing
<1>2. CASE ~(Listed \subseteq DOMAIN assets[w]) /\ ToolEnd(w, "refused")
  <2>1. w \in alone => ~Publishable
    BY <1>1, <1>2, Verifier DEF Publishable
  <2> QED BY <1>1, <1>2, <2>1, RefuseStep
<1>3. ASSUME Listed \subseteq DOMAIN assets[w], ToolEnd(w, "verified") PROVE ToolInv'
  <2>1. ToolTypes /\ job[w] = "verify"
    BY <1>1, Facts, Jobs
  <2>2. w \in alone => Publishable
    BY <1>1, <1>3, Verifier DEF Publishable
  <2>3. /\ OthersGoOn(w) /\ ToolTypes' /\ doing'[w] = "verified" /\ job'[w] = job[w]
        /\ output'[w] = Missing /\ written'[w] = Missing
    BY <1>1, <1>3, <2>1, Ends DEF Doings, ToolTypes
  <2>4. WorkerOK(w)'
    BY <2>1, <2>3 DEF WorkerOK
  <2>5. AloneOK(w)'
    BY <1>1, <2>1, <2>2, <2>3, DiskSame DEF AloneOK, VerifierKnows
  <2> QED BY <1>1, <2>3, <2>4, <2>5, LocalStep
<1> QED BY <1>2, <1>3 DEF CheckListing

-----------------------------------------------------------------------------
(* The files are written, a command goes away, a build comes.              *)

\* Nobody keeps the files to himself once another writes to them.
LEMMA WriteAlone ==
    ASSUME NEW w \in Worker, alone' = alone \cap {w}
    PROVE  \A u \in Worker \ {w} : u \in alone' => u \in alone /\ disk' = disk
OBVIOUS

\* What a command writes fits the file; it never writes an archive.
LEMMA DiskWritten ==
    ASSUME ToolInv, NEW w \in Worker, doing[w] \in {"truncate", "fill"},
           NEW v \in {written[w], Torn}, disk' = [disk EXCEPT ![output[w]] = v]
    PROVE  /\ Writing(w) /\ DiskOK' /\ output[w] \in Artifact /\ disk'[output[w]] = v
           /\ \A f \in Artifact \ {output[w]} : disk'[f] = disk[f]
<1>0. DiskOK /\ WorkerOK(w) /\ Writing(w)
  BY Facts DEF WorkerOK
<1>1. output[w] \in {Manifest, Signatures} \cup {Checksum(t) : t \in Target}
  BY <1>0 DEF Writing
<1>2. output[w] \in Artifact
  BY <1>1, Paths
<1>3. /\ disk' = [f \in Artifact |-> disk'[f]] /\ disk'[output[w]] = v
      /\ \A f \in Artifact \ {output[w]} : disk'[f] = disk[f]
  BY <1>0, <1>2 DEF DiskOK
<1>4. ASSUME NEW t \in Target
      PROVE  /\ disk'[Archive(t)] \in Build \cup {Missing}
             /\ disk'[Checksum(t)] \in Build \cup {Missing, Torn}
  <2>1. Archive(t) \in Artifact \ {output[w]}
    <3>1. CASE output[w] \in {Manifest, Signatures}
      BY <3>1, Paths
    <3>2. CASE \E u \in Target : output[w] = Checksum(u)
      BY <3>2, Paths
    <3> QED BY <1>1, <3>1, <3>2
  <2>2. ASSUME output[w] = Checksum(t) PROVE v \in Build \cup {Torn}
    <3>1. output[w] # Manifest /\ output[w] # Signatures
      BY <2>2, Paths
    <3>2. written[w] \in Usable
      BY <1>0, <3>1 DEF Writing
    <3> QED BY <3>2, BuildAssumption DEF BuildAssumption
  <2>3. Checksum(t) \in Artifact
    BY Paths
  <2>4. disk[Archive(t)] \in Build \cup {Missing} /\ disk[Checksum(t)] \in Build \cup {Missing, Torn}
    BY <1>0 DEF DiskOK
  <2> QED BY <1>3, <2>1, <2>2, <2>3, <2>4
<1>5. ASSUME disk'[Manifest] # disk[Manifest]
      PROVE  disk'[Manifest] = Torn \/ (disk'[Manifest] = assets[w] /\ job[w] = "manifest")
  <2>1. output[w] = Manifest /\ disk'[Manifest] = v
    BY <1>3, <1>5, Paths
  <2>2. output[w] \notin {Checksum(t) : t \in Target} /\ output[w] # Signatures
    BY <2>1, Paths
  <2>3. written[w] = assets[w] /\ job[w] = "manifest"
    BY <1>0, <2>2 DEF Writing
  <2> QED BY <2>1, <2>3
<1>6. ASSUME disk'[Signatures] # disk[Signatures]
      PROVE  disk'[Signatures] \in EnvelopeValue \cup {Torn}
  <2>1. output[w] = Signatures /\ disk'[Signatures] = v
    BY <1>3, <1>6, Paths
  <2>2. output[w] \notin {Checksum(t) : t \in Target} /\ output[w] # Manifest
    BY <2>1, Paths
  <2>3. written[w] \in EnvelopeValue
    BY <1>0, <2>2 DEF Writing
  <2> QED BY <2>1, <2>3
<1>7. job[w] = "manifest" => assets[w] \in ManifestValue /\ OfUsable(assets[w])
  BY <1>0, Facts DEF WorkerOK, ToolTypes
<1>8. /\ disk'[Manifest] \in ManifestValue \cup {Missing, Torn}
      /\ disk'[Signatures] \in EnvelopeValue \cup {Missing, Torn}
      /\ disk'[Manifest] \notin {Missing, Torn} => OfUsable(disk'[Manifest])
  BY <1>0, <1>5, <1>6, <1>7 DEF DiskOK, Intact
<1>9. DiskOK'
  BY <1>3, <1>4, <1>8 DEF DiskOK, Intact, OfUsable
<1> QED BY <1>0, <1>2, <1>3, <1>9

LEMMA TruncateStep ==
    ASSUME ToolInv, NEW w \in Worker, Truncate(w)
    PROVE  ToolInv'
<1>0. ToolTypes /\ DiskOK /\ WorkerOK(w) /\ AloneOK(w)
  BY Facts
<1>1. /\ doing[w] = "truncate" /\ disk' = [disk EXCEPT ![output[w]] = Torn]
      /\ doing' = [doing EXCEPT ![w] = "fill"] /\ alone' = alone \cap {w}
      /\ UNCHANGED <<fixed, scale, anchor, job, todo, target, asset, assets, key, output, written>>
  BY DEF Truncate, ToolGoto, fixed, toolLocals
<1>2. /\ Writing(w) /\ DiskOK' /\ output[w] \in Artifact /\ disk'[output[w]] = Torn
      /\ \A f \in Artifact \ {output[w]} : disk'[f] = disk[f]
  BY <1>1, DiskWritten
<1>3. /\ OthersGoOn(w) /\ doing'[w] = "fill" /\ ToolTypes'
  BY <1>0, <1>1 DEF OthersGoOn, ToolTypes, Doings
<1>4. WorkerOK(w)'
  BY <1>0, <1>1, <1>2, <1>3 DEF WorkerOK, Writing
<1>5. AloneOK(w)'
  <2>1. job[w] \in {"sign", "append"} => output[w] = Signatures
    BY <1>2 DEF Writing
  <2>2. job[w] \in {"sign", "append"} => disk'[Manifest] = disk[Manifest] /\ disk'[Signatures] = Torn
    BY <1>2, <2>1, Paths
  <2>3. w \in alone /\ job[w] \in {"sign", "append"} => SignerKnows(w)'
    BY <1>0, <1>1, <1>3, <2>2 DEF AloneOK, SignerKnows, Intact
  <2>4. job[w] # "verify"
    BY <1>2 DEF Writing
  <2> QED BY <1>1, <2>3, <2>4 DEF AloneOK
<1> QED BY <1>1, <1>2, <1>3, <1>4, <1>5, WriteAlone, OneWorker

LEMMA FillStep ==
    ASSUME ToolInv, NEW w \in Worker, ToolFill(w)
    PROVE  ToolInv'
<1>0. ToolTypes /\ DiskOK /\ WorkerOK(w) /\ AloneOK(w)
  BY Facts
<1>1. doing[w] = "fill" /\ alone' = alone \cap {w} /\ UNCHANGED <<fixed, scale, anchor>>
  BY DEF ToolFill, fixed
<1>2. PICK v \in {written[w]} \cup (IF disk[output[w]] = Torn THEN {} ELSE {Torn}) :
        disk' = [disk EXCEPT ![output[w]] = v]
  BY DEF ToolFill
<1>3. /\ Writing(w) /\ DiskOK' /\ output[w] \in Artifact /\ disk'[output[w]] = v
      /\ \A f \in Artifact \ {output[w]} : disk'[f] = disk[f]
  BY <1>1, <1>2, DiskWritten
<1>4. ASSUME job[w] = "manifest", output[w] # Manifest,
             assets' = [assets EXCEPT ![w] =
               [t \in DOMAIN @ \cup {target[w]} |-> IF t = target[w] THEN asset[w] ELSE @[t]]],
             todo' = [todo EXCEPT ![w] = @ \ {target[w]}], ToolGoto(w, "probe"),
             UNCHANGED <<job, target, asset, key, output, written>>
      PROVE  ToolInv'
  <2> DEFINE a == assets[w]
             b == [t \in DOMAIN a \cup {target[w]} |-> IF t = target[w] THEN asset[w] ELSE a[t]]
  <2>1. target[w] \in Target /\ asset[w] \in Usable
    BY <1>3, <1>4 DEF Writing
  <2>2. a \in ManifestValue /\ asset[w] \in Build \cup {Mixed} /\ OfUsable(a)
    BY <1>0, <1>1, <1>4, <2>1, BuildAssumption DEF ToolTypes, WorkerOK, BuildAssumption
  <2>3. b \in ManifestValue
    BY <2>1, <2>2, ManifestValues
  <2>4. OfUsable(b)
    BY <2>1, <2>2 DEF OfUsable
  <2>5. assets' = [assets EXCEPT ![w] = b]
    BY <1>4
  <2> HIDE DEF b
  <2>6. OthersGoOn(w)
    BY <1>0, <1>4, <2>5 DEF OthersGoOn, ToolTypes, ToolGoto
  <2>7. /\ assets'[w] = b /\ doing'[w] = "probe" /\ assets' \in [Worker -> ManifestValue]
        /\ doing' \in [Worker -> Doings] /\ todo' \in [Worker -> SUBSET Target]
    BY <1>0, <1>4, <2>3, <2>5 DEF ToolTypes, ToolGoto, Doings
  <2>8. ToolTypes'
    BY <1>0, <1>1, <1>4, <2>7 DEF ToolTypes
  <2>9. WorkerOK(w)'
    BY <1>0, <1>4, <2>4, <2>7 DEF WorkerOK
  <2>10. AloneOK(w)'
    BY <1>4 DEF AloneOK
  <2> QED BY <1>1, <1>3, <2>6, <2>8, <2>9, <2>10, WriteAlone, OneWorker
<1>5. ASSUME job[w] # "manifest" \/ output[w] = Manifest,
             ToolEnd(w, IF job[w] = "manifest" THEN "finished" ELSE "signed")
      PROVE  ToolInv'
  <2> DEFINE how == IF job[w] = "manifest" THEN "finished" ELSE "signed"
  <2>1. how \in Doings /\ alone' \subseteq Worker
    BY <1>0, <1>1 DEF Doings, ToolTypes
  <2>2. /\ OthersGoOn(w) /\ ToolTypes' /\ doing'[w] = how /\ job'[w] = job[w] /\ key'[w] = key[w]
        /\ output'[w] = Missing /\ written'[w] = Missing /\ assets'[w] = NoAssets
    BY <1>1, <1>5, <2>1, Ends
  <2>3. OfUsable(NoAssets)
    BY ManifestValues DEF OfUsable
  <2>4. job[w] \in {"manifest", "sign", "append"}
    BY <1>3 DEF Writing
  <2>5. WorkerOK(w)'
    BY <1>0, <1>1, <2>2, <2>3, <2>4 DEF WorkerOK
  <2>6. ASSUME w \in alone', job[w] \in {"sign", "append"} PROVE SignerKnows(w)'
    <3>1. /\ output[w] = Signatures /\ written[w] \in EnvelopeValue
          /\ key[w] \in DOMAIN written[w] /\ written[w][key[w]] = assets[w]
      BY <1>3, <2>6 DEF Writing
    <3>2. assets[w] = disk[Manifest] /\ disk[Signatures] = Torn
      BY <1>0, <1>1, <2>6 DEF AloneOK, SignerKnows
    <3>3. disk'[Signatures] = written[w] /\ disk'[Manifest] = disk[Manifest]
      BY <1>2, <1>3, <3>1, <3>2, Paths
    <3>4. disk'[Signatures] \notin {Missing, Torn}
      BY <3>1, <3>3, ValueAssumption DEF ValueAssumption
    <3> QED BY <2>2, <2>6, <3>1, <3>2, <3>3, <3>4 DEF SignerKnows, Intact
  <2>7. AloneOK(w)'
    BY <2>2, <2>4, <2>6 DEF AloneOK
  <2> QED BY <1>1, <1>3, <2>2, <2>5, <2>7, WriteAlone, OneWorker
<1> QED BY <1>4, <1>5 DEF ToolFill

LEMMA ExitStep ==
    ASSUME ToolInv, NEW w \in Worker, ToolExit(w)
    PROVE  ToolInv'
<1>0. ToolTypes
  BY Facts
<1>1. /\ doing' = [doing EXCEPT ![w] = "idle"] /\ job' = [job EXCEPT ![w] = Missing]
      /\ key' = [key EXCEPT ![w] = Missing] /\ todo' = [todo EXCEPT ![w] = {}]
      /\ target' = [target EXCEPT ![w] = Missing] /\ asset' = [asset EXCEPT ![w] = Missing]
      /\ assets' = [assets EXCEPT ![w] = NoAssets] /\ output' = [output EXCEPT ![w] = Missing]
      /\ written' = [written EXCEPT ![w] = Missing] /\ alone' = alone \ {w}
      /\ UNCHANGED <<disk, fixed, scale, anchor>>
  BY DEF ToolExit, fixed
<1>2. OthersGoOn(w)
  BY <1>0, <1>1 DEF OthersGoOn, ToolTypes
<1>3. /\ assets'[w] = NoAssets /\ doing'[w] = "idle" /\ output'[w] = Missing /\ written'[w] = Missing
      /\ assets' \in [Worker -> ManifestValue] /\ written' = [u \in Worker |-> written'[u]]
  BY <1>0, <1>1, ManifestValues DEF ToolTypes
<1>4. ToolTypes'
  BY <1>0, <1>1, <1>3 DEF ToolTypes, Doings
<1>5. OfUsable(NoAssets)
  BY ManifestValues DEF OfUsable
<1>6. WorkerOK(w)'
  BY <1>3, <1>5 DEF WorkerOK
<1>7. DiskOK'
  BY <1>1, DiskSame
<1>8. AloneOK(w)'
  BY <1>1 DEF AloneOK
<1> QED BY <1>1, <1>2, <1>4, <1>6, <1>7, <1>8, OneWorker

LEMMA RebuildStep ==
    ASSUME ToolInv, NEW t \in Target, Rebuild(t)
    PROVE  ToolInv'
<1>0. ToolTypes /\ DiskOK
  BY DEF ToolInv
<1>1. PICK b \in scale.builds \cup {Missing} : disk' = [disk EXCEPT ![Archive(t)] = b]
  BY DEF Rebuild
<1>2. /\ alone' = {}
      /\ UNCHANGED <<scale, anchor, doing, job, todo, target, asset, assets, key, output, written>>
  BY DEF Rebuild, fixed, toolLocals
<1>3. b \in Build \cup {Missing}
  BY <1>0, SizesAssumption DEF SizesAssumption, ToolTypes
<1>4. /\ disk' = [f \in Artifact |-> disk'[f]] /\ disk'[Archive(t)] = b
      /\ \A f \in Artifact \ {Archive(t)} : disk'[f] = disk[f]
  BY <1>0, <1>1, Paths DEF DiskOK
<1>5. DiskOK'
  <2>1. \A u \in Target : /\ disk'[Archive(u)] \in Build \cup {Missing}
                          /\ disk'[Checksum(u)] \in Build \cup {Missing, Torn}
    BY <1>0, <1>3, <1>4, Paths DEF DiskOK
  <2>2. disk'[Manifest] = disk[Manifest] /\ disk'[Signatures] = disk[Signatures]
    BY <1>4, Paths
  <2> QED BY <1>0, <1>4, <2>1, <2>2 DEF DiskOK, Intact
<1>6. ToolTypes'
  BY <1>0, <1>2 DEF ToolTypes
<1>7. ASSUME NEW w \in Worker PROVE WorkerOK(w)' /\ AloneOK(w)'
  <2>1. WorkerOK(w)
    BY DEF ToolInv
  <2>2. WorkerOK(w)'
    BY <1>2, <2>1 DEF WorkerOK, Writing
  <2> QED BY <1>2, <2>2 DEF AloneOK
<1> QED BY <1>5, <1>6, <1>7 DEF ToolInv

-----------------------------------------------------------------------------
LEMMA ToolStutter == ToolInv /\ UNCHANGED toolVars => ToolInv'
<1> SUFFICES ASSUME ToolInv, UNCHANGED toolVars PROVE ToolInv'
  OBVIOUS
<1>1. UNCHANGED <<disk, fixed, scale, anchor, doing, job, todo, target, asset, assets, key, output,
                  written, alone>>
  BY DEF toolVars, toolLocals, fixed
<1>2. ToolTypes'
  BY <1>1 DEF ToolInv, ToolTypes
<1>3. DiskOK' /\ (Publishable' <=> Publishable)
  BY <1>1, DiskSame
<1>4. ASSUME NEW w \in Worker PROVE WorkerOK(w)' /\ AloneOK(w)'
  <2>1. WorkerOK(w) /\ AloneOK(w)
    BY Facts
  <2>2. WorkerOK(w)'
    BY <1>1, <2>1 DEF WorkerOK, Writing
  <2>3. SignerKnows(w) => SignerKnows(w)'
    BY <1>1 DEF SignerKnows, Intact
  <2>4. VerifierKnows(w) => VerifierKnows(w)'
    BY <1>1, <1>3 DEF VerifierKnows, Intact, Trusted
  <2> QED BY <1>1, <2>1, <2>2, <2>3, <2>4 DEF AloneOK
<1> QED BY <1>2, <1>3, <1>4 DEF ToolInv

\* Every step of every command, and every build, keeps the invariant.
LEMMA ToolStep == ToolInv /\ [ToolNext]_toolVars => ToolInv'
<1> SUFFICES ASSUME ToolInv, [ToolNext]_toolVars PROVE ToolInv'
  OBVIOUS
<1>1. scale.workers \subseteq Worker /\ scale.targets \subseteq Target
  BY SizesAssumption DEF SizesAssumption, ToolInv, ToolTypes
<1>2. ASSUME NEW w \in Worker,
             \/ ToolStart(w) \/ Truncate(w) \/ ToolFill(w) \/ ToolExit(w)
             \/ ProbeArchive(w) \/ ProbeContents(w) \/ InspectArchive(w) \/ WriteManifest(w)
             \/ ReadManifest(w) \/ Sign(w)
             \/ CheckSignatures(w) \/ CheckArchive(w) \/ CheckChecksum(w) \/ CheckAgain(w)
             \/ CheckListing(w)
      PROVE  ToolInv'
  BY <1>2, StartStep, TruncateStep, FillStep, ExitStep, ProbeArchiveStep, ProbeContentsStep,
     InspectArchiveStep, WriteManifestStep, ReadManifestStep, SignStep, CheckSignaturesStep,
     CheckArchiveStep, CheckChecksumStep, CheckAgainStep, CheckListingStep
<1>3. ASSUME NEW t \in Target, Rebuild(t) PROVE ToolInv'
  BY <1>3, RebuildStep
<1>4. CASE UNCHANGED toolVars
  BY <1>4, ToolStutter
<1> QED BY <1>1, <1>2, <1>3, <1>4 DEF ToolNext

\* Whatever commands run at once, are killed and meet new builds, the files
\* hold what they should, and every command knows what it has to.
THEOREM ToolInvariant == ToolSpec => []ToolInv
<1>1. ToolInit => ToolInv
  BY ToolStarts
<1>2. ToolInv /\ [ToolNext]_toolVars => ToolInv'
  BY ToolStep
<1> QED BY <1>1, <1>2, PTL DEF ToolSpec

\* The state of the commands and the files of a release keep their types.
THEOREM ToolTypeCorrect == ToolSpec => []ToolTypeOK
<1>1. ASSUME ToolInv PROVE ToolTypeOK
  <2>1. ToolTypes /\ DiskOK
    BY <1>1 DEF ToolInv
  <2>2. ASSUME NEW f \in Artifact PROVE disk[f] \in {Missing, Torn} \/ disk[f] \in Holds(f)
    BY <2>1, Paths DEF DiskOK, Holds
  <2>3. \A w \in Worker : \/ output[w] = Missing /\ written[w] = Missing
                          \/ output[w] \in Artifact /\ written[w] \in Holds(output[w])
    BY <1>1 DEF ToolInv, WorkerOK
  <2> QED BY <2>1, <2>2, <2>3 DEF ToolTypeOK, ToolTypes
<1> QED BY <1>1, ToolInvariant, PTL

\* What manifest, sign and verify (relswap.rs) write and report is true of the
\* files: a manifest describes whole archives that passed inspection, verify
\* accepts exactly what clients would, and a signing reported as done covers
\* the manifest there is, in whatever order the commands run, are killed and
\* meet new builds.
THEOREM CommandsReportTrue == ToolSpec => []ReportsTrue
<1>1. ASSUME ToolInv PROVE ReportsTrue
  <2>1. ManifestOfBuilds
    BY <1>1 DEF ToolInv, DiskOK, OfUsable, ManifestOfBuilds
  <2>2. ASSUME NEW w \in alone PROVE AloneOK(w)
    BY <1>1 DEF ToolInv, ToolTypes
  <2>3. VerifiedIsPublishable
    BY <2>2 DEF AloneOK, VerifierKnows, VerifiedIsPublishable
  <2>4. ASSUME NEW w \in alone, doing[w] = "signed" PROVE job[w] \in {"sign", "append"}
    BY <1>1, <2>4 DEF ToolInv, ToolTypes, WorkerOK
  <2>5. SignedIsCurrent
    BY <2>2, <2>4 DEF AloneOK, SignerKnows, SignedIsCurrent
  <2> QED BY <2>1, <2>3, <2>5 DEF ReportsTrue
<1> QED BY <1>1, ToolInvariant, PTL

-----------------------------------------------------------------------------
(* Parts.                                                                  *)

\* In whichever part a step is, it is one of that part and a stutter of the
\* others.
LEMMA PartsImplementEach ==
    PartsSpec => /\ ExtractSpec /\ ToolSpec /\ KeySpec
                 /\ NewFileSpec /\ DirSpec /\ TransferSpec
<1>1. PartsInit => /\ ExtractInit /\ ToolInit /\ KeyInit
                   /\ NewFileInit /\ DirInit /\ TransferInit
  BY DEF PartsInit
<1>2. [PartsNext]_partsVars =>
        /\ [ExtractNext]_<<vars, extractVars>> /\ [ToolNext]_toolVars /\ [KeyNext]_keyVars
        /\ [NewFileNext]_newFileVars /\ [DirNext]_dirVars /\ [TransferNext]_transferVars
  BY DEF PartsNext, partsVars, archiveVars
<1> QED
  BY <1>1, <1>2, PTL
     DEF PartsSpec, ExtractSpec, ToolSpec, KeySpec, NewFileSpec, DirSpec, TransferSpec

\* The variables of every part keep their types, whichever part runs.
THEOREM PartsTypeCorrect == PartsSpec => []PartsTypeOK
<1>1. PartsSpec => /\ []ExtractTypeOK /\ []ToolTypeOK /\ []KeyTypeOK
                   /\ []NewFileTypeOK /\ []DirTypeOK /\ []TransferTypeOK
  BY PartsImplementEach, ExtractTypeCorrect, ToolTypeCorrect, KeyTypeCorrect,
     NewFileTypeCorrect, DirTypeCorrect, TransferTypeCorrect
<1>2. ExtractTypeOK /\ ToolTypeOK /\ KeyTypeOK /\ NewFileTypeOK /\ DirTypeOK /\ TransferTypeOK
        => PartsTypeOK
  BY DEF PartsTypeOK
<1> QED BY <1>1, <1>2, PTL

\* What every part promises is kept in all of them together: archives are judged
\* as a whole and extracted whole or not at all (archive.rs), manifest, sign and
\* verify report what is true, key pairs are whole (relswap.rs), temporary names
\* stay apart (executable.rs), only private directories are admitted
\* (security.rs), and bodies are taken to their ceiling (download.rs).
THEOREM PromisesAreKept ==
    PartsSpec => [](/\ JudgedAsWhole /\ AllOrNothing /\ ReportsTrue /\ KeysPaired
                    /\ NamesApart /\ AdmittedIsPrivate /\ TakenToCeiling)
BY PartsImplementEach, JudgesAsWhole, ExtractedAsWhole, CommandsReportTrue, PairedOrNothing,
   NamesStayApart, OnlyPrivate, BodiesTakenToCeiling, PTL

\* No step of an extraction (archive.rs), of keygen (relswap.rs) or of a thread
\* that publishes a file (executable.rs) replaces or removes a file that is not
\* its own, whatever the others do at that moment.
THEOREM AllFilesAreKept == PartsSpec => FilesKept
BY PartsImplementEach, OthersAreKept, NothingOverwritten, PublishesOwn DEF FilesKept

=============================================================================
