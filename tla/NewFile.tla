------------------------------ MODULE NewFile ------------------------------
(***************************************************************************)
(* atomic_replace_file, create_new_file and atomic_switch_symlink          *)
(* (src/src/fs/executable.rs): a file is made under a temporary name,      *)
(* beside the path it is meant for, and renamed.  The names come from a    *)
(* counter the threads of a process share; a process that was killed       *)
(* leaves its files, and another may be given the same pid.                *)
(***************************************************************************)
EXTENDS Naturals, FiniteSets

CONSTANTS
    Thread,
    MaxTries,   \* 32 in create_temporary_file
    MaxCounter, \* bound: names taken by one process
    MaxKills,   \* bound
    Absent      \* no file

ASSUME TriesAssumption == MaxTries \in Nat \ {0} /\ {MaxCounter, MaxKills} \subseteq Nat

Operation == {"replace", "create", "switch"}
Kind(o) == IF o = "switch" THEN "symlink" ELSE "file"
Temporary == {"symlink", "file"} \X (0..MaxCounter)
Made == [by : Thread, kind : {"symlink", "file"}, whole : BOOLEAN]

ASSUME AbsentAssumption == Absent \notin Made

VARIABLES
    published,  \* what the path names
    temporary,  \* the files under temporary names
    counter,    \* TEMP_COUNTER
    operation,  \* what each thread is asked to do
    point,      \* where it is
    ticket,     \* the number in its temporary name
    tries,      \* how many it has tried
    orphans,    \* history: left by a kill, or by a removal that failed
    kills

newFileVars ==
    <<published, temporary, counter, operation, point, ticket, tries, orphans, kills>>

Points == {"idle", "look", "name", "open", "write", "publish", "sync", "undo", "exhausted"}

NewFileTypeOK ==
    /\ published \in Made \cup {Absent} /\ (published # Absent => published.whole)
    /\ temporary \in [Temporary -> Made \cup {Absent}]
    /\ counter \in 0..MaxCounter
    /\ operation \in [Thread -> Operation]
    /\ point \in [Thread -> Points]
    /\ ticket \in [Thread -> 0..MaxCounter]
    /\ tries \in [Thread -> 0..MaxTries]
    /\ orphans \subseteq Temporary
    /\ kills \in 0..MaxKills

NewFileInit ==
    /\ published = Absent
    /\ temporary = [n \in Temporary |-> Absent]
    /\ counter = 0
    /\ operation = [t \in Thread |-> "replace"]
    /\ point = [t \in Thread |-> "idle"]
    /\ ticket = [t \in Thread |-> 0]
    /\ tries = [t \in Thread |-> 0]
    /\ orphans = {}
    /\ kills = 0

-----------------------------------------------------------------------------
NameOf(t) == <<Kind(operation[t]), ticket[t]>>
Proceed(t, p) ==
    /\ point' = [point EXCEPT ![t] = p]
    /\ UNCHANGED <<operation, ticket, tries>>

\* It returns: "idle", or "exhausted".
Finish(t, p) ==
    /\ point' = [point EXCEPT ![t] = p]
    /\ operation' = [operation EXCEPT ![t] = "replace"]
    /\ ticket' = [ticket EXCEPT ![t] = 0]
    /\ tries' = [tries EXCEPT ![t] = 0]

Ask(t) ==
    /\ point[t] \in {"idle", "exhausted"}
    /\ \E o \in Operation : operation' = [operation EXCEPT ![t] = o]
    /\ point' = [point EXCEPT ![t] = "look"]
    /\ UNCHANGED <<published, temporary, counter, ticket, tries, orphans, kills>>

\* A file is not replaced through a link, nor a link where there is a file;
\* and create_new_file wants nothing there.
Suits(o) ==
    \/ published = Absent
    \/ o # "create" /\ published.kind = Kind(o)

LookAt(t) ==
    /\ point[t] = "look"
    /\ IF Suits(operation[t]) THEN Proceed(t, "name") ELSE Finish(t, "idle")
    /\ UNCHANGED <<published, temporary, counter, orphans, kills>>

\* temporary_path
TakeName(t) ==
    /\ point[t] = "name"
    /\ counter < MaxCounter
    /\ counter' = counter + 1
    /\ ticket' = [ticket EXCEPT ![t] = counter]
    /\ point' = [point EXCEPT ![t] = "open"]
    /\ UNCHANGED <<published, temporary, operation, tries, orphans, kills>>

\* create_new, or symlink.
OpenTemporary(t) ==
    /\ point[t] = "open"
    /\ temporary[NameOf(t)] = Absent
    /\ temporary' = [temporary EXCEPT ![NameOf(t)] =
          [by |-> t, kind |-> Kind(operation[t]), whole |-> operation[t] = "switch"]]
    /\ Proceed(t, IF operation[t] = "switch" THEN "publish" ELSE "write")
    /\ UNCHANGED <<published, counter, orphans, kills>>

\* AlreadyExists: another name, unless this was the last try.
TryAgain(t) ==
    /\ point[t] = "open" /\ operation[t] # "switch"
    /\ temporary[NameOf(t)] # Absent
    /\ IF tries[t] + 1 < MaxTries
       THEN /\ tries' = [tries EXCEPT ![t] = @ + 1]
            /\ point' = [point EXCEPT ![t] = "name"]
            /\ UNCHANGED <<operation, ticket>>
       ELSE Finish(t, "exhausted")
    /\ UNCHANGED <<published, temporary, counter, orphans, kills>>

\* Any other error ends it; for a link AlreadyExists does.
OpenFails(t) ==
    /\ point[t] = "open"
    /\ Finish(t, "idle")
    /\ UNCHANGED <<published, temporary, counter, orphans, kills>>

\* write_all, flush, the mode, and sync_all, of which each may fail.
WriteTemporary(t) ==
    /\ point[t] = "write"
    /\ \/ /\ temporary' = [temporary EXCEPT ![NameOf(t)].whole = TRUE]
          /\ Proceed(t, "publish")
       \/ /\ \E w \in BOOLEAN : temporary' = [temporary EXCEPT ![NameOf(t)].whole = w]
          /\ Proceed(t, "undo")
    /\ UNCHANGED <<published, counter, orphans, kills>>

\* replace_existing takes any name, rename_new one that is free.
Vacant(o) == o = "create" => published = Absent

Publish(t) ==
    /\ point[t] = "publish"
    /\ Vacant(operation[t])
    /\ published' = temporary[NameOf(t)]
    /\ temporary' = [temporary EXCEPT ![NameOf(t)] = Absent]
    /\ Proceed(t, "sync")
    /\ UNCHANGED <<counter, orphans, kills>>

PublishFails(t) ==
    /\ point[t] = "publish"
    /\ Proceed(t, "undo")
    /\ UNCHANGED <<published, temporary, counter, orphans, kills>>

\* sync_dir; when it fails the file is in place, and the caller is told of an error.
SyncParent(t) ==
    /\ point[t] = "sync"
    /\ Finish(t, "idle") \/ Proceed(t, "undo")
    /\ UNCHANGED <<published, temporary, counter, orphans, kills>>

\* A bug: what was not written whole stays.
RemoveWhole(t) ==
    /\ point[t] = "undo"
    /\ IF temporary[NameOf(t)] # Absent /\ temporary[NameOf(t)].whole
       THEN temporary' = [temporary EXCEPT ![NameOf(t)] = Absent]
       ELSE UNCHANGED temporary
    /\ Finish(t, "idle")
    /\ UNCHANGED <<published, counter, orphans, kills>>

\* The temporary file, if it is still there; or it cannot be removed.
RemoveTemporary(t) ==
    /\ point[t] = "undo"
    /\ \/ /\ temporary' = [temporary EXCEPT ![NameOf(t)] = Absent]
          /\ UNCHANGED orphans
       \/ /\ temporary[NameOf(t)] # Absent
          /\ orphans' = orphans \cup {NameOf(t)}
          /\ UNCHANGED temporary
    /\ Finish(t, "idle")
    /\ UNCHANGED <<published, counter, kills>>

\* The next process has the same pid, and counts from zero again.
Kill ==
    /\ kills < MaxKills
    /\ kills' = kills + 1
    /\ counter' = 0
    /\ point' = [t \in Thread |-> "idle"]
    /\ tries' = [t \in Thread |-> 0]
    /\ ticket' = [t \in Thread |-> 0]
    /\ operation' = [t \in Thread |-> "replace"]
    /\ orphans' = {n \in Temporary : temporary[n] # Absent}
    /\ UNCHANGED <<published, temporary>>

NewFileNext ==
    \/ \E t \in Thread :
         \/ Ask(t) \/ LookAt(t) \/ TakeName(t) \/ OpenTemporary(t) \/ TryAgain(t) \/ OpenFails(t)
         \/ WriteTemporary(t) \/ Publish(t) \/ PublishFails(t) \/ SyncParent(t)
         \/ RemoveTemporary(t)
    \/ Kill

NewFileSpec == NewFileInit /\ [][NewFileNext]_newFileVars

-----------------------------------------------------------------------------
\* What appears at the path is what one thread made, whole, in its own
\* operation; create_new_file puts it there only where nothing is, though it
\* looked long before and other threads have published since.
PublishedIsOwn ==
    [][published' # published =>
          \E t \in Thread :
             /\ point[t] = "publish" /\ published'.by = t
             /\ operation[t] = "create" => published = Absent]_newFileVars

Holding(t) == point[t] \in {"write", "publish", "undo"} /\ temporary[NameOf(t)] # Absent

\* Whatever is under a temporary name is either of one thread, which is at
\* work on it and the only one, or was left by a kill or by a removal that
\* failed: an operation that fails leaves nothing.
TemporariesAccounted ==
    /\ \A n \in Temporary \ orphans : temporary[n] # Absent =>
          Cardinality({t \in Thread : Holding(t) /\ NameOf(t) = n}) = 1
    /\ \A t \in Thread : Holding(t) => NameOf(t) \notin orphans /\ temporary[NameOf(t)].by = t

\* A process runs out of names only among as many left behind as it tries:
\* the threads never use up each other's tries.
NamesSuffice ==
    (\E t \in Thread : point[t] = "exhausted") => Cardinality(orphans) >= MaxTries

\* The threads and processes that share a directory never get in each other's
\* way through their temporary names (create_temporary_file, temporary_path).
NamesApart == TemporariesAccounted /\ NamesSuffice

=============================================================================
