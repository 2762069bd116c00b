----------------------------- MODULE ArchiveScan -----------------------------
(***************************************************************************)
(* The inspection of a release archive (src/src/release/archive.rs): one   *)
(* pass over the records of a tar stream, or over the entries of a zip     *)
(* directory, that carries metadata forward to the member it is about and  *)
(* keeps several totals below their limits.  Any records may come in any   *)
(* order; the verdict is compared with a definition of an acceptable       *)
(* archive that looks at the whole of it at once.                          *)
(*                                                                         *)
(* Sizes are counted in blocks: a header is one, and so is the data of a   *)
(* metadata record.  A path is what validate_member_name makes of it.      *)
(***************************************************************************)
EXTENDS Sums, FiniteSetsExt

CONSTANTS
    Records,            \* the records that may come, in a "tar" and in a "zip"
    MaxRecords,         \* MAX_ARCHIVE_MEMBERS
    MaxMember,          \* MAX_MEMBER_SIZE
    MaxContents,        \* MAX_UNCOMPRESSED_SIZE
    MaxStream,          \* MAX_TAR_DECOMPRESSED_SIZE
    PayloadSize,        \* from the manifest
    LauncherSize,
    MaxTape,            \* bound: the records looked at
    None,               \* no such field, or not given
    Empty               \* a pax field given without a value

Path == {"root", "payload", "launcher", "other", "unsafe"}
MetaType == {"longname", "longlink", "pax", "global"}
MemberType == {"file", "dir", "special"}

Field(S) == S \cup {None, Empty}
Pax(type) == [type : {type}, path : Field(Path), size : Field(Nat)]
Member == [type : MemberType, path : Path, size : Nat, actual : Nat,
           content : {"payload", "launcher", "junk"}, executable : BOOLEAN]

ASSUME RecordAssumption ==
    /\ DOMAIN Records = {"tar", "zip"}
    /\ Records["zip"] \subseteq Member
    /\ \A r \in Records["tar"] :
         \/ r \in Member
         \/ r \in [type : {"longname"}, path : Path]
         \/ r \in [type : {"longlink"}]
         \/ r \in Pax("pax") \cup Pax("global")
ASSUME LimitAssumption ==
    {MaxRecords, MaxMember, MaxContents, MaxStream, PayloadSize, LauncherSize, MaxTape} \subseteq Nat
ASSUME FieldAssumption ==
    None # Empty /\ {None, Empty} \cap (Nat \cup Path \cup Records["tar"]) = {}

VARIABLES
    format,     \* "tar", or "zip" for a Windows target
    at,         \* "scan", then "accepted" or "refused", or "returned" with a release
    tape,       \* what has been read
    trailing,   \* the blocks after the end marker, once it has been read
    longName,   \* pending_long_name
    longLink,   \* pending_long_link
    pax,        \* pending_pax
    global,     \* global_pax
    names,      \* the names of the members so far
    total,      \* total_uncompressed
    remaining,  \* DecompressedLimit.remaining
    rootSeen,
    found       \* the expected members that have been verified

pendings == <<longName, longLink, pax>>
vars == <<format, at, tape, trailing, pendings, global, names, total, remaining, rootSeen, found>>

Tar == format = "tar"

TypeOK ==
    /\ format \in DOMAIN Records
    /\ at \in {"scan", "accepted", "refused", "returned"}
    /\ tape \in Seq(Records[format]) /\ Len(tape) <= MaxTape
    /\ trailing \in 0..2 \cup {None}
    /\ longName \in Path \cup {None}
    /\ longLink \in BOOLEAN
    /\ pax \in Records[format] \cup {None}
    /\ global \in [path : Path \cup {None}, size : Nat \cup {None}]
    /\ names \subseteq Path
    /\ total \in 0..MaxContents
    /\ remaining \in 0..MaxStream
    /\ rootSeen \in BOOLEAN
    /\ found \subseteq {"payload", "launcher"}

\* inspect_archive goes by the target's platform.
Init ==
    /\ format \in DOMAIN Records
    /\ at = "scan"
    /\ tape = <<>>
    /\ trailing = None
    /\ longName = None /\ longLink = FALSE /\ pax = None
    /\ global = [path |-> None, size |-> None]
    /\ names = {}
    /\ total = 0
    /\ remaining = MaxStream
    /\ rootSeen = FALSE
    /\ found = {}

-----------------------------------------------------------------------------
(* One record of the stream.                                               *)

Take(r) ==
    /\ at = "scan"
    /\ Len(tape) < MaxTape
    /\ tape' = Append(tape, r)
    /\ UNCHANGED <<format, trailing>>

\* DecompressedLimit, and the count of records.  A zip directory has only
\* the count.
Fits(blocks) ==
    /\ Len(tape) < MaxRecords
    /\ Tar => blocks <= remaining

Pay(blocks) == remaining' = IF Tar THEN remaining - blocks ELSE remaining

Refuse == at' = "refused" /\ UNCHANGED <<pendings, global, names, total, remaining, rootSeen, found>>

LongName(r) ==
    /\ Take(r)
    /\ r.type = "longname"
    /\ IF Fits(2) /\ longName = None
       THEN /\ longName' = r.path
            /\ Pay(2)
            /\ UNCHANGED <<at, longLink, pax, global, names, total, rootSeen, found>>
       ELSE Refuse

LongLink(r) ==
    /\ Take(r)
    /\ r.type = "longlink"
    /\ IF Fits(2) /\ ~longLink
       THEN /\ longLink' = TRUE
            /\ Pay(2)
            /\ UNCHANGED <<at, longName, pax, global, names, total, rootSeen, found>>
       ELSE Refuse

LocalPax(r) ==
    /\ Take(r)
    /\ r.type = "pax"
    /\ IF Fits(2) /\ pax = None
       THEN /\ pax' = r
            /\ Pay(2)
            /\ UNCHANGED <<at, longName, longLink, global, names, total, rootSeen, found>>
       ELSE Refuse

\* OwnedPaxOverrides::update, one field of it.
Updated(old, new) == IF new = None THEN old ELSE IF new = Empty THEN None ELSE new

GlobalPax(r) ==
    /\ Take(r)
    /\ r.type = "global"
    /\ IF Fits(2)
       THEN /\ global' = [path |-> Updated(global.path, r.path),
                          size |-> Updated(global.size, r.size)]
            /\ Pay(2)
            /\ UNCHANGED <<at, pendings, names, total, rootSeen, found>>
       ELSE Refuse

\* A field of a member: its own pax record's, else the global one's, else
\* the header's.  A field that is given empty brings back the header's.
Effective(given, inherited, header) ==
    IF given = Empty THEN header
    ELSE IF given # None THEN given
    ELSE IF inherited # None THEN inherited
    ELSE header

MemberPath(r) ==
    IF longName # None THEN longName
    ELSE Effective(IF pax = None THEN None ELSE pax.path, global.path, r.path)

MemberSize(r) ==
    Effective(IF pax = None THEN None ELSE pax.size, global.size, r.size)

\* The members that are looked for, and what verify_bytes and the mode ask.
Expected == IF Tar THEN {"payload"} ELSE {"payload", "launcher"}

MemberVerified(path, size, r) ==
    /\ r.content = path
    /\ size = IF path = "payload" THEN PayloadSize ELSE LauncherSize
    /\ Tar => r.executable

\* read_member_data: a member's data are as long as was declared.  Those of
\* a tar member are cut from the stream to that length.
ReadWhole(size, r) == Tar \/ r.actual = size

FileOK(path, size, r) ==
    /\ r.type = "file"
    /\ path # "root"
    /\ total + size <= MaxContents
    /\ Fits(1 + size)
    /\ ReadWhole(size, r)
    /\ path \in Expected => MemberVerified(path, size, r)

DirOK(size, r) == r.type = "dir" /\ size = 0 /\ Fits(1)

MemberOK(path, size, r) ==
    /\ path # "unsafe"
    /\ path \notin names
    /\ size <= MaxMember
    /\ FileOK(path, size, r) \/ DirOK(size, r)

ScanMember(r) ==
    /\ Take(r)
    /\ r.type \in MemberType
    /\ LET path == MemberPath(r)
           size == MemberSize(r)
           file == r.type = "file"
       IN  IF MemberOK(path, size, r)
           THEN /\ longName' = None /\ longLink' = FALSE /\ pax' = None
                /\ names' = names \cup {path}
                /\ total' = IF file THEN total + size ELSE total
                /\ Pay(IF file THEN 1 + size ELSE 1)
                /\ rootSeen' = (rootSeen \/ path = "root")
                /\ found' = IF file THEN found \cup ({path} \cap Expected) ELSE found
                /\ UNCHANGED <<at, global>>
           ELSE Refuse

\* A bug: an end marker is not expected to leave metadata over.
NothingEverPending == TRUE

NothingPending == longName = None /\ ~longLink /\ pax = None

\* finish_members
Complete == rootSeen /\ found = Expected

\* The end marker and zeros after it.
End ==
    /\ at = "scan"
    /\ trailing' \in IF Tar THEN 0..2 ELSE {0}
    /\ at' = IF /\ Tar => NothingPending /\ 1 + trailing' <= remaining
                /\ Complete
             THEN "accepted" ELSE "refused"
    /\ UNCHANGED <<format, tape, pendings, global, names, total, remaining, rootSeen, found>>

Next ==
    \/ \E r \in Records[format] : LongName(r) \/ LongLink(r) \/ LocalPax(r)
                            \/ GlobalPax(r) \/ ScanMember(r)
    \/ End

Spec == Init /\ [][Next]_vars

\* inspect_archive returns: its locals are gone but for what was found.
Return ==
    /\ at = "accepted"
    /\ at' = "returned"
    /\ tape' = <<>> /\ trailing' = None
    /\ longName' = None /\ longLink' = FALSE /\ pax' = None
    /\ global' = [path |-> None, size |-> None]
    /\ names' = {}
    /\ total' = 0
    /\ remaining' = MaxStream
    /\ rootSeen' = FALSE
    /\ UNCHANGED <<format, found>>

-----------------------------------------------------------------------------
(* An acceptable archive, by looking at the whole tape t.                  *)

Members(t) == {i \in DOMAIN t : t[i].type \in MemberType}
Files(t) == {i \in DOMAIN t : t[i].type = "file"}

\* The metadata records that are for the member at i.
For(t, i) == {j \in 1..(i - 1) : \A k \in j..(i - 1) : k \notin Members(t)}

OfType(t, S, type) == {j \in S : t[j].type = type}

\* What field f of the records says of the member at i, or None.
Said(t, i, f) ==
    LET given(S) == {j \in S : t[j][f] # None}
        local == given(OfType(t, For(t, i), "pax"))
        shared == given(OfType(t, 1..(i - 1), "global"))
    IN  IF local # {} THEN t[Max(local)][f]
        ELSE IF shared # {} THEN t[Max(shared)][f]
        ELSE None

PathOf(t, i) ==
    LET long == OfType(t, For(t, i), "longname")
        said == Said(t, i, "path")
    IN  IF long # {} THEN t[Max(long)].path
        ELSE IF said \in {None, Empty} THEN t[i].path ELSE said

SizeOf(t, i) ==
    LET said == Said(t, i, "size")
    IN  IF said \in {None, Empty} THEN t[i].size ELSE said

Contents(t) == SumSeq([i \in DOMAIN t |-> IF i \in Files(t) THEN SizeOf(t, i) ELSE 0])

\* The blocks up to the end marker.
Stream(t) ==
    Len(t) + Cardinality(DOMAIN t \ Members(t)) + Contents(t)

Wanted == {"payload"} \cup IF Tar THEN {} ELSE {"launcher"}

\* The member at i is what the manifest says of the file of that path.
AsPromised(t, i) ==
    /\ <<t[i].content, PathOf(t, i), SizeOf(t, i)>> \in
           {<<"payload", "payload", PayloadSize>>, <<"launcher", "launcher", LauncherSize>>}
    /\ Tar => t[i].executable

\* Nothing is wrong with the records of t.
Sound(t) ==
    /\ Len(t) <= MaxRecords
    /\ \A type \in MetaType \ {"global"}, i \in 1..(Len(t) + 1) :
         Cardinality(OfType(t, For(t, i), type)) <= 1
    /\ \A i \in Members(t) :
         /\ PathOf(t, i) # "unsafe"
         /\ \A j \in Members(t) \ {i} : PathOf(t, j) # PathOf(t, i)
         /\ SizeOf(t, i) <= MaxMember
         /\ \/ t[i].type = "dir" /\ SizeOf(t, i) = 0
            \/ /\ t[i].type = "file"
               /\ PathOf(t, i) # "root"
               /\ ~Tar => t[i].actual = SizeOf(t, i)
         /\ t[i].type = "file" /\ PathOf(t, i) \in Wanted => AsPromised(t, i)
    /\ Contents(t) <= MaxContents
    /\ Tar => Stream(t) <= MaxStream

\* And it is a release, with an end marker and zeros after it.
Whole(t, zeros) ==
    /\ Sound(t)
    /\ \E i \in Members(t) : t[i].type = "dir" /\ PathOf(t, i) = "root"
    /\ \A path \in Wanted : \E i \in Files(t) : PathOf(t, i) = path
    /\ OfType(t, For(t, Len(t) + 1), "global") = For(t, Len(t) + 1)
    /\ Tar => Stream(t) + 1 + zeros <= MaxStream

-----------------------------------------------------------------------------
\* Whatever metadata comes before which members, an archive that is accepted
\* is a whole release: the one pass has applied each record to the member it
\* was for and no other, and has missed no limit.
AcceptedIsWhole == at = "accepted" => Whole(tape, trailing)

\* And only such an archive is refused that is not: no limit comes a block or
\* a record too early.
RefusedIsNot ==
    at = "refused" => IF trailing = None THEN ~Sound(tape) ELSE ~Whole(tape, trailing)

\* While it goes on the totals are those of the tape, so that they bound what
\* has been decompressed.
TotalsExact ==
    at = "scan" =>
        /\ Sound(tape)
        /\ total = Contents(tape)
        /\ Tar => remaining = MaxStream - Stream(tape)

\* The one pass judges an archive as a look at the whole would, and no later
\* than it can (inspect_tar, inspect_zip).
JudgedAsWhole == AcceptedIsWhole /\ RefusedIsNot /\ TotalsExact

=============================================================================
