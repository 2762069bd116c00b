---------------------------- MODULE ArchiveProofs ----------------------------
(***************************************************************************)
(* What holds of the inspection and the extraction of an archive, for any  *)
(* records in any order, any limits and any directory that others use too. *)
(***************************************************************************)
EXTENDS Extraction, SumsProofs, FiniteSetTheorems, TLAPS

-----------------------------------------------------------------------------
(* The types of an inspection.                                             *)

\* The metadata that is pending is of a pax record of its own.
ScanInv ==
    /\ TypeOK
    /\ pax # None => pax \in Pax("pax")

\* A record of the stream is one of its kind.
LEMMA Kinds ==
    ASSUME NEW r \in Records[format], format \in DOMAIN Records
    PROVE  /\ r.type = "longname" => r.path \in Path
           /\ r.type = "pax" => r \in Pax("pax")
           /\ r.type = "global" => r \in Pax("global")
           /\ r.type \in MemberType => r \in Member
<1>1. r \in Member \/ r \in [type : {"longname"}, path : Path] \/ r \in [type : {"longlink"}]
        \/ r \in Pax("pax") \/ r \in Pax("global")
  BY RecordAssumption DEF RecordAssumption
<1> QED BY <1>1 DEF Member, Pax, MemberType

\* The size of a member is a number, whoever gives it.
LEMMA SizeIsNumber ==
    ASSUME ScanInv, NEW r \in Member
    PROVE  MemberSize(r) \in Nat /\ MemberPath(r) \in Path
<1>1. r.size \in Nat /\ r.path \in Path
  BY DEF Member
<1>2. global.size \in Nat \cup {None} /\ global.path \in Path \cup {None} /\ longName \in Path \cup {None}
  BY DEF ScanInv, TypeOK
<1>3. pax # None => pax.size \in Nat \cup {None, Empty} /\ pax.path \in Path \cup {None, Empty}
  BY DEF ScanInv, Pax, Field
<1>4. MemberSize(r) \in Nat
  BY <1>1, <1>2, <1>3 DEF MemberSize, Effective
<1>5. MemberPath(r) \in Path
  BY <1>1, <1>2, <1>3 DEF MemberPath, Effective
<1> QED BY <1>4, <1>5

LEMMA ScanStarts == Init => ScanInv
<1> SUFFICES ASSUME Init PROVE ScanInv
  OBVIOUS
<1>1. 0 \in 0..MaxContents /\ MaxStream \in 0..MaxStream /\ 0 <= MaxTape
  BY LimitAssumption DEF LimitAssumption
<1>2. tape \in Seq(Records[format]) /\ Len(tape) <= MaxTape
  BY <1>1 DEF Init
<1> QED BY <1>1, <1>2 DEF Init, ScanInv, TypeOK

\* What Pay takes has been seen to fit.
LEMMA Paid ==
    ASSUME ScanInv, NEW blocks \in Nat, Fits(blocks), Pay(blocks)
    PROVE  remaining' \in 0..MaxStream
BY LimitAssumption DEF LimitAssumption, ScanInv, TypeOK, Fits, Pay

LEMMA Taken ==
    ASSUME ScanInv, NEW r \in Records[format], Take(r)
    PROVE  /\ tape' \in Seq(Records[format]) /\ Len(tape') <= MaxTape
           /\ format' = format /\ trailing' = trailing
<1>1. tape' = Append(tape, r) /\ Len(tape) < MaxTape /\ UNCHANGED <<format, trailing>>
  BY DEF Take
<1>2. tape \in Seq(Records[format]) /\ Len(tape) \in Nat /\ MaxTape \in Nat
  BY LimitAssumption DEF LimitAssumption, ScanInv, TypeOK
<1>3. Append(tape, r) \in Seq(Records[format]) /\ Len(Append(tape, r)) = Len(tape) + 1
  BY <1>2
<1> QED BY <1>1, <1>2, <1>3

LEMMA ScanKeeps ==
    ASSUME ScanInv, Next \/ Return \/ UNCHANGED vars
    PROVE  ScanInv'
<1>0. /\ format \in DOMAIN Records /\ at \in {"scan", "accepted", "refused", "returned"}
      /\ trailing \in 0..2 \cup {None} /\ longName \in Path \cup {None} /\ longLink \in BOOLEAN
      /\ pax \in Records[format] \cup {None} /\ (pax # None => pax \in Pax("pax"))
      /\ global \in [path : Path \cup {None}, size : Nat \cup {None}] /\ names \subseteq Path
      /\ total \in 0..MaxContents /\ remaining \in 0..MaxStream /\ rootSeen \in BOOLEAN
      /\ found \subseteq {"payload", "launcher"}
      /\ tape \in Seq(Records[format]) /\ Len(tape) <= MaxTape
  BY DEF ScanInv, TypeOK
<1>1. ASSUME NEW r \in Records[format], Take(r), Refuse PROVE ScanInv'
  <2>1. /\ at' = "refused"
        /\ UNCHANGED <<longName, longLink, pax, global, names, total, remaining, rootSeen, found>>
    BY <1>1 DEF Refuse, pendings
  <2> QED BY <1>0, <1>1, <2>1, Taken DEF ScanInv, TypeOK
<1>2. ASSUME NEW r \in Records[format], LongName(r), ~Refuse PROVE ScanInv'
  <2>1. /\ Take(r) /\ Fits(2) /\ Pay(2) /\ longName' = r.path /\ r.type = "longname"
        /\ UNCHANGED <<at, longLink, pax, global, names, total, rootSeen, found>>
    BY <1>2 DEF LongName
  <2>2. remaining' \in 0..MaxStream /\ longName' \in Path
    BY <1>0, <2>1, Paid, Kinds
  <2> QED BY <1>0, <2>1, <2>2, Taken DEF ScanInv, TypeOK
<1>3. ASSUME NEW r \in Records[format], LongLink(r), ~Refuse PROVE ScanInv'
  <2>1. /\ Take(r) /\ Fits(2) /\ Pay(2) /\ longLink' = TRUE
        /\ UNCHANGED <<at, longName, pax, global, names, total, rootSeen, found>>
    BY <1>3 DEF LongLink
  <2>2. remaining' \in 0..MaxStream
    BY <2>1, Paid
  <2> QED BY <1>0, <2>1, <2>2, Taken DEF ScanInv, TypeOK
<1>4. ASSUME NEW r \in Records[format], LocalPax(r), ~Refuse PROVE ScanInv'
  <2>1. /\ Take(r) /\ Fits(2) /\ Pay(2) /\ pax' = r /\ r.type = "pax"
        /\ UNCHANGED <<at, longName, longLink, global, names, total, rootSeen, found>>
    BY <1>4 DEF LocalPax
  <2>2. remaining' \in 0..MaxStream /\ pax' \in Pax("pax")
    BY <1>0, <2>1, Paid, Kinds
  <2> QED BY <1>0, <2>1, <2>2, Taken DEF ScanInv, TypeOK
<1>5. ASSUME NEW r \in Records[format], GlobalPax(r), ~Refuse PROVE ScanInv'
  <2>1. /\ Take(r) /\ Fits(2) /\ Pay(2) /\ r.type = "global"
        /\ global' = [path |-> Updated(global.path, r.path), size |-> Updated(global.size, r.size)]
        /\ UNCHANGED <<at, longName, longLink, pax, names, total, rootSeen, found>>
    BY <1>5 DEF GlobalPax, pendings
  <2>2. remaining' \in 0..MaxStream /\ r \in Pax("global")
    BY <1>0, <2>1, Paid, Kinds
  <2>3. /\ r.path \in Path \cup {None, Empty} /\ r.size \in Nat \cup {None, Empty}
        /\ global.path \in Path \cup {None} /\ global.size \in Nat \cup {None}
    BY <1>0, <2>2 DEF Pax, Field
  <2>4. /\ Updated(global.path, r.path) \in Path \cup {None}
        /\ Updated(global.size, r.size) \in Nat \cup {None}
    BY <2>3 DEF Updated
  <2>5. global' \in [path : Path \cup {None}, size : Nat \cup {None}]
    BY <2>1, <2>4
  <2> QED BY <1>0, <2>1, <2>2, <2>5, Taken DEF ScanInv, TypeOK
<1>6. ASSUME NEW r \in Records[format], ScanMember(r), ~Refuse PROVE ScanInv'
  <2> DEFINE path == MemberPath(r)
             size == MemberSize(r)
             isFile == r.type = "file"
  <2>1. /\ Take(r) /\ r.type \in MemberType /\ MemberOK(path, size, r)
        /\ longName' = None /\ longLink' = FALSE /\ pax' = None
        /\ names' = names \cup {path}
        /\ total' = IF isFile THEN total + size ELSE total
        /\ Pay(IF isFile THEN 1 + size ELSE 1)
        /\ rootSeen' = (rootSeen \/ path = "root")
        /\ found' = IF isFile THEN found \cup ({path} \cap Expected) ELSE found
        /\ UNCHANGED <<at, global>>
    BY <1>6 DEF ScanMember
  <2>2. size \in Nat /\ path \in Path
    BY <1>0, <2>1, Kinds, SizeIsNumber
  <2>3. isFile => FileOK(path, size, r)
    BY <2>1 DEF MemberOK, DirOK
  <2>4. ~isFile => Fits(1)
    BY <2>1 DEF MemberOK, DirOK, FileOK
  <2> HIDE DEF path, size
  <2>5. total' \in 0..MaxContents
    BY <1>0, <2>1, <2>2, <2>3, LimitAssumption DEF LimitAssumption, FileOK
  <2>6. remaining' \in 0..MaxStream
    <3>1. CASE isFile
      BY <2>1, <2>2, <2>3, <3>1, Paid DEF FileOK
    <3>2. CASE ~isFile
      BY <2>1, <2>4, <3>2, Paid
    <3> QED BY <3>1, <3>2
  <2>7. found' \subseteq {"payload", "launcher"}
    BY <1>0, <2>1 DEF Expected
  <2>8. names' \subseteq Path /\ rootSeen' \in BOOLEAN
    BY <1>0, <2>1, <2>2
  <2> QED BY <1>0, <2>1, <2>5, <2>6, <2>7, <2>8, Taken DEF ScanInv, TypeOK
<1>7. CASE End
  <2>1. /\ trailing' \in 0..2 /\ at' \in {"accepted", "refused"}
        /\ UNCHANGED <<format, tape, longName, longLink, pax, global, names, total, remaining,
                       rootSeen, found>>
    BY <1>7 DEF End, pendings
  <2> QED BY <1>0, <2>1 DEF ScanInv, TypeOK
<1>8. CASE Return
  <2>1. /\ at' = "returned" /\ tape' = <<>> /\ trailing' = None
        /\ longName' = None /\ longLink' = FALSE /\ pax' = None
        /\ global' = [path |-> None, size |-> None] /\ names' = {} /\ total' = 0
        /\ remaining' = MaxStream /\ rootSeen' = FALSE /\ UNCHANGED <<format, found>>
    BY <1>8 DEF Return
  <2>2. 0 \in 0..MaxContents /\ MaxStream \in 0..MaxStream /\ 0 <= MaxTape
    BY LimitAssumption DEF LimitAssumption
  <2>3. tape' \in Seq(Records[format]) /\ Len(tape') <= MaxTape
    BY <2>1, <2>2
  <2>4. global' \in [path : Path \cup {None}, size : Nat \cup {None}]
    BY <2>1
  <2> QED BY <1>0, <2>1, <2>2, <2>3, <2>4 DEF ScanInv, TypeOK
<1>9. CASE UNCHANGED vars
  BY <1>0, <1>9 DEF vars, pendings, ScanInv, TypeOK
<1>10. ASSUME NEW r \in Records[format], ~Refuse,
              LongName(r) \/ LongLink(r) \/ LocalPax(r) \/ GlobalPax(r) \/ ScanMember(r)
       PROVE  ScanInv'
  BY <1>2, <1>3, <1>4, <1>5, <1>6, <1>10
<1>11. ASSUME NEW r \in Records[format],
              LongName(r) \/ LongLink(r) \/ LocalPax(r) \/ GlobalPax(r) \/ ScanMember(r)
       PROVE  ScanInv'
  <2>1. Take(r)
    BY <1>11 DEF LongName, LongLink, LocalPax, GlobalPax, ScanMember
  <2> QED BY <1>1, <1>10, <1>11, <2>1
<1> QED BY <1>7, <1>8, <1>9, <1>11 DEF Next

\* Every step of an extraction is one of the inspection or leaves it alone.
LEMMA ExtractInspects ==
    [ExtractNext]_<<vars, extractVars>> => Next \/ Return \/ UNCHANGED vars
BY DEF ExtractNext, Inspect, Open, Create, Fill, FillFails, Unlink, Undo, Identify, Clean,
       OthersMove, OthersCreate, OthersRemove, Meddle

-----------------------------------------------------------------------------
(* What a tape says, and what it says with one more record.                *)

\* The largest of a set is what all are within.
LEMMA MaxIs ==
    ASSUME NEW S, S \subseteq Nat, NEW j \in S, \A k \in S : k <= j
    PROVE  Max(S) = j
<1>1. j \in S /\ \A y \in S : j >= y
  OBVIOUS
<1>2. \A x \in S : (\A y \in S : x >= y) => x = j
  OBVIOUS
<1> QED BY <1>1, <1>2 DEF Max

LEMMA LargestOf ==
    ASSUME NEW n \in Nat, NEW S, S \subseteq 1..n, S # {}
    PROVE  Max(S) \in S
<1> DEFINE D == {n - k : k \in S}
<1>1. D \subseteq Nat /\ D # {}
  <2>1. \A k \in S : n - k \in Nat
    OBVIOUS
  <2> QED BY <2>1
<1>2. PICK d \in D : \A e \in D : ~(e < d)
  <2> HIDE DEF D
  <2> QED BY <1>1, LeastNatural
<1>3. PICK j \in S : d = n - j
  BY <1>2
<1>4. \A k \in S : k <= j
  <2> SUFFICES ASSUME NEW k \in S PROVE k <= j
    OBVIOUS
  <2>1. n - k \in D
    OBVIOUS
  <2>2. ~(n - k < n - j)
    BY <1>2, <1>3, <2>1
  <2>3. n \in Nat /\ j \in 1..n /\ k \in 1..n
    OBVIOUS
  <2> HIDE DEF D
  <2> QED BY <2>2, <2>3
<1>5. Max(S) = j
  <2>1. S \subseteq Nat
    OBVIOUS
  <2> QED BY <1>4, <2>1, MaxIs
<1> QED BY <1>5

LEMMA OneMore ==
    ASSUME NEW t \in Seq(Records[format]), NEW r \in Records[format]
    PROVE  /\ Append(t, r) \in Seq(Records[format])
           /\ Len(t) \in Nat /\ Len(Append(t, r)) = Len(t) + 1
           /\ DOMAIN t = 1..Len(t) /\ DOMAIN Append(t, r) = 1..(Len(t) + 1)
           /\ \A i \in 1..Len(t) : Append(t, r)[i] = t[i] /\ t[i] \in Records[format]
           /\ Append(t, r)[Len(t) + 1] = r
OBVIOUS

LEMMA MembersOfOneMore ==
    ASSUME NEW t \in Seq(Records[format]), NEW r \in Records[format]
    PROVE  /\ Members(t) \subseteq 1..Len(t) /\ Files(t) \subseteq Members(t)
           /\ Members(Append(t, r)) = Members(t) \cup (IF r.type \in MemberType THEN {Len(t) + 1} ELSE {})
           /\ Files(Append(t, r)) = Files(t) \cup (IF r.type = "file" THEN {Len(t) + 1} ELSE {})
<1> DEFINE u == Append(t, r)
           n == Len(t)
<1>1. /\ n \in Nat /\ DOMAIN t = 1..n /\ DOMAIN u = 1..(n + 1)
      /\ \A i \in 1..n : u[i] = t[i]
      /\ u[n + 1] = r
  BY OneMore
<1> HIDE DEF u, n
<1>2. 1..(n + 1) = 1..n \cup {n + 1}
  BY <1>1
<1>3. Members(u) = Members(t) \cup (IF r.type \in MemberType THEN {n + 1} ELSE {})
  BY <1>1, <1>2 DEF Members
<1>4. Files(u) = Files(t) \cup (IF r.type = "file" THEN {n + 1} ELSE {})
  BY <1>1, <1>2 DEF Files
<1>5. Members(t) \subseteq 1..n /\ Files(t) \subseteq Members(t)
  BY <1>1 DEF Members, Files, MemberType
<1> QED BY <1>3, <1>4, <1>5 DEF u, n

LEMMA ForOfOneMore ==
    ASSUME NEW t \in Seq(Records[format]), NEW r \in Records[format]
    PROVE  /\ \A i \in 1..(Len(t) + 1) : For(Append(t, r), i) = For(t, i)
           /\ For(Append(t, r), Len(t) + 2) =
                IF r.type \in MemberType THEN {} ELSE For(t, Len(t) + 1) \cup {Len(t) + 1}
<1> DEFINE u == Append(t, r)
           n == Len(t)
<1>1. n \in Nat /\ Members(t) \subseteq 1..n
      /\ Members(u) = Members(t) \cup (IF r.type \in MemberType THEN {n + 1} ELSE {})
  BY OneMore, MembersOfOneMore
<1> HIDE DEF u, n
<1>2. ASSUME NEW i \in 1..(n + 1) PROVE For(u, i) = For(t, i)
  <2>1. \A j \in 1..(i - 1) : \A k \in j..(i - 1) : k \in Members(u) <=> k \in Members(t)
    BY <1>1
  <2> QED BY <2>1 DEF For
<1>3. ASSUME r.type \in MemberType PROVE For(u, n + 2) = {}
  <2>1. n + 1 \in Members(u) /\ (n + 2) - 1 = n + 1
    BY <1>1, <1>3
  <2>2. \A j \in 1..(n + 1) : n + 1 \in j..(n + 1)
    BY <1>1
  <2> QED BY <2>1, <2>2 DEF For
<1>4. ASSUME r.type \notin MemberType PROVE For(u, n + 2) = For(t, n + 1) \cup {n + 1}
  <2>1. Members(u) = Members(t) /\ (n + 2) - 1 = n + 1 /\ (n + 1) - 1 = n /\ n + 1 \notin Members(t)
    BY <1>1, <1>4
  <2>2. 1..(n + 1) = 1..n \cup {n + 1} /\ n + 1 \notin 1..n
    BY <1>1
  <2>3. \A j \in 1..n : j..(n + 1) = j..n \cup {n + 1}
    BY <1>1
  <2>4. (n + 1)..(n + 1) = {n + 1}
    BY <1>1
  <2>5. \A j \in 1..n : (\A k \in j..(n + 1) : k \notin Members(t)) <=> (\A k \in j..n : k \notin Members(t))
    BY <2>1, <2>3
  <2>6. \A k \in (n + 1)..(n + 1) : k \notin Members(t)
    BY <2>1, <2>4
  <2>7. For(u, n + 2) = {j \in 1..(n + 1) : \A k \in j..(n + 1) : k \notin Members(t)}
    BY <2>1 DEF For
  <2>8. For(t, n + 1) = {j \in 1..n : \A k \in j..n : k \notin Members(t)}
    BY <2>1 DEF For
  <2> QED BY <2>2, <2>5, <2>6, <2>7, <2>8
<1> QED BY <1>2, <1>3, <1>4 DEF u, n

\* The metadata of a type since the last member, which is for the next.
Here(t, type) == OfType(t, For(t, Len(t) + 1), type)

LEMMA HereOfOneMore ==
    ASSUME NEW t \in Seq(Records[format]), NEW r \in Records[format], NEW type
    PROVE  /\ Here(t, type) \subseteq 1..Len(t)
           /\ Here(Append(t, r), type) =
                IF r.type \in MemberType THEN {}
                ELSE Here(t, type) \cup (IF r.type = type THEN {Len(t) + 1} ELSE {})
<1> DEFINE u == Append(t, r)
           n == Len(t)
<1>1. /\ n \in Nat /\ Len(u) = n + 1 /\ (n + 1) + 1 = n + 2
      /\ \A i \in 1..n : u[i] = t[i]
      /\ u[n + 1] = r
  BY OneMore
<1>2. For(u, n + 2) = IF r.type \in MemberType THEN {} ELSE For(t, n + 1) \cup {n + 1}
  BY ForOfOneMore
<1> HIDE DEF u, n
<1>3. For(t, n + 1) \subseteq 1..n
  BY <1>1 DEF For
<1>4. OfType(u, For(t, n + 1) \cup {n + 1}, type)
        = OfType(t, For(t, n + 1), type) \cup (IF r.type = type THEN {n + 1} ELSE {})
  BY <1>1, <1>3 DEF OfType
<1>5. Here(t, type) = OfType(t, For(t, n + 1), type)
  BY DEF Here, n
<1>6. Here(u, type) = OfType(u, For(u, n + 2), type)
  BY <1>1 DEF Here
<1>7. OfType(u, {}, type) = {}
  BY DEF OfType
<1>8. OfType(t, For(t, n + 1), type) \subseteq For(t, n + 1)
  BY DEF OfType
<1> QED BY <1>2, <1>3, <1>4, <1>5, <1>6, <1>7, <1>8 DEF u, n

\* The global records so far that give field f.
Giving(t, S, type, f) == {j \in OfType(t, S, type) : t[j][f] # None}
Shared(t, f) == Giving(t, 1..Len(t), "global", f)

\* What is said of a member does not depend on what comes after it.
LEMMA SaidBefore ==
    ASSUME NEW t \in Seq(Records[format]), NEW r \in Records[format], NEW i \in 1..(Len(t) + 1), NEW f
    PROVE  /\ \A type : OfType(Append(t, r), For(Append(t, r), i), type) = OfType(t, For(t, i), type)
           /\ Said(Append(t, r), i, f) = Said(t, i, f)
<1> DEFINE u == Append(t, r)
           n == Len(t)
<1>1. n \in Nat /\ (\A k \in 1..n : u[k] = t[k]) /\ For(u, i) = For(t, i)
  <2>1. n \in Nat /\ \A k \in 1..n : u[k] = t[k]
    BY OneMore
  <2>2. \A k \in 1..(n + 1) : For(u, k) = For(t, k)
    BY ForOfOneMore
  <2> QED BY <2>1, <2>2
<1> HIDE DEF u
<1>2. For(t, i) \subseteq 1..n /\ 1..(i - 1) \subseteq 1..n
  BY <1>1 DEF For
<1> HIDE DEF n
<1>3. \A S \in SUBSET (1..n) : \A type : OfType(u, S, type) = OfType(t, S, type)
  BY <1>1 DEF OfType
<1>4. \A S \in SUBSET (1..n) : \A type : Giving(u, S, type, f) = Giving(t, S, type, f)
  <2> SUFFICES ASSUME NEW S \in SUBSET (1..n), NEW type
               PROVE  Giving(u, S, type, f) = Giving(t, S, type, f)
    OBVIOUS
  <2>1. OfType(u, S, type) = OfType(t, S, type) /\ OfType(t, S, type) \subseteq S
    BY <1>3 DEF OfType
  <2> HIDE DEF OfType
  <2> QED BY <1>1, <2>1 DEF Giving
<1> DEFINE local == Giving(t, For(t, i), "pax", f)
           shared == Giving(t, 1..(i - 1), "global", f)
<1>5. local \subseteq 1..n /\ shared \subseteq 1..n
  BY <1>2 DEF Giving, OfType
<1>6. Giving(u, For(u, i), "pax", f) = local /\ Giving(u, 1..(i - 1), "global", f) = shared
  BY <1>1, <1>2, <1>4
<1>7. Said(t, i, f) = IF local # {} THEN t[Max(local)][f]
                      ELSE IF shared # {} THEN t[Max(shared)][f] ELSE None
  BY DEF Said, Giving
<1>8. Said(u, i, f) = IF local # {} THEN u[Max(local)][f]
                      ELSE IF shared # {} THEN u[Max(shared)][f] ELSE None
  BY <1>6 DEF Said, Giving
<1>9. \A S \in SUBSET (1..n) : S # {} => u[Max(S)] = t[Max(S)]
  BY <1>1, LargestOf
<1>10. (local # {} => u[Max(local)] = t[Max(local)]) /\ (shared # {} => u[Max(shared)] = t[Max(shared)])
  BY <1>5, <1>9
<1> HIDE DEF local, shared
<1>11. Said(u, i, f) = Said(t, i, f)
  BY <1>7, <1>8, <1>10
<1>12. \A type : OfType(u, For(u, i), type) = OfType(t, For(t, i), type)
  BY <1>1, <1>2, <1>3
<1> QED BY <1>11, <1>12 DEF u

LEMMA SameBefore ==
    ASSUME NEW t \in Seq(Records[format]), NEW r \in Records[format], NEW i \in 1..Len(t)
    PROVE  /\ PathOf(Append(t, r), i) = PathOf(t, i)
           /\ SizeOf(Append(t, r), i) = SizeOf(t, i)
<1> DEFINE u == Append(t, r)
<1>1. i \in 1..(Len(t) + 1) /\ u[i] = t[i] /\ \A k \in 1..Len(t) : u[k] = t[k]
  BY OneMore
<1>2. /\ Said(u, i, "path") = Said(t, i, "path")
      /\ Said(u, i, "size") = Said(t, i, "size")
      /\ OfType(u, For(u, i), "longname") = OfType(t, For(t, i), "longname")
  BY <1>1, SaidBefore
<1>3. SizeOf(u, i) = SizeOf(t, i)
  BY <1>1, <1>2 DEF SizeOf
<1> DEFINE S == OfType(t, For(t, i), "longname")
<1>4. S # {} => u[Max(S)] = t[Max(S)]
  <2>1. Len(t) \in Nat /\ S \subseteq 1..Len(t)
    <3>1. Len(t) \in Nat /\ 1..(i - 1) \subseteq 1..Len(t)
      BY OneMore
    <3> QED BY <3>1 DEF OfType, For
  <2> HIDE DEF S, u
  <2> QED BY <1>1, <2>1, LargestOf
<1>5. PathOf(u, i) = PathOf(t, i)
  <2> HIDE DEF S, u
  <2>1. PathOf(u, i) = IF S # {} THEN u[Max(S)].path
                       ELSE IF Said(t, i, "path") \in {None, Empty} THEN u[i].path ELSE Said(t, i, "path")
    BY <1>2 DEF PathOf, S
  <2>2. PathOf(t, i) = IF S # {} THEN t[Max(S)].path
                       ELSE IF Said(t, i, "path") \in {None, Empty} THEN t[i].path ELSE Said(t, i, "path")
    BY DEF PathOf, S
  <2> QED BY <1>1, <1>4, <2>1, <2>2
<1> QED BY <1>3, <1>5

\* Every member has a size and a path.
Known(t) == \A i \in Members(t) : SizeOf(t, i) \in Nat /\ PathOf(t, i) \in Path

Grows(t, i) == IF t[i].type = "file" THEN SizeOf(t, i) ELSE 0

LEMMA ContentsOfOneMore ==
    ASSUME NEW t \in Seq(Records[format]), NEW r \in Records[format],
           Known(t), Known(Append(t, r))
    PROVE  /\ Contents(t) \in Nat
           /\ Contents(Append(t, r)) = Contents(t) + Grows(Append(t, r), Len(t) + 1)
           /\ Grows(Append(t, r), Len(t) + 1) \in Nat
<1> DEFINE u == Append(t, r)
           n == Len(t)
           v == [i \in DOMAIN t |-> IF i \in Files(t) THEN SizeOf(t, i) ELSE 0]
           w == [i \in DOMAIN u |-> IF i \in Files(u) THEN SizeOf(u, i) ELSE 0]
           x == Grows(u, n + 1)
<1>1. n \in Nat /\ DOMAIN t = 1..n /\ DOMAIN u = 1..(n + 1) /\ u[n + 1] = r
  BY OneMore
<1>2. /\ Members(t) \subseteq 1..n /\ Files(t) \subseteq Members(t)
      /\ Files(u) = Files(t) \cup (IF r.type = "file" THEN {n + 1} ELSE {})
      /\ Members(u) = Members(t) \cup (IF r.type \in MemberType THEN {n + 1} ELSE {})
  BY MembersOfOneMore
<1>3. \A i \in 1..n : SizeOf(u, i) = SizeOf(t, i)
  BY SameBefore
<1> HIDE DEF u, n
<1>4. \A i \in 1..n : v[i] \in Nat
  BY <1>1, <1>2 DEF Known
<1>5. v \in Seq(Nat) /\ Len(v) = n
  <2> HIDE DEF v
  <2>1. v = [i \in 1..n |-> v[i]]
    BY <1>1 DEF v
  <2> QED BY <1>1, <1>4, <2>1
<1>6. x \in Nat
  BY <1>1, <1>2 DEF Known, Grows, MemberType, u
<1>7. \A i \in 1..n : w[i] = v[i]
  BY <1>1, <1>2, <1>3
<1>8. w[n + 1] = x
  BY <1>1, <1>2 DEF Grows
<1>9. w = Append(v, x)
  <2> HIDE DEF v, w, x
  <2>1. w = [i \in 1..(n + 1) |-> w[i]]
    BY <1>1 DEF w
  <2>2. /\ Append(v, x) \in Seq(Nat) /\ Len(Append(v, x)) = n + 1
        /\ \A i \in 1..n : Append(v, x)[i] = v[i]
        /\ Append(v, x)[n + 1] = x
    BY <1>1, <1>5, <1>6
  <2> DEFINE q == Append(v, x)
  <2>3. q = [i \in 1..(n + 1) |-> q[i]]
    <3>1. q \in Seq(Nat) /\ Len(q) = n + 1
      BY <2>2
    <3> HIDE DEF q
    <3> QED BY <1>1, <3>1
  <2>4. 1..(n + 1) = 1..n \cup {n + 1}
    BY <1>1
  <2>5. \A i \in 1..(n + 1) : w[i] = Append(v, x)[i]
    BY <1>7, <1>8, <2>2, <2>4
  <2> QED BY <2>1, <2>3, <2>5
<1>10. SumSeq(v) \in Nat /\ SumSeq(Append(v, x)) = SumSeq(v) + x
  <2> HIDE DEF v, x
  <2> QED BY <1>5, <1>6, SumNat, SumAppend
<1>11. Contents(t) = SumSeq(v) /\ Contents(u) = SumSeq(w)
  BY DEF Contents
<1> QED BY <1>6, <1>9, <1>10, <1>11 DEF u, n

LEMMA StreamOfOneMore ==
    ASSUME NEW t \in Seq(Records[format]), NEW r \in Records[format],
           Known(t), Known(Append(t, r))
    PROVE  /\ Stream(t) \in Nat
           /\ Stream(Append(t, r)) = Stream(t) + (IF r.type \in MemberType THEN 1 ELSE 2)
                                       + Grows(Append(t, r), Len(t) + 1)
<1> DEFINE u == Append(t, r)
           n == Len(t)
           A == DOMAIN t \ Members(t)
           B == DOMAIN u \ Members(u)
<1>1. n \in Nat /\ DOMAIN t = 1..n /\ DOMAIN u = 1..(n + 1) /\ Len(u) = n + 1
  BY OneMore
<1>2. /\ Members(t) \subseteq 1..n
      /\ Members(u) = Members(t) \cup (IF r.type \in MemberType THEN {n + 1} ELSE {})
  BY MembersOfOneMore
<1>3. /\ Contents(t) \in Nat
      /\ Contents(u) = Contents(t) + Grows(u, n + 1)
      /\ Grows(u, n + 1) \in Nat
  BY ContentsOfOneMore
<1> HIDE DEF u, n
<1>4. IsFiniteSet(A) /\ Cardinality(A) \in Nat
  <2>1. IsFiniteSet(1..n)
    BY <1>1, FS_Interval
  <2> QED BY <1>1, <2>1, FS_Subset, FS_CardinalityType
<1>5. B = A \cup (IF r.type \in MemberType THEN {} ELSE {n + 1}) /\ n + 1 \notin A
  BY <1>1, <1>2
<1> HIDE DEF A, B
<1>6. Cardinality(B) = Cardinality(A) + (IF r.type \in MemberType THEN 0 ELSE 1)
  <2>1. CASE r.type \in MemberType
    BY <1>4, <1>5, <2>1
  <2>2. CASE r.type \notin MemberType
    <3>1. B = A \cup {n + 1}
      BY <1>5, <2>2
    <3>2. Cardinality(B) = Cardinality(A) + 1
      BY <1>4, <1>5, <3>1, FS_AddElement
    <3> QED BY <2>2, <3>2
  <2> QED BY <2>1, <2>2
<1>7. Stream(t) = n + Cardinality(A) + Contents(t) /\ Stream(u) = n + 1 + Cardinality(B) + Contents(u)
  BY <1>1 DEF Stream, A, B, n
<1>8. Stream(t) \in Nat
  BY <1>1, <1>3, <1>4, <1>7
<1>9. Stream(u) = Stream(t) + (IF r.type \in MemberType THEN 1 ELSE 2) + Grows(u, n + 1)
  <2> DEFINE c == Contents(t)
             g == Grows(u, n + 1)
             a == Cardinality(A)
             b == Cardinality(B)
  <2>1. c \in Nat /\ g \in Nat /\ a \in Nat /\ n \in Nat
    BY <1>1, <1>3, <1>4
  <2>2. Stream(t) = n + a + c /\ Stream(u) = n + 1 + b + (c + g)
    BY <1>3, <1>7
  <2>3. b = a + (IF r.type \in MemberType THEN 0 ELSE 1)
    BY <1>6
  <2> HIDE DEF a, b, c, g
  <2>4. Stream(u) = Stream(t) + (IF r.type \in MemberType THEN 1 ELSE 2) + g
    <3>1. CASE r.type \in MemberType
      BY <2>1, <2>2, <2>3, <3>1
    <3>2. CASE r.type \notin MemberType
      BY <2>1, <2>2, <2>3, <3>2
    <3> QED BY <3>1, <3>2
  <2> QED BY <2>4 DEF g
<1> QED BY <1>8, <1>9 DEF u, n

-----------------------------------------------------------------------------
(* The scan agrees with its tape.                                          *)

\* What is pending is the one record of its type since the last member.
NameCarried ==
    \/ longName = None /\ Here(tape, "longname") = {}
    \/ \E j \in DOMAIN tape : Here(tape, "longname") = {j} /\ longName = tape[j].path
LinkCarried == longLink <=> Here(tape, "longlink") # {}
PaxCarried ==
    \/ pax = None /\ Here(tape, "pax") = {}
    \/ \E j \in DOMAIN tape : Here(tape, "pax") = {j} /\ pax = tape[j]
Carried == NameCarried /\ LinkCarried /\ PaxCarried

\* A global field is what the last record that gives it has made of it.
Inherited(f) ==
    \/ global[f] = None /\ Shared(tape, f) = {}
    \/ \E j \in Shared(tape, f) :
         /\ \A k \in Shared(tape, f) : k <= j
         /\ global[f] = IF tape[j][f] = Empty THEN None ELSE tape[j][f]

\* What has been collected is of the members so far.
Counted ==
    /\ names = {PathOf(tape, i) : i \in Members(tape)}
    /\ total = Contents(tape)
    /\ Tar => remaining = MaxStream - Stream(tape)
    /\ rootSeen <=> \E i \in Members(tape) : tape[i].type = "dir" /\ PathOf(tape, i) = "root"
    /\ found = {p \in Wanted : \E i \in Files(tape) : PathOf(tape, i) = p}

Agrees ==
    /\ trailing = None
    /\ Sound(tape)
    /\ Known(tape)
    /\ Carried
    /\ Inherited("path") /\ Inherited("size")
    /\ Counted

JInv ==
    /\ ScanInv
    /\ at = "scan" => Agrees
    /\ AcceptedIsWhole
    /\ RefusedIsNot

\* What Sound asks of one member, but that no other has its path.
Fine(t, i) ==
    /\ PathOf(t, i) # "unsafe"
    /\ SizeOf(t, i) <= MaxMember
    /\ \/ t[i].type = "dir" /\ SizeOf(t, i) = 0
       \/ /\ t[i].type = "file"
          /\ PathOf(t, i) # "root"
          /\ ~Tar => t[i].actual = SizeOf(t, i)
    /\ t[i].type = "file" /\ PathOf(t, i) \in Wanted => AsPromised(t, i)

LEMMA FineBefore ==
    ASSUME NEW t \in Seq(Records[format]), NEW r \in Records[format], NEW i \in 1..Len(t)
    PROVE  Fine(Append(t, r), i) <=> Fine(t, i)
<1> DEFINE u == Append(t, r)
<1>1. u[i] = t[i] /\ PathOf(u, i) = PathOf(t, i) /\ SizeOf(u, i) = SizeOf(t, i)
  BY OneMore, SameBefore
<1> HIDE DEF u
<1>2. AsPromised(u, i) <=> AsPromised(t, i)
  BY <1>1 DEF AsPromised
<1> QED BY <1>1, <1>2 DEF Fine, u

\* What makes a sound tape with one more record sound.
LEMMA SoundOfOneMore ==
    ASSUME NEW t \in Seq(Records[format]), NEW r \in Records[format],
           Sound(t), Known(t), Known(Append(t, r)), LimitAssumption
    PROVE  Sound(Append(t, r)) <=>
             /\ Len(t) < MaxRecords
             /\ \A type \in MetaType \ {"global"} : Cardinality(Here(Append(t, r), type)) <= 1
             /\ r.type \in MemberType =>
                  /\ Fine(Append(t, r), Len(t) + 1)
                  /\ PathOf(Append(t, r), Len(t) + 1) \notin {PathOf(t, i) : i \in Members(t)}
             /\ Contents(Append(t, r)) <= MaxContents
             /\ Tar => Stream(Append(t, r)) <= MaxStream
<1> DEFINE u == Append(t, r)
           n == Len(t)
           single(v, i) == \A type \in MetaType \ {"global"} : Cardinality(OfType(v, For(v, i), type)) <= 1
           apart(v, i) == \A j \in Members(v) \ {i} : PathOf(v, j) # PathOf(v, i)
<1>1. /\ n \in Nat /\ Len(u) = n + 1 /\ (n + 1) + 1 = n + 2
      /\ Members(t) \subseteq 1..n
      /\ Members(u) = Members(t) \cup (IF r.type \in MemberType THEN {n + 1} ELSE {})
  BY OneMore, MembersOfOneMore
<1>2. /\ \A i \in 1..n : PathOf(u, i) = PathOf(t, i)
      /\ \A i \in 1..n : Fine(u, i) <=> Fine(t, i)
  BY SameBefore, FineBefore
<1>3. \A i \in 1..(n + 1) : single(u, i) <=> single(t, i)
  BY SaidBefore
<1>4. single(u, n + 2) <=> \A type \in MetaType \ {"global"} : Cardinality(Here(u, type)) <= 1
  BY <1>1 DEF Here
<1>5. ASSUME NEW v, v \in {t, u}
      PROVE  Sound(v) <=> /\ Len(v) <= MaxRecords
                          /\ \A i \in 1..(Len(v) + 1) : single(v, i)
                          /\ \A i \in Members(v) : Fine(v, i) /\ apart(v, i)
                          /\ Contents(v) <= MaxContents
                          /\ Tar => Stream(v) <= MaxStream
  BY DEF Sound, Fine
<1> HIDE DEF u, n, single
<1>6. (\A i \in 1..(n + 2) : single(u, i)) <=> single(u, n + 2)
  <2>1. \A i \in 1..(n + 1) : single(t, i)
    BY <1>5 DEF n
  <2>2. 1..(n + 2) = 1..(n + 1) \cup {n + 2}
    BY <1>1
  <2> QED BY <1>3, <2>1, <2>2
<1>7. (\A i \in Members(u) : Fine(u, i) /\ apart(u, i)) <=>
        (r.type \in MemberType =>
            Fine(u, n + 1) /\ PathOf(u, n + 1) \notin {PathOf(t, i) : i \in Members(t)})
  <2>1. \A i \in Members(t) : Fine(t, i) /\ apart(t, i) /\ PathOf(u, i) = PathOf(t, i) /\ Fine(u, i)
    BY <1>1, <1>2, <1>5
  <2>2. n + 1 \notin Members(t)
    BY <1>1
  <2>3. CASE r.type \in MemberType
    BY <1>1, <2>1, <2>2, <2>3
  <2>4. CASE r.type \notin MemberType
    BY <1>1, <2>1, <2>2, <2>4
  <2> QED BY <2>3, <2>4
<1>8. Len(u) <= MaxRecords <=> n < MaxRecords
  BY <1>1 DEF LimitAssumption
<1>9. Sound(u) <=> /\ Len(u) <= MaxRecords
                   /\ \A i \in 1..(n + 2) : single(u, i)
                   /\ \A i \in Members(u) : Fine(u, i) /\ apart(u, i)
                   /\ Contents(u) <= MaxContents
                   /\ Tar => Stream(u) <= MaxStream
  BY <1>1, <1>5
<1> QED BY <1>4, <1>6, <1>7, <1>8, <1>9 DEF u, n

\* A record of metadata is not None.
LEMMA GivenIsRecord ==
    ASSUME ScanInv, NEW j \in DOMAIN tape, tape[j].type = "pax"
    PROVE  tape[j] # None /\ tape[j] \in Pax("pax")
<1>1. tape[j] \in Records[format] /\ format \in {"tar", "zip"}
  BY RecordAssumption DEF RecordAssumption, ScanInv, TypeOK
<1>2. tape[j] \in Pax("pax")
  BY <1>1, Kinds, RecordAssumption DEF RecordAssumption
<1>3. format = "tar"
  BY <1>1, RecordAssumption DEF RecordAssumption, Member, MemberType
<1> QED BY <1>1, <1>2, <1>3, FieldAssumption DEF FieldAssumption

\* A tape with known sizes has a sum.
LEMMA StreamNat ==
    ASSUME NEW t \in Seq(Records[format]), Known(t)
    PROVE  Stream(t) \in Nat
<1> DEFINE v == [i \in DOMAIN t |-> IF i \in Files(t) THEN SizeOf(t, i) ELSE 0]
           A == DOMAIN t \ Members(t)
<1>1. Len(t) \in Nat /\ DOMAIN t = 1..Len(t)
  OBVIOUS
<1>2. \A i \in Files(t) : SizeOf(t, i) \in Nat
  BY DEF Known, Files, Members, MemberType
<1>3. v \in Seq(Nat)
  BY <1>1, <1>2
<1>4. Contents(t) \in Nat
  <2> HIDE DEF v
  <2> QED BY <1>3, SumNat DEF Contents, v
<1>5. Cardinality(A) \in Nat
  <2>1. IsFiniteSet(1..Len(t))
    BY <1>1, FS_Interval
  <2> QED BY <1>1, <2>1, FS_Subset, FS_CardinalityType
<1> QED BY <1>1, <1>4, <1>5 DEF Stream

\* The scan takes for a field of the next member what the tape says of it.
LEMMA EffectiveIsSaid ==
    ASSUME ScanInv, Agrees, NEW f \in {"path", "size"}, NEW header
    PROVE  Effective(IF pax = None THEN None ELSE pax[f], global[f], header)
             = IF Said(tape, Len(tape) + 1, f) \in {None, Empty}
               THEN header ELSE Said(tape, Len(tape) + 1, f)
<1> DEFINE t == tape
           n == Len(tape)
           said == Said(t, n + 1, f)
           local == Giving(t, For(t, n + 1), "pax", f)
           given == IF pax = None THEN None ELSE pax[f]
<1>1. n \in Nat /\ (n + 1) - 1 = n /\ DOMAIN t = 1..n /\ None # Empty
  BY FieldAssumption DEF FieldAssumption, ScanInv, TypeOK
<1>2. local = {j \in Here(t, "pax") : t[j][f] # None}
  BY DEF Giving, Here
<1>3. said = IF local # {} THEN t[Max(local)][f]
             ELSE IF Shared(t, f) # {} THEN t[Max(Shared(t, f))][f] ELSE None
  BY <1>1 DEF Said, Giving, Shared
<1>4. Inherited(f) /\ Carried
  BY DEF Agrees
<1>5. Shared(t, f) \subseteq Nat
  BY <1>1 DEF Shared, Giving, OfType
<1> HIDE DEF local, said, t, n
<1>6. local = {} => said = IF Shared(t, f) # {} THEN t[Max(Shared(t, f))][f] ELSE None
  BY <1>3
<1>7. \/ local = {} /\ given = None
      \/ local # {} /\ said = given /\ given # None
  <2>1. CASE pax = None /\ Here(t, "pax") = {}
    BY <1>2, <2>1
  <2>2. ASSUME NEW j \in DOMAIN t, Here(t, "pax") = {j}, pax = t[j]
        PROVE  \/ local = {} /\ given = None
               \/ local # {} /\ said = given /\ given # None
    <3>1. t[j].type = "pax"
      BY <2>2 DEF Here, OfType
    <3>2. pax # None /\ given = t[j][f]
      BY <2>2, <3>1, GivenIsRecord DEF t
    <3>3. CASE t[j][f] = None
      BY <1>2, <2>2, <3>2, <3>3
    <3>4. CASE t[j][f] # None
      <4>1. local = {j} /\ j \in Nat
        BY <1>1, <1>2, <2>2, <3>4
      <4>2. Max(local) = j
        BY <4>1, MaxIs
      <4> QED BY <1>3, <3>2, <3>4, <4>1, <4>2
    <3> QED BY <3>3, <3>4
  <2> QED BY <1>4, <2>1, <2>2 DEF Carried, PaxCarried, t
<1>8. local = {} => \/ said = None /\ global[f] = None
                    \/ said = Empty /\ global[f] = None
                    \/ said = global[f] /\ said \notin {None, Empty}
  <2> SUFFICES ASSUME local = {}
               PROVE  \/ said = None /\ global[f] = None
                      \/ said = Empty /\ global[f] = None
                      \/ said = global[f] /\ said \notin {None, Empty}
    OBVIOUS
  <2>1. CASE global[f] = None /\ Shared(t, f) = {}
    BY <1>6, <2>1
  <2>2. ASSUME NEW j \in Shared(t, f), \A k \in Shared(t, f) : k <= j,
               global[f] = IF t[j][f] = Empty THEN None ELSE t[j][f]
        PROVE  \/ said = Empty /\ global[f] = None
               \/ said = global[f] /\ said \notin {None, Empty}
    <3>1. Max(Shared(t, f)) = j
      BY <1>5, <2>2, MaxIs
    <3>2. t[j][f] # None
      BY <2>2 DEF Shared, Giving
    <3> QED BY <1>6, <2>2, <3>1, <3>2
  <2> QED BY <1>4, <2>1, <2>2 DEF Inherited, t
<1> HIDE DEF given
<1>9. Effective(given, global[f], header) = IF said \in {None, Empty} THEN header ELSE said
  BY <1>1, <1>7, <1>8 DEF Effective
<1> QED BY <1>9 DEF said, t, n, given

LEMMA NewMember ==
    ASSUME ScanInv, Agrees, NEW r \in Records[format], r.type \in MemberType
    PROVE  /\ PathOf(Append(tape, r), Len(tape) + 1) = MemberPath(r)
           /\ SizeOf(Append(tape, r), Len(tape) + 1) = MemberSize(r)
           /\ MemberPath(r) \in Path /\ MemberSize(r) \in Nat
<1> DEFINE u == Append(tape, r)
           n == Len(tape)
           S == Here(tape, "longname")
<1>0. tape \in Seq(Records[format]) /\ r \in Member
  BY Kinds DEF ScanInv, TypeOK
<1>1. n \in Nat /\ n + 1 \in 1..(n + 1) /\ u[n + 1] = r /\ \A k \in 1..n : u[k] = tape[k]
      /\ DOMAIN tape = 1..n
  BY <1>0, OneMore
<1>2. /\ Said(u, n + 1, "path") = Said(tape, n + 1, "path")
      /\ Said(u, n + 1, "size") = Said(tape, n + 1, "size")
      /\ OfType(u, For(u, n + 1), "longname") = S
  BY <1>0, <1>1, SaidBefore DEF Here
<1>3. SizeOf(u, n + 1) = MemberSize(r)
  <2>1. Effective(IF pax = None THEN None ELSE pax["size"], global["size"], r.size)
          = IF Said(tape, n + 1, "size") \in {None, Empty} THEN r.size ELSE Said(tape, n + 1, "size")
    BY EffectiveIsSaid
  <2> QED BY <1>1, <1>2, <2>1 DEF SizeOf, MemberSize
<1>4. Effective(IF pax = None THEN None ELSE pax["path"], global["path"], r.path)
          = IF Said(tape, n + 1, "path") \in {None, Empty} THEN r.path ELSE Said(tape, n + 1, "path")
  BY EffectiveIsSaid
<1>5. PathOf(u, n + 1) = IF S # {} THEN u[Max(S)].path
                         ELSE Effective(IF pax = None THEN None ELSE pax.path, global.path, r.path)
  <2> HIDE DEF u, n, S
  <2>1. PathOf(u, n + 1) =
          IF S # {} THEN u[Max(S)].path
          ELSE IF Said(tape, n + 1, "path") \in {None, Empty} THEN u[n + 1].path
          ELSE Said(tape, n + 1, "path")
    BY <1>2 DEF PathOf
  <2> QED BY <1>1, <1>4, <2>1
<1>6. \/ longName = None /\ S = {}
      \/ S # {} /\ longName # None /\ longName = u[Max(S)].path
  <2>1. CASE longName = None /\ S = {}
    BY <2>1
  <2>2. ASSUME NEW j \in DOMAIN tape, S = {j}, longName = tape[j].path
        PROVE  S # {} /\ longName # None /\ longName = u[Max(S)].path
    <3>1. tape[j].type = "longname" /\ tape[j] \in Records[format] /\ j \in 1..n
      BY <1>0, <1>1, <2>2 DEF Here, OfType
    <3>2. tape[j].path \in Path
      BY <3>1, Kinds DEF ScanInv, TypeOK
    <3>3. Max(S) = j
      <4> HIDE DEF S
      <4>1. j \in Nat
        BY <1>1, <3>1
      <4> QED BY <2>2, <4>1, MaxIs
    <3> HIDE DEF S, u
    <3> QED BY <1>1, <2>2, <3>1, <3>2, <3>3, FieldAssumption DEF FieldAssumption
  <2> QED BY <2>1, <2>2 DEF Agrees, Carried, NameCarried
<1>7. PathOf(u, n + 1) = MemberPath(r)
  <2> HIDE DEF u, n, S
  <2> QED BY <1>5, <1>6 DEF MemberPath
<1> QED BY <1>0, <1>3, <1>7, SizeIsNumber

LEMMA KnownAfter ==
    ASSUME ScanInv, Agrees, NEW r \in Records[format]
    PROVE  Known(Append(tape, r))
<1> DEFINE u == Append(tape, r)
           n == Len(tape)
<1>1. tape \in Seq(Records[format]) /\ Known(tape)
  BY DEF ScanInv, TypeOK, Agrees
<1>2. /\ Members(tape) \subseteq 1..n
      /\ Members(u) = Members(tape) \cup (IF r.type \in MemberType THEN {n + 1} ELSE {})
  BY <1>1, MembersOfOneMore
<1>3. \A i \in 1..n : PathOf(u, i) = PathOf(tape, i) /\ SizeOf(u, i) = SizeOf(tape, i)
  BY <1>1, SameBefore
<1>4. r.type \in MemberType => SizeOf(u, n + 1) \in Nat /\ PathOf(u, n + 1) \in Path
  BY NewMember
<1> HIDE DEF u, n
<1> QED BY <1>1, <1>2, <1>3, <1>4 DEF Known, u, n

\* Metadata is refused by its type and place alone.
LEMMA MetaSound ==
    ASSUME ScanInv, Agrees, NEW r \in Records[format], r.type \in MetaType
    PROVE  /\ Contents(Append(tape, r)) = Contents(tape)
           /\ Stream(Append(tape, r)) = Stream(tape) + 2
           /\ Sound(Append(tape, r)) <=>
                Fits(2) /\ (r.type # "global" => Here(tape, r.type) = {})
<1> DEFINE u == Append(tape, r)
           n == Len(tape)
<1>0. /\ tape \in Seq(Records[format]) /\ Known(tape) /\ Known(u) /\ Sound(tape)
      /\ n \in Nat /\ Len(u) = n + 1 /\ u[n + 1] = r
  BY KnownAfter, OneMore DEF ScanInv, TypeOK, Agrees
<1>1. r.type \notin MemberType /\ r.type # "file"
  BY DEF MetaType, MemberType
<1>2. Grows(u, n + 1) = 0
  BY <1>0, <1>1 DEF Grows
<1>3. /\ Contents(u) = Contents(tape) /\ Stream(u) = Stream(tape) + 2
      /\ Contents(tape) \in Nat /\ Stream(tape) \in Nat
  <2>1. Contents(u) = Contents(tape) + 0 /\ Contents(tape) \in Nat
    BY <1>0, <1>2, ContentsOfOneMore
  <2>2. Stream(u) = Stream(tape) + 2 + 0 /\ Stream(tape) \in Nat
    BY <1>0, <1>1, <1>2, StreamOfOneMore
  <2> QED BY <2>1, <2>2
<1>4. \A type : Here(u, type) = Here(tape, type) \cup (IF r.type = type THEN {n + 1} ELSE {})
  BY <1>0, <1>1, HereOfOneMore
<1>5. \A type \in MetaType \ {"global"} :
        Cardinality(Here(tape, type)) <= 1 /\ Here(tape, type) \subseteq 1..n
  <2>1. n + 1 \in 1..(n + 1)
    BY <1>0
  <2>2. \A type : Here(tape, type) \subseteq 1..n
    BY <1>0, HereOfOneMore
  <2> QED BY <1>0, <2>1, <2>2 DEF Sound, Here
<1>6. ASSUME NEW type \in MetaType \ {"global"}
      PROVE  Cardinality(Here(u, type)) <= 1 <=> (r.type = type => Here(tape, type) = {})
  <2> DEFINE S == Here(tape, type)
  <2>1. S \subseteq 1..n /\ Cardinality(S) <= 1 /\ IsFiniteSet(S)
    <3>1. IsFiniteSet(1..n)
      BY <1>0, FS_Interval
    <3> QED BY <1>5, <3>1, FS_Subset
  <2>2. Cardinality(S) \in Nat /\ (Cardinality(S) = 0 <=> S = {})
    BY <2>1, FS_CardinalityType, FS_EmptySet
  <2>3. CASE r.type = type
    <3>1. n + 1 \notin S
      BY <1>0, <2>1
    <3>2. Here(u, type) = S \cup {n + 1}
      BY <1>4, <2>3
    <3>3. Cardinality(Here(u, type)) = Cardinality(S) + 1
      BY <2>1, <3>1, <3>2, FS_AddElement
    <3> HIDE DEF S
    <3>4. Cardinality(Here(u, type)) <= 1 <=> S = {}
      BY <2>2, <3>3
    <3> QED BY <2>3, <3>4 DEF S
  <2>4. CASE r.type # type
    <3>1. Here(u, type) = S
      BY <1>4, <2>4
    <3> QED BY <2>1, <2>4, <3>1
  <2> QED BY <2>3, <2>4
<1>7. (\A type \in MetaType \ {"global"} : Cardinality(Here(u, type)) <= 1)
        <=> (r.type # "global" => Here(tape, r.type) = {})
  BY <1>6
<1>8. Fits(2) <=> n < MaxRecords /\ (Tar => Stream(u) <= MaxStream)
  <2>1. Tar => remaining = MaxStream - Stream(tape)
    BY DEF Agrees, Counted
  <2>2. MaxStream \in Nat
    BY LimitAssumption DEF LimitAssumption
  <2>3. Tar => (2 <= remaining <=> Stream(u) <= MaxStream)
    BY <1>3, <2>1, <2>2
  <2> QED BY <2>3 DEF Fits
<1>9. Contents(u) <= MaxContents
  BY <1>0, <1>3 DEF Sound
<1>10. Sound(u) <=>
          /\ n < MaxRecords
          /\ \A type \in MetaType \ {"global"} : Cardinality(Here(u, type)) <= 1
          /\ r.type \in MemberType =>
               Fine(u, n + 1) /\ PathOf(u, n + 1) \notin {PathOf(tape, i) : i \in Members(tape)}
          /\ Contents(u) <= MaxContents
          /\ Tar => Stream(u) <= MaxStream
  BY <1>0, LimitAssumption, SoundOfOneMore
<1> HIDE DEF u, n
<1> QED BY <1>1, <1>3, <1>7, <1>8, <1>9, <1>10 DEF u, n

\* A member is refused where it, or what it adds, is not as it should be.
LEMMA MemberSound ==
    ASSUME ScanInv, Agrees, NEW r \in Records[format], r.type \in MemberType
    PROVE  LET isFile == r.type = "file"
               size == MemberSize(r)
           IN  /\ Contents(Append(tape, r)) = IF isFile THEN Contents(tape) + size ELSE Contents(tape)
               /\ Stream(Append(tape, r)) = Stream(tape) + IF isFile THEN 1 + size ELSE 1
               /\ Sound(Append(tape, r)) <=> MemberOK(MemberPath(r), size, r)
<1> DEFINE u == Append(tape, r)
           n == Len(tape)
           path == MemberPath(r)
           size == MemberSize(r)
           isFile == r.type = "file"
<1>0. /\ tape \in Seq(Records[format]) /\ Known(tape) /\ Known(u) /\ Sound(tape)
      /\ n \in Nat /\ Len(u) = n + 1 /\ u[n + 1] = r /\ r \in Member
  BY KnownAfter, OneMore, Kinds DEF ScanInv, TypeOK, Agrees
<1>1. PathOf(u, n + 1) = path /\ SizeOf(u, n + 1) = size /\ path \in Path /\ size \in Nat
  BY NewMember
<1> HIDE DEF path, size
<1>2. Grows(u, n + 1) = IF isFile THEN size ELSE 0
  BY <1>0, <1>1 DEF Grows
<1>3. /\ Contents(tape) \in Nat /\ Stream(tape) \in Nat
      /\ Contents(u) = IF isFile THEN Contents(tape) + size ELSE Contents(tape)
      /\ Stream(u) = Stream(tape) + IF isFile THEN 1 + size ELSE 1
  <2>1. Contents(u) = Contents(tape) + Grows(u, n + 1) /\ Contents(tape) \in Nat
    BY <1>0, ContentsOfOneMore
  <2>2. Stream(u) = Stream(tape) + 1 + Grows(u, n + 1) /\ Stream(tape) \in Nat
    BY <1>0, StreamOfOneMore
  <2> HIDE DEF u, n
  <2>3. CASE isFile
    BY <1>1, <1>2, <2>1, <2>2, <2>3
  <2>4. CASE ~isFile
    BY <1>1, <1>2, <2>1, <2>2, <2>4
  <2> QED BY <2>3, <2>4
<1>4. \A type \in MetaType \ {"global"} : Cardinality(Here(u, type)) <= 1
  <2>1. \A type : Here(u, type) = {}
    BY <1>0, HereOfOneMore
  <2>2. Cardinality({}) = 0
    BY FS_EmptySet
  <2> HIDE DEF u
  <2> QED BY <2>1, <2>2
<1>5. /\ names = {PathOf(tape, i) : i \in Members(tape)} /\ total = Contents(tape)
      /\ Tar => remaining = MaxStream - Stream(tape)
  BY DEF Agrees, Counted
<1>6. MaxStream \in Nat /\ MaxContents \in Nat /\ MaxRecords \in Nat
  BY LimitAssumption DEF LimitAssumption
<1>7. Fits(IF isFile THEN 1 + size ELSE 1) <=> n < MaxRecords /\ (Tar => Stream(u) <= MaxStream)
  <2> DEFINE b == IF isFile THEN 1 + size ELSE 1
  <2>1. b \in Nat /\ Stream(u) = Stream(tape) + b
    BY <1>1, <1>3
  <2> HIDE DEF b
  <2>2. Tar => (b <= remaining <=> Stream(u) <= MaxStream)
    BY <1>3, <1>5, <1>6, <2>1
  <2> QED BY <2>2 DEF Fits, b
<1>8. Sound(u) <=>
        /\ n < MaxRecords
        /\ Fine(u, n + 1)
        /\ path \notin names
        /\ Contents(u) <= MaxContents
        /\ Tar => Stream(u) <= MaxStream
  <2>1. Sound(u) <=>
          /\ n < MaxRecords
          /\ \A type \in MetaType \ {"global"} : Cardinality(Here(u, type)) <= 1
          /\ r.type \in MemberType =>
               Fine(u, n + 1) /\ PathOf(u, n + 1) \notin {PathOf(tape, i) : i \in Members(tape)}
          /\ Contents(u) <= MaxContents
          /\ Tar => Stream(u) <= MaxStream
    BY <1>0, LimitAssumption, SoundOfOneMore
  <2> HIDE DEF u, n
  <2> QED BY <1>1, <1>4, <1>5, <2>1
<1>9. Expected = Wanted
  BY DEF Expected, Wanted
<1>10. path \in Wanted => (AsPromised(u, n + 1) <=> MemberVerified(path, size, r))
  <2> HIDE DEF u, n
  <2> QED BY <1>0, <1>1 DEF AsPromised, MemberVerified, Wanted
<1>11. Fine(u, n + 1) <=>
         /\ path # "unsafe"
         /\ size <= MaxMember
         /\ \/ r.type = "dir" /\ size = 0
            \/ isFile /\ path # "root" /\ ReadWhole(size, r)
         /\ isFile /\ path \in Expected => MemberVerified(path, size, r)
  <2> HIDE DEF u, n
  <2> QED BY <1>0, <1>1, <1>9, <1>10 DEF Fine, ReadWhole
<1>12. isFile => Contents(u) = total + size
  BY <1>3, <1>5
<1>13. ~isFile => Contents(u) <= MaxContents
  BY <1>0, <1>3 DEF Sound
<1> HIDE DEF u, n
<1>14. Sound(u) <=> MemberOK(path, size, r)
  <2>1. CASE isFile
    <3>1. r.type # "dir"
      BY <2>1
    <3> QED BY <1>7, <1>8, <1>11, <1>12, <2>1, <3>1 DEF MemberOK, FileOK, DirOK
  <2>2. CASE ~isFile
    BY <1>7, <1>8, <1>11, <1>13, <2>2 DEF MemberOK, FileOK, DirOK
  <2> QED BY <2>1, <2>2
<1> QED BY <1>3, <1>14 DEF u, n, path, size

LEMMA SharedOfOneMore ==
    ASSUME NEW t \in Seq(Records[format]), NEW r \in Records[format], NEW f
    PROVE  /\ Shared(t, f) \subseteq 1..Len(t)
           /\ Shared(Append(t, r), f) =
                Shared(t, f) \cup (IF r.type = "global" /\ r[f] # None THEN {Len(t) + 1} ELSE {})
<1> DEFINE u == Append(t, r)
           n == Len(t)
<1>1. n \in Nat /\ Len(u) = n + 1 /\ u[n + 1] = r /\ \A i \in 1..n : u[i] = t[i]
  BY OneMore
<1> HIDE DEF u, n
<1>2. Shared(t, f) = {j \in 1..n : t[j].type = "global" /\ t[j][f] # None}
  BY DEF Shared, Giving, OfType, n
<1>3. Shared(u, f) = {j \in 1..(n + 1) : u[j].type = "global" /\ u[j][f] # None}
  BY <1>1 DEF Shared, Giving, OfType
<1>4. 1..(n + 1) = 1..n \cup {n + 1}
  BY <1>1
<1> QED BY <1>1, <1>2, <1>3, <1>4 DEF u, n

\* A tape that goes on is judged by the same format.
LEMMA SoundNext ==
    ASSUME format' = format
    PROVE  /\ Sound(tape)' <=> Sound(tape')
           /\ Tar' = Tar /\ Wanted' = Wanted
<1>1. Tar' = Tar /\ Wanted' = Wanted
  BY DEF Tar, Wanted
<1>2. \A i : AsPromised(tape, i)' <=> AsPromised(tape', i)
  BY <1>1 DEF AsPromised
<1> QED BY <1>1, <1>2 DEF Sound

\* What has been collected stays when no member comes.
LEMMA MetaCounted ==
    ASSUME ScanInv, Agrees, NEW r \in Records[format], r.type \in MetaType, Take(r),
           Fits(2), Pay(2), UNCHANGED <<names, total, rootSeen, found>>
    PROVE  Counted'
<1> DEFINE u == Append(tape, r)
           n == Len(tape)
<1>0. /\ tape \in Seq(Records[format]) /\ Known(tape)
      /\ n \in Nat /\ tape' = u /\ format' = format
      /\ DOMAIN tape = 1..n
  BY OneMore DEF ScanInv, TypeOK, Agrees, Take
<1>1. Members(tape) \subseteq 1..n /\ Members(u) = Members(tape) /\ Files(u) = Files(tape)
      /\ Files(tape) \subseteq Members(tape)
  BY <1>0, MembersOfOneMore DEF MetaType, MemberType
<1>2. \A i \in 1..n : u[i] = tape[i] /\ PathOf(u, i) = PathOf(tape, i)
  BY <1>0, OneMore, SameBefore
<1>3. /\ names = {PathOf(tape, i) : i \in Members(tape)}
      /\ total = Contents(tape)
      /\ Tar => remaining = MaxStream - Stream(tape)
      /\ rootSeen <=> \E i \in Members(tape) : tape[i].type = "dir" /\ PathOf(tape, i) = "root"
      /\ found = {p \in Wanted : \E i \in Files(tape) : PathOf(tape, i) = p}
  BY DEF Agrees, Counted
<1>4. /\ Contents(u) = Contents(tape) /\ Stream(u) = Stream(tape) + 2
      /\ Stream(tape) \in Nat /\ MaxStream \in Nat
  <2>1. Known(u)
    BY KnownAfter
  <2>2. Stream(tape) \in Nat
    BY <1>0, <2>1, StreamOfOneMore
  <2> QED BY <2>2, MetaSound, LimitAssumption DEF LimitAssumption
<1>5. Tar' = Tar /\ Wanted' = Wanted
  BY <1>0, SoundNext
<1> HIDE DEF u, n
<1>6. {PathOf(u, i) : i \in Members(u)} = {PathOf(tape, i) : i \in Members(tape)}
  BY <1>1, <1>2
<1>7. (\E i \in Members(u) : u[i].type = "dir" /\ PathOf(u, i) = "root")
        <=> \E i \in Members(tape) : tape[i].type = "dir" /\ PathOf(tape, i) = "root"
  BY <1>1, <1>2
<1>8. \A p : (\E i \in Files(u) : PathOf(u, i) = p) <=> \E i \in Files(tape) : PathOf(tape, i) = p
  BY <1>1, <1>2
<1>9. Tar => remaining' = MaxStream - Stream(u)
  BY <1>3, <1>4 DEF Pay
<1>10. names' = {PathOf(tape', i) : i \in Members(tape')}
  BY <1>0, <1>3, <1>6
<1>11. total' = Contents(tape') /\ (Tar' => remaining' = MaxStream - Stream(tape'))
  BY <1>0, <1>3, <1>4, <1>5, <1>9
<1>12. rootSeen' <=> \E i \in Members(tape') : tape'[i].type = "dir" /\ PathOf(tape', i) = "root"
  BY <1>0, <1>3, <1>7
<1>13. found' = {p \in Wanted' : \E i \in Files(tape') : PathOf(tape', i) = p}
  <2>1. {p \in Wanted : \E i \in Files(u) : PathOf(u, i) = p}
          = {p \in Wanted : \E i \in Files(tape) : PathOf(tape, i) = p}
    BY <1>8
  <2>2. found' = {p \in Wanted : \E i \in Files(tape) : PathOf(tape, i) = p} /\ tape' = u
    BY <1>0, <1>3
  <2> QED BY <1>5, <2>1, <2>2
<1> QED BY <1>10, <1>11, <1>12, <1>13 DEF Counted

\* What other metadata leaves pending.
LEMMA StillCarried ==
    ASSUME ScanInv, Agrees, NEW r \in Records[format], r.type \in MetaType, Take(r)
    PROVE  /\ r.type # "longname" /\ longName' = longName => NameCarried'
           /\ r.type # "longlink" /\ longLink' = longLink => LinkCarried'
           /\ r.type # "pax" /\ pax' = pax => PaxCarried'
           /\ r.type # "global" /\ global' = global => Inherited("path")' /\ Inherited("size")'
<1> DEFINE u == Append(tape, r)
           n == Len(tape)
<1>1. /\ tape \in Seq(Records[format]) /\ tape' = u /\ n \in Nat /\ n + 1 \notin 1..n
      /\ DOMAIN tape = 1..n /\ DOMAIN tape' = 1..(n + 1)
      /\ \A i \in 1..n : i \in 1..(n + 1) /\ tape'[i] = tape[i]
  BY OneMore DEF ScanInv, TypeOK, Take
<1>2. \A type : r.type # type => Here(tape', type) = Here(tape, type)
  <2>1. r.type \notin MemberType
    BY DEF MetaType, MemberType
  <2>2. \A type : Here(u, type) = Here(tape, type) \cup (IF r.type = type THEN {n + 1} ELSE {})
    BY <1>1, <2>1, HereOfOneMore
  <2> QED BY <1>1, <2>2
<1>3. Agrees
  OBVIOUS
<1>4. ASSUME r.type # "longname", longName' = longName PROVE NameCarried'
  BY <1>1, <1>2, <1>4 DEF Agrees, Carried, NameCarried
<1>5. ASSUME r.type # "longlink", longLink' = longLink PROVE LinkCarried'
  BY <1>2, <1>5 DEF Agrees, Carried, LinkCarried
<1>6. ASSUME r.type # "pax", pax' = pax PROVE PaxCarried'
  BY <1>1, <1>2, <1>6 DEF Agrees, Carried, PaxCarried
<1>7. ASSUME r.type # "global", global' = global, NEW f, Inherited(f) PROVE Inherited(f)'
  <2>1. Shared(tape', f) = Shared(tape, f) /\ Shared(tape, f) \subseteq 1..n
    <3>1. /\ Shared(tape, f) \subseteq 1..n
          /\ Shared(u, f) = Shared(tape, f) \cup (IF r.type = "global" /\ r[f] # None THEN {n + 1} ELSE {})
      BY <1>1, SharedOfOneMore
    <3> QED BY <1>1, <1>7, <3>1
  <2> QED BY <1>1, <1>7, <2>1 DEF Inherited
<1>8. Inherited("path") /\ Inherited("size")
  BY DEF Agrees
<1> QED BY <1>4, <1>5, <1>6, <1>7, <1>8

LEMMA MetaStep ==
    ASSUME ScanInv, Agrees, NEW r \in Records[format], r.type \in MetaType, Take(r),
           Fits(2), Pay(2), r.type # "global" => Here(tape, r.type) = {},
           UNCHANGED <<names, total, rootSeen, found>>,
           Carried', Inherited("path")', Inherited("size")'
    PROVE  Agrees'
<1>1. tape' = Append(tape, r) /\ trailing' = trailing /\ format' = format
  BY DEF Take
<1>2. Sound(tape)'
  BY <1>1, MetaSound, SoundNext
<1>3. Known(tape)'
  <2>1. Known(tape')
    BY <1>1, KnownAfter
  <2> QED BY <2>1 DEF Known
<1>4. Counted'
  BY MetaCounted
<1>5. trailing = None
  BY DEF Agrees
<1> QED BY <1>1, <1>2, <1>3, <1>4, <1>5 DEF Agrees

LEMMA LongNameStep ==
    ASSUME ScanInv, Agrees, NEW r \in Records[format], LongName(r), Fits(2), longName = None
    PROVE  Agrees'
<1> DEFINE n == Len(tape)
<1>1. /\ Take(r) /\ r.type = "longname" /\ r.type \in MetaType /\ Pay(2) /\ longName' = r.path
      /\ UNCHANGED <<longLink, pax, global, names, total, rootSeen, found>>
  BY DEF LongName, MetaType
<1>2. /\ tape \in Seq(Records[format]) /\ n \in Nat /\ n + 1 \in DOMAIN tape'
      /\ tape' = Append(tape, r) /\ tape'[n + 1] = r
  BY <1>1, OneMore DEF ScanInv, TypeOK, Take
<1>3. Here(tape, "longname") = {}
  <2> SUFFICES ASSUME NEW j \in DOMAIN tape, Here(tape, "longname") = {j}, longName = tape[j].path
               PROVE  FALSE
    BY DEF Agrees, Carried, NameCarried
  <2>1. tape[j] \in Records[format] /\ tape[j].type = "longname"
    BY <1>2 DEF Here, OfType
  <2>2. tape[j].path \in Path
    BY <2>1, Kinds DEF ScanInv, TypeOK
  <2> QED BY <2>2, FieldAssumption DEF FieldAssumption
<1>4. Here(tape', "longname") = {n + 1}
  BY <1>1, <1>2, <1>3, HereOfOneMore DEF MemberType
<1>5. NameCarried'
  BY <1>1, <1>2, <1>4 DEF NameCarried
<1>6. LinkCarried' /\ PaxCarried' /\ Inherited("path")' /\ Inherited("size")'
  BY <1>1, StillCarried
<1> QED BY <1>1, <1>3, <1>5, <1>6, MetaStep DEF Carried

LEMMA LongLinkStep ==
    ASSUME ScanInv, Agrees, NEW r \in Records[format], LongLink(r), Fits(2), ~longLink
    PROVE  Agrees'
<1> DEFINE n == Len(tape)
<1>1. /\ Take(r) /\ r.type = "longlink" /\ r.type \in MetaType /\ Pay(2) /\ longLink' = TRUE
      /\ UNCHANGED <<longName, pax, global, names, total, rootSeen, found>>
  BY DEF LongLink, MetaType
<1>2. tape \in Seq(Records[format]) /\ tape' = Append(tape, r)
  BY <1>1 DEF ScanInv, TypeOK, Take
<1>3. Here(tape, "longlink") = {}
  BY DEF Agrees, Carried, LinkCarried
<1>4. Here(tape', "longlink") = {n + 1}
  BY <1>1, <1>2, <1>3, HereOfOneMore DEF MemberType
<1>5. LinkCarried'
  BY <1>1, <1>4 DEF LinkCarried
<1>6. NameCarried' /\ PaxCarried' /\ Inherited("path")' /\ Inherited("size")'
  BY <1>1, StillCarried
<1> QED BY <1>1, <1>3, <1>5, <1>6, MetaStep DEF Carried

LEMMA LocalPaxStep ==
    ASSUME ScanInv, Agrees, NEW r \in Records[format], LocalPax(r), Fits(2), pax = None
    PROVE  Agrees'
<1> DEFINE n == Len(tape)
<1>1. /\ Take(r) /\ r.type = "pax" /\ r.type \in MetaType /\ Pay(2) /\ pax' = r
      /\ UNCHANGED <<longName, longLink, global, names, total, rootSeen, found>>
  BY DEF LocalPax, MetaType
<1>2. /\ tape \in Seq(Records[format]) /\ n \in Nat /\ n + 1 \in DOMAIN tape'
      /\ tape' = Append(tape, r) /\ tape'[n + 1] = r
  BY <1>1, OneMore DEF ScanInv, TypeOK, Take
<1>3. Here(tape, "pax") = {}
  <2> SUFFICES ASSUME NEW j \in DOMAIN tape, Here(tape, "pax") = {j}, pax = tape[j]
               PROVE  FALSE
    BY DEF Agrees, Carried, PaxCarried
  <2>1. tape[j].type = "pax"
    BY DEF Here, OfType
  <2> QED BY <2>1, GivenIsRecord
<1>4. Here(tape', "pax") = {n + 1}
  BY <1>1, <1>2, <1>3, HereOfOneMore DEF MemberType
<1>5. PaxCarried'
  BY <1>1, <1>2, <1>4 DEF PaxCarried
<1>6. NameCarried' /\ LinkCarried' /\ Inherited("path")' /\ Inherited("size")'
  BY <1>1, StillCarried
<1> QED BY <1>1, <1>3, <1>5, <1>6, MetaStep DEF Carried

LEMMA GlobalPaxStep ==
    ASSUME ScanInv, Agrees, NEW r \in Records[format], GlobalPax(r), Fits(2)
    PROVE  Agrees'
<1> DEFINE n == Len(tape)
<1>1. /\ Take(r) /\ r.type = "global" /\ r.type \in MetaType /\ Pay(2)
      /\ global' = [path |-> Updated(global.path, r.path), size |-> Updated(global.size, r.size)]
      /\ UNCHANGED <<longName, longLink, pax, names, total, rootSeen, found>>
  BY DEF GlobalPax, MetaType, pendings
<1>2. /\ tape \in Seq(Records[format]) /\ n \in Nat /\ n + 1 \notin 1..n
      /\ tape' = Append(tape, r) /\ tape'[n + 1] = r /\ \A i \in 1..n : tape'[i] = tape[i]
      /\ \A i \in 1..n : i <= n + 1
  BY <1>1, OneMore DEF ScanInv, TypeOK, Take
<1>3. \A f \in {"path", "size"} : global'[f] = Updated(global[f], r[f])
  BY <1>1
<1>4. ASSUME NEW f \in {"path", "size"}, Inherited(f) PROVE Inherited(f)'
  <2>1. /\ Shared(tape, f) \subseteq 1..n
        /\ Shared(tape', f) = Shared(tape, f) \cup (IF r[f] # None THEN {n + 1} ELSE {})
    BY <1>1, <1>2, SharedOfOneMore
  <2>2. CASE r[f] = None
    <3>1. global'[f] = global[f] /\ Shared(tape', f) = Shared(tape, f)
      BY <1>3, <2>1, <2>2 DEF Updated
    <3> QED BY <1>2, <1>4, <2>1, <3>1 DEF Inherited
  <2>3. CASE r[f] # None
    <3>1. global'[f] = IF r[f] = Empty THEN None ELSE r[f]
      BY <1>3, <2>3 DEF Updated
    <3>2. /\ n + 1 \in Shared(tape', f)
          /\ \A k \in Shared(tape', f) : k <= n + 1
      BY <1>2, <2>1, <2>3
    <3> QED BY <1>2, <3>1, <3>2 DEF Inherited
  <2> QED BY <2>2, <2>3
<1>5. Inherited("path")' /\ Inherited("size")'
  BY <1>4 DEF Agrees
<1>6. NameCarried' /\ LinkCarried' /\ PaxCarried'
  BY <1>1, StillCarried
<1> QED BY <1>1, <1>5, <1>6, MetaStep DEF Carried

LEMMA MemberCounted ==
    ASSUME ScanInv, Agrees, NEW r \in Records[format], ScanMember(r),
           MemberOK(MemberPath(r), MemberSize(r), r)
    PROVE  Counted'
<1> DEFINE u == Append(tape, r)
           n == Len(tape)
           path == MemberPath(r)
           size == MemberSize(r)
           isFile == r.type = "file"
<1>1. /\ Take(r) /\ r.type \in MemberType
      /\ names' = names \cup {path}
      /\ total' = IF isFile THEN total + size ELSE total
      /\ Pay(IF isFile THEN 1 + size ELSE 1)
      /\ rootSeen' = (rootSeen \/ path = "root")
      /\ found' = IF isFile THEN found \cup ({path} \cap Expected) ELSE found
  BY DEF ScanMember
<1>2. /\ tape \in Seq(Records[format]) /\ Known(tape) /\ Known(u)
      /\ n \in Nat /\ tape' = u /\ format' = format /\ u[n + 1] = r
  BY <1>1, OneMore, KnownAfter DEF ScanInv, TypeOK, Agrees, Take
<1>3. /\ Members(tape) \subseteq 1..n /\ Files(tape) \subseteq Members(tape)
      /\ Members(u) = Members(tape) \cup {n + 1}
      /\ Files(u) = Files(tape) \cup (IF isFile THEN {n + 1} ELSE {})
  BY <1>1, <1>2, MembersOfOneMore
<1>4. \A i \in 1..n : u[i] = tape[i] /\ PathOf(u, i) = PathOf(tape, i)
  BY <1>2, OneMore, SameBefore
<1>5. PathOf(u, n + 1) = path /\ size \in Nat
  BY <1>1, NewMember
<1>6. /\ names = {PathOf(tape, i) : i \in Members(tape)}
      /\ total = Contents(tape)
      /\ Tar => remaining = MaxStream - Stream(tape)
      /\ rootSeen <=> \E i \in Members(tape) : tape[i].type = "dir" /\ PathOf(tape, i) = "root"
      /\ found = {p \in Wanted : \E i \in Files(tape) : PathOf(tape, i) = p}
  BY DEF Agrees, Counted
<1>7. /\ Contents(u) = IF isFile THEN Contents(tape) + size ELSE Contents(tape)
      /\ Stream(u) = Stream(tape) + IF isFile THEN 1 + size ELSE 1
      /\ Stream(tape) \in Nat /\ MaxStream \in Nat
  <2>1. Stream(tape) \in Nat
    BY <1>2, StreamOfOneMore
  <2> QED BY <1>1, <2>1, MemberSound, LimitAssumption DEF LimitAssumption
<1>8. Tar' = Tar /\ Wanted' = Wanted /\ Expected = Wanted
  BY <1>2, SoundNext DEF Expected, Wanted
<1>9. path = "root" => r.type = "dir"
  BY DEF MemberOK, FileOK, DirOK
<1> HIDE DEF u, n, path, size
<1>10. names' = {PathOf(tape', i) : i \in Members(tape')}
  BY <1>1, <1>2, <1>3, <1>4, <1>5, <1>6
<1>11. total' = Contents(tape') /\ (Tar' => remaining' = MaxStream - Stream(tape'))
  <2> DEFINE b == IF isFile THEN 1 + size ELSE 1
  <2>1. b \in Nat /\ Stream(u) = Stream(tape) + b /\ (Tar => remaining' = remaining - b)
    BY <1>1, <1>5, <1>7 DEF Pay
  <2> HIDE DEF b
  <2>2. Tar => remaining' = MaxStream - Stream(u)
    BY <1>6, <1>7, <2>1
  <2> QED BY <1>1, <1>2, <1>6, <1>7, <1>8, <2>2
<1>12. rootSeen' <=> \E i \in Members(tape') : tape'[i].type = "dir" /\ PathOf(tape', i) = "root"
  <2>1. (\E i \in Members(u) : u[i].type = "dir" /\ PathOf(u, i) = "root")
          <=> \/ \E i \in Members(tape) : tape[i].type = "dir" /\ PathOf(tape, i) = "root"
              \/ path = "root"
    BY <1>2, <1>3, <1>4, <1>5, <1>9
  <2> QED BY <1>1, <1>2, <1>6, <2>1
<1>13. found' = {p \in Wanted' : \E i \in Files(tape') : PathOf(tape', i) = p}
  <2>1. \A p : (\E i \in Files(u) : PathOf(u, i) = p)
                 <=> (\E i \in Files(tape) : PathOf(tape, i) = p) \/ (isFile /\ p = path)
    BY <1>3, <1>4, <1>5
  <2>2. found' = {p \in Wanted : (\E i \in Files(tape) : PathOf(tape, i) = p) \/ (isFile /\ p = path)}
    BY <1>1, <1>6, <1>8
  <2>3. found' = {p \in Wanted : \E i \in Files(u) : PathOf(u, i) = p}
    BY <2>1, <2>2
  <2> QED BY <1>2, <1>8, <2>3
<1> QED BY <1>10, <1>11, <1>12, <1>13 DEF Counted

LEMMA MemberStep ==
    ASSUME ScanInv, Agrees, NEW r \in Records[format], ScanMember(r),
           MemberOK(MemberPath(r), MemberSize(r), r)
    PROVE  Agrees'
<1>1. /\ Take(r) /\ r.type \in MemberType
      /\ longName' = None /\ longLink' = FALSE /\ pax' = None /\ global' = global
  BY DEF ScanMember
<1>2. /\ tape' = Append(tape, r) /\ trailing' = trailing /\ format' = format
      /\ tape \in Seq(Records[format])
  BY <1>1 DEF Take, ScanInv, TypeOK
<1>3. Sound(tape)'
  BY <1>1, <1>2, MemberSound, SoundNext
<1>4. Known(tape)'
  <2>1. Known(tape')
    BY <1>2, KnownAfter
  <2> QED BY <2>1 DEF Known
<1>5. \A type : Here(tape', type) = {}
  BY <1>1, <1>2, HereOfOneMore
<1>6. Carried'
  BY <1>1, <1>5 DEF Carried, NameCarried, LinkCarried, PaxCarried
<1>7. ASSUME NEW f, Inherited(f) PROVE Inherited(f)'
  <2>1. r.type # "global"
    BY <1>1 DEF MemberType
  <2>2. /\ Shared(tape, f) \subseteq 1..Len(tape)
        /\ Shared(tape', f) =
             Shared(tape, f) \cup (IF r.type = "global" /\ r[f] # None THEN {Len(tape) + 1} ELSE {})
    BY <1>2, SharedOfOneMore
  <2>3. Shared(tape', f) = Shared(tape, f) /\ \A i \in Shared(tape, f) : tape'[i] = tape[i]
    BY <1>2, <2>1, <2>2, OneMore
  <2> QED BY <1>1, <1>7, <2>3 DEF Inherited
<1>8. trailing = None /\ Inherited("path") /\ Inherited("size")
  BY DEF Agrees
<1> QED BY <1>2, <1>3, <1>4, <1>6, <1>7, <1>8, MemberCounted DEF Agrees

-----------------------------------------------------------------------------
(* The verdict.                                                            *)

\* A record is refused only where it makes the tape unsound.
LEMMA RefusedRecord ==
    ASSUME ScanInv, Agrees, NEW r \in Records[format],
           LongName(r) \/ LongLink(r) \/ LocalPax(r) \/ GlobalPax(r) \/ ScanMember(r)
    PROVE  IF at' = "refused" THEN trailing' = None /\ ~Sound(tape)' ELSE at' = "scan" /\ Agrees'
<1>1. Take(r) /\ at = "scan"
  BY DEF LongName, LongLink, LocalPax, GlobalPax, ScanMember, Take
<1>2. /\ tape' = Append(tape, r) /\ trailing' = None /\ format' = format
      /\ Sound(tape)' <=> Sound(Append(tape, r))
  BY <1>1, SoundNext DEF Take, Agrees
<1>3. /\ longName # None => Here(tape, "longname") # {}
      /\ longLink => Here(tape, "longlink") # {}
      /\ pax # None => Here(tape, "pax") # {}
  BY DEF Agrees, Carried, NameCarried, LinkCarried, PaxCarried
<1>4. CASE LongName(r)
  <2>1. r.type = "longname" /\ r.type \in MetaType
    BY <1>4 DEF LongName, MetaType
  <2>2. CASE Fits(2) /\ longName = None
    BY <1>1, <1>4, <2>2, LongNameStep DEF LongName
  <2>3. CASE ~(Fits(2) /\ longName = None)
    <3>1. at' = "refused"
      BY <1>4, <2>3 DEF LongName, Refuse
    <3>2. ~Sound(Append(tape, r))
      BY <1>3, <2>1, <2>3, MetaSound
    <3> QED BY <1>2, <3>1, <3>2
  <2> QED BY <2>2, <2>3
<1>5. CASE LongLink(r)
  <2>1. r.type = "longlink" /\ r.type \in MetaType
    BY <1>5 DEF LongLink, MetaType
  <2>2. CASE Fits(2) /\ ~longLink
    BY <1>1, <1>5, <2>2, LongLinkStep DEF LongLink
  <2>3. CASE ~(Fits(2) /\ ~longLink)
    <3>1. at' = "refused"
      BY <1>5, <2>3 DEF LongLink, Refuse
    <3>2. ~Sound(Append(tape, r))
      BY <1>3, <2>1, <2>3, MetaSound
    <3> QED BY <1>2, <3>1, <3>2
  <2> QED BY <2>2, <2>3
<1>6. CASE LocalPax(r)
  <2>1. r.type = "pax" /\ r.type \in MetaType
    BY <1>6 DEF LocalPax, MetaType
  <2>2. CASE Fits(2) /\ pax = None
    BY <1>1, <1>6, <2>2, LocalPaxStep DEF LocalPax
  <2>3. CASE ~(Fits(2) /\ pax = None)
    <3>1. at' = "refused"
      BY <1>6, <2>3 DEF LocalPax, Refuse
    <3>2. ~Sound(Append(tape, r))
      BY <1>3, <2>1, <2>3, MetaSound
    <3> QED BY <1>2, <3>1, <3>2
  <2> QED BY <2>2, <2>3
<1>7. CASE GlobalPax(r)
  <2>1. r.type = "global" /\ r.type \in MetaType
    BY <1>7 DEF GlobalPax, MetaType
  <2>2. CASE Fits(2)
    BY <1>1, <1>7, <2>2, GlobalPaxStep DEF GlobalPax
  <2>3. CASE ~Fits(2)
    <3>1. at' = "refused"
      BY <1>7, <2>3 DEF GlobalPax, Refuse
    <3>2. ~Sound(Append(tape, r))
      BY <2>1, <2>3, MetaSound
    <3> QED BY <1>2, <3>1, <3>2
  <2> QED BY <2>2, <2>3
<1>8. CASE ScanMember(r)
  <2>1. r.type \in MemberType
    BY <1>8 DEF ScanMember
  <2>2. CASE MemberOK(MemberPath(r), MemberSize(r), r)
    BY <1>1, <1>8, <2>2, MemberStep DEF ScanMember
  <2>3. CASE ~MemberOK(MemberPath(r), MemberSize(r), r)
    <3>1. at' = "refused"
      BY <1>8, <2>3 DEF ScanMember, Refuse
    <3>2. ~Sound(Append(tape, r))
      BY <2>1, <2>3, MemberSound
    <3> QED BY <1>2, <3>1, <3>2
  <2> QED BY <2>2, <2>3
<1> QED BY <1>4, <1>5, <1>6, <1>7, <1>8

\* At the end marker the scan knows whether the tape is a whole release.
LEMMA CompleteIsWhole ==
    ASSUME ScanInv, Agrees, NEW zeros \in Nat
    PROVE  Whole(tape, zeros) <=> Complete /\ (Tar => NothingPending /\ 1 + zeros <= remaining)
<1> DEFINE n == Len(tape)
<1>1. /\ tape \in Seq(Records[format]) /\ n \in Nat /\ DOMAIN tape = 1..n /\ Sound(tape)
      /\ format \in {"tar", "zip"} /\ Known(tape)
  BY RecordAssumption DEF RecordAssumption, ScanInv, TypeOK, Agrees
<1>2. /\ rootSeen <=> \E i \in Members(tape) : tape[i].type = "dir" /\ PathOf(tape, i) = "root"
      /\ found = {p \in Wanted : \E i \in Files(tape) : PathOf(tape, i) = p}
      /\ Tar => remaining = MaxStream - Stream(tape)
  BY DEF Agrees, Counted
<1>3. found = Expected <=> \A path \in Wanted : \E i \in Files(tape) : PathOf(tape, i) = path
  <2>1. Expected = Wanted
    BY DEF Expected, Wanted
  <2> QED BY <1>2, <2>1
<1>4. /\ \A j \in For(tape, n + 1) : j \in 1..n /\ j \notin Members(tape)
      /\ For(tape, n + 1) \subseteq 1..n
  <2>1. (n + 1) - 1 = n /\ \A j \in 1..n : j \in j..n
    BY <1>1
  <2> QED BY <2>1 DEF For
<1>5. CASE Tar
  <2>1. \A j \in For(tape, n + 1) : tape[j].type \in MetaType
    <3>1. \A j \in For(tape, n + 1) : tape[j] \in Records["tar"] /\ tape[j].type \notin MemberType
      BY <1>1, <1>4, <1>5 DEF Members, Tar
    <3> QED BY <3>1, RecordAssumption DEF RecordAssumption, MetaType, Member, Pax
  <2>2. NothingPending <=>
          Here(tape, "longname") = {} /\ Here(tape, "longlink") = {} /\ Here(tape, "pax") = {}
    <3>1. longName # None => Here(tape, "longname") # {}
      BY DEF Agrees, Carried, NameCarried
    <3>2. longName = None => Here(tape, "longname") = {}
      <4> SUFFICES ASSUME NEW j \in DOMAIN tape, Here(tape, "longname") = {j}, None = tape[j].path
                   PROVE  FALSE
        BY DEF Agrees, Carried, NameCarried
      <4>1. tape[j] \in Records[format] /\ tape[j].type = "longname"
        BY <1>1 DEF Here, OfType
      <4>2. tape[j].path \in Path
        BY <4>1, Kinds DEF ScanInv, TypeOK
      <4> QED BY <4>2, FieldAssumption DEF FieldAssumption
    <3>3. pax = None <=> Here(tape, "pax") = {}
      <4> SUFFICES ASSUME NEW j \in DOMAIN tape, Here(tape, "pax") = {j}, pax = tape[j]
                   PROVE  pax # None
        BY DEF Agrees, Carried, PaxCarried
      <4>1. tape[j].type = "pax"
        BY DEF Here, OfType
      <4> QED BY <4>1, GivenIsRecord
    <3>4. longLink <=> Here(tape, "longlink") # {}
      BY DEF Agrees, Carried, LinkCarried
    <3> QED BY <3>1, <3>2, <3>3, <3>4 DEF NothingPending
  <2>3. NothingPending <=> OfType(tape, For(tape, n + 1), "global") = For(tape, n + 1)
    <3> HIDE DEF n
    <3>1. NothingPending <=> \A j \in For(tape, n + 1) : tape[j].type \notin {"longname", "longlink", "pax"}
      BY <2>2 DEF Here, OfType, n
    <3>2. (\A j \in For(tape, n + 1) : tape[j].type \notin {"longname", "longlink", "pax"})
            <=> \A j \in For(tape, n + 1) : tape[j].type = "global"
      BY <2>1 DEF MetaType
    <3>3. (\A j \in For(tape, n + 1) : tape[j].type = "global")
            <=> OfType(tape, For(tape, n + 1), "global") = For(tape, n + 1)
      BY DEF OfType
    <3> QED BY <3>1, <3>2, <3>3
  <2>4. 1 + zeros <= remaining <=> Stream(tape) + 1 + zeros <= MaxStream
    <3>1. /\ remaining \in Nat /\ MaxStream \in Nat /\ Stream(tape) \in Nat
          /\ remaining = MaxStream - Stream(tape)
      BY <1>2, <1>5, StreamNat, LimitAssumption DEF LimitAssumption, ScanInv, TypeOK, Agrees
    <3> QED BY <3>1
  <2> QED BY <1>1, <1>2, <1>3, <1>5, <2>3, <2>4 DEF Whole, Complete
<1>6. CASE ~Tar
  <2>1. format = "zip"
    BY <1>1, <1>6 DEF Tar
  <2>2. \A j \in 1..n : j \in Members(tape)
    <3>1. \A j \in 1..n : tape[j] \in Records["zip"]
      BY <1>1, <2>1
    <3> QED BY <1>1, <3>1, RecordAssumption DEF RecordAssumption, Member, Members
  <2>3. For(tape, n + 1) = {}
    BY <1>4, <2>2
  <2>4. OfType(tape, For(tape, n + 1), "global") = For(tape, n + 1)
    BY <2>3 DEF OfType
  <2> QED BY <1>1, <1>2, <1>3, <1>6, <2>4 DEF Whole, Complete
<1> QED BY <1>5, <1>6

\* Before the first record there is nothing to carry or to count.
LEMMA EmptyAgrees ==
    ASSUME Init
    PROVE  Agrees
<1> DEFINE t == <<>>
<1>1. /\ tape = t /\ trailing = None /\ longName = None /\ ~longLink /\ pax = None
      /\ global["path"] = None /\ global["size"] = None
      /\ names = {} /\ total = 0 /\ remaining = MaxStream /\ ~rootSeen /\ found = {}
  BY DEF Init
<1>2. Len(t) = 0 /\ DOMAIN t = {}
  OBVIOUS
<1> HIDE DEF t
<1>3. Members(t) = {} /\ Files(t) = {}
  BY <1>2 DEF Members, Files
<1>4. Contents(t) = 0
  <2> DEFINE v == [i \in DOMAIN t |-> IF i \in Files(t) THEN SizeOf(t, i) ELSE 0]
  <2>1. v = <<>>
    BY <1>2
  <2> HIDE DEF v
  <2> QED BY <2>1, SumEmpty DEF Contents, v
<1>5. Stream(t) = 0
  <2>1. DOMAIN t \ Members(t) = {} /\ Cardinality({}) = 0
    BY <1>2, FS_EmptySet
  <2> QED BY <1>2, <1>4, <2>1 DEF Stream
<1>6. For(t, 1) = {}
  <2>1. 1..(1 - 1) = {}
    OBVIOUS
  <2> QED BY <2>1 DEF For
<1>7. \A type : OfType(t, For(t, 1), type) = {} /\ Here(t, type) = {} /\ Cardinality({}) = 0
  <2>1. \A type : OfType(t, {}, type) = {}
    BY DEF OfType
  <2>2. \A type : Here(t, type) = OfType(t, For(t, 1), type)
    BY <1>2 DEF Here
  <2> QED BY <1>6, <2>1, <2>2, FS_EmptySet
<1>8. \A f : Shared(t, f) = {}
  <2>1. 1..Len(t) = {}
    BY <1>2
  <2> QED BY <2>1 DEF Shared, Giving, OfType
<1>9. /\ MaxRecords \in Nat /\ MaxContents \in Nat /\ MaxStream \in Nat
  BY LimitAssumption DEF LimitAssumption
<1>10. Sound(t)
  <2>1. \A i \in 1..(Len(t) + 1) : i = 1
    BY <1>2
  <2>2. \A type \in MetaType \ {"global"}, i \in 1..(Len(t) + 1) :
          Cardinality(OfType(t, For(t, i), type)) <= 1
    BY <1>7, <2>1
  <2> QED BY <1>2, <1>3, <1>4, <1>5, <1>9, <2>2 DEF Sound
<1>11. Known(t)
  BY <1>3 DEF Known
<1>12. Carried
  BY <1>1, <1>7 DEF Carried, NameCarried, LinkCarried, PaxCarried
<1>13. Inherited("path") /\ Inherited("size")
  BY <1>1, <1>8 DEF Inherited
<1>14. Counted
  BY <1>1, <1>3, <1>4, <1>5, <1>9 DEF Counted
<1> QED BY <1>1, <1>10, <1>11, <1>12, <1>13, <1>14 DEF Agrees

LEMMA JudgeStarts == Init => JInv
BY ScanStarts, EmptyAgrees DEF JInv, AcceptedIsWhole, RefusedIsNot, Init

LEMMA JudgeKeeps ==
    ASSUME JInv, Next \/ Return \/ UNCHANGED vars
    PROVE  JInv'
<1>1. ScanInv'
  BY ScanKeeps DEF JInv
<1>2. ASSUME NEW r \in Records[format],
             LongName(r) \/ LongLink(r) \/ LocalPax(r) \/ GlobalPax(r) \/ ScanMember(r)
      PROVE  JInv'
  <2>1. at = "scan" /\ ScanInv /\ Agrees
    BY <1>2 DEF JInv, LongName, LongLink, LocalPax, GlobalPax, ScanMember, Take
  <2>2. IF at' = "refused" THEN trailing' = None /\ ~Sound(tape)' ELSE at' = "scan" /\ Agrees'
    BY <1>2, <2>1, RefusedRecord
  <2>3. CASE at' = "refused"
    BY <1>1, <2>2, <2>3 DEF JInv, AcceptedIsWhole, RefusedIsNot
  <2>4. CASE at' # "refused"
    BY <1>1, <2>2, <2>4 DEF JInv, AcceptedIsWhole, RefusedIsNot
  <2> QED BY <2>3, <2>4
<1>3. CASE End
  <2>1. /\ at = "scan" /\ ScanInv /\ Agrees
        /\ trailing' \in Nat /\ tape' = tape /\ format' = format
        /\ at' = IF Complete /\ (Tar => NothingPending /\ 1 + trailing' <= remaining)
                 THEN "accepted" ELSE "refused"
    BY <1>3 DEF End, JInv
  <2>2. Whole(tape, trailing)' <=> Whole(tape, trailing')
    <3>1. Sound(tape)' <=> Sound(tape)
      BY <2>1, SoundNext
    <3>2. Tar' = Tar /\ Wanted' = Wanted
      BY <2>1, SoundNext
    <3> QED BY <2>1, <3>1, <3>2 DEF Whole
  <2>3. Whole(tape, trailing') <=> at' = "accepted"
    BY <2>1, CompleteIsWhole
  <2>4. trailing' # None
    BY <2>1, FieldAssumption DEF FieldAssumption
  <2> QED BY <1>1, <2>1, <2>2, <2>3, <2>4 DEF JInv, AcceptedIsWhole, RefusedIsNot
<1>4. CASE Return
  BY <1>1, <1>4 DEF Return, JInv, AcceptedIsWhole, RefusedIsNot
<1>5. CASE UNCHANGED vars
  <2>1. /\ at' = at /\ tape' = tape /\ trailing' = trailing /\ format' = format
        /\ longName' = longName /\ longLink' = longLink /\ pax' = pax /\ global' = global
        /\ names' = names /\ total' = total /\ remaining' = remaining /\ rootSeen' = rootSeen
        /\ found' = found
    BY <1>5 DEF vars, pendings
  <2>2. (Sound(tape)' <=> Sound(tape)) /\ Tar' = Tar /\ Wanted' = Wanted
    BY <2>1, SoundNext
  <2>3. Whole(tape, trailing)' <=> Whole(tape, trailing)
    BY <2>1, <2>2 DEF Whole
  <2>4. Counted' <=> Counted
    BY <2>1, <2>2 DEF Counted
  <2>5. Agrees' <=> Agrees
    BY <2>1, <2>2, <2>4 DEF Agrees, Known, Carried, NameCarried, LinkCarried, PaxCarried, Inherited
  <2> QED BY <1>1, <2>1, <2>2, <2>3, <2>5 DEF JInv, AcceptedIsWhole, RefusedIsNot
<1> QED BY <1>2, <1>3, <1>4, <1>5 DEF Next

\* What inspect_archive carries from record to record and what it has counted
\* is, at every record, what a look back over all of them gives.
THEOREM JudgeInvariant == ExtractSpec => []JInv
<1>1. ExtractInit => JInv
  BY JudgeStarts DEF ExtractInit
<1>2. JInv /\ [ExtractNext]_<<vars, extractVars>> => JInv'
  BY ExtractInspects, JudgeKeeps
<1> QED BY <1>1, <1>2, PTL DEF ExtractSpec

\* Whatever records come in whatever order, inspect_tar and inspect_zip accept
\* the archives that are a whole release within the limits and no others, and
\* refuse at the first record that makes it impossible.
THEOREM JudgesAsWhole == ExtractSpec => []JudgedAsWhole
<1>1. JInv => JudgedAsWhole
  BY DEF JInv, Agrees, Counted, JudgedAsWhole, TotalsExact
<1> QED BY <1>1, JudgeInvariant, PTL

-----------------------------------------------------------------------------
(* The files of an extraction.                                             *)

Steps == {"inspect", "create", "fill", "unlink", "undo", "identify", "clean", "done", "failed"}

\* The files that were created and are not given up yet.
Held == CASE step = "create" -> IF name = "launcher" THEN {"payload"} ELSE {}
          [] step \in {"fill", "unlink", "clean"} -> {name, "payload"}
          [] step = "undo" -> {"payload"}
          [] step \in {"identify", "done"} -> found
          [] OTHER -> {}

\* The one of them that is being written, or whose writing failed.
Unfilled == IF step \in {"fill", "unlink"} THEN {name} ELSE {}

ExtractTypes ==
    /\ step \in Steps
    /\ dest \in Dir \cup {None}
    /\ handle \in Dir \cup {None}
    /\ name \in Name
    /\ file \in [Dir -> [Name -> Ours \cup {"other", None}]]
    /\ stuck \subseteq Name
    /\ taken \subseteq Dir \X Name
    /\ meddled \in 0..MaxMeddled

\* The inspection comes first, and what it finds is not changed afterwards.
InspectedFirst ==
    /\ found \subseteq Name
    /\ at \in {"accepted", "returned"} => "payload" \in found
    /\ step # "inspect" => at = "returned"
    /\ step = "inspect" => handle = None /\ name = "payload"
    /\ step \notin {"inspect", "failed"} => handle \in Dir
    /\ step # "inspect" /\ name = "launcher" => "launcher" \in found
    /\ step = "identify" /\ "launcher" \in found => name = "launcher"
    /\ step = "done" => dest = handle

\* Of our files there are those that are held, and what could not be removed;
\* and what is held is there unless others took it away.
FilesAccounted ==
    /\ \A d \in Dir, n \in Name :
         file[d][n] \in Ours => d = handle /\ n \in Held \cup stuck
    /\ \A n \in Held : file[handle][n] \in Ours \/ <<handle, n>> \in taken
    /\ \A n \in Held \ Unfilled :
         step # "clean" => file[handle][n] = "whole" \/ <<handle, n>> \in taken
    /\ step \in {"inspect", "create", "fill", "unlink", "identify", "done"} => stuck = {}

EInv == ExtractTypes /\ InspectedFirst /\ FilesAccounted

\* The removal of a file, for what is held before and after it.
LEMMA RemoveStep ==
    ASSUME EInv, NEW n \in Name, Remove(n), handle \in Dir
    PROVE  /\ file' \in [Dir -> [Name -> Ours \cup {"other", None}]]
           /\ stuck' \subseteq Name
           /\ \A d \in Dir, m \in Name : <<d, m>> # <<handle, n>> => file'[d][m] = file[d][m]
           /\ file'[handle][n] \in Ours => n \in stuck'
           /\ stuck \subseteq stuck'
           /\ file'[handle][n] # file[handle][n] => file'[handle][n] = None
<1>1. CASE file' = [file EXCEPT ![handle][n] = None] /\ UNCHANGED stuck
  BY <1>1, DirAssumption DEF DirAssumption, EInv, ExtractTypes, Ours
<1>2. CASE stuck' = stuck \cup {n} /\ UNCHANGED file
  BY <1>2 DEF EInv, ExtractTypes
<1> QED BY <1>1, <1>2 DEF Remove

LEMMA ExtractStarts == ExtractInit => EInv
<1> SUFFICES ASSUME ExtractInit PROVE EInv
  OBVIOUS
<1>1. ExtractTypes
  BY DirAssumption DEF DirAssumption, ExtractInit, ExtractTypes, Steps, Name
<1>2. InspectedFirst
  BY DEF ExtractInit, Init, InspectedFirst, Name
<1>3. FilesAccounted
  BY DirAssumption DEF DirAssumption, ExtractInit, FilesAccounted, Held
<1> QED BY <1>1, <1>2, <1>3 DEF EInv

\* The inspection finds expected members only, and the payload before it is done.
LEMMA ScanFinds ==
    ASSUME Next \/ Return, at \in {"scan", "accepted"}, found \subseteq Name,
           at = "accepted" => "payload" \in found
    PROVE  /\ found' \subseteq Name
           /\ at' \in {"accepted", "returned"} => "payload" \in found'
<1>1. ASSUME NEW r, LongName(r) \/ LongLink(r) \/ LocalPax(r) \/ GlobalPax(r)
      PROVE  UNCHANGED found /\ at = "scan" /\ at' \in {at, "refused"}
  BY <1>1 DEF LongName, LongLink, LocalPax, GlobalPax, Take, Refuse
<1>2. ASSUME NEW r, ScanMember(r)
      PROVE  found' \subseteq Name /\ at = "scan" /\ at' \in {at, "refused"}
  <2>1. at = "scan" /\ at' \in {at, "refused"}
    BY <1>2 DEF ScanMember, Take, Refuse
  <2>2. found' = found \/ found' = found \cup ({MemberPath(r)} \cap Expected)
    BY <1>2 DEF ScanMember, Refuse
  <2> QED BY <2>1, <2>2 DEF Expected, Name
<1>3. CASE End
  BY <1>3 DEF End, Complete, Expected
<1>4. CASE Return
  BY <1>4 DEF Return
<1> QED BY <1>1, <1>2, <1>3, <1>4 DEF Next

LEMMA ExtractStep ==
    ASSUME EInv, ExtractNext
    PROVE  EInv'
<1> USE DEF EInv
<1>1. CASE Inspect
  <2>1. UNCHANGED extractVars /\ step = "inspect" /\ step' = "inspect"
    BY <1>1 DEF Inspect, extractVars, InspectedFirst
  <2>2. ExtractTypes'
    BY <2>1 DEF ExtractTypes, extractVars
  <2>3. found' \subseteq Name /\ (at' \in {"accepted", "returned"} => "payload" \in found')
    BY <1>1, ScanFinds DEF Inspect, InspectedFirst
  <2>4. InspectedFirst'
    BY <2>1, <2>3 DEF InspectedFirst, extractVars
  <2>5. FilesAccounted'
    BY <2>1 DEF FilesAccounted, Held, Unfilled, extractVars
  <2> QED BY <2>2, <2>4, <2>5
<1>2. CASE Open
  <2>1. /\ step = "inspect" /\ at = "returned" /\ step' \in {"create", "failed"}
        /\ step' = "create" => handle' = dest /\ dest # None
        /\ step' = "failed" => handle' = handle
        /\ UNCHANGED <<at, found, dest, taken, meddled, name, file, stuck>>
    BY <1>2 DEF Open, vars, others
  <2>2. ExtractTypes'
    BY <2>1 DEF ExtractTypes, Steps
  <2>3. InspectedFirst'
    BY <2>1 DEF InspectedFirst, ExtractTypes
  <2>4. Held = {} /\ Held' = {} /\ stuck = {} /\ stuck' = {}
    BY <2>1 DEF Held, InspectedFirst, FilesAccounted
  <2>5. FilesAccounted'
    BY <2>1, <2>4 DEF FilesAccounted
  <2> QED BY <2>2, <2>3, <2>5
<1>3. CASE Create
  <2>1. step = "create" /\ UNCHANGED <<at, found, dest, taken, meddled, name, handle, stuck>>
    BY <1>3 DEF Create, vars, others
  <2>2. handle \in Dir /\ stuck = {}
    BY <2>1 DEF InspectedFirst, FilesAccounted
  <2>3. CASE step' = "fill" /\ file[handle][name] = None
             /\ file' = [file EXCEPT ![handle][name] = "partial"]
    <3>1. /\ file' \in [Dir -> [Name -> Ours \cup {"other", None}]]
          /\ file'[handle][name] = "partial"
          /\ \A d \in Dir, m \in Name : <<d, m>> # <<handle, name>> => file'[d][m] = file[d][m]
      BY <2>2, <2>3 DEF ExtractTypes, Ours
    <3>2. ExtractTypes'
      BY <2>1, <2>3, <3>1 DEF ExtractTypes, Steps
    <3>3. InspectedFirst'
      BY <2>1, <2>2, <2>3 DEF InspectedFirst
    <3>4. Held' = Held \cup {name} /\ name \notin Held /\ Unfilled' = {name} /\ Unfilled = {}
      BY <2>1, <2>3 DEF Held, Unfilled, ExtractTypes, Name
    <3>5. Held \subseteq Name /\ name \in Name
      BY <2>1 DEF Held, Name, ExtractTypes
    <3>6. FilesAccounted'
      BY <2>1, <2>2, <2>3, <3>1, <3>4, <3>5 DEF FilesAccounted, Ours
    <3> QED BY <3>2, <3>3, <3>6
  <2>4. CASE Abandon /\ UNCHANGED file
    <3>1. step' = IF name = "launcher" THEN "undo" ELSE "failed"
      BY <2>4 DEF Abandon
    <3>2. ExtractTypes'
      BY <2>1, <2>4, <3>1 DEF ExtractTypes, Steps
    <3>3. InspectedFirst'
      BY <2>1, <2>2, <3>1 DEF InspectedFirst
    <3>4. Held' = Held /\ Unfilled' = Unfilled
      BY <2>1, <3>1 DEF Held, Unfilled
    <3>5. FilesAccounted'
      BY <2>1, <2>2, <2>4, <3>1, <3>4 DEF FilesAccounted
    <3> QED BY <3>2, <3>3, <3>5
  <2> QED BY <1>3, <2>3, <2>4 DEF Create
<1>4. CASE Fill \/ FillFails
  <2>1. /\ step = "fill" /\ file' \in {file, Filled}
        /\ UNCHANGED <<at, found, dest, taken, meddled, handle, stuck>>
        /\ step' # "unlink" => file' = Filled
        /\ \/ step' = "unlink" /\ name' = name
           \/ step' = "create" /\ name = "payload" /\ "launcher" \in found /\ name' = "launcher"
           \/ step' = "identify" /\ name' = name /\ ~(name = "payload" /\ "launcher" \in found)
    BY <1>4 DEF Fill, FillFails, vars, others
  <2>2. handle \in Dir /\ stuck = {} /\ name \in Name /\ "payload" \in found /\ found \subseteq Name
    BY <2>1 DEF InspectedFirst, FilesAccounted, ExtractTypes
  <2>3. /\ file' \in [Dir -> [Name -> Ours \cup {"other", None}]]
        /\ \A d \in Dir, m \in Name : <<d, m>> # <<handle, name>> => file'[d][m] = file[d][m]
        /\ file'[handle][name] \in Ours <=> file[handle][name] \in Ours
        /\ step' # "unlink" /\ file[handle][name] \in Ours => file'[handle][name] = "whole"
    <3>1. CASE file' = file /\ step' = "unlink"
      BY <3>1 DEF ExtractTypes
    <3>2. CASE file' = Filled
      BY <2>2, <3>2 DEF Filled, ExtractTypes, Ours
    <3> QED BY <2>1, <3>1, <3>2
  <2>4. ExtractTypes'
    BY <2>1, <2>3 DEF ExtractTypes, Steps, Name
  <2>5. InspectedFirst'
    BY <2>1, <2>2 DEF InspectedFirst, ExtractTypes, Name
  <2>6. Held = {name, "payload"} /\ Held' = Held /\ Unfilled = {name}
    <3>1. name = "launcher" => "launcher" \in found
      BY <2>1 DEF InspectedFirst
    <3> QED BY <2>1, <2>2, <3>1 DEF Held, Unfilled, Name
  <2>7. Unfilled' = IF step' = "unlink" THEN {name} ELSE {}
    BY <2>1 DEF Unfilled
  <2>8. FilesAccounted'
    <3>1. \A d \in Dir, n \in Name : file'[d][n] \in Ours <=> file[d][n] \in Ours
      BY <2>2, <2>3
    <3>2. \A n \in Held : file'[handle][n] \in Ours \/ <<handle, n>> \in taken
      BY <2>2, <2>6, <3>1 DEF FilesAccounted, Name
    <3>3. \A n \in Held \ Unfilled : file'[handle][n] = "whole" \/ <<handle, n>> \in taken
      BY <2>1, <2>2, <2>3, <2>6 DEF FilesAccounted, Name
    <3>4. step' # "unlink" => file'[handle][name] = "whole" \/ <<handle, name>> \in taken
      BY <2>3, <2>6 DEF FilesAccounted
    <3> QED BY <2>1, <2>2, <2>6, <2>7, <3>1, <3>2, <3>3, <3>4 DEF FilesAccounted
  <2> QED BY <2>4, <2>5, <2>8
<1>5. CASE Unlink
  <2>1. /\ step = "unlink" /\ step' = IF name = "launcher" THEN "undo" ELSE "failed"
        /\ UNCHANGED <<at, found, dest, taken, meddled, name, handle>> /\ Remove(name)
    BY <1>5 DEF Unlink, Abandon, vars, others
  <2>2. handle \in Dir /\ name \in Name /\ stuck = {}
    BY <2>1 DEF InspectedFirst, ExtractTypes, FilesAccounted
  <2>3. /\ file' \in [Dir -> [Name -> Ours \cup {"other", None}]]
        /\ stuck' \subseteq Name
        /\ \A d \in Dir, m \in Name : <<d, m>> # <<handle, name>> => file'[d][m] = file[d][m]
        /\ file'[handle][name] \in Ours => name \in stuck'
    BY <2>1, <2>2, RemoveStep
  <2>4. ExtractTypes'
    BY <2>1, <2>3 DEF ExtractTypes, Steps
  <2>5. InspectedFirst'
    BY <2>1, <2>2 DEF InspectedFirst
  <2>6. Held = {name, "payload"} /\ Held' = Held \ {name} /\ Unfilled = {name}
    BY <2>1, <2>2 DEF Held, Unfilled, Name
  <2>7. FilesAccounted'
    BY <2>1, <2>2, <2>3, <2>6 DEF FilesAccounted, Name, Ours
  <2> QED BY <2>4, <2>5, <2>7
<1>6. CASE Undo
  <2>1. /\ step = "undo" /\ step' = "failed"
        /\ UNCHANGED <<at, found, dest, taken, meddled, name, handle>> /\ Remove("payload")
    BY <1>6 DEF Undo, vars, others
  <2>2. handle \in Dir /\ "payload" \in Name
    BY <2>1 DEF InspectedFirst, Name
  <2>3. /\ file' \in [Dir -> [Name -> Ours \cup {"other", None}]]
        /\ stuck' \subseteq Name
        /\ \A d \in Dir, m \in Name : <<d, m>> # <<handle, "payload">> => file'[d][m] = file[d][m]
        /\ file'[handle]["payload"] \in Ours => "payload" \in stuck'
        /\ stuck \subseteq stuck'
    BY <2>1, <2>2, RemoveStep
  <2>4. ExtractTypes'
    BY <2>1, <2>3 DEF ExtractTypes, Steps
  <2>5. InspectedFirst'
    BY <2>1, <2>2 DEF InspectedFirst
  <2>6. Held = {"payload"} /\ Held' = {}
    BY <2>1 DEF Held
  <2>7. FilesAccounted'
    BY <2>1, <2>2, <2>3, <2>6 DEF FilesAccounted
  <2> QED BY <2>4, <2>5, <2>7
<1>7. CASE Identify
  <2>1. /\ step = "identify" /\ step' \in {"done", "clean"} /\ (step' = "done" => dest = handle)
        /\ UNCHANGED <<at, found, dest, taken, meddled, name, handle, file, stuck>>
    BY <1>7 DEF Identify, Identified, vars, others
  <2>2. ExtractTypes'
    BY <2>1 DEF ExtractTypes, Steps
  <2>3. InspectedFirst'
    BY <2>1 DEF InspectedFirst
  <2>4. Held' = Held /\ Unfilled' = {} /\ Unfilled = {}
    <3>1. /\ "payload" \in found /\ found \subseteq Name /\ name \in Name
          /\ "launcher" \in found <=> name = "launcher"
      BY <2>1 DEF InspectedFirst, ExtractTypes
    <3> QED BY <2>1, <3>1 DEF Held, Unfilled, Name
  <2>5. FilesAccounted'
    BY <2>1, <2>4 DEF FilesAccounted
  <2> QED BY <2>2, <2>3, <2>5
<1>8. CASE Clean
  <2>1. /\ step = "clean" /\ UNCHANGED <<at, found, dest, taken, meddled, handle>> /\ Remove(name)
        /\ IF name = "launcher" THEN name' = "payload" /\ step' = "clean"
           ELSE name' = name /\ step' = "failed"
    BY <1>8 DEF Clean, vars, others
  <2>2. handle \in Dir /\ name \in Name
    BY <2>1 DEF InspectedFirst, ExtractTypes
  <2>3. /\ file' \in [Dir -> [Name -> Ours \cup {"other", None}]]
        /\ stuck' \subseteq Name
        /\ \A d \in Dir, m \in Name : <<d, m>> # <<handle, name>> => file'[d][m] = file[d][m]
        /\ file'[handle][name] \in Ours => name \in stuck'
        /\ stuck \subseteq stuck'
    BY <2>1, <2>2, RemoveStep
  <2>4. ExtractTypes'
    BY <2>1, <2>3 DEF ExtractTypes, Steps, Name
  <2>5. InspectedFirst'
    BY <2>1, <2>2 DEF InspectedFirst
  <2>6. Held = {name, "payload"} /\ Held' = Held \ {name}
    BY <2>1, <2>2 DEF Held, Name
  <2>7. FilesAccounted'
    BY <2>1, <2>2, <2>3, <2>6 DEF FilesAccounted, Name
  <2> QED BY <2>4, <2>5, <2>7
<1>9. ASSUME Meddle PROVE /\ UNCHANGED <<at, found, step, handle, name, stuck, Held, Unfilled>>
                          /\ step # "done" /\ step # "failed" /\ step' # "done"
                          /\ meddled' \in 0..MaxMeddled
  BY <1>9, DirAssumption DEF DirAssumption, Meddle, vars, Held, Unfilled, ExtractTypes
<1>10. ASSUME NEW d \in Dir \cup {None}, OthersMove(d) PROVE EInv'
  <2>1. Meddle /\ dest' = d /\ UNCHANGED <<file, taken>>
    BY <1>10 DEF OthersMove
  <2>2. ExtractTypes'
    BY <1>9, <2>1 DEF ExtractTypes
  <2>3. InspectedFirst'
    BY <1>9, <2>1 DEF InspectedFirst
  <2>4. FilesAccounted'
    BY <1>9, <2>1 DEF FilesAccounted
  <2> QED BY <2>2, <2>3, <2>4
<1>11. ASSUME NEW d \in Dir, NEW n \in Name, OthersCreate(d, n) PROVE EInv'
  <2>1. /\ Meddle /\ file[d][n] = None /\ file' = [file EXCEPT ![d][n] = "other"]
        /\ UNCHANGED <<dest, taken>>
    BY <1>11 DEF OthersCreate
  <2>2. /\ file' \in [Dir -> [Name -> Ours \cup {"other", None}]]
        /\ file'[d][n] = "other"
        /\ \A e \in Dir, m \in Name : <<e, m>> # <<d, n>> => file'[e][m] = file[e][m]
    BY <2>1 DEF ExtractTypes
  <2>3. ExtractTypes'
    BY <1>9, <2>1, <2>2 DEF ExtractTypes
  <2>4. InspectedFirst'
    BY <1>9, <2>1 DEF InspectedFirst
  <2>5. None \notin Ours /\ "other" \notin Ours
    BY DirAssumption DEF DirAssumption, Ours
  <2>6. FilesAccounted'
    <3>1. \A e \in Dir, m \in Name : file[e][m] \in Ours \/ file'[e][m] \in Ours => file'[e][m] = file[e][m]
      BY <2>1, <2>2, <2>5
    <3>2. Held \subseteq Name /\ (Held # {} => handle \in Dir)
      BY DEF Held, InspectedFirst, ExtractTypes, Name
    <3>3. \A e \in Dir, m \in Name : file'[e][m] \in Ours => e = handle' /\ m \in (Held \cup stuck)'
      BY <1>9, <2>1, <3>1 DEF FilesAccounted
    <3>4. \A m \in Held : file'[handle][m] \in Ours \/ <<handle, m>> \in taken
      BY <3>1, <3>2 DEF FilesAccounted
    <3>5. \A m \in Held \ Unfilled :
            step # "clean" => file'[handle][m] = "whole" \/ <<handle, m>> \in taken
      BY <3>1, <3>2 DEF FilesAccounted, Ours
    <3> QED BY <1>9, <2>1, <3>3, <3>4, <3>5 DEF FilesAccounted
  <2> QED BY <2>3, <2>4, <2>6
<1>12. ASSUME NEW d \in Dir, NEW n \in Name, OthersRemove(d, n) PROVE EInv'
  <2>1. /\ Meddle /\ file' = [file EXCEPT ![d][n] = None]
        /\ taken' = IF file[d][n] \in Ours THEN taken \cup {<<d, n>>} ELSE taken
        /\ UNCHANGED dest
    BY <1>12 DEF OthersRemove
  <2>2. /\ file' \in [Dir -> [Name -> Ours \cup {"other", None}]]
        /\ file'[d][n] = None
        /\ \A e \in Dir, m \in Name : <<e, m>> # <<d, n>> => file'[e][m] = file[e][m]
    BY <2>1 DEF ExtractTypes
  <2>3. ExtractTypes'
    BY <1>9, <2>1, <2>2 DEF ExtractTypes
  <2>4. InspectedFirst'
    BY <1>9, <2>1 DEF InspectedFirst
  <2>5. None \notin Ours
    BY DirAssumption DEF DirAssumption
  <2>6. FilesAccounted'
    <3>1. \A e \in Dir, m \in Name : file'[e][m] \in Ours => file'[e][m] = file[e][m]
      BY <2>2, <2>5
    <3>2. \A e \in Dir, m \in Name : file[e][m] \in Ours => file'[e][m] = file[e][m] \/ <<e, m>> \in taken'
      BY <2>1, <2>2
    <3>3. Held \subseteq Name /\ (Held # {} => handle \in Dir) /\ taken \subseteq taken'
      BY <2>1 DEF Held, InspectedFirst, ExtractTypes, Name
    <3>4. \A e \in Dir, m \in Name : file'[e][m] \in Ours => e = handle' /\ m \in (Held \cup stuck)'
      BY <1>9, <2>1, <3>1 DEF FilesAccounted
    <3>5. \A m \in Held : file'[handle][m] \in Ours \/ <<handle, m>> \in taken'
      BY <3>2, <3>3 DEF FilesAccounted
    <3>6. \A m \in Held \ Unfilled :
            step # "clean" => file'[handle][m] = "whole" \/ <<handle, m>> \in taken'
      BY <3>2, <3>3 DEF FilesAccounted, Ours
    <3> QED BY <1>9, <2>1, <3>4, <3>5, <3>6 DEF FilesAccounted
  <2> QED BY <2>3, <2>4, <2>6
<1> QED BY <1>1, <1>2, <1>3, <1>4, <1>5, <1>6, <1>7, <1>8, <1>10, <1>11, <1>12 DEF ExtractNext

LEMMA ExtractKeeps == EInv /\ [ExtractNext]_<<vars, extractVars>> => EInv'
<1>1. ASSUME EInv, UNCHANGED <<vars, extractVars>> PROVE EInv'
  BY <1>1 DEF EInv, ExtractTypes, InspectedFirst, FilesAccounted, Held, Unfilled, vars, extractVars
<1> QED BY <1>1, ExtractStep

\* What extract_archive has created, holds, gave up or could not remove is
\* accounted for at each of its steps, whatever others do in the directory.
THEOREM ExtractInvariant == ExtractSpec => []EInv
BY ExtractStarts, ExtractKeeps, PTL DEF ExtractSpec

\* extract_archive leaves nothing behind where it fails but what it could not
\* remove, and where it succeeds the path names the directory of all it found.
THEOREM ExtractedAsWhole == ExtractSpec => []AllOrNothing
<1>1. EInv => FailedLeavesNothing
  BY DEF EInv, FilesAccounted, FailedLeavesNothing, Held
<1>2. EInv => SucceedsInPlace
  <2> SUFFICES ASSUME EInv, step = "done"
               PROVE  /\ dest # None
                      /\ \A n \in found : file[dest][n] = "whole" \/ <<dest, n>> \in taken
                      /\ \A n \in Name \ found : file[dest][n] \notin Ours
    BY DEF SucceedsInPlace
  <2>1. dest = handle /\ handle \in Dir
    BY DEF EInv, InspectedFirst
  <2>2. Held = found /\ Unfilled = {} /\ stuck = {}
    BY DEF EInv, FilesAccounted, Held, Unfilled
  <2> QED BY <2>1, <2>2, DirAssumption DEF DirAssumption, EInv, FilesAccounted
<1> QED BY <1>1, <1>2, ExtractInvariant, PTL DEF AllOrNothing

\* create_new_file_at creates exclusively and the clean-up removes what was
\* created: another's file goes only where it took the place of one of ours.
THEOREM OthersAreKept == ExtractSpec => OthersKept
<1> DEFINE Kept == \A d \in Dir, n \in Name :
                      file[d][n] = "other" /\ file'[d][n] # "other" =>
                          meddled' # meddled \/ <<d, n>> \in taken
<1>1. ASSUME EInv, ExtractNext PROVE Kept
  <2> SUFFICES ASSUME NEW d \in Dir, NEW n \in Name, file[d][n] = "other", file'[d][n] # "other",
                      meddled' = meddled
               PROVE  <<d, n>> \in taken
    OBVIOUS
  <2>1. ~Meddle
    BY <1>1 DEF Meddle, EInv, ExtractTypes
  <2>2. file' # file
    OBVIOUS
  <2>3. Create \/ Fill \/ FillFails \/ Unlink \/ Undo \/ Clean
    BY <1>1, <2>1, <2>2 DEF ExtractNext, Inspect, Open, Identify, OthersMove, OthersCreate,
                            OthersRemove, extractVars
  <2>4. /\ handle \in Dir /\ name \in Name
        /\ file \in [Dir -> [Name -> Ours \cup {"other", None}]]
    BY <1>1, <2>3 DEF EInv, ExtractTypes, InspectedFirst, Create, Fill, FillFails, Unlink, Undo, Clean
  <2>5. ~Create
    BY <2>2, <2>4, DirAssumption DEF DirAssumption, Create
  <2>6. ~Fill /\ ~FillFails
    BY <2>4 DEF Fill, FillFails, Filled
  <2>7. PICK m \in Name : Remove(m) /\ m \in Held
    BY <2>3, <2>4, <2>5, <2>6 DEF Unlink, Undo, Clean, Held, Name
  <2>8. d = handle /\ n = m
    BY <1>1, <2>4, <2>7, RemoveStep
  <2> QED BY <1>1, <2>7, <2>8 DEF EInv, FilesAccounted, Ours
<1>2. EInv /\ [ExtractNext]_<<vars, extractVars>> => [Kept]_<<vars, extractVars>>
  BY <1>1
<1> QED BY <1>2, ExtractInvariant, PTL DEF ExtractSpec, OthersKept

\* The totals of inspect_tar and inspect_zip never pass their limits, and the
\* variables of extract_archive keep their types.
THEOREM ExtractTypeCorrect == ExtractSpec => []ExtractTypeOK
<1>1. ExtractInit => ScanInv
  BY ScanStarts DEF ExtractInit
<1>2. ScanInv /\ [ExtractNext]_<<vars, extractVars>> => ScanInv'
  BY ExtractInspects, ScanKeeps
<1>3. ExtractSpec => []ScanInv
  BY <1>1, <1>2, PTL DEF ExtractSpec
<1>4. ScanInv /\ EInv => ExtractTypeOK
  BY DEF ScanInv, EInv, ExtractTypes, ExtractTypeOK, Steps
<1> QED BY <1>3, <1>4, ExtractInvariant, PTL

=============================================================================
