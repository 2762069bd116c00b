------------------------------ MODULE Transfer ------------------------------
(***************************************************************************)
(* Bytes are read to a ceiling in four places: a response body with and    *)
(* without an observer (src/src/release/download.rs), any stream           *)
(* (read_limited, src/src/release/mod.rs) and a file of the installation   *)
(* (read_regular_limited, src/src/install/mod.rs), which another process   *)
(* may be writing.  Lengths stand for the bytes.                           *)
(***************************************************************************)
EXTENDS Integers

CONSTANTS
    MaxWord,    \* the largest usize
    MaxBody,    \* bound: the longest body
    MaxChunk,   \* what one read returns at most
    Unknown     \* no Content-Length, or nothing yet

ASSUME WordAssumption == MaxWord \in Nat /\ MaxBody \in Nat /\ MaxChunk \in Nat \ {0}
ASSUME UnknownAssumption == Unknown \notin Nat

Bodies == {"observed", "unobserved"}
Reader == Bodies \cup {"stream", "regular"}

VARIABLES
    reader,     \* which of them reads
    ceiling,    \* max_bytes or limit
    declared,   \* the Content-Length, true or not
    arriving,   \* the length of what is read
    reading,    \* where it is
    received,   \* how much it has
    reserved,   \* Vec::with_capacity
    advance     \* the observer's last call, or Unknown

transferVars == <<reader, ceiling, declared, arriving, reading, received, reserved, advance>>

\* A bug: no byte past the ceiling is asked for.
TightLimit == ceiling

\* progress_read_limit, and the take of read_regular_limited; read_limited
\* asks for all there is.
ReadLimit == ceiling + 1

TransferTypeOK ==
    /\ reader \in Reader
    /\ ceiling \in 0..MaxWord
    /\ declared \in 0..MaxWord \cup {Unknown}
    /\ arriving \in 0..MaxBody
    /\ reading \in {"begin", "read", "ok", "refused", "failed"}
    /\ received \in 0..MaxBody
    /\ reserved \in 0..MaxWord
    /\ advance \in 0..MaxBody \cup {Unknown}
    /\ reading = "read" /\ reader \in Bodies => ReadLimit \in 0..MaxWord

\* The ceilings read_regular_limited is given are small constants.
TransferInit ==
    /\ reader \in Reader
    /\ ceiling \in 0..MaxWord
    /\ reader = "regular" => ceiling < MaxWord
    /\ declared \in 0..MaxWord \cup {Unknown}
    /\ reader # "observed" => declared = Unknown
    /\ arriving \in 0..MaxBody
    /\ reading = "begin"
    /\ received = 0
    /\ reserved = 0
    /\ advance = Unknown

-----------------------------------------------------------------------------
\* checked_add
Overflow == ReadLimit > MaxWord

Lesser(a, b) == IF a < b THEN a ELSE b

\* Trust the declared length only as far as the ceiling.
Capacity == Lesser(IF declared = Unknown THEN MaxChunk ELSE declared, ceiling)

TransferBegin ==
    /\ reading = "begin"
    /\ CASE reader \in Bodies /\ Overflow ->
                reading' = "refused" /\ UNCHANGED <<reserved, advance>>
         [] reader = "regular" /\ arriving > ceiling ->
                reading' = "refused" /\ UNCHANGED <<reserved, advance>>
         [] OTHER ->
                /\ reading' = "read"
                /\ reserved' = CASE reader = "observed" -> Capacity
                                 [] reader = "regular"  -> Lesser(arriving, ceiling)
                                 [] OTHER               -> 0
                /\ advance' = IF reader = "observed" THEN 0 ELSE Unknown
    /\ UNCHANGED <<reader, ceiling, declared, arriving, received>>

\* What the observer hears when n more have come.
Heard(n) == received + n

\* One read.
TransferChunk ==
    /\ reading = "read"
    /\ received < arriving
    /\ reader # "stream" => received < ReadLimit
    /\ \E n \in 1..MaxChunk :
         /\ received + n <= arriving
         /\ reader # "stream" => received + n <= ReadLimit
         /\ received' = received + n
         /\ reading' = IF reader = "stream" /\ received + n > ceiling THEN "refused" ELSE "read"
         /\ advance' = IF reader = "observed" THEN Heard(n) ELSE Unknown
    /\ UNCHANGED <<reader, ceiling, declared, arriving, reserved>>

\* The end of the body, or of what is asked for: ureq's limited reader reports
\* the latter as an error, were it at the end of the body or not.
TransferEnd ==
    /\ reading = "read"
    /\ \/ received = arriving
       \/ reader # "stream" /\ received = ReadLimit
    /\ \/ reading' = IF received > ceiling THEN "refused" ELSE "ok"
       \/ /\ reader \in Bodies /\ received = ReadLimit
          /\ reading' = "refused"
    /\ UNCHANGED <<reader, ceiling, declared, arriving, received, reserved, advance>>

\* Any read may fail.
TransferFails ==
    /\ reading = "read"
    /\ reading' = "failed"
    /\ UNCHANGED <<reader, ceiling, declared, arriving, received, reserved, advance>>

\* A file is written to meanwhile.
FileGrows ==
    /\ reader = "regular" /\ reading \in {"begin", "read"}
    /\ arriving < MaxBody
    /\ arriving' = arriving + 1
    /\ UNCHANGED <<reader, ceiling, declared, reading, received, reserved, advance>>

TransferNext == TransferBegin \/ TransferChunk \/ TransferEnd \/ TransferFails \/ FileGrows

TransferSpec == TransferInit /\ [][TransferNext]_transferVars

-----------------------------------------------------------------------------
\* A body is taken whole or refused: one as long as the ceiling is taken, one
\* byte more is refused and not cut (the comment before
\* read_response_body_observed), also when the file grows between the look at
\* its length and the last read, and only a ceiling without a byte above it
\* refuses what is below it.
WholeOrRefused ==
    /\ reading = "ok" => received = arriving /\ received <= ceiling
    /\ reading = "refused" => arriving > ceiling \/ ceiling = MaxWord

\* No more is held than one byte over the ceiling (a stream: one read), and no
\* more than the ceiling is set aside, whatever the header says.
NotPreallocated ==
    /\ reserved <= ceiling
    /\ received <= ceiling + (IF reader = "stream" THEN MaxChunk ELSE 1)

\* The observer has heard of what is received, all of it and nothing else: from
\* nothing on, in order, and of the whole when the body is taken.
HeardExactly ==
    reader = "observed" /\ advance # Unknown => advance = received

\* A body and the observer's account of it end where the ceiling says
\* (read_response_body_observed).
TakenToCeiling == WholeOrRefused /\ NotPreallocated /\ HeardExactly

=============================================================================
