--------------------------- MODULE SelfTestProofs ---------------------------
(***************************************************************************)
(* What the probe of a staged payload promises for every limit, chunk,     *)
(* channel, pipe, amount of output and timeout.                            *)
(***************************************************************************)
EXTENDS SelfTest, SumsProofs, Integers, TLAPS

-----------------------------------------------------------------------------
(* The inductive invariant.                                                *)

\* The messages by which readers end, in the channel.
Ending(m) == IF m.kind = "done" THEN 1 ELSE 0
Endings == SumSeq([i \in DOMAIN chan |-> Ending(chan[i])])
Ended(s) == IF reader[s].at = "ended" THEN 1 ELSE 0

\* What a reader has taken out of its pipe and not yet sent.
Held(s) == IF reader[s].at \in {"swap", "send"} THEN reader[s].size ELSE 0

\* A reader has met the limit, and the caller has still to hear of it.
Limited ==
    \/ \E s \in Stream : reader[s].at = "limit"
    \/ \E i \in DOMAIN chan : chan[i].kind = "limit"

\* Before the payload is spawned nothing has happened; its exit is final.
ProcessOK ==
    /\ main = "spawn" =>
         /\ holders = {} /\ exit = "none" /\ status = "none"
         /\ chan = <<>> /\ \A s \in Stream : reader[s].at = "new"
    /\ exit # "none" => "child" \notin holders
    /\ status # "none" => status = exit
    /\ main = "judge" => Complete
    /\ \A s \in Stream : printed[s] <= wrote[s]
    /\ main # "returned" => verdict = "none"

ReadersOK == \A s \in Stream :
    /\ reader[s].at \in {"swap", "send"} => reader[s].size # 0
    /\ reader[s].at = "swap" => reader[s].seen <= spent

\* Every byte written is in the pipe, with the reader, in the channel or with
\* the caller, unless the limit was met.
Conserved == \A s \in Stream :
    /\ output[s] + Queued(s) + Held(s) + piped[s] <= wrote[s]
    /\ ~Limited => output[s] + Queued(s) + Held(s) + piped[s] = wrote[s]

\* Every reader ends with a message that says so, and the last message of all
\* is one of these; a failed read is told.
EndsTold ==
    /\ done + Endings = Ended("stdout") + Ended("stderr")
    /\ (\A s \in Stream : reader[s].at = "ended") /\ chan # <<>>
         => chan[Len(chan)].kind = "done"
    /\ \A s \in Stream : reader[s].at = "ended" /\ ~reader[s].ok
         => \E i \in DOMAIN chan : chan[i].kind = "done" /\ ~chan[i].ok

\* A reader that ended at the end of file has left nothing behind.
Drained == ~Limited => \A s \in Stream :
    reader[s].at \in {"done", "ended"} /\ reader[s].ok => holders = {} /\ piped[s] = 0

\* While somebody receives.
Live ==
    /\ BudgetExact
    /\ Conserved
    /\ Limited => Total(wrote) > Limit
    /\ EndsTold
    /\ Drained

SInv ==
    /\ TypeOK
    /\ ProcessOK
    /\ ReadersOK
    /\ main # "returned" => Live
    /\ OutputComplete
    /\ VerdictRight

(***************************************************************************)
(* What is in the channel.                                                 *)
(***************************************************************************)

Charges(c, s) == [i \in DOMAIN c |-> Charge(c[i], s)]
EndMarks(c) == [i \in DOMAIN c |-> Ending(c[i])]

LEMMA WeightTypes ==
    ASSUME SizeAssumption, NEW c \in Seq(Message), NEW s \in Stream
    PROVE  Charges(c, s) \in Seq(Nat) /\ EndMarks(c) \in Seq(Nat)
<1>1. Chunk \in Nat
  BY DEF SizeAssumption
<1>2. \A m \in Message : Charge(m, s) \in Nat
  BY <1>1 DEF Message, Charge
<1>3. \A m \in Message : Ending(m) \in Nat
  BY DEF Ending
<1>4. DOMAIN c = 1..Len(c) /\ Len(c) \in Nat /\ \A i \in DOMAIN c : c[i] \in Message
  OBVIOUS
<1>5. Charges(c, s) \in [1..Len(c) -> Nat] /\ EndMarks(c) \in [1..Len(c) -> Nat]
  BY <1>2, <1>3, <1>4 DEF Charges, EndMarks
<1>6. ASSUME NEW n \in Nat, NEW f \in [1..n -> Nat] PROVE f \in Seq(Nat)
  OBVIOUS
<1>7. Len(c) \in Nat
  BY <1>4
<1> QED BY <1>5, <1>6, <1>7

LEMMA WeightAppend ==
    ASSUME NEW c \in Seq(Message), NEW m \in Message, NEW s \in Stream
    PROVE  /\ Charges(Append(c, m), s) = Append(Charges(c, s), Charge(m, s))
           /\ EndMarks(Append(c, m)) = Append(EndMarks(c), Ending(m))
BY DEF Charges, EndMarks

LEMMA WeightTail ==
    ASSUME NEW c \in Seq(Message), c # <<>>, NEW s \in Stream
    PROVE  /\ Charges(Tail(c), s) = Tail(Charges(c, s))
           /\ EndMarks(Tail(c)) = Tail(EndMarks(c))
           /\ Head(Charges(c, s)) = Charge(Head(c), s)
           /\ Head(EndMarks(c)) = Ending(Head(c))
           /\ Charges(c, s) # <<>> /\ EndMarks(c) # <<>>
BY DEF Charges, EndMarks

LEMMA ChanTypes ==
    ASSUME TypeOK
    PROVE  /\ \A s \in Stream : Queued(s) \in Nat
           /\ Endings \in Nat
BY SizeAssumption, WeightTypes, SumNat
   DEF TypeOK, Queued, Endings, Charges, EndMarks, Stream

LEMMA ChanEmpty ==
    ASSUME chan = <<>>
    PROVE  (\A s \in Stream : Queued(s) = 0) /\ Endings = 0
<1>1. \A s \in Stream : [i \in DOMAIN chan |-> Charge(chan[i], s)] = <<>>
  OBVIOUS
<1>2. [i \in DOMAIN chan |-> Ending(chan[i])] = <<>>
  OBVIOUS
<1> QED BY <1>1, <1>2, SumEmpty DEF Queued, Endings

LEMMA ChanSame ==
    ASSUME UNCHANGED chan
    PROVE  (\A s \in Stream : Queued(s)' = Queued(s)) /\ Endings' = Endings
BY DEF Queued, Endings, Charge, Ending

\* A message sent, and one received.
LEMMA ChanAppend ==
    ASSUME TypeOK, NEW m \in Message, chan' = Append(chan, m)
    PROVE  /\ \A s \in Stream : Queued(s)' = Queued(s) + Charge(m, s)
           /\ Endings' = Endings + Ending(m)
<1>1. chan \in Seq(Message)
  BY DEF TypeOK
<1>2. ASSUME NEW s \in Stream
      PROVE  Queued(s)' = Queued(s) + Charge(m, s) /\ Endings' = Endings + Ending(m)
  <2>1. Charges(chan, s) \in Seq(Nat) /\ EndMarks(chan) \in Seq(Nat)
    BY <1>1, SizeAssumption, WeightTypes
  <2>2. Charge(m, s) \in Nat /\ Ending(m) \in Nat
    BY SizeAssumption DEF SizeAssumption, Charge, Ending, Message
  <2>3. /\ Charges(Append(chan, m), s) = Append(Charges(chan, s), Charge(m, s))
        /\ EndMarks(Append(chan, m)) = Append(EndMarks(chan), Ending(m))
    BY <1>1, WeightAppend
  <2>4. /\ Queued(s) = SumSeq(Charges(chan, s)) /\ Endings = SumSeq(EndMarks(chan))
        /\ Queued(s)' = SumSeq(Charges(chan', s)) /\ Endings' = SumSeq(EndMarks(chan'))
    BY DEF Queued, Endings, Charges, EndMarks
  <2> QED BY <2>1, <2>2, <2>3, <2>4, SumAppend
<1> QED BY <1>2 DEF Stream

LEMMA ChanTail ==
    ASSUME TypeOK, chan # <<>>, chan' = Tail(chan)
    PROVE  /\ Head(chan) \in Message
           /\ \A s \in Stream : Queued(s) = Charge(Head(chan), s) + Queued(s)'
           /\ Endings = Ending(Head(chan)) + Endings'
<1>1. chan \in Seq(Message) /\ Head(chan) \in Message
  BY DEF TypeOK
<1>2. ASSUME NEW s \in Stream
      PROVE  /\ Queued(s) = Charge(Head(chan), s) + Queued(s)'
             /\ Endings = Ending(Head(chan)) + Endings'
  <2>1. Charges(chan, s) \in Seq(Nat) /\ EndMarks(chan) \in Seq(Nat)
    BY <1>1, SizeAssumption, WeightTypes
  <2>2. /\ Charges(Tail(chan), s) = Tail(Charges(chan, s))
        /\ EndMarks(Tail(chan)) = Tail(EndMarks(chan))
        /\ Head(Charges(chan, s)) = Charge(Head(chan), s)
        /\ Head(EndMarks(chan)) = Ending(Head(chan))
        /\ Charges(chan, s) # <<>> /\ EndMarks(chan) # <<>>
    BY <1>1, WeightTail
  <2>3. /\ Queued(s) = SumSeq(Charges(chan, s)) /\ Endings = SumSeq(EndMarks(chan))
        /\ Queued(s)' = SumSeq(Charges(chan', s)) /\ Endings' = SumSeq(EndMarks(chan'))
    BY DEF Queued, Endings, Charges, EndMarks
  <2> QED BY <2>1, <2>2, <2>3, SumTail
<1> QED BY <1>1, <1>2 DEF Stream

\* No reader has ended whose message is not received, once the last message
\* in the channel has been.
LEMMA NoEndings ==
    ASSUME TypeOK, Endings = 0, chan # <<>>
    PROVE  chan[Len(chan)].kind # "done"
<1>1. chan \in Seq(Message)
  BY DEF TypeOK
<1>2. EndMarks(chan) \in Seq(Nat)
  BY <1>1, SizeAssumption, WeightTypes DEF Stream
<1>3. EndMarks(chan) # <<>> /\ Len(EndMarks(chan)) = Len(chan)
      /\ EndMarks(chan)[Len(chan)] = Ending(chan[Len(chan)])
  BY <1>1 DEF EndMarks
<1>4. Endings = SumSeq(EndMarks(chan))
  BY DEF Endings, EndMarks
<1>5. EndMarks(chan)[Len(chan)] <= 0
  BY <1>2, <1>3, <1>4, SumLast
<1> QED BY <1>3, <1>5 DEF Ending

(***************************************************************************)
(* Types.                                                                  *)
(***************************************************************************)

PayloadTypes ==
    /\ now \in 0..Timeout
    /\ holders \subseteq {"child", "descendant"}
    /\ escaped \in BOOLEAN
    /\ exit \in {"none", "success", "failure"}
    /\ reaped \in BOOLEAN
    /\ wrote \in [Stream -> 0..MaxOutput]
    /\ printed \in [Stream -> 0..MaxOutput]
    /\ piped \in [Stream -> 0..PipeSize]

Places == {"new", "read", "swap", "send", "limit", "done", "ended"}
Readers == [Stream -> [at : Places, size : 0..Chunk, seen : 0..Limit, ok : BOOLEAN]]

ReaderTypes == reader \in Readers /\ spent \in 0..Limit

ChanTyped == chan \in Seq(Message) /\ Len(chan) <= Slots

CallerTypes ==
    /\ output \in [Stream -> 0..MaxOutput]
    /\ main \in {"spawn", "poll", "clock", "receive", "judge", "returned"}
    /\ status \in {"none", "success", "failure"}
    /\ done \in 0..2
    /\ verdict \in Verdict \cup {"none"}

Types == PayloadTypes /\ ReaderTypes /\ ChanTyped /\ CallerTypes

LEMMA TypeParts == TypeOK <=> Types
BY DEF TypeOK, Types, PayloadTypes, ReaderTypes, Places, Readers, ChanTyped, CallerTypes

Sizes == /\ Limit \in Nat /\ MaxOutput \in Nat /\ Timeout \in Nat
         /\ Chunk \in Nat \ {0} /\ Slots \in Nat \ {0} /\ PipeSize \in Nat \ {0}
         /\ RetryDelay \in Nat \ {0}

LEMMA SizeTypes == Sizes
BY SizeAssumption DEF Sizes, SizeAssumption

\* A reader is where l says, with these numbers; the other is left alone.
Becomes(s, l, n, k, o) ==
    /\ reader' \in Readers
    /\ reader'[s].at = l /\ reader'[s].size = n /\ reader'[s].seen = k /\ reader'[s].ok = o
    /\ \A t \in Stream : t # s => reader'[t] = reader[t]

LEMMA ReaderFields ==
    ASSUME ReaderTypes, NEW s \in Stream
    PROVE  /\ reader[s].at \in Places /\ reader[s].size \in 0..Chunk
           /\ reader[s].seen \in 0..Limit /\ reader[s].ok \in BOOLEAN
           /\ 0 \in 0..Chunk /\ 0 \in 0..Limit
BY SizeTypes DEF Sizes, ReaderTypes, Readers

\* The ways in which a reader's record is updated.
LEMMA Moves ==
    ASSUME ReaderTypes, NEW s \in Stream, NEW l \in Places, NEW n \in 0..Chunk, NEW k \in 0..Limit
    PROVE
           /\ reader' = [reader EXCEPT ![s].at = l]
                => Becomes(s, l, reader[s].size, reader[s].seen, reader[s].ok)
           /\ reader' = [reader EXCEPT ![s].at = l, ![s].size = n, ![s].seen = k]
                => Becomes(s, l, n, k, reader[s].ok)
           /\ reader' = [reader EXCEPT ![s].at = l, ![s].seen = k]
                => Becomes(s, l, reader[s].size, k, reader[s].ok)
           /\ reader' = [reader EXCEPT ![s].seen = k]
                => Becomes(s, reader[s].at, reader[s].size, k, reader[s].ok)
           /\ reader' = [reader EXCEPT ![s].at = l, ![s].ok = FALSE]
                => Becomes(s, l, reader[s].size, reader[s].seen, FALSE)
<1> DEFINE B == 0..Chunk
           C == 0..Limit
<1>0. /\ Readers = [Stream -> [at : Places, size : B, seen : C, ok : BOOLEAN]]
      /\ n \in B /\ k \in C /\ reader \in Readers
  BY DEF ReaderTypes, Readers
<1> HIDE DEF B, C
<1>1. ASSUME reader' = [reader EXCEPT ![s].at = l]
      PROVE  Becomes(s, l, reader[s].size, reader[s].seen, reader[s].ok)
  BY <1>0, <1>1 DEF Becomes
<1>2. ASSUME reader' = [reader EXCEPT ![s].at = l, ![s].size = n, ![s].seen = k]
      PROVE  Becomes(s, l, n, k, reader[s].ok)
  BY <1>0, <1>2 DEF Becomes
<1>3. ASSUME reader' = [reader EXCEPT ![s].at = l, ![s].seen = k]
      PROVE  Becomes(s, l, reader[s].size, k, reader[s].ok)
  BY <1>0, <1>3 DEF Becomes
<1>4. ASSUME reader' = [reader EXCEPT ![s].seen = k]
      PROVE  Becomes(s, reader[s].at, reader[s].size, k, reader[s].ok)
  BY <1>0, <1>4 DEF Becomes
<1>5. ASSUME reader' = [reader EXCEPT ![s].at = l, ![s].ok = FALSE]
      PROVE  Becomes(s, l, reader[s].size, reader[s].seen, FALSE)
  BY <1>0, <1>5 DEF Becomes
<1> QED BY <1>1, <1>2, <1>3, <1>4, <1>5

\* What each step of a reader does to it, to the budget and to the channel.
ReaderStep(s) ==
    \/ \E n \in 1..Chunk :
         /\ reader[s].at = "read" /\ n <= piped[s]
         /\ piped' = [piped EXCEPT ![s] = @ - n]
         /\ Becomes(s, "swap", n, spent, reader[s].ok)
         /\ UNCHANGED <<spent, chan>>
    \/ /\ reader[s].at = "read" /\ piped[s] = 0 /\ holders = {}
       /\ Becomes(s, "done", reader[s].size, reader[s].seen, reader[s].ok)
       /\ UNCHANGED <<piped, spent, chan>>
    \/ /\ reader[s].at = "read"
       /\ Becomes(s, "done", reader[s].size, reader[s].seen, FALSE)
       /\ UNCHANGED <<piped, spent, chan>>
    \/ /\ reader[s].at = "swap" /\ reader[s].seen + reader[s].size > Limit
       /\ Becomes(s, "limit", 0, 0, reader[s].ok)
       /\ UNCHANGED <<piped, spent, chan>>
    \/ /\ reader[s].at = "swap" /\ spent + reader[s].size <= Limit
       /\ spent' = spent + reader[s].size
       /\ Becomes(s, "send", reader[s].size, 0, reader[s].ok)
       /\ UNCHANGED <<piped, chan>>
    \/ /\ reader[s].at = "swap"
       /\ Becomes(s, "swap", reader[s].size, spent, reader[s].ok)
       /\ UNCHANGED <<piped, spent, chan>>
    \/ \E m \in Message, l \in {"read", "done", "ended"} :
         /\ Receiving /\ Len(chan) < Slots
         /\ chan' = Append(chan, m)
         /\ \/ /\ reader[s].at = "send" /\ l = "read"
               /\ m.kind = "data" /\ m.stream = s /\ m.size = reader[s].size
            \/ reader[s].at = "limit" /\ m.kind = "limit" /\ l = "done"
            \/ reader[s].at = "done" /\ m.kind = "done" /\ m.ok = reader[s].ok /\ l = "ended"
         /\ Becomes(s, l, 0, 0, reader[s].ok)
         /\ UNCHANGED <<piped, spent>>
    \/ /\ ~Receiving /\ reader[s].at \in {"send", "limit", "done"}
       /\ Becomes(s, "ended", 0, 0, reader[s].ok)
       /\ UNCHANGED <<piped, spent, chan>>

Others == <<now, holders, escaped, exit, reaped, wrote, printed, caller>>

LEMMA ReaderSteps ==
    ASSUME PayloadTypes, ReaderTypes, ReadersOK, NEW s \in Stream, Reading(s) \/ ReadError(s)
    PROVE  ReaderStep(s) /\ UNCHANGED Others
<1>0. /\ reader[s].at \in Places /\ reader[s].size \in 0..Chunk
      /\ reader[s].seen \in 0..Limit /\ reader[s].ok \in BOOLEAN
      /\ 0 \in 0..Chunk /\ 0 \in 0..Limit /\ spent \in 0..Limit
      /\ Places = {"new", "read", "swap", "send", "limit", "done", "ended"}
  BY ReaderFields DEF ReaderTypes, Places
<1>1. UNCHANGED Others
  BY DEF Reading, ReadChunk, ReadEof, ReadError, Reserve, SendData, SendLimit, SendDone, Send,
         Others, payload, caller
<1>2. CASE ReadChunk(s)
  <2>1. PICK n \in 1..Chunk :
          /\ n <= piped[s]
          /\ piped' = [piped EXCEPT ![s] = @ - n]
          /\ reader' = [reader EXCEPT ![s].at = "swap", ![s].size = n, ![s].seen = spent]
    BY <1>2 DEF ReadChunk
  <2>2. n \in 0..Chunk /\ "swap" \in Places
    BY <1>0, SizeTypes DEF Sizes
  <2>3. Becomes(s, "swap", n, spent, reader[s].ok)
    BY <1>0, <2>1, <2>2, Moves
  <2> QED BY <1>1, <1>2, <2>1, <2>3 DEF ReadChunk, ReaderStep
<1>3. CASE ReadEof(s)
  <2>1. Becomes(s, "done", reader[s].size, reader[s].seen, reader[s].ok)
    BY <1>0, <1>3, Moves, Zenon DEF ReadEof, At
  <2> QED BY <1>1, <1>3, <2>1 DEF ReadEof, ReaderStep, payload
<1>4. CASE ReadError(s)
  <2>1. Becomes(s, "done", reader[s].size, reader[s].seen, FALSE)
    BY <1>0, <1>4, Moves, Zenon DEF ReadError
  <2> QED BY <1>1, <1>4, <2>1 DEF ReadError, ReaderStep, payload
<1>5. CASE Reserve(s)
  <2>0. UNCHANGED <<piped, chan>>
    BY <1>5 DEF Reserve, payload
  <2>1. CASE reader[s].seen + reader[s].size > Limit
    <3>1. Becomes(s, "limit", 0, 0, reader[s].ok)
      BY <1>0, <1>5, <2>1, Moves, Zenon DEF Reserve, Forget
    <3>2. reader[s].at = "swap" /\ UNCHANGED spent
      BY <1>5, <2>1 DEF Reserve
    <3>3. ReaderStep(s)
      BY <2>0, <2>1, <3>1, <3>2 DEF ReaderStep
    <3> QED BY <1>1, <3>3
  <2>2. CASE ~(reader[s].seen + reader[s].size > Limit) /\ spent = reader[s].seen
    <3>1. Becomes(s, "send", reader[s].size, 0, reader[s].ok)
      BY <1>0, <1>5, <2>2, Moves, Zenon DEF Reserve, Forget
    <3>2. spent + reader[s].size <= Limit
      BY <1>0, <2>2, SizeTypes DEF Sizes
    <3>3. reader[s].at = "swap" /\ spent' = spent + reader[s].size
      BY <1>5, <2>2 DEF Reserve
    <3>4. ReaderStep(s)
      BY <2>0, <3>1, <3>2, <3>3 DEF ReaderStep
    <3> QED BY <1>1, <3>4
  <2>3. CASE ~(reader[s].seen + reader[s].size > Limit) /\ spent # reader[s].seen
    <3>1. Becomes(s, reader[s].at, reader[s].size, spent, reader[s].ok)
      BY <1>0, <1>5, <2>3, Moves, Zenon DEF Reserve, Forget
    <3>2. Becomes(s, "swap", reader[s].size, spent, reader[s].ok)
      BY <1>5, <3>1 DEF Reserve
    <3>3. reader[s].at = "swap" /\ UNCHANGED spent
      BY <1>5, <2>3 DEF Reserve
    <3>4. ReaderStep(s)
      BY <2>0, <3>2, <3>3 DEF ReaderStep
    <3> QED BY <1>1, <3>4
  <2> QED BY <2>1, <2>2, <2>3
<1>6. ASSUME NEW m \in Message, NEW l \in {"read", "done", "ended"}, Send(s, m, l),
             \/ /\ reader[s].at = "send" /\ l = "read"
                /\ m.kind = "data" /\ m.stream = s /\ m.size = reader[s].size
             \/ reader[s].at = "limit" /\ m.kind = "limit" /\ l = "done"
             \/ reader[s].at = "done" /\ m.kind = "done" /\ m.ok = reader[s].ok /\ l = "ended"
      PROVE  ReaderStep(s)
  <2>1. UNCHANGED <<piped, spent>>
    BY <1>6 DEF Send, payload
  <2>2. CASE Receiving
    <3>1. Becomes(s, l, 0, 0, reader[s].ok)
      BY <1>0, <1>6, <2>2, Moves, Zenon DEF Send, Forget
    <3>2. Len(chan) < Slots /\ chan' = Append(chan, m)
      BY <1>6, <2>2 DEF Send
    <3> QED BY <1>6, <2>1, <2>2, <3>1, <3>2 DEF ReaderStep
  <2>3. CASE ~Receiving
    <3>1. Becomes(s, "ended", 0, 0, reader[s].ok)
      BY <1>0, <1>6, <2>3, Moves, Zenon DEF Send, Forget
    <3>2. UNCHANGED chan
      BY <1>6, <2>3 DEF Send
    <3> QED BY <1>6, <2>1, <2>3, <3>1, <3>2 DEF ReaderStep
  <2> QED BY <2>2, <2>3
<1>7. CASE SendData(s)
  <2> DEFINE m == [kind |-> "data", stream |-> s, size |-> reader[s].size]
  <2>1. reader[s].at = "send" /\ reader[s].size \in 1..Chunk
    BY <1>0, <1>7, SizeTypes DEF SendData, ReadersOK, Sizes
  <2>2. m \in Message /\ m.kind = "data" /\ m.stream = s /\ m.size = reader[s].size
    BY <2>1 DEF Message
  <2>3. Send(s, m, "read")
    BY <1>7 DEF SendData
  <2> HIDE DEF m
  <2> QED BY <1>1, <1>6, <2>1, <2>2, <2>3
<1>8. CASE SendLimit(s)
  <2> DEFINE m == [kind |-> "limit"]
  <2>1. m \in Message /\ m.kind = "limit"
    BY DEF Message
  <2>2. reader[s].at = "limit" /\ Send(s, m, "done")
    BY <1>8 DEF SendLimit
  <2> HIDE DEF m
  <2> QED BY <1>1, <1>6, <2>1, <2>2
<1>9. CASE SendDone(s)
  <2> DEFINE m == [kind |-> "done", ok |-> reader[s].ok]
  <2>1. m \in Message /\ m.kind = "done" /\ m.ok = reader[s].ok
    BY <1>0 DEF Message
  <2>2. reader[s].at = "done" /\ Send(s, m, "ended")
    BY <1>9 DEF SendDone
  <2> HIDE DEF m
  <2> QED BY <1>1, <1>6, <2>1, <2>2
<1> QED BY <1>1, <1>2, <1>3, <1>4, <1>5, <1>7, <1>8, <1>9 DEF Reading

LEMMA ReaderTypeStep ==
    ASSUME Types, NEW s \in Stream, ReaderStep(s), UNCHANGED Others
    PROVE  Types'
<1>1. CallerTypes'
  BY DEF Types, CallerTypes, Others, caller
<1>2. reader' \in Readers
  BY DEF ReaderStep, Becomes
<1>3. spent' \in 0..Limit
  <2>1. reader[s].size \in 0..Chunk /\ spent \in 0..Limit
    BY ReaderFields DEF Types, ReaderTypes
  <2>2. spent' = spent \/ (spent' = spent + reader[s].size /\ spent + reader[s].size <= Limit)
    BY DEF ReaderStep
  <2> QED BY <2>1, <2>2, SizeTypes DEF Sizes
<1>4. PayloadTypes'
  <2>1. piped' \in [Stream -> 0..PipeSize]
    <3>1. UNCHANGED piped \/ \E n \in 1..Chunk : n <= piped[s] /\ piped' = [piped EXCEPT ![s] = @ - n]
      BY DEF ReaderStep
    <3>2. ASSUME NEW n \in 1..Chunk, n <= piped[s], piped' = [piped EXCEPT ![s] = @ - n]
          PROVE  piped' \in [Stream -> 0..PipeSize]
      <4>1. piped[s] - n \in 0..PipeSize
        BY <3>2, SizeTypes DEF Types, PayloadTypes, Sizes
      <4> QED BY <3>2, <4>1 DEF Types, PayloadTypes
    <3> QED BY <3>1, <3>2 DEF Types, PayloadTypes
  <2> QED BY <2>1 DEF Types, PayloadTypes, Others
<1>5. ChanTyped'
  <2>1. UNCHANGED chan \/ \E m \in Message : Len(chan) < Slots /\ chan' = Append(chan, m)
    BY DEF ReaderStep
  <2>2. ASSUME NEW m \in Message, Len(chan) < Slots, chan' = Append(chan, m) PROVE ChanTyped'
    BY <2>2, SizeTypes DEF Types, ChanTyped, Sizes
  <2> QED BY <2>1, <2>2 DEF Types, ChanTyped
<1> QED BY <1>1, <1>2, <1>3, <1>4, <1>5 DEF Types, ReaderTypes

LEMMA PayloadTypeStep ==
    ASSUME Types, Payload \/ Tick \/ Reap
    PROVE  Types'
<1>1. ReaderTypes' /\ ChanTyped' /\ CallerTypes'
  <2>1. UNCHANGED <<reader, spent, chan, caller>>
    BY DEF Payload, Tick, Reap, Write, Fork, Escape, ChildExit, DescendantExit, payload
  <2> QED BY <2>1 DEF caller, Types, ReaderTypes, ChanTyped, CallerTypes
<1>2. PayloadTypes'
  <2>1. CASE \E s \in Stream : Write(s)
    <3>1. PICK s \in Stream : Write(s)
      BY <2>1
    <3>2. PICK n \in 1..PipeSize :
            /\ piped[s] + n <= PipeSize
            /\ wrote[s] + n <= MaxOutput
            /\ wrote' = [wrote EXCEPT ![s] = @ + n]
            /\ piped' = [piped EXCEPT ![s] = @ + n]
            /\ UNCHANGED printed \/ printed' = [printed EXCEPT ![s] = wrote[s] + n]
      BY <3>1 DEF Write
    <3>3. /\ wrote[s] + n \in 0..MaxOutput
          /\ piped[s] + n \in 0..PipeSize
      BY <3>2, SizeTypes DEF Types, PayloadTypes, Sizes
    <3>4. wrote' \in [Stream -> 0..MaxOutput]
      BY <3>2, <3>3 DEF Types, PayloadTypes
    <3>5. piped' \in [Stream -> 0..PipeSize]
      BY <3>2, <3>3 DEF Types, PayloadTypes
    <3>6. printed' \in [Stream -> 0..MaxOutput]
      BY <3>2, <3>3 DEF Types, PayloadTypes
    <3>7. UNCHANGED <<now, holders, escaped, exit, reaped>>
      BY <3>1 DEF Write
    <3> QED BY <3>4, <3>5, <3>6, <3>7 DEF Types, PayloadTypes
  <2>2. CASE Tick
    BY <2>2, SizeTypes DEF Tick, payload, Types, PayloadTypes, Sizes
  <2>3. CASE Fork \/ Escape \/ ChildExit \/ DescendantExit \/ Reap
    BY <2>3 DEF Fork, Escape, ChildExit, DescendantExit, Reap, payload, Types, PayloadTypes
  <2> QED BY <2>1, <2>2, <2>3 DEF Payload
<1> QED BY <1>1, <1>2 DEF Types

\* The call returns, with or without killing the payload.
LEMMA ReturnTypes ==
    ASSUME Types, NEW v \in Verdict, Return(v)
    PROVE  ChanTyped' /\ CallerTypes'
BY SizeTypes DEF Return, Types, ChanTyped, CallerTypes, Sizes

LEMMA TerminateTypes ==
    ASSUME Types, NEW v \in Verdict, Terminate(v), UNCHANGED <<now, reaped, reader, spent>>
    PROVE  Types'
<1>1. ChanTyped' /\ CallerTypes'
  BY ReturnTypes DEF Terminate
<1>2. PayloadTypes'
  BY DEF Terminate, Types, PayloadTypes
<1>3. ReaderTypes'
  BY DEF Types, ReaderTypes
<1> QED BY <1>1, <1>2, <1>3 DEF Types

\* What the caller collects was written, and it hears of two ends at most.
LEMMA Collected ==
    ASSUME Types, Conserved, chan # <<>>, Head(chan).kind = "data", chan' = Tail(chan)
    PROVE  /\ Head(chan).stream \in Stream
           /\ output[Head(chan).stream] + Head(chan).size \in 0..MaxOutput
<1>0. chan \in Seq(Message) /\ TypeOK
  BY TypeParts DEF Types, ChanTyped
<1>1. PICK m \in Message : m = Head(chan) /\ m.kind = "data"
  BY <1>0
<1>2. PICK s \in Stream : s = m.stream
  BY <1>1 DEF Message
<1>3. m.size \in 1..Chunk
  BY <1>1 DEF Message
<1>4. Charge(m, s) = m.size
  BY <1>1, <1>2 DEF Charge
<1>5. Queued(s) = m.size + Queued(s)'
  <2>1. Queued(s) = Charge(m, s) + Queued(s)'
    BY <1>0, <1>1, ChanTail
  <2> QED BY <1>4, <2>1
<1>6. Queued(s)' \in Nat
  <2>1. chan' \in Seq(Message)
    BY <1>0
  <2>2. Queued(s)' = SumSeq(Charges(chan', s))
    BY DEF Queued, Charges
  <2>3. Charges(chan', s) \in Seq(Nat)
    BY <2>1, SizeAssumption, WeightTypes
  <2> QED BY <2>2, <2>3, SumNat
<1>7. output[s] + Queued(s) + Held(s) + piped[s] <= wrote[s]
  BY DEF Conserved
<1>8. /\ Held(s) \in Nat /\ piped[s] \in Nat /\ wrote[s] \in 0..MaxOutput
      /\ output[s] \in Nat /\ m.size \in Nat
  <2>1. reader[s].size \in 0..Chunk
    BY ReaderFields DEF Types
  <2>2. Held(s) \in Nat
    BY <2>1, SizeTypes DEF Held, Sizes
  <2> QED BY <1>3, <2>2, SizeTypes DEF Types, PayloadTypes, CallerTypes, Sizes
<1>9. output[s] + m.size \in 0..MaxOutput
  <2>1. ASSUME NEW q \in Nat, NEW h \in Nat, NEW p \in Nat, NEW x \in Nat, NEW n \in Nat,
               NEW w \in 0..MaxOutput, x + (n + q) + h + p <= w
        PROVE  x + n \in 0..MaxOutput
    BY <2>1, SizeTypes DEF Sizes
  <2> QED BY <1>5, <1>6, <1>7, <1>8, <2>1
<1> QED BY <1>1, <1>2, <1>9

LEMMA Heard ==
    ASSUME Types, EndsTold, chan # <<>>, Head(chan).kind = "done", chan' = Tail(chan)
    PROVE  done + 1 \in 0..2
<1>0. chan \in Seq(Message) /\ TypeOK
  BY TypeParts DEF Types, ChanTyped
<1>1. Endings = 1 + Endings'
  BY <1>0, ChanTail DEF Ending
<1>2. Endings' \in Nat
  <2>1. chan' \in Seq(Message)
    BY <1>0
  <2>2. Endings' = SumSeq(EndMarks(chan'))
    BY DEF Endings, EndMarks
  <2>3. EndMarks(chan') \in Seq(Nat)
    BY <2>1, SizeAssumption, WeightTypes DEF Stream
  <2> QED BY <2>2, <2>3, SumNat
<1>3. done \in Nat /\ done + Endings <= 2
  <2>1. Ended("stdout") \in 0..1 /\ Ended("stderr") \in 0..1
    BY DEF Ended
  <2>2. done + Endings = Ended("stdout") + Ended("stderr")
    BY DEF EndsTold
  <2>3. done \in 0..2 /\ Ended("stdout") + Ended("stderr") <= 2
    BY <2>1 DEF Types, CallerTypes
  <2> QED BY <2>2, <2>3
<1>4. ASSUME NEW d \in Nat, NEW e \in Nat, d + (1 + e) <= 2 PROVE d + 1 \in 0..2
  BY <1>4
<1> QED BY <1>1, <1>2, <1>3, <1>4

LEMMA CallerTypeStep ==
    ASSUME Types, main # "returned" => Conserved /\ EndsTold, Calling
    PROVE  Types'
<1> USE DEF Verdict
<1>1. CASE SpawnBusy
  <2>1. PayloadTypes' /\ ReaderTypes'
    BY <1>1, SizeTypes DEF SpawnBusy, payload, Return, Types, PayloadTypes, ReaderTypes, Sizes
  <2>2. ChanTyped' /\ CallerTypes'
    <3>1. CASE UNCHANGED <<chan, caller>>
      BY <3>1 DEF caller, Types, ChanTyped, CallerTypes
    <3>2. CASE Return("spawn")
      BY <3>2, ReturnTypes
    <3> QED BY <1>1, <3>1, <3>2 DEF SpawnBusy
  <2> QED BY <2>1, <2>2 DEF Types
<1>2. CASE SpawnError
  <2>1. PayloadTypes' /\ ReaderTypes'
    BY <1>2 DEF SpawnError, payload, Types, PayloadTypes, ReaderTypes
  <2>2. ChanTyped' /\ CallerTypes'
    BY <1>2, ReturnTypes DEF SpawnError
  <2> QED BY <2>1, <2>2 DEF Types
<1>3. CASE Spawn
  <2>1. PayloadTypes' /\ ChanTyped' /\ CallerTypes'
    BY <1>3 DEF Spawn, Types, PayloadTypes, ChanTyped, CallerTypes
  <2>2. reader' \in Readers
    BY <1>3 DEF Spawn, Types, ReaderTypes, Readers, Places
  <2> QED BY <1>3, <2>1, <2>2 DEF Spawn, Types, ReaderTypes
<1>4. ASSUME UNCHANGED <<now, payload, reader, spent, chan, done, output, verdict>>,
             reaped' \in BOOLEAN, status' \in {status, exit},
             main' \in {"poll", "judge", "clock", "receive"}
      PROVE  Types'
  BY <1>4 DEF payload, Types, PayloadTypes, ReaderTypes, ChanTyped, CallerTypes
<1>5. CASE Poll
  <2>1. CASE Terminate("status") /\ UNCHANGED reaped
    BY <1>5, <2>1, TerminateTypes DEF Poll
  <2>2. CASE ~(Terminate("status") /\ UNCHANGED reaped)
    <3>1. reaped \in BOOLEAN
      BY DEF Types, PayloadTypes
    <3> QED BY <1>4, <1>5, <2>2, <3>1 DEF Poll
  <2> QED BY <2>1, <2>2
<1>6. CASE CheckClock
  <2>1. CASE Terminate("timeout")
    BY <1>6, <2>1, TerminateTypes DEF CheckClock
  <2>2. CASE ~Terminate("timeout")
    <3>1. reaped \in BOOLEAN
      BY DEF Types, PayloadTypes
    <3> QED BY <1>4, <1>6, <2>2, <3>1 DEF CheckClock
  <2> QED BY <2>1, <2>2
<1>7. CASE Receive
  <2>0. /\ Conserved /\ EndsTold /\ chan # <<>> /\ UNCHANGED <<now, reaped, reader, spent>>
        /\ Len(Tail(chan)) <= Slots /\ Tail(chan) \in Seq(Message)
    BY <1>7, SizeTypes DEF Receive, Types, ChanTyped, Sizes
  <2>1. CASE Terminate("read") \/ Terminate("limit")
    BY <2>0, <2>1, TerminateTypes
  <2>2. CASE /\ Head(chan).kind = "data"
             /\ output' = [output EXCEPT ![Head(chan).stream] = @ + Head(chan).size]
             /\ chan' = Tail(chan)
             /\ main' = "poll"
             /\ UNCHANGED <<payload, status, done, verdict>>
    <3>1. output' \in [Stream -> 0..MaxOutput]
      BY <2>0, <2>2, Collected DEF Types, CallerTypes
    <3> QED BY <2>0, <2>2, <3>1
            DEF payload, Types, PayloadTypes, ReaderTypes, ChanTyped, CallerTypes
  <2>3. CASE /\ Head(chan).kind = "done"
             /\ done' = done + 1
             /\ chan' = Tail(chan)
             /\ main' = "poll"
             /\ UNCHANGED <<payload, status, output, verdict>>
    <3>1. done' \in 0..2
      BY <2>0, <2>3, Heard
    <3> QED BY <2>0, <2>3, <3>1
            DEF payload, Types, PayloadTypes, ReaderTypes, ChanTyped, CallerTypes
  <2> QED BY <1>7, <2>1, <2>2, <2>3 DEF Receive
<1>8. CASE ReceiveNothing
  <2>1. CASE Terminate("stopped")
    BY <1>8, <2>1, TerminateTypes DEF ReceiveNothing
  <2>2. CASE ~Terminate("stopped")
    <3>1. reaped \in BOOLEAN
      BY DEF Types, PayloadTypes
    <3> QED BY <1>4, <1>8, <2>2, <3>1 DEF ReceiveNothing
  <2> QED BY <2>1, <2>2
<1>9. CASE Judge
  <2>1. PayloadTypes' /\ ReaderTypes'
    BY <1>9 DEF Judge, payload, Types, PayloadTypes, ReaderTypes
  <2>2. ChanTyped' /\ CallerTypes'
    BY <1>9, ReturnTypes DEF Judge
  <2> QED BY <2>1, <2>2 DEF Types
<1> QED BY <1>1, <1>2, <1>3, <1>5, <1>6, <1>7, <1>8, <1>9 DEF Calling

(***************************************************************************)
(* The invariant of the bytes and the ends, while somebody receives.       *)
(***************************************************************************)

\* What s is charged for, and what is left of all it has written.
Sent(s) == IF reader[s].at = "send" THEN reader[s].size ELSE 0
Flow(s) == output[s] + Queued(s) + Sent(s)
Stock(s) == output[s] + Queued(s) + Held(s) + piped[s]

Numbers ==
    /\ \A s \in Stream :
         /\ output[s] \in Nat /\ Queued(s) \in Nat /\ piped[s] \in Nat /\ wrote[s] \in Nat
         /\ Sent(s) \in Nat /\ Held(s) \in Nat /\ Sent(s) <= Held(s) /\ Ended(s) \in 0..1
         /\ Flow(s) \in Nat /\ Stock(s) \in Nat
    /\ spent \in Nat /\ Endings \in Nat /\ done \in Nat

LEMMA NumberTypes == Types => Numbers
<1> SUFFICES ASSUME Types PROVE Numbers
  OBVIOUS
<1>1. spent \in Nat /\ Endings \in Nat /\ done \in Nat
  BY TypeParts, ChanTypes, SizeTypes DEF Types, ReaderTypes, CallerTypes, Sizes
<1>2. ASSUME NEW s \in Stream
      PROVE  output[s] \in Nat /\ Queued(s) \in Nat /\ piped[s] \in Nat /\ wrote[s] \in Nat
  <2>1. Queued(s) \in Nat
    BY TypeParts, ChanTypes
  <2> QED BY <2>1, SizeTypes DEF Types, PayloadTypes, CallerTypes, Sizes
<1>3. ASSUME NEW s \in Stream
      PROVE  Sent(s) \in Nat /\ Held(s) \in Nat /\ Sent(s) <= Held(s) /\ Ended(s) \in 0..1
  <2>1. reader[s].size \in Nat
    BY ReaderFields, SizeTypes DEF Types, Sizes
  <2> QED BY <2>1 DEF Sent, Held, Ended
<1>4. ASSUME NEW s \in Stream PROVE Flow(s) \in Nat /\ Stock(s) \in Nat
  BY <1>2, <1>3 DEF Flow, Stock
<1> QED BY <1>1, <1>2, <1>3, <1>4 DEF Numbers

LEMMA NumberTypesNext == Types' => Numbers'
BY NumberTypes, PTL

LEMMA BudgetFlow ==
    Numbers => (BudgetExact <=> (main # "returned" => spent = Flow("stdout") + Flow("stderr")))
<1> SUFFICES ASSUME Numbers
             PROVE  BudgetExact <=> (main # "returned" => spent = Flow("stdout") + Flow("stderr"))
  OBVIOUS
<1>1. \A s \in {"stdout", "stderr"} : output[s] \in Nat /\ Queued(s) \in Nat /\ Sent(s) \in Nat
  BY DEF Numbers, Stream
<1>2. \A s : InFlight(s) = Queued(s) + Sent(s)
  BY DEF InFlight, Sent
<1>3. ASSUME NEW a \in Nat, NEW b \in Nat, NEW c \in Nat, NEW d \in Nat, NEW e \in Nat, NEW f \in Nat
      PROVE  (a + b) + (c + d) + (e + f) = (a + c + d) + (b + e + f)
  OBVIOUS
<1>4. Total(output) + InFlight("stdout") + InFlight("stderr") = Flow("stdout") + Flow("stderr")
  BY <1>1, <1>2, <1>3 DEF Total, Flow
<1> QED BY <1>4 DEF BudgetExact

LEMMA BudgetFlowNext ==
    Numbers' => (BudgetExact <=> (main # "returned" => spent = Flow("stdout") + Flow("stderr")))'
BY BudgetFlow, PTL

LEMMA BudgetKept ==
    ASSUME Numbers, Numbers', BudgetExact, main # "returned", spent' = spent,
           \A s \in Stream : Flow(s)' = Flow(s)
    PROVE  BudgetExact'
<1>1. spent = Flow("stdout") + Flow("stderr")
  BY BudgetFlow
<1>2. Flow("stdout")' = Flow("stdout") /\ Flow("stderr")' = Flow("stderr")
  BY DEF Stream
<1>3. spent' = Flow("stdout")' + Flow("stderr")'
  BY <1>1, <1>2
<1> QED BY <1>3, BudgetFlowNext

LEMMA ConservedKept ==
    ASSUME Numbers, Numbers', Conserved, Limited => Limited',
           \A s \in Stream : Stock(s)' + wrote[s] = Stock(s) + wrote'[s]
    PROVE  Conserved'
<1>1. ASSUME NEW a \in Nat, NEW b \in Nat, NEW c \in Nat, NEW d \in Nat, a + b = c + d
      PROVE  (c <= b => a <= d) /\ (c = b => a = d)
  BY <1>1
<1>2. ASSUME NEW s \in Stream
      PROVE  Stock(s)' <= wrote'[s] /\ (~Limited' => Stock(s)' = wrote'[s])
  <2>1. Stock(s) <= wrote[s] /\ (~Limited => Stock(s) = wrote[s])
    BY DEF Conserved, Stock
  <2>2. Stock(s) \in Nat /\ wrote[s] \in Nat /\ Stock(s)' \in Nat /\ wrote'[s] \in Nat
    BY DEF Numbers
  <2> QED BY <1>1, <2>1, <2>2
<1> QED BY <1>2 DEF Conserved, Stock

LEMMA ExcessKept ==
    ASSUME Numbers, Numbers', Limited => Total(wrote) > Limit, Limited' => Limited,
           \A s \in Stream : wrote[s] <= wrote'[s]
    PROVE  (Limited => Total(wrote) > Limit)'
<1>1. Total(wrote) <= Total(wrote)' /\ Total(wrote) \in Nat /\ Total(wrote)' \in Nat
  BY DEF Total, Numbers, Stream
<1> QED BY <1>1, SizeTypes DEF Sizes

\* One reader's figures after a step.
LEMMA ThisReader ==
    ASSUME NEW s \in Stream, NEW l, NEW n, NEW k, NEW o, Becomes(s, l, n, k, o)
    PROVE  /\ Sent(s)' = IF l = "send" THEN n ELSE 0
           /\ Held(s)' = IF l \in {"swap", "send"} THEN n ELSE 0
           /\ Ended(s)' = IF l = "ended" THEN 1 ELSE 0
BY DEF Becomes, Sent, Held, Ended

LEMMA OtherReader ==
    ASSUME NEW s \in Stream, reader'[s] = reader[s]
    PROVE  Sent(s)' = Sent(s) /\ Held(s)' = Held(s) /\ Ended(s)' = Ended(s)
BY DEF Sent, Held, Ended

\* The steps that touch neither a reader nor what it has read.
LEMMA LiveFrame ==
    ASSUME Numbers, Numbers', Live, main # "returned",
           UNCHANGED <<reader, chan, spent, output, done, wrote, piped>>, holders = {} => holders' = {}
    PROVE  Live'
<1>1. (\A s \in Stream : Queued(s)' = Queued(s)) /\ Endings' = Endings
  BY ChanSame
<1>2. \A s \in Stream : Sent(s)' = Sent(s) /\ Held(s)' = Held(s) /\ Ended(s)' = Ended(s)
  BY OtherReader
<1>3. \A s \in Stream : Flow(s)' = Flow(s) /\ Stock(s)' = Stock(s) /\ wrote'[s] = wrote[s]
  BY <1>1, <1>2 DEF Flow, Stock
<1>4. Limited' <=> Limited
  BY DEF Limited
<1>5. BudgetExact'
  BY <1>3, BudgetKept DEF Live
<1>6. Conserved'
  BY <1>3, <1>4, ConservedKept DEF Live
<1>7. (Limited => Total(wrote) > Limit)'
  BY <1>4 DEF Live
<1>8. EndsTold'
  <2>1. Ended("stdout")' = Ended("stdout") /\ Ended("stderr")' = Ended("stderr")
    BY <1>2 DEF Stream
  <2> QED BY <1>1, <2>1 DEF Live, EndsTold
<1>9. Drained'
  BY <1>4 DEF Live, Drained
<1> QED BY <1>5, <1>6, <1>7, <1>8, <1>9 DEF Live

\* The payload writes: whoever wrote may go on, so no reader is at the end.
LEMMA LiveWrite ==
    ASSUME Types, Numbers, Numbers', Live, main # "returned", NEW s \in Stream, Write(s)
    PROVE  Live'
<1>1. PICK n \in 1..PipeSize :
        /\ wrote' = [wrote EXCEPT ![s] = @ + n]
        /\ piped' = [piped EXCEPT ![s] = @ + n]
  BY DEF Write
<1>2. UNCHANGED <<reader, chan, spent, output, done, holders>> /\ holders # {}
  BY DEF Write, caller
<1>3. (\A t \in Stream : Queued(t)' = Queued(t)) /\ Endings' = Endings
  BY <1>2, ChanSame
<1>4. \A t \in Stream : Sent(t)' = Sent(t) /\ Held(t)' = Held(t) /\ Ended(t)' = Ended(t)
  BY <1>2, OtherReader
<1>5. Limited' <=> Limited
  BY <1>2 DEF Limited
<1>6. ASSUME NEW t \in Stream
      PROVE  Stock(t)' + wrote[t] = Stock(t) + wrote'[t] /\ wrote[t] <= wrote'[t]
  <2>0. n \in Nat
    BY <1>1, SizeTypes DEF Sizes
  <2>1. \/ wrote'[t] = wrote[t] /\ piped'[t] = piped[t]
        \/ wrote'[t] = wrote[t] + n /\ piped'[t] = piped[t] + n
    BY <1>1 DEF Types, PayloadTypes
  <2>2. output[t] \in Nat /\ Queued(t) \in Nat /\ Held(t) \in Nat /\ piped[t] \in Nat /\ wrote[t] \in Nat
    BY DEF Numbers
  <2>3. Stock(t)' = output[t] + Queued(t) + Held(t) + piped'[t]
    BY <1>2, <1>3, <1>4 DEF Stock
  <2> QED BY <2>0, <2>1, <2>2, <2>3 DEF Stock
<1>7. BudgetExact'
  BY <1>2, <1>3, <1>4, BudgetKept DEF Live, Flow
<1>8. Conserved'
  BY <1>5, <1>6, ConservedKept DEF Live
<1>9. (Limited => Total(wrote) > Limit)'
  BY <1>5, <1>6, ExcessKept DEF Live
<1>10. EndsTold'
  <2>1. Ended("stdout")' = Ended("stdout") /\ Ended("stderr")' = Ended("stderr")
    BY <1>4 DEF Stream
  <2> QED BY <1>2, <1>3, <2>1 DEF Live, EndsTold
<1>11. Drained'
  BY <1>2, <1>5 DEF Live, Drained
<1> QED BY <1>7, <1>8, <1>9, <1>10, <1>11 DEF Live

\* Nothing has been read before the payload is spawned.
LEMMA LiveSpawn ==
    ASSUME Types, Numbers, Numbers', ProcessOK, Live, Spawn
    PROVE  Live'
<1>0. /\ main = "spawn" /\ \A s \in Stream : reader[s].at = "new"
      /\ UNCHANGED <<chan, spent, output, done, wrote, piped>>
  BY DEF Spawn, ProcessOK
<1>1. \A s \in Stream : reader'[s].at = "read"
  BY DEF Spawn, Types, ReaderTypes, Readers
<1>2. (\A s \in Stream : Queued(s)' = Queued(s)) /\ Endings' = Endings
  BY <1>0, ChanSame
<1>3. \A s \in Stream : Sent(s)' = Sent(s) /\ Held(s)' = Held(s) /\ Ended(s)' = Ended(s)
  BY <1>0, <1>1 DEF Sent, Held, Ended
<1>4. \A s \in Stream : Flow(s)' = Flow(s) /\ Stock(s)' = Stock(s) /\ wrote'[s] = wrote[s]
  BY <1>0, <1>2, <1>3 DEF Flow, Stock
<1>5. Limited' <=> Limited
  BY <1>0, <1>1 DEF Limited
<1>6. BudgetExact'
  BY <1>0, <1>4, BudgetKept DEF Live
<1>7. Conserved'
  BY <1>4, <1>5, ConservedKept DEF Live
<1>8. (Limited => Total(wrote) > Limit)'
  BY <1>0, <1>5 DEF Live
<1>9. EndsTold'
  <2>1. Ended("stdout")' = Ended("stdout") /\ Ended("stderr")' = Ended("stderr")
    BY <1>3 DEF Stream
  <2> QED BY <1>0, <1>1, <1>2, <2>1 DEF Live, EndsTold, Stream
<1>10. Drained'
  BY <1>1 DEF Drained
<1> QED BY <1>6, <1>7, <1>8, <1>9, <1>10 DEF Live

\* A reader reads, or ends reading: what was in the pipe is with the reader.
LEMMA LiveRead ==
    ASSUME Types, Numbers, Numbers', Live, main # "returned", UNCHANGED Others, NEW s \in Stream,
           NEW l, NEW n, NEW k, NEW o, Becomes(s, l, n, k, o), UNCHANGED <<spent, chan>>,
           reader[s].at \in {"read", "swap"},
           \/ /\ l = "swap" /\ n \in Nat
              /\ piped'[s] = piped[s] + Held(s) - n
              /\ \A t \in Stream : t # s => piped'[t] = piped[t]
           \/ /\ l = "done" /\ reader[s].at = "read" /\ UNCHANGED piped
              /\ o = FALSE \/ (piped[s] = 0 /\ holders = {})
    PROVE  Live'
<1>0. UNCHANGED <<output, done, wrote, holders>>
  BY DEF Others, caller
<1>1. (\A t \in Stream : Queued(t)' = Queued(t)) /\ Endings' = Endings
  BY ChanSame
<1>2. ASSUME NEW t \in Stream
      PROVE  Sent(t)' = Sent(t) /\ Ended(t)' = Ended(t) /\ Held(t)' + piped'[t] = Held(t) + piped[t]
  <2>1. CASE t = s
    <3>1. Sent(t) = 0 /\ Ended(t) = 0 /\ Sent(t)' = 0 /\ Ended(t)' = 0
      BY <2>1, ThisReader DEF Sent, Ended
    <3>2. CASE l = "swap"
      <4>1. Held(t)' = n /\ piped'[t] = piped[t] + Held(t) - n
        BY <2>1, <3>2, ThisReader
      <4>2. piped[t] \in Nat /\ Held(t) \in Nat /\ n \in Nat
        BY <3>2 DEF Numbers
      <4> QED BY <3>1, <4>1, <4>2
    <3>3. CASE l = "done"
      <4>1. Held(t)' = 0 /\ Held(t) = 0 /\ piped' = piped
        BY <2>1, <3>3, ThisReader DEF Held
      <4> QED BY <3>1, <4>1
    <3> QED BY <3>2, <3>3
  <2>2. CASE t # s
    <3>1. reader'[t] = reader[t] /\ piped'[t] = piped[t]
      BY <2>2 DEF Becomes
    <3> QED BY <3>1, OtherReader
  <2> QED BY <2>1, <2>2
<1>3. ASSUME NEW t \in Stream
      PROVE  Flow(t)' = Flow(t) /\ Stock(t)' + wrote[t] = Stock(t) + wrote'[t]
  <2>1. Flow(t)' = Flow(t)
    BY <1>0, <1>1, <1>2 DEF Flow
  <2>2. /\ output[t] \in Nat /\ Queued(t) \in Nat /\ Held(t) \in Nat /\ piped[t] \in Nat
        /\ Held(t)' \in Nat /\ piped'[t] \in Nat
    BY DEF Numbers
  <2>3. Stock(t)' = output[t] + Queued(t) + Held(t)' + piped'[t]
    BY <1>0, <1>1 DEF Stock
  <2>4. Stock(t)' = Stock(t)
    BY <1>2, <2>2, <2>3 DEF Stock
  <2> QED BY <1>0, <2>1, <2>4
<1>4. Limited' <=> Limited
  <2>1. \A t \in Stream : reader'[t].at = "limit" <=> reader[t].at = "limit"
    BY DEF Becomes
  <2> QED BY <2>1 DEF Limited
<1>5. BudgetExact'
  BY <1>3, BudgetKept DEF Live
<1>6. Conserved'
  BY <1>3, <1>4, ConservedKept DEF Live
<1>7. (Limited => Total(wrote) > Limit)'
  BY <1>0, <1>4 DEF Live
<1>8. EndsTold'
  <2>1. Ended("stdout")' = Ended("stdout") /\ Ended("stderr")' = Ended("stderr")
    BY <1>2 DEF Stream
  <2>2. \A t \in Stream : reader'[t].at = "ended" => reader'[t] = reader[t] /\ t # s
    BY DEF Becomes
  <2> QED BY <1>0, <1>1, <2>1, <2>2 DEF Live, EndsTold
<1>9. Drained'
  <2> SUFFICES ASSUME ~Limited', NEW t \in Stream,
                      reader'[t].at \in {"done", "ended"}, reader'[t].ok
               PROVE  holders = {} /\ piped'[t] = 0
    BY <1>0 DEF Drained
  <2>1. CASE t = s
    BY <2>1 DEF Becomes
  <2>2. CASE t # s
    <3>1. reader'[t] = reader[t] /\ piped'[t] = piped[t]
      BY <2>2 DEF Becomes
    <3> QED BY <1>4, <3>1 DEF Live, Drained
  <2> QED BY <2>1, <2>2
<1> QED BY <1>5, <1>6, <1>7, <1>8, <1>9 DEF Live

\* A reader takes its part of the budget.
LEMMA LiveCharge ==
    ASSUME Types, Numbers, Numbers', Live, main # "returned", UNCHANGED Others, NEW s \in Stream,
           reader[s].at = "swap", spent' = spent + reader[s].size,
           Becomes(s, "send", reader[s].size, 0, reader[s].ok), UNCHANGED <<piped, chan>>
    PROVE  Live'
<1>0. UNCHANGED <<output, done, wrote, holders>>
  BY DEF Others, caller
<1>1. (\A t \in Stream : Queued(t)' = Queued(t)) /\ Endings' = Endings
  BY ChanSame
<1>2. /\ Sent(s) = 0 /\ Held(s) = reader[s].size /\ Ended(s) = 0
      /\ Sent(s)' = reader[s].size /\ Held(s)' = reader[s].size /\ Ended(s)' = 0
  BY ThisReader DEF Sent, Held, Ended
<1>3. \A t \in Stream : t # s => Sent(t)' = Sent(t) /\ Held(t)' = Held(t) /\ Ended(t)' = Ended(t)
  BY OtherReader DEF Becomes
<1>4. \A t \in Stream : Held(t)' = Held(t) /\ Ended(t)' = Ended(t) /\ Stock(t)' = Stock(t)
  BY <1>0, <1>1, <1>2, <1>3 DEF Stock
<1>5. Limited' <=> Limited
  <2>1. \A t \in Stream : reader'[t].at = "limit" <=> reader[t].at = "limit"
    BY DEF Becomes
  <2> QED BY <2>1 DEF Limited
<1>6. BudgetExact'
  <2>1. Flow(s)' = Flow(s) + reader[s].size
    <3>1. output[s] \in Nat /\ Queued(s) \in Nat /\ Held(s) \in Nat
      BY DEF Numbers
    <3> QED BY <1>0, <1>1, <1>2, <3>1 DEF Flow
  <2>2. \A t \in Stream : t # s => Flow(t)' = Flow(t)
    BY <1>0, <1>1, <1>3 DEF Flow
  <2>3. spent = Flow("stdout") + Flow("stderr")
    BY BudgetFlow DEF Live
  <2>4. Flow("stdout") \in Nat /\ Flow("stderr") \in Nat /\ reader[s].size \in Nat
    BY <1>2 DEF Numbers, Stream
  <2>5. spent' = Flow("stdout")' + Flow("stderr")'
    <3>1. CASE s = "stdout"
      BY <2>1, <2>2, <2>3, <2>4, <3>1 DEF Stream
    <3>2. CASE s = "stderr"
      BY <2>1, <2>2, <2>3, <2>4, <3>2 DEF Stream
    <3> QED BY <3>1, <3>2 DEF Stream
  <2> QED BY <2>5, BudgetFlowNext
<1>7. Conserved'
  BY <1>0, <1>4, <1>5, ConservedKept DEF Live
<1>8. (Limited => Total(wrote) > Limit)'
  BY <1>0, <1>5 DEF Live
<1>9. EndsTold'
  <2>1. Ended("stdout")' = Ended("stdout") /\ Ended("stderr")' = Ended("stderr")
    BY <1>4 DEF Stream
  <2>2. \A t \in Stream : reader'[t].at = "ended" => reader'[t] = reader[t] /\ t # s
    BY DEF Becomes
  <2> QED BY <1>0, <1>1, <2>1, <2>2 DEF Live, EndsTold
<1>10. Drained'
  <2>1. \A t \in Stream : reader'[t].at \in {"done", "ended"} => reader'[t] = reader[t]
    BY DEF Becomes
  <2> QED BY <1>0, <1>5, <2>1 DEF Live, Drained
<1> QED BY <1>6, <1>7, <1>8, <1>9, <1>10 DEF Live

\* A reader meets the limit only when more than that has been written: its
\* chunk and all that is charged are part of what was.
LEMMA LiveExcess ==
    ASSUME Types, Numbers, Numbers', ReadersOK, Live, main # "returned", UNCHANGED Others,
           NEW s \in Stream, reader[s].at = "swap", reader[s].seen + reader[s].size > Limit,
           Becomes(s, "limit", 0, 0, reader[s].ok), UNCHANGED <<piped, spent, chan>>
    PROVE  Live'
<1>0. UNCHANGED <<output, done, wrote, holders>>
  BY DEF Others, caller
<1>1. (\A t \in Stream : Queued(t)' = Queued(t)) /\ Endings' = Endings
  BY ChanSame
<1>2. /\ Sent(s) = 0 /\ Held(s) = reader[s].size /\ Ended(s) = 0
      /\ Sent(s)' = 0 /\ Held(s)' = 0 /\ Ended(s)' = 0
  BY ThisReader DEF Sent, Held, Ended
<1>3. \A t \in Stream : t # s => Sent(t)' = Sent(t) /\ Held(t)' = Held(t) /\ Ended(t)' = Ended(t)
  BY OtherReader DEF Becomes
<1>4. Limited'
  BY DEF Limited, Becomes
<1>5. BudgetExact'
  <2>1. \A t \in Stream : Flow(t)' = Flow(t)
    BY <1>0, <1>1, <1>2, <1>3 DEF Flow
  <2> QED BY <2>1, BudgetKept DEF Live
<1>6. Conserved'
  <2>1. ASSUME NEW t \in Stream PROVE Stock(t)' <= wrote'[t]
    <3>1. Stock(t)' = output[t] + Queued(t) + Held(t)' + piped[t]
      BY <1>0, <1>1 DEF Stock
    <3>2. Held(t)' <= Held(t)
      BY <1>2, <1>3 DEF Numbers
    <3>3. /\ output[t] \in Nat /\ Queued(t) \in Nat /\ Held(t) \in Nat /\ piped[t] \in Nat
          /\ Held(t)' \in Nat /\ wrote[t] \in Nat
      BY DEF Numbers
    <3>4. Stock(t) <= wrote[t]
      BY DEF Live, Conserved, Stock
    <3> QED BY <1>0, <3>1, <3>2, <3>3, <3>4 DEF Stock
  <2> QED BY <1>4, <2>1 DEF Conserved, Stock
<1>7. (Limited => Total(wrote) > Limit)'
  <2>1. PICK t \in Stream : t # s
    BY DEF Stream
  <2>2. spent = Flow(s) + Flow(t)
    <3>1. spent = Flow("stdout") + Flow("stderr")
      BY BudgetFlow DEF Live
    <3>2. Flow("stdout") \in Nat /\ Flow("stderr") \in Nat
      BY DEF Numbers, Stream
    <3> QED BY <2>1, <3>1, <3>2 DEF Stream
  <2>3. Total(wrote) = wrote[s] + wrote[t]
    <3>1. wrote["stdout"] \in Nat /\ wrote["stderr"] \in Nat
      BY DEF Numbers, Stream
    <3> QED BY <2>1, <3>1 DEF Stream, Total
  <2>4. Flow(s) + Held(s) <= wrote[s]
    <3>1. /\ output[s] \in Nat /\ Queued(s) \in Nat /\ Held(s) \in Nat /\ piped[s] \in Nat
          /\ wrote[s] \in Nat /\ Stock(s) <= wrote[s]
      BY DEF Numbers, Live, Conserved, Stock
    <3> QED BY <1>2, <3>1 DEF Flow, Stock
  <2>5. Flow(t) <= wrote[t]
    <3>1. /\ output[t] \in Nat /\ Queued(t) \in Nat /\ Held(t) \in Nat /\ piped[t] \in Nat
          /\ Sent(t) \in Nat /\ Sent(t) <= Held(t) /\ wrote[t] \in Nat /\ Stock(t) <= wrote[t]
      BY DEF Numbers, Live, Conserved, Stock
    <3> QED BY <3>1 DEF Flow, Stock
  <2>6. reader[s].seen <= spent /\ reader[s].seen \in Nat /\ Limit \in Nat
    BY ReaderFields, SizeTypes DEF ReadersOK, Types, Sizes
  <2>7. Flow(s) \in Nat /\ Flow(t) \in Nat /\ Held(s) \in Nat /\ wrote[s] \in Nat /\ wrote[t] \in Nat
    BY DEF Numbers
  <2>8. Total(wrote) > Limit
    BY <1>2, <2>2, <2>3, <2>4, <2>5, <2>6, <2>7
  <2> QED BY <1>0, <2>8
<1>8. EndsTold'
  <2>1. Ended("stdout")' = Ended("stdout") /\ Ended("stderr")' = Ended("stderr")
    BY <1>2, <1>3 DEF Stream
  <2>2. \A t \in Stream : reader'[t].at = "ended" => reader'[t] = reader[t] /\ t # s
    BY DEF Becomes
  <2> QED BY <1>0, <1>1, <2>1, <2>2 DEF Live, EndsTold
<1>9. Drained'
  BY <1>4 DEF Drained
<1> QED BY <1>5, <1>6, <1>7, <1>8, <1>9 DEF Live

\* A reader sends what it has read, that it met the limit, or that it ends.
LEMMA LiveSend ==
    ASSUME Types, Types', Numbers, Numbers', Live, main # "returned", UNCHANGED Others, NEW s \in Stream,
           NEW m \in Message, NEW l, chan' = Append(chan, m),
           \/ /\ reader[s].at = "send" /\ l = "read"
              /\ m.kind = "data" /\ m.stream = s /\ m.size = reader[s].size
           \/ reader[s].at = "limit" /\ m.kind = "limit" /\ l = "done"
           \/ reader[s].at = "done" /\ m.kind = "done" /\ m.ok = reader[s].ok /\ l = "ended",
           Becomes(s, l, 0, 0, reader[s].ok), UNCHANGED <<piped, spent>>
    PROVE  Live'
<1>0. UNCHANGED <<output, done, wrote, holders>>
  BY DEF Others, caller
<1>1. /\ \A t \in Stream : Queued(t)' = Queued(t) + Charge(m, t)
      /\ Endings' = Endings + Ending(m)
  BY TypeParts, ChanAppend
<1>2. /\ chan \in Seq(Message) /\ chan' \in Seq(Message) /\ Len(chan') = Len(chan) + 1
      /\ DOMAIN chan' = DOMAIN chan \cup {Len(chan) + 1}
      /\ chan'[Len(chan) + 1] = m /\ \A i \in DOMAIN chan : chan'[i] = chan[i]
  BY DEF Types, ChanTyped
<1>3. /\ Charge(m, s) = Sent(s) /\ \A t \in Stream : t # s => Charge(m, t) = 0
      /\ Held(s) = Sent(s) /\ Held(s)' = 0 /\ Sent(s)' = 0
  BY ThisReader DEF Charge, Sent, Held
<1>4. Ended(s)' = Ended(s) + Ending(m)
  BY ThisReader DEF Ended, Ending
<1>5. \A t \in Stream : t # s => Sent(t)' = Sent(t) /\ Held(t)' = Held(t) /\ Ended(t)' = Ended(t)
  BY OtherReader DEF Becomes
<1>6. ASSUME NEW t \in Stream PROVE Flow(t)' = Flow(t) /\ Stock(t)' = Stock(t)
  <2>1. Flow(t)' = output[t] + (Queued(t) + Charge(m, t)) + Sent(t)'
    BY <1>0, <1>1 DEF Flow
  <2>2. Stock(t)' = output[t] + (Queued(t) + Charge(m, t)) + Held(t)' + piped[t]
    BY <1>0, <1>1 DEF Stock
  <2>3. /\ output[t] \in Nat /\ Queued(t) \in Nat /\ Held(t) \in Nat /\ piped[t] \in Nat
        /\ Sent(t) \in Nat
    BY DEF Numbers
  <2>4. CASE t = s
    BY <1>3, <2>1, <2>2, <2>3, <2>4 DEF Flow, Stock
  <2>5. CASE t # s
    BY <1>3, <1>5, <2>1, <2>2, <2>3, <2>5 DEF Flow, Stock
  <2> QED BY <2>4, <2>5
<1>7. Limited' <=> Limited
  <2>1. ASSUME Limited PROVE Limited'
    <3>1. ASSUME NEW i \in DOMAIN chan, chan[i].kind = "limit" PROVE Limited'
      BY <1>2, <3>1 DEF Limited
    <3>2. ASSUME NEW t \in Stream, reader[t].at = "limit" PROVE Limited'
      <4>1. CASE t = s
        BY <1>2, <3>2, <4>1 DEF Limited
      <4>2. CASE t # s
        BY <3>2, <4>2 DEF Limited, Becomes
      <4> QED BY <4>1, <4>2
    <3> QED BY <2>1, <3>1, <3>2 DEF Limited
  <2>2. ASSUME Limited' PROVE Limited
    <3>1. ASSUME NEW i \in DOMAIN chan', chan'[i].kind = "limit" PROVE Limited
      BY <1>2, <3>1 DEF Limited
    <3>2. ASSUME NEW t \in Stream, reader'[t].at = "limit" PROVE Limited
      BY <3>2 DEF Limited, Becomes
    <3> QED BY <2>2, <3>1, <3>2 DEF Limited
  <2> QED BY <2>1, <2>2
<1>8. BudgetExact'
  BY <1>6, BudgetKept DEF Live
<1>9. Conserved'
  BY <1>0, <1>6, <1>7, ConservedKept DEF Live
<1>10. (Limited => Total(wrote) > Limit)'
  BY <1>0, <1>7 DEF Live
<1>11. EndsTold'
  <2>1. done' + Endings' = Ended("stdout")' + Ended("stderr")'
    <3>1. done + Endings = Ended("stdout") + Ended("stderr")
      BY DEF Live, EndsTold
    <3>2. /\ done \in Nat /\ Endings \in Nat /\ Ending(m) \in Nat
          /\ Ended("stdout") \in 0..1 /\ Ended("stderr") \in 0..1
      BY DEF Numbers, Stream, Ending
    <3>3. ASSUME NEW d \in Nat, NEW e \in Nat, NEW n \in Nat, NEW a \in 0..1, NEW b \in 0..1,
                 d + e = a + b
          PROVE  d + (e + n) = (a + n) + b /\ d + (e + n) = a + (b + n)
      BY <3>3
    <3>4. \/ Ended("stderr")' = Ended("stderr") /\ Ended("stdout")' = Ended("stdout") + Ending(m)
          \/ Ended("stdout")' = Ended("stdout") /\ Ended("stderr")' = Ended("stderr") + Ending(m)
      BY <1>4, <1>5 DEF Stream
    <3> QED BY <1>0, <1>1, <3>1, <3>2, <3>3, <3>4
  <2>2. (\A t \in Stream : reader'[t].at = "ended") => chan'[Len(chan')].kind = "done"
    BY <1>2 DEF Becomes
  <2>3. ASSUME NEW t \in Stream, reader'[t].at = "ended", ~reader'[t].ok
        PROVE  \E i \in DOMAIN chan' : chan'[i].kind = "done" /\ ~chan'[i].ok
    <3>1. CASE t = s
      <4>1. m.kind = "done" /\ ~m.ok
        BY <2>3, <3>1 DEF Becomes
      <4> QED BY <1>2, <4>1
    <3>2. CASE t # s
      <4>1. reader[t].at = "ended" /\ ~reader[t].ok
        BY <2>3, <3>2 DEF Becomes
      <4>2. PICK i \in DOMAIN chan : chan[i].kind = "done" /\ ~chan[i].ok
        BY <4>1 DEF Live, EndsTold
      <4> QED BY <1>2, <4>2
    <3> QED BY <3>1, <3>2
  <2> QED BY <2>1, <2>2, <2>3 DEF EndsTold
<1>12. Drained'
  <2> SUFFICES ASSUME ~Limited', NEW t \in Stream,
                      reader'[t].at \in {"done", "ended"}, reader'[t].ok
               PROVE  holders = {} /\ piped[t] = 0
    BY <1>0 DEF Drained
  <2>1. ~Limited
    BY <1>7
  <2>2. reader[t].at \in {"done", "ended"} /\ reader[t].ok
    <3>1. CASE t = s
      <4>1. reader[s].at # "limit"
        BY <2>1 DEF Limited
      <4> QED BY <3>1, <4>1 DEF Becomes
    <3>2. CASE t # s
      BY <3>2 DEF Becomes
    <3> QED BY <3>1, <3>2
  <2> QED BY <2>1, <2>2 DEF Live, Drained
<1> QED BY <1>8, <1>9, <1>10, <1>11, <1>12 DEF Live

LEMMA LiveReader ==
    ASSUME Types, Types', Numbers, Numbers', ReadersOK, Live, main # "returned",
           NEW s \in Stream, ReaderStep(s), UNCHANGED Others
    PROVE  Live'
<1>0. /\ reader[s].size \in Nat /\ piped[s] \in Nat
      /\ piped \in [Stream -> 0..PipeSize]
  BY ReaderFields, SizeTypes DEF Types, PayloadTypes, Numbers, Sizes
<1>1. ASSUME NEW n \in 1..Chunk, reader[s].at = "read", piped' = [piped EXCEPT ![s] = @ - n],
             Becomes(s, "swap", n, spent, reader[s].ok), UNCHANGED <<spent, chan>>
      PROVE  Live'
  <2>1. Held(s) = 0 /\ n \in Nat
    BY <1>1, SizeTypes DEF Held, Sizes
  <2>2. piped'[s] = piped[s] + Held(s) - n /\ \A t \in Stream : t # s => piped'[t] = piped[t]
    BY <1>0, <1>1, <2>1
  <2> QED BY <1>1, <2>1, <2>2, LiveRead
<1>2. ASSUME NEW o, reader[s].at = "read", o = FALSE \/ (piped[s] = 0 /\ holders = {}),
             Becomes(s, "done", reader[s].size, reader[s].seen, o), UNCHANGED <<piped, spent, chan>>
      PROVE  Live'
  BY <1>2, LiveRead
<1>3. CASE /\ reader[s].at = "swap" /\ reader[s].seen + reader[s].size > Limit
           /\ Becomes(s, "limit", 0, 0, reader[s].ok)
           /\ UNCHANGED <<piped, spent, chan>>
  BY <1>3, LiveExcess
<1>4. CASE /\ reader[s].at = "swap" /\ spent' = spent + reader[s].size
           /\ Becomes(s, "send", reader[s].size, 0, reader[s].ok)
           /\ UNCHANGED <<piped, chan>>
  BY <1>4, LiveCharge
<1>5. CASE /\ reader[s].at = "swap"
           /\ Becomes(s, "swap", reader[s].size, spent, reader[s].ok)
           /\ UNCHANGED <<piped, spent, chan>>
  <2>1. Held(s) = reader[s].size
    BY <1>5 DEF Held
  <2>2. piped'[s] = piped[s] + Held(s) - reader[s].size /\ \A t \in Stream : t # s => piped'[t] = piped[t]
    BY <1>0, <1>5, <2>1
  <2> QED BY <1>0, <1>5, <2>2, LiveRead
<1>6. ASSUME NEW m \in Message, NEW l \in {"read", "done", "ended"}, chan' = Append(chan, m),
             \/ /\ reader[s].at = "send" /\ l = "read"
                /\ m.kind = "data" /\ m.stream = s /\ m.size = reader[s].size
             \/ reader[s].at = "limit" /\ m.kind = "limit" /\ l = "done"
             \/ reader[s].at = "done" /\ m.kind = "done" /\ m.ok = reader[s].ok /\ l = "ended",
             Becomes(s, l, 0, 0, reader[s].ok), UNCHANGED <<piped, spent>>
      PROVE  Live'
  BY <1>6, LiveSend
<1> QED BY <1>1, <1>2, <1>3, <1>4, <1>5, <1>6 DEF ReaderStep, Receiving

\* The caller takes a message from the channel.
Received ==
    /\ chan # <<>> /\ chan' = Tail(chan)
    /\ UNCHANGED <<payload, reader, spent>>
    /\ \/ /\ Head(chan).kind = "data"
          /\ output' = [output EXCEPT ![Head(chan).stream] = @ + Head(chan).size]
          /\ UNCHANGED done
       \/ /\ Head(chan).kind = "done" /\ Head(chan).ok
          /\ done' = done + 1
          /\ UNCHANGED output

LEMMA LiveReceived ==
    ASSUME Types, Types', Numbers, Numbers', Live, main # "returned", Received
    PROVE  Live'
<1>0. UNCHANGED <<holders, wrote, piped, reader, spent>>
  BY DEF Received, payload
<1>1. PICK m \in Message : m = Head(chan)
  BY DEF Received, Types, ChanTyped
<1>2. /\ \A t \in Stream : Queued(t) = Charge(m, t) + Queued(t)'
      /\ Endings = Ending(m) + Endings'
  BY <1>1, TypeParts, ChanTail DEF Received
<1>3. /\ chan \in Seq(Message) /\ chan' \in Seq(Message) /\ Len(chan) \in Nat \ {0}
      /\ Len(chan') = Len(chan) - 1 /\ chan[1] = m
      /\ \A i \in 1..Len(chan') : chan'[i] = chan[i + 1]
      /\ DOMAIN chan = 1..Len(chan) /\ DOMAIN chan' = 1..Len(chan')
  BY <1>1 DEF Received, Types, ChanTyped
<1>4. \A t \in Stream : Sent(t)' = Sent(t) /\ Held(t)' = Held(t) /\ Ended(t)' = Ended(t)
  BY <1>0, OtherReader
<1>5. ASSUME NEW t \in Stream PROVE output'[t] = output[t] + Charge(m, t)
  <2>0. output[t] \in Nat
    BY DEF Numbers
  <2>1. CASE m.kind = "data"
    <3>1. m.stream \in Stream /\ m.size \in Nat
      BY <2>1, SizeTypes DEF Message, Sizes
    <3>2. output' = [output EXCEPT ![m.stream] = @ + m.size]
      BY <1>1, <2>1 DEF Received
    <3>3. output' \in [Stream -> Nat] /\ output \in [Stream -> Nat]
      BY SizeTypes DEF Types, CallerTypes, Sizes
    <3>4. CASE t = m.stream
      BY <2>1, <3>1, <3>2, <3>3, <3>4 DEF Charge
    <3>5. CASE t # m.stream
      <4>1. Charge(m, t) = 0 /\ output'[t] = output[t]
        BY <3>2, <3>3, <3>5 DEF Charge
      <4> QED BY <2>0, <4>1
    <3> QED BY <3>4, <3>5
  <2>2. CASE m.kind # "data"
    <3>1. Charge(m, t) = 0 /\ output' = output
      BY <1>1, <2>2 DEF Received, Charge
    <3> QED BY <2>0, <3>1
  <2> QED BY <2>1, <2>2
<1>6. done' = done + Ending(m)
  <2>0. done \in Nat
    BY DEF Numbers
  <2> QED BY <1>1, <2>0 DEF Received, Ending
<1>7. ASSUME NEW t \in Stream PROVE Flow(t)' = Flow(t) /\ Stock(t)' = Stock(t)
  <2>1. Charge(m, t) \in Nat
    BY SizeTypes DEF Charge, Message, Sizes
  <2>2. /\ output[t] \in Nat /\ Queued(t)' \in Nat /\ Held(t) \in Nat /\ piped[t] \in Nat
        /\ Sent(t) \in Nat
    BY DEF Numbers
  <2>3. ASSUME NEW a \in Nat, NEW b \in Nat, NEW c \in Nat, NEW d \in Nat, NEW e \in Nat
        PROVE  /\ (a + b) + c + d = a + (b + c) + d
               /\ (a + b) + c + d + e = a + (b + c) + d + e
    OBVIOUS
  <2>4. /\ Flow(t)' = (output[t] + Charge(m, t)) + Queued(t)' + Sent(t)
        /\ Stock(t)' = (output[t] + Charge(m, t)) + Queued(t)' + Held(t) + piped[t]
        /\ Flow(t) = output[t] + (Charge(m, t) + Queued(t)') + Sent(t)
        /\ Stock(t) = output[t] + (Charge(m, t) + Queued(t)') + Held(t) + piped[t]
    BY <1>0, <1>2, <1>4, <1>5 DEF Flow, Stock
  <2> QED BY <2>1, <2>2, <2>3, <2>4
<1>8. Limited' <=> Limited
  <2>1. m.kind # "limit"
    BY <1>1 DEF Received
  <2>2. ASSUME NEW i \in DOMAIN chan, chan[i].kind = "limit" PROVE Limited'
    <3>1. i - 1 \in DOMAIN chan' /\ chan'[i - 1] = chan[i]
      BY <1>3, <2>1, <2>2
    <3> QED BY <2>2, <3>1 DEF Limited
  <2>3. ASSUME NEW i \in DOMAIN chan', chan'[i].kind = "limit" PROVE Limited
    <3>1. i + 1 \in DOMAIN chan /\ chan[i + 1] = chan'[i]
      BY <1>3
    <3> QED BY <2>3, <3>1 DEF Limited
  <2> QED BY <1>0, <2>2, <2>3 DEF Limited
<1>9. BudgetExact'
  BY <1>0, <1>7, BudgetKept DEF Live
<1>10. Conserved'
  BY <1>0, <1>7, <1>8, ConservedKept DEF Live
<1>11. (Limited => Total(wrote) > Limit)'
  BY <1>0, <1>8 DEF Live
<1>12. EndsTold'
  <2>1. done' + Endings' = Ended("stdout")' + Ended("stderr")'
    <3>1. done + (Ending(m) + Endings') = Ended("stdout") + Ended("stderr")
      BY <1>2 DEF Live, EndsTold
    <3>2. done \in Nat /\ Endings' \in Nat /\ Ending(m) \in Nat
      BY DEF Numbers, Ending
    <3>3. ASSUME NEW a \in Nat, NEW b \in Nat, NEW c \in Nat PROVE (a + b) + c = a + (b + c)
      OBVIOUS
    <3>4. Ended("stdout")' = Ended("stdout") /\ Ended("stderr")' = Ended("stderr")
      BY <1>4 DEF Stream
    <3> QED BY <1>6, <3>1, <3>2, <3>3, <3>4
  <2>2. ASSUME \A t \in Stream : reader'[t].at = "ended", chan' # <<>>
        PROVE  chan'[Len(chan')].kind = "done"
    <3>1. chan[Len(chan)].kind = "done"
      BY <1>0, <2>2 DEF Live, EndsTold, Received
    <3>2. Len(chan') \in 1..Len(chan') /\ Len(chan') + 1 = Len(chan)
      BY <1>3, <2>2
    <3> QED BY <1>3, <3>1, <3>2
  <2>3. ASSUME NEW t \in Stream, reader'[t].at = "ended", ~reader'[t].ok
        PROVE  \E i \in DOMAIN chan' : chan'[i].kind = "done" /\ ~chan'[i].ok
    <3>1. PICK i \in DOMAIN chan : chan[i].kind = "done" /\ ~chan[i].ok
      BY <1>0, <2>3 DEF Live, EndsTold
    <3>2. i # 1
      BY <1>1, <1>3, <3>1 DEF Received
    <3>3. i - 1 \in DOMAIN chan' /\ chan'[i - 1] = chan[i]
      BY <1>3, <3>2
    <3> QED BY <3>1, <3>3
  <2> QED BY <2>1, <2>2, <2>3 DEF EndsTold
<1>13. Drained'
  BY <1>0, <1>8 DEF Live, Drained
<1> QED BY <1>9, <1>10, <1>11, <1>12, <1>13 DEF Live

LEMMA LiveStep ==
    ASSUME Types, Types', ProcessOK, ReadersOK, Live, main # "returned", Next, main' # "returned"
    PROVE  Live'
<1>0. Numbers /\ Numbers'
  BY NumberTypes, NumberTypesNext
<1>1. ASSUME NEW s \in Stream, Write(s) PROVE Live'
  BY <1>0, <1>1, LiveWrite
<1>2. CASE Tick \/ Fork \/ Escape \/ ChildExit \/ DescendantExit
  <2>1. /\ UNCHANGED <<reader, chan, spent, output, done, wrote, piped>>
        /\ holders = {} => holders' = {}
    BY <1>2 DEF Tick, Fork, Escape, ChildExit, DescendantExit, payload, caller
  <2> QED BY <1>0, <2>1, LiveFrame
<1>3. ASSUME NEW s \in Stream, Reading(s) \/ ReadError(s) PROVE Live'
  <2>1. ReaderStep(s) /\ UNCHANGED Others
    BY <1>3, ReaderSteps DEF Types
  <2> QED BY <1>0, <2>1, LiveReader
<1>4. CASE Spawn
  BY <1>0, <1>4, LiveSpawn
<1>5. CASE SpawnBusy \/ Poll \/ CheckClock \/ ReceiveNothing
  <2>1. /\ UNCHANGED <<reader, chan, spent, output, done, wrote, piped>>
        /\ holders = {} => holders' = {}
    BY <1>5 DEF SpawnBusy, Poll, CheckClock, ReceiveNothing, Return, Terminate, payload, caller
  <2> QED BY <1>0, <2>1, LiveFrame
<1>6. CASE Receive
  <2>1. Received
    BY <1>6 DEF Receive, Return, Terminate, Received
  <2> QED BY <1>0, <2>1, LiveReceived
<1>7. CASE SpawnError \/ Judge \/ Reap
  BY <1>7 DEF SpawnError, Judge, Reap, Return
<1> QED BY <1>1, <1>2, <1>3, <1>4, <1>5, <1>6, <1>7 DEF Next, Payload, Calling

(***************************************************************************)
(* The processes and the readers.                                          *)
(***************************************************************************)

LEMMA ProcessStep ==
    ASSUME Types, Types', ProcessOK, ReadersOK, Next
    PROVE  ProcessOK'
<1>0. \A s \in Stream : wrote[s] \in Nat /\ printed[s] \in Nat
  BY SizeTypes DEF Types, PayloadTypes, Sizes
<1>1. ASSUME NEW s \in Stream, Write(s) PROVE ProcessOK'
  <2>1. PICK n \in 1..PipeSize :
          /\ wrote' = [wrote EXCEPT ![s] = @ + n]
          /\ UNCHANGED printed \/ printed' = [printed EXCEPT ![s] = wrote[s] + n]
    BY <1>1 DEF Write
  <2>2. n \in Nat
    BY SizeTypes DEF Sizes
  <2>3. ASSUME NEW t \in Stream PROVE printed'[t] <= wrote'[t]
    <3>1. printed[t] <= wrote[t]
      BY DEF ProcessOK
    <3>2. CASE t = s
      <4>1. wrote'[t] = wrote[t] + n /\ printed'[t] \in {printed[t], wrote[t] + n}
        BY <2>1, <3>2 DEF Types, PayloadTypes
      <4> QED BY <1>0, <2>2, <3>1, <4>1
    <3>3. CASE t # s
      <4>1. wrote'[t] = wrote[t] /\ printed'[t] = printed[t]
        BY <2>1, <3>3 DEF Types, PayloadTypes
      <4> QED BY <3>1, <4>1
    <3> QED BY <3>2, <3>3
  <2>4. main # "spawn" /\ UNCHANGED <<holders, exit, caller>>
    BY <1>1 DEF Write, ProcessOK
  <2> QED BY <2>3, <2>4 DEF ProcessOK, Complete, caller
<1>2. CASE Tick \/ Escape \/ Reap
  BY <1>2 DEF Tick, Escape, Reap, payload, caller, ProcessOK, Complete
<1>3. CASE Fork \/ ChildExit \/ DescendantExit
  <2>1. main # "spawn" /\ UNCHANGED <<wrote, printed, caller>>
    BY <1>3 DEF Fork, ChildExit, DescendantExit, ProcessOK
  <2>2. /\ exit' # "none" => "child" \notin holders'
        /\ status # "none" => exit' = exit
    BY <1>3 DEF Fork, ChildExit, DescendantExit, ProcessOK
  <2> QED BY <2>1, <2>2 DEF caller, ProcessOK, Complete
<1>4. ASSUME NEW s \in Stream, Reading(s) \/ ReadError(s) PROVE ProcessOK'
  <2>1. ReaderStep(s) /\ UNCHANGED Others
    BY <1>4, ReaderSteps DEF Types
  <2>2. reader[s].at # "new"
    BY <2>1 DEF ReaderStep
  <2>3. main # "spawn"
    BY <2>2 DEF ProcessOK
  <2> QED BY <2>1, <2>3 DEF Others, caller, ProcessOK, Complete
<1>5. ASSUME NEW v \in Verdict, Return(v), UNCHANGED <<wrote, printed>>,
             UNCHANGED <<holders, exit>>
               \/ (exit' # "none" /\ "child" \notin holders' /\ (exit # "none" => exit' = exit))
      PROVE  ProcessOK'
  BY <1>5 DEF Return, ProcessOK
<1>6. ASSUME NEW v \in Verdict, Terminate(v) PROVE ProcessOK'
  <2>1. Return(v) /\ UNCHANGED <<wrote, printed>>
    BY <1>6 DEF Terminate
  <2>2. exit' # "none" /\ "child" \notin holders' /\ (exit # "none" => exit' = exit)
    BY <1>6 DEF Terminate
  <2> QED BY <1>5, <2>1, <2>2
<1>7. ASSUME UNCHANGED <<holders, exit, wrote, printed, verdict>>, main # "spawn", main # "returned",
             main' \notin {"spawn", "judge", "returned"}, status' \in {status, exit}
      PROVE  ProcessOK'
  BY <1>7 DEF ProcessOK
<1>8. CASE SpawnBusy
  <2>1. CASE UNCHANGED <<chan, caller>>
    BY <1>8, <2>1 DEF SpawnBusy, payload, caller, ProcessOK, Complete
  <2>2. CASE Return("spawn")
    BY <1>5, <1>8, <2>2 DEF SpawnBusy, payload, Verdict
  <2> QED BY <1>8, <2>1, <2>2 DEF SpawnBusy
<1>9. CASE SpawnError \/ Judge
  BY <1>5, <1>9 DEF SpawnError, Judge, payload, Verdict
<1>10. CASE Spawn
  BY <1>10 DEF Spawn, ProcessOK
<1>11. CASE Poll
  <2>1. CASE Complete /\ main' = "judge" /\ UNCHANGED <<payload, reaped, chan, status, done, output, verdict>>
    BY <1>11, <2>1 DEF Poll, payload, ProcessOK, Complete
  <2>2. CASE status' = exit /\ main' = "clock" /\ UNCHANGED <<payload, chan, done, output, verdict>>
    BY <1>7, <1>11, <2>2 DEF Poll, payload
  <2>3. CASE Terminate("status")
    BY <1>6, <2>3 DEF Verdict
  <2> QED BY <1>11, <2>1, <2>2, <2>3 DEF Poll
<1>12. CASE CheckClock
  <2>1. CASE Terminate("timeout")
    BY <1>6, <2>1 DEF Verdict
  <2>2. CASE ~Terminate("timeout")
    BY <1>7, <1>12, <2>2 DEF CheckClock, payload
  <2> QED BY <2>1, <2>2
<1>13. CASE Receive
  <2>1. CASE Terminate("read") \/ Terminate("limit")
    BY <1>6, <2>1 DEF Verdict
  <2>2. CASE ~(Terminate("read") \/ Terminate("limit"))
    BY <1>7, <1>13, <2>2 DEF Receive, payload
  <2> QED BY <2>1, <2>2
<1>14. CASE ReceiveNothing
  <2>1. CASE Terminate("stopped")
    BY <1>6, <2>1 DEF Verdict
  <2>2. CASE ~Terminate("stopped")
    BY <1>7, <1>14, <2>2 DEF ReceiveNothing, payload
  <2> QED BY <2>1, <2>2
<1> QED BY <1>1, <1>2, <1>3, <1>4, <1>8, <1>9, <1>10, <1>11, <1>12, <1>13, <1>14
        DEF Next, Payload, Calling

LEMMA ReadersStep ==
    ASSUME Types, ReadersOK, Next
    PROVE  ReadersOK'
<1>1. ASSUME NEW s \in Stream, Reading(s) \/ ReadError(s) PROVE ReadersOK'
  <2>0a. ReaderStep(s)
    BY <1>1, ReaderSteps DEF Types
  <2>0b. reader[s].size \in Nat /\ spent \in Nat
    BY ReaderFields, SizeTypes DEF Types, ReaderTypes, Sizes
  <2>0. ReaderStep(s) /\ reader[s].size \in Nat /\ spent \in Nat
    BY <2>0a, <2>0b
  <2>1. spent' \in Nat /\ spent <= spent'
    <3>1. spent' = spent \/ spent' = spent + reader[s].size
      BY <2>0 DEF ReaderStep
    <3> QED BY <2>0, <3>1
  <2>2. /\ reader'[s].at \in {"swap", "send"} => reader'[s].size # 0
        /\ reader'[s].at = "swap" => reader'[s].seen <= spent'
    <3>1. \A n \in 1..Chunk : n # 0
      BY SizeTypes DEF Sizes
    <3>2. reader[s].at \in {"swap", "send"} => reader[s].size # 0
      BY DEF ReadersOK
    <3> QED BY <2>0, <3>1, <3>2 DEF ReaderStep, Becomes
  <2>3. ASSUME NEW t \in Stream, t # s
        PROVE  /\ reader'[t].at \in {"swap", "send"} => reader'[t].size # 0
               /\ reader'[t].at = "swap" => reader'[t].seen <= spent'
    <3>1. reader'[t] = reader[t]
      BY <2>0, <2>3 DEF ReaderStep, Becomes
    <3>2. /\ reader[t].seen \in Nat
          /\ reader[t].at \in {"swap", "send"} => reader[t].size # 0
          /\ reader[t].at = "swap" => reader[t].seen <= spent
      BY ReaderFields, SizeTypes DEF Types, Sizes, ReadersOK
    <3> QED BY <2>0, <2>1, <3>1, <3>2
  <2> QED BY <2>2, <2>3 DEF ReadersOK
<1>2. CASE Spawn
  BY <1>2 DEF Spawn, Types, ReaderTypes, Readers, ReadersOK
<1>3. CASE UNCHANGED <<reader, spent>>
  BY <1>3 DEF ReadersOK
<1> QED BY <1>1, <1>2, <1>3
        DEF Next, Payload, Calling, Tick, Reap, Write, Fork, Escape, ChildExit, DescendantExit,
            SpawnBusy, SpawnError, Poll, CheckClock, Receive, ReceiveNothing, Judge

(***************************************************************************)
(* What the probe promises.                                                *)
(***************************************************************************)

\* Both readers have said that they are at the end and met no limit: all that
\* was written is with the caller.
LEMMA AllHeard ==
    ASSUME Types, Live, main # "returned", done = 2
    PROVE  /\ \A s \in Stream : reader[s].at = "ended"
           /\ chan = <<>> /\ holders = {} /\ output = wrote /\ Total(wrote) <= Limit
<1>0. Numbers /\ TypeOK
  BY NumberTypes, TypeParts
<1>1. Endings = 0 /\ Ended("stdout") = 1 /\ Ended("stderr") = 1
  <2>1. 2 + Endings = Ended("stdout") + Ended("stderr")
    BY DEF Live, EndsTold
  <2>2. Endings \in Nat /\ Ended("stdout") \in 0..1 /\ Ended("stderr") \in 0..1
    BY <1>0 DEF Numbers, Stream
  <2> QED BY <2>1, <2>2
<1>2. \A s \in Stream : reader[s].at = "ended"
  BY <1>1 DEF Ended, Stream
<1>3. chan = <<>>
  BY <1>0, <1>1, <1>2, NoEndings DEF Live, EndsTold
<1>4. ~Limited
  BY <1>2, <1>3 DEF Limited
<1>5. \A s \in Stream : reader[s].ok
  <2>1. DOMAIN chan = {}
    BY <1>3
  <2>2. \A s \in Stream : reader[s].ok \in BOOLEAN
    BY ReaderFields DEF Types
  <2> QED BY <1>2, <2>1, <2>2 DEF Live, EndsTold
<1>6. holders = {} /\ \A s \in Stream : piped[s] = 0
  BY <1>2, <1>4, <1>5 DEF Live, Drained, Stream
<1>7. ASSUME NEW s \in Stream PROVE Queued(s) = 0 /\ Held(s) = 0 /\ Sent(s) = 0
  BY <1>2, <1>3, ChanEmpty DEF Held, Sent
<1>8. ASSUME NEW s \in Stream PROVE output[s] = wrote[s]
  <2>1. output[s] + Queued(s) + Held(s) + piped[s] = wrote[s]
    BY <1>4 DEF Live, Conserved
  <2>2. output[s] \in Nat
    BY <1>0 DEF Numbers
  <2> QED BY <1>6, <1>7, <2>1, <2>2
<1>9. output = wrote
  BY <1>8 DEF Types, PayloadTypes, CallerTypes
<1>10. Total(wrote) <= Limit
  <2>1. spent = Flow("stdout") + Flow("stderr")
    BY <1>0, BudgetFlow DEF Live
  <2>2. Flow("stdout") = wrote["stdout"] /\ Flow("stderr") = wrote["stderr"]
    <3>1. \A s \in Stream : output[s] \in Nat
      BY <1>0 DEF Numbers
    <3> QED BY <1>7, <1>8, <3>1 DEF Flow, Stream
  <2>3. spent <= Limit
    BY SizeTypes DEF Types, ReaderTypes, Sizes
  <2> QED BY <2>1, <2>2, <2>3 DEF Total
<1> QED BY <1>2, <1>3, <1>6, <1>9, <1>10

\* The judgement.
LEMMA JudgeStep ==
    ASSUME Types, ProcessOK, Live, Judge
    PROVE  OutputComplete' /\ VerdictRight'
<1>1. /\ main = "judge" /\ status # "none" /\ status = exit /\ done = 2
      /\ UNCHANGED <<holders, output, wrote, printed, exit>>
      /\ verdict' = IF status # "success" THEN "failed" ELSE IF Mentioned THEN "passed" ELSE "mismatch"
  BY DEF Judge, Return, payload, ProcessOK, Complete
<1>2. holders = {} /\ output = wrote /\ Total(wrote) <= Limit
  BY <1>1, AllHeard
<1>3. Mentioned <=> \E s \in Stream : printed[s] # 0
  <2>1. \A s \in Stream : output[s] >= printed[s]
    <3>1. \A s \in Stream : printed[s] <= wrote[s] /\ printed[s] \in Nat /\ wrote[s] \in Nat
      BY SizeTypes DEF ProcessOK, Types, PayloadTypes, Sizes
    <3> QED BY <1>2, <3>1
  <2> QED BY <2>1 DEF Mentioned
<1>4. OutputComplete'
  BY <1>1, <1>2 DEF OutputComplete
<1>5. status # "success" => exit = "failure"
  BY <1>1 DEF Types, CallerTypes
<1>6. Total(wrote)' = Total(wrote)
  BY <1>1 DEF Total
<1>7. ASSUME status # "success"
      PROVE  VerdictRight'
  BY <1>1, <1>5, <1>7 DEF VerdictRight
<1>8. ASSUME status = "success" /\ Mentioned
      PROVE  VerdictRight'
  BY <1>1, <1>2, <1>3, <1>6, <1>8 DEF VerdictRight
<1>9. ASSUME status = "success" /\ ~Mentioned
      PROVE  VerdictRight'
  BY <1>1, <1>2, <1>3, <1>6, <1>9 DEF VerdictRight
<1> QED BY <1>4, <1>7, <1>8, <1>9

\* A return that is no judgement.
LEMMA GivenUp ==
    ASSUME NEW v, verdict' = v, v \in {"spawn", "status", "timeout", "read"} \/ (v = "limit" /\ Total(wrote)' > Limit)
    PROVE  OutputComplete' /\ VerdictRight'
BY DEF OutputComplete, Judged, VerdictRight

LEMMA PromiseStep ==
    ASSUME Types, Types', ProcessOK, ReadersOK, main # "returned" => Live,
           OutputComplete, VerdictRight, Next
    PROVE  OutputComplete' /\ VerdictRight'
<1>1. CASE main = "returned"
  <2>1. UNCHANGED <<verdict, output>> /\ (holders = {} => holders' = {})
        /\ (exit # "none" => exit' = exit)
    <3>1. ASSUME NEW s \in Stream, Reading(s) \/ ReadError(s) PROVE UNCHANGED <<verdict, output, holders, exit>>
      BY <3>1 DEF Reading, ReadChunk, ReadEof, ReadError, Reserve, SendData, SendLimit, SendDone,
                  Send, payload, caller
    <3>2. CASE Payload \/ Tick \/ Reap
      BY <3>2 DEF Payload, Tick, Reap, Write, Fork, Escape, ChildExit, DescendantExit, payload, caller, ProcessOK
    <3>3. ~Calling
      BY <1>1 DEF Calling, SpawnBusy, SpawnError, Spawn, Poll, CheckClock, Receive, ReceiveNothing, Judge
    <3> QED BY <3>1, <3>2, <3>3 DEF Next
  <2>2. /\ \A s \in Stream : wrote[s] <= wrote'[s]
        /\ holders = {} => UNCHANGED <<wrote, printed>>
    <3>0. \A s \in Stream : wrote[s] \in Nat
      BY SizeTypes DEF Types, PayloadTypes, Sizes
    <3>1. ASSUME NEW s \in Stream, Write(s)
          PROVE  (\A t \in Stream : wrote[t] <= wrote'[t]) /\ holders # {}
      <4>1. PICK n \in 1..PipeSize : wrote' = [wrote EXCEPT ![s] = @ + n]
        BY <3>1 DEF Write
      <4>2. n \in Nat
        BY SizeTypes DEF Sizes
      <4>3. \A t \in Stream : wrote'[t] \in {wrote[t], wrote[t] + n}
        BY <4>1 DEF Types, PayloadTypes
      <4>4. holders # {}
        BY <3>1 DEF Write
      <4> QED BY <3>0, <4>2, <4>3, <4>4
    <3>2. CASE UNCHANGED <<wrote, printed>>
      BY <3>0, <3>2
    <3>3. ASSUME \A s \in Stream : ~Write(s) PROVE UNCHANGED <<wrote, printed>>
      <4>1. ASSUME NEW s \in Stream, Reading(s) \/ ReadError(s) PROVE UNCHANGED <<wrote, printed>>
        BY <4>1 DEF Reading, ReadChunk, ReadEof, ReadError, Reserve, SendData, SendLimit, SendDone,
                    Send, payload
      <4>2. ASSUME Payload \/ Tick \/ Reap PROVE UNCHANGED <<wrote, printed>>
        BY <3>3, <4>2 DEF Payload, Tick, Reap, Fork, Escape, ChildExit, DescendantExit, payload
      <4>3. ~Calling
        BY <1>1 DEF Calling, SpawnBusy, SpawnError, Spawn, Poll, CheckClock, Receive, ReceiveNothing, Judge
      <4> QED BY <4>1, <4>2, <4>3 DEF Next
    <3> QED BY <3>1, <3>2, <3>3
  <2>3. OutputComplete'
    BY <2>1, <2>2 DEF OutputComplete, Judged
  <2>4. Total(wrote) > Limit => Total(wrote)' > Limit
    <3>1. /\ wrote["stdout"] \in Nat /\ wrote["stderr"] \in Nat /\ wrote'["stdout"] \in Nat
          /\ wrote'["stderr"] \in Nat /\ Limit \in Nat
          /\ wrote["stdout"] <= wrote'["stdout"] /\ wrote["stderr"] <= wrote'["stderr"]
      BY <2>2, SizeTypes DEF Types, PayloadTypes, Sizes, Stream
    <3> QED BY <3>1 DEF Total
  <2>5. CASE Judged
    <3>1. UNCHANGED <<wrote, printed, verdict, Total(wrote)>>
      BY <2>1, <2>2, <2>5 DEF OutputComplete, Total
    <3> QED BY <2>1, <2>3, <2>5, <3>1 DEF VerdictRight, Judged
  <2>6. CASE ~Judged
    BY <2>1, <2>3, <2>4, <2>6 DEF VerdictRight, Judged
  <2> QED BY <2>5, <2>6
<1>2. CASE main # "returned"
  <2>0. Live /\ verdict = "none"
    BY <1>2 DEF ProcessOK
  <2>1. CASE verdict' = "none"
    BY <2>1 DEF OutputComplete, Judged, VerdictRight
  <2>2. CASE Judge
    BY <2>0, <2>2, JudgeStep
  <2>3. CASE Receive
    <3>1. CASE Terminate("read")
      BY <3>1, GivenUp DEF Terminate, Return
    <3>2. CASE Head(chan).kind = "limit" /\ Terminate("limit")
      <4>1. 1 \in DOMAIN chan /\ chan[1].kind = "limit"
        BY <2>3, <3>2 DEF Receive, Types, ChanTyped
      <4>2. Total(wrote) > Limit
        BY <2>0, <4>1 DEF Live, Limited
      <4>3. UNCHANGED wrote /\ verdict' = "limit"
        BY <3>2 DEF Terminate, Return
      <4>4. Total(wrote)' > Limit
        BY <4>2, <4>3 DEF Total
      <4> QED BY <4>3, <4>4, GivenUp
    <3>3. CASE ~Terminate("read") /\ ~(Head(chan).kind = "limit" /\ Terminate("limit"))
      BY <2>0, <2>1, <2>3, <3>3 DEF Receive
    <3> QED BY <3>1, <3>2, <3>3
  <2>4. CASE ReceiveNothing
    <3>1. ~(done < 2 /\ \A s \in Stream : reader[s].at = "ended")
      <4> SUFFICES ASSUME done < 2, \A s \in Stream : reader[s].at = "ended" PROVE FALSE
        OBVIOUS
      <4>1. Endings = 0 /\ Ended("stdout") = 1 /\ Ended("stderr") = 1
        BY <2>4, ChanEmpty DEF ReceiveNothing, Ended, Stream
      <4>2. done + Endings = Ended("stdout") + Ended("stderr")
        BY <2>0 DEF Live, EndsTold
      <4>3. done \in Nat
        BY DEF Types, CallerTypes
      <4> QED BY <4>1, <4>2, <4>3
    <3>2. UNCHANGED verdict
      BY <2>4, <3>1 DEF ReceiveNothing
    <3> QED BY <2>0, <2>1, <3>2
  <2>5. CASE SpawnBusy \/ SpawnError
    <3>1. verdict' \in {"none", "spawn"}
      BY <2>0, <2>5 DEF SpawnBusy, SpawnError, Return, caller
    <3> QED BY <2>1, <3>1, GivenUp
  <2>6. CASE Poll \/ CheckClock
    <3>1. verdict' \in {"none", "status", "timeout"}
      BY <2>0, <2>6 DEF Poll, CheckClock, Terminate, Return
    <3> QED BY <2>1, <3>1, GivenUp
  <2>7. CASE Spawn
    BY <2>0, <2>1, <2>7 DEF Spawn
  <2>8. ASSUME NEW s \in Stream, Reading(s) \/ ReadError(s) PROVE verdict' = "none"
    BY <2>0, <2>8 DEF Reading, ReadChunk, ReadEof, ReadError, Reserve, SendData, SendLimit, SendDone,
                      Send, caller
  <2>9. ASSUME Payload \/ Tick \/ Reap PROVE verdict' = "none"
    BY <2>0, <2>9 DEF Payload, Tick, Reap, Write, Fork, Escape, ChildExit, DescendantExit, caller
  <2> QED BY <2>1, <2>2, <2>3, <2>4, <2>5, <2>6, <2>7, <2>8, <2>9 DEF Next, Calling
<1> QED BY <1>1, <1>2

(***************************************************************************)
(* The theorems.                                                           *)
(***************************************************************************)

LEMMA InitInvariant == Init => SInv
<1> SUFFICES ASSUME Init PROVE SInv
  OBVIOUS
<1>1. Types
  <2>1. PayloadTypes
    <3>1. 0 \in 0..MaxOutput /\ 0 \in 0..PipeSize /\ 0 \in 0..Timeout
      BY SizeTypes DEF Sizes
    <3>2. Zero \in [Stream -> 0..MaxOutput] /\ Zero \in [Stream -> 0..PipeSize]
      BY <3>1 DEF Zero
    <3> QED BY <3>1, <3>2 DEF Init, PayloadTypes
  <2>2. ReaderTypes
    BY SizeTypes DEF Init, ReaderTypes, Readers, Places, Sizes
  <2>3. ChanTyped
    BY SizeTypes DEF Init, ChanTyped, Sizes
  <2>4. CallerTypes
    BY SizeTypes DEF Init, Zero, CallerTypes, Sizes
  <2> QED BY <2>1, <2>2, <2>3, <2>4 DEF Types
<1>2. Numbers
  BY <1>1, NumberTypes
<1>3. ProcessOK
  BY DEF Init, Zero, ProcessOK
<1>4. ReadersOK
  BY DEF Init, ReadersOK
<1>5. OutputComplete /\ VerdictRight
  BY DEF Init, OutputComplete, Judged, VerdictRight
<1>6. \A s \in Stream : Queued(s) = 0 /\ Sent(s) = 0 /\ Held(s) = 0 /\ Ended(s) = 0
  BY ChanEmpty DEF Init, Sent, Held, Ended
<1>7. Endings = 0 /\ ~Limited
  BY ChanEmpty DEF Init, Limited
<1>8. \A s \in Stream : output[s] = 0 /\ piped[s] = 0 /\ wrote[s] = 0 /\ reader[s].at = "new"
  BY DEF Init, Zero
<1>9. BudgetExact
  <2>1. Flow("stdout") = 0 /\ Flow("stderr") = 0
    BY <1>6, <1>8 DEF Flow, Stream
  <2> QED BY <1>2, <2>1, BudgetFlow DEF Init
<1>10. Conserved
  BY <1>6, <1>8 DEF Conserved
<1>11. EndsTold
  <2>1. Ended("stdout") = 0 /\ Ended("stderr") = 0 /\ done = 0 /\ chan = <<>>
    BY <1>6 DEF Stream, Init
  <2> QED BY <1>7, <1>8, <2>1 DEF EndsTold
<1>12. Drained
  BY <1>8 DEF Drained
<1>13. Live
  BY <1>7, <1>9, <1>10, <1>11, <1>12 DEF Live
<1> QED BY <1>1, <1>3, <1>4, <1>5, <1>13, TypeParts DEF SInv

LEMMA TypesNext == Types' => TypeOK'
BY TypeParts, PTL

LEMMA NextInvariant == SInv /\ [Next]_vars => SInv'
<1> SUFFICES ASSUME SInv, [Next]_vars PROVE SInv'
  OBVIOUS
<1>0. /\ Types /\ ProcessOK /\ ReadersOK /\ OutputComplete /\ VerdictRight
      /\ main # "returned" => Live
  BY TypeParts DEF SInv
<1>1. CASE Next
  <2>1. Types'
    <3>1. ASSUME NEW s \in Stream, Reading(s) \/ ReadError(s) PROVE Types'
      <4>1. ReaderStep(s) /\ UNCHANGED Others
        BY <1>0, <3>1, ReaderSteps DEF Types
      <4> QED BY <1>0, <4>1, ReaderTypeStep
    <3>2. CASE Payload \/ Tick \/ Reap
      BY <1>0, <3>2, PayloadTypeStep
    <3>3. CASE Calling
      <4>1. main # "returned" => Conserved /\ EndsTold
        BY <1>0 DEF Live
      <4> QED BY <1>0, <3>3, <4>1, CallerTypeStep
    <3> QED BY <1>1, <3>1, <3>2, <3>3 DEF Next
  <2>2. ProcessOK'
    BY <1>0, <1>1, <2>1, ProcessStep
  <2>3. ReadersOK'
    BY <1>0, <1>1, ReadersStep
  <2>4. ASSUME main' # "returned" PROVE Live'
    <3>1. main # "returned"
      <4>1. main = "returned" => main' = main
        BY <1>1 DEF Next, Payload, Reading, Calling, Tick, Reap, Write, Fork, Escape, ChildExit,
             DescendantExit, ReadChunk, ReadEof, ReadError, Reserve, SendData, SendLimit, SendDone, Send,
             SpawnBusy, SpawnError, Spawn, Poll, CheckClock, Receive, ReceiveNothing, Judge, caller
      <4> QED BY <2>4, <4>1
    <3> QED BY <1>0, <1>1, <2>1, <2>4, <3>1, LiveStep
  <2>5. OutputComplete' /\ VerdictRight'
    BY <1>0, <1>1, <2>1, PromiseStep
  <2>6. TypeOK'
    BY <2>1, TypesNext
  <2> QED BY <2>2, <2>3, <2>4, <2>5, <2>6 DEF SInv
<1>2. CASE UNCHANGED vars
  <2>0. UNCHANGED <<now, holders, escaped, exit, wrote, piped, printed, reaped, reader, spent, chan,
                    main, status, done, output, verdict>>
    BY <1>2 DEF vars, payload, caller
  <2>1. Types'
    BY <1>0, <2>0 DEF Types, PayloadTypes, ReaderTypes, ChanTyped, CallerTypes
  <2>2. ProcessOK' /\ ReadersOK'
    BY <1>0, <2>0 DEF ProcessOK, Complete, ReadersOK
  <2>3. OutputComplete' /\ VerdictRight'
    <3>1. Total(wrote)' = Total(wrote)
      BY <2>0 DEF Total
    <3> QED BY <1>0, <2>0, <3>1 DEF OutputComplete, Judged, VerdictRight
  <2>4. ASSUME main' # "returned" PROVE Live'
    <3>1. Numbers /\ Numbers'
      BY <1>0, <2>1, NumberTypes, NumberTypesNext
    <3> QED BY <1>0, <2>0, <2>4, <3>1, LiveFrame
  <2>5. TypeOK'
    BY <2>1, TypesNext
  <2> QED BY <2>2, <2>3, <2>4, <2>5 DEF SInv
<1> QED BY <1>1, <1>2

\* What is true of the probe whatever its threads, the payload and the clock
\* do, from which the rest follows.
THEOREM ProbeInvariant == Spec => []SInv
BY InitInvariant, NextInvariant, PTL DEF Spec

\* Every field of the probe has its type.
THEOREM ProbeTypes == Spec => []TypeOK
<1>1. SInv => TypeOK
  BY DEF SInv
<1> QED BY <1>1, ProbeInvariant, PTL

\* reserve_output charges every chunk exactly once, however the readers race.
THEOREM BudgetIsExact == Spec => []BudgetExact
<1>1. SInv => BudgetExact
  BY DEF SInv, Live, BudgetExact
<1> QED BY <1>1, ProbeInvariant, PTL

\* run_self_test judges the payload by all of its output.
THEOREM OutputIsComplete == Spec => []OutputComplete
<1>1. SInv => OutputComplete
  BY DEF SInv
<1> QED BY <1>1, ProbeInvariant, PTL

\* The result of run_self_test is what the payload deserves.
THEOREM VerdictIsRight == Spec => []VerdictRight
<1>1. SInv => VerdictRight
  BY DEF SInv
<1> QED BY <1>1, ProbeInvariant, PTL
=============================================================================
