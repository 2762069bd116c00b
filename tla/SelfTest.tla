------------------------------ MODULE SelfTest ------------------------------
(***************************************************************************)
(* The probe that runs a staged payload before it is activated             *)
(* (Installation::run_self_test).  The calling thread spawns the payload   *)
(* and two reader threads, one per output pipe; the readers charge what    *)
(* they read to one shared budget and send it over a bounded channel.  All *)
(* of it races the payload, its descendants and the caller's timeout.      *)
(*                                                                         *)
(* Output is counted in bytes; all that matters of its contents is where   *)
(* in a stream the activated version has been printed.                     *)
(***************************************************************************)
EXTENDS Sums

CONSTANTS
    Limit,      \* SELF_TEST_OUTPUT_LIMIT
    Chunk,      \* SELF_TEST_READ_CHUNK
    Slots,      \* capacity of the channel
    PipeSize,   \* what the kernel buffers of one pipe
    MaxOutput,  \* bound: what the payload writes to one stream
    Timeout,    \* config.timeout
    RetryDelay  \* SELF_TEST_BUSY_RETRY_DELAY

Stream == {"stdout", "stderr"}
Verdict == {"passed", "failed", "mismatch", "spawn", "status", "timeout",
            "limit", "read", "stopped"}

ASSUME SizeAssumption ==
    /\ {Limit, MaxOutput, Timeout} \subseteq Nat
    /\ {Chunk, Slots, PipeSize, RetryDelay} \subseteq Nat \ {0}

VARIABLES
    now,        \* started.elapsed()
    holders,    \* the running processes that hold the pipes open for writing
    escaped,    \* the descendant has left the process group of the probe
    exit,       \* the exit status of the payload, "none" while it runs
    reaped,     \* somebody has waited for it
    wrote,      \* bytes written to each stream
    piped,      \* bytes in each pipe
    printed,    \* where in each stream the version was printed, 0 if nowhere
    reader,     \* each reader thread: where it is, what it read, what it loaded
    spent,      \* output_size, the shared budget
    chan,       \* the channel, or what is left of it
    main,       \* where the calling thread is
    status,     \* what try_wait has returned
    done,       \* readers_done
    output,     \* bytes collected of each stream
    verdict     \* how the probe ended, "none" before

payload == <<holders, escaped, exit, wrote, piped, printed>>
caller  == <<main, status, done, output, verdict>>
vars == <<now, payload, reaped, reader, spent, chan, caller>>

Zero == [s \in Stream |-> 0]
Total(f) == f["stdout"] + f["stderr"]
Message == [kind : {"data"}, stream : Stream, size : 1..Chunk]
             \cup [kind : {"done"}, ok : BOOLEAN]
             \cup [kind : {"limit"}]

TypeOK ==
    /\ now \in 0..Timeout
    /\ holders \subseteq {"child", "descendant"}
    /\ escaped \in BOOLEAN
    /\ exit \in {"none", "success", "failure"}
    /\ reaped \in BOOLEAN
    /\ {wrote, printed, output} \subseteq [Stream -> 0..MaxOutput]
    /\ piped \in [Stream -> 0..PipeSize]
    /\ reader \in [Stream -> [at : {"new", "read", "swap", "send", "limit", "done", "ended"},
                              size : 0..Chunk, seen : 0..Limit, ok : BOOLEAN]]
    /\ spent \in 0..Limit
    /\ chan \in Seq(Message) /\ Len(chan) <= Slots
    /\ main \in {"spawn", "poll", "clock", "receive", "judge", "returned"}
    /\ status \in {"none", "success", "failure"}
    /\ done \in 0..2
    /\ verdict \in Verdict \cup {"none"}

Init ==
    /\ now = 0
    /\ holders = {}
    /\ escaped = FALSE
    /\ exit = "none"
    /\ reaped = FALSE
    /\ wrote = Zero /\ piped = Zero /\ printed = Zero
    /\ reader = [s \in Stream |-> [at |-> "new", size |-> 0, seen |-> 0, ok |-> TRUE]]
    /\ spent = 0
    /\ chan = <<>>
    /\ main = "spawn"
    /\ status = "none"
    /\ done = 0
    /\ output = Zero
    /\ verdict = "none"

Tick ==
    /\ now < Timeout
    /\ now' = now + 1
    /\ UNCHANGED <<payload, reaped, reader, spent, chan, caller>>

-----------------------------------------------------------------------------
(* The payload and a descendant it may leave behind.                       *)

Write(s) ==
    /\ holders # {}
    /\ reader[s].at # "ended"
    /\ \E n \in 1..PipeSize :
         /\ piped[s] + n <= PipeSize
         /\ wrote[s] + n <= MaxOutput
         /\ wrote' = [wrote EXCEPT ![s] = @ + n]
         /\ piped' = [piped EXCEPT ![s] = @ + n]
         /\ \/ UNCHANGED printed
            \/ /\ printed[s] = 0
               /\ printed' = [printed EXCEPT ![s] = wrote[s] + n]
    /\ UNCHANGED <<now, holders, escaped, exit, reaped, reader, spent, chan, caller>>

\* A descendant inherits the pipes.
Fork ==
    /\ holders = {"child"}
    /\ holders' = {"child", "descendant"}
    /\ UNCHANGED <<now, escaped, exit, reaped, wrote, piped, printed,
                   reader, spent, chan, caller>>

\* ... and may start a session of its own.
Escape ==
    /\ "descendant" \in holders
    /\ escaped' = TRUE
    /\ UNCHANGED <<now, holders, exit, reaped, wrote, piped, printed,
                   reader, spent, chan, caller>>

ChildExit ==
    /\ "child" \in holders
    /\ holders' = holders \ {"child"}
    /\ exit' \in {"success", "failure"}
    /\ UNCHANGED <<now, escaped, reaped, wrote, piped, printed,
                   reader, spent, chan, caller>>

DescendantExit ==
    /\ "descendant" \in holders
    /\ holders' = holders \ {"descendant"}
    /\ UNCHANGED <<now, escaped, exit, reaped, wrote, piped, printed,
                   reader, spent, chan, caller>>

-----------------------------------------------------------------------------
(* spawn_self_test_reader and reserve_output.                              *)

At(s, l) == reader' = [reader EXCEPT ![s].at = l]

\* The numbers a reader no longer looks at are forgotten.
Forget(s, l) == reader' = [reader EXCEPT ![s].at = l, ![s].size = 0, ![s].seen = 0]

\* The receiver is dropped when run_self_test returns.
Receiving == main # "returned"

ReadChunk(s) ==
    /\ reader[s].at = "read"
    /\ \E n \in 1..Chunk :
         /\ n <= piped[s]
         /\ piped' = [piped EXCEPT ![s] = @ - n]
         /\ reader' = [reader EXCEPT ![s].at = "swap", ![s].size = n, ![s].seen = spent]
    /\ UNCHANGED <<now, holders, escaped, exit, reaped, wrote, printed, spent, chan, caller>>

\* End of file: the pipe is empty and nobody holds it open any more.
ReadEof(s) ==
    /\ reader[s].at = "read"
    /\ piped[s] = 0
    /\ holders = {}
    /\ At(s, "done")
    /\ UNCHANGED <<now, payload, reaped, spent, chan, caller>>

ReadError(s) ==
    /\ reader[s].at = "read"
    /\ reader' = [reader EXCEPT ![s].at = "done", ![s].ok = FALSE]
    /\ UNCHANGED <<now, payload, reaped, spent, chan, caller>>

\* A bug: the total is stored without comparing.
ReserveBlindly(s) ==
    /\ reader[s].at = "swap"
    /\ IF reader[s].seen + reader[s].size > Limit
       THEN Forget(s, "limit") /\ UNCHANGED spent
       ELSE spent' = reader[s].seen + reader[s].size /\ reader' = [reader EXCEPT ![s].at = "send", ![s].seen = 0]
    /\ UNCHANGED <<now, payload, reaped, chan, caller>>

\* A bug: the limit itself is one byte too many.
ReserveBelow(s) ==
    /\ reader[s].at = "swap"
    /\ IF reader[s].seen + reader[s].size >= Limit
       THEN Forget(s, "limit") /\ UNCHANGED spent
       ELSE IF spent = reader[s].seen
       THEN spent' = spent + reader[s].size /\ reader' = [reader EXCEPT ![s].at = "send", ![s].seen = 0]
       ELSE reader' = [reader EXCEPT ![s].seen = spent] /\ UNCHANGED spent
    /\ UNCHANGED <<now, payload, reaped, chan, caller>>

\* One turn of the compare-and-exchange loop.
Reserve(s) ==
    /\ reader[s].at = "swap"
    /\ IF reader[s].seen + reader[s].size > Limit
       THEN Forget(s, "limit") /\ UNCHANGED spent
       ELSE IF spent = reader[s].seen
       THEN spent' = spent + reader[s].size /\ reader' = [reader EXCEPT ![s].at = "send", ![s].seen = 0]
       ELSE reader' = [reader EXCEPT ![s].seen = spent] /\ UNCHANGED spent
    /\ UNCHANGED <<now, payload, reaped, chan, caller>>

\* sender.send blocks while the channel is full, and fails once nobody
\* receives: then the reader thread is at its end.
Send(s, message, next) ==
    /\ IF Receiving
       THEN /\ Len(chan) < Slots
            /\ chan' = Append(chan, message)
            /\ Forget(s, next)
       ELSE Forget(s, "ended") /\ UNCHANGED chan
    /\ UNCHANGED <<now, payload, reaped, spent, caller>>

SendData(s) ==
    /\ reader[s].at = "send"
    /\ Send(s, [kind |-> "data", stream |-> s, size |-> reader[s].size], "read")

SendLimit(s) ==
    /\ reader[s].at = "limit"
    /\ Send(s, [kind |-> "limit"], "done")

SendDone(s) ==
    /\ reader[s].at = "done"
    /\ Send(s, [kind |-> "done", ok |-> reader[s].ok], "ended")

-----------------------------------------------------------------------------
(* run_self_test.                                                          *)

Return(v) ==
    /\ main' = "returned"
    /\ verdict' = v
    /\ chan' = <<>>
    /\ UNCHANGED <<status, done, output>>

\* A bug: only the child is killed.
TerminateChild(v) ==
    /\ Return(v)
    /\ holders' = holders \ {"child"}
    /\ exit' = IF exit = "none" THEN "failure" ELSE exit
    /\ UNCHANGED <<escaped, wrote, piped, printed>>

\* terminate_self_test: the process group is killed, then the child, which a
\* thread of its own is left to wait for.
Terminate(v) ==
    /\ Return(v)
    /\ holders' = IF escaped THEN holders \ {"child"} ELSE {}
    /\ exit' = IF exit = "none" THEN "failure" ELSE exit
    /\ UNCHANGED <<escaped, wrote, piped, printed>>

\* A bug: a busy payload is tried again for as long as it takes.
SpawnBusyForever ==
    /\ main = "spawn"
    /\ now' = now + RetryDelay
    /\ UNCHANGED <<payload, reaped, reader, spent, chan, caller>>

\* ETXTBSY is tried again while the whole delay still fits in the timeout.
SpawnBusy ==
    /\ main = "spawn"
    /\ IF now + RetryDelay < Timeout
       THEN now' = now + RetryDelay /\ UNCHANGED <<chan, caller>>
       ELSE Return("spawn") /\ UNCHANGED now
    /\ UNCHANGED <<payload, reaped, reader, spent>>

SpawnError ==
    /\ main = "spawn"
    /\ Return("spawn")
    /\ UNCHANGED <<now, payload, reaped, reader, spent>>

Spawn ==
    /\ main = "spawn"
    /\ main' = "poll"
    /\ holders' = {"child"}
    /\ reader' = [s \in Stream |-> [reader[s] EXCEPT !.at = "read"]]
    /\ UNCHANGED <<now, escaped, exit, reaped, wrote, piped, printed, spent, chan,
                   status, done, output, verdict>>

\* A bug: the exit alone ends the loop.
CompleteAtExit == status # "none"

\* The loop has seen the exit and the end of both streams.
Complete == status # "none" /\ done = 2

\* The head of the loop, and try_wait.
Poll ==
    /\ main = "poll"
    /\ \/ /\ Complete
          /\ main' = "judge"
          /\ UNCHANGED <<payload, reaped, chan, status, done, output, verdict>>
       \/ /\ ~Complete
          /\ status' = exit
          /\ reaped' = (exit # "none")
          /\ main' = "clock"
          /\ UNCHANGED <<payload, chan, done, output, verdict>>
       \/ /\ status = "none"
          /\ Terminate("status")
          /\ UNCHANGED reaped
    /\ UNCHANGED <<now, reader, spent>>

CheckClock ==
    /\ main = "clock"
    /\ IF now >= Timeout
       THEN Terminate("timeout")
       ELSE /\ main' = "receive"
            /\ UNCHANGED <<payload, chan, status, done, output, verdict>>
    /\ UNCHANGED <<now, reaped, reader, spent>>

Receive ==
    /\ main = "receive"
    /\ chan # <<>>
    /\ LET m == Head(chan)
       IN  \/ /\ m.kind = "data"
              /\ output' = [output EXCEPT ![m.stream] = @ + m.size]
              /\ chan' = Tail(chan)
              /\ main' = "poll"
              /\ UNCHANGED <<payload, status, done, verdict>>
           \/ /\ m.kind = "done" /\ m.ok
              /\ done' = done + 1
              /\ chan' = Tail(chan)
              /\ main' = "poll"
              /\ UNCHANGED <<payload, status, output, verdict>>
           \/ /\ m.kind = "done" /\ ~m.ok
              /\ Terminate("read")
           \/ /\ m.kind = "limit"
              /\ Terminate("limit")
    /\ UNCHANGED <<now, reaped, reader, spent>>

\* A bug: recv has no timeout.
ReceiveForever ==
    /\ main = "receive"
    /\ chan = <<>>
    /\ \A s \in Stream : reader[s].at = "ended"
    /\ main' = "poll"
    /\ UNCHANGED <<now, payload, reaped, reader, spent, chan, status, done, output, verdict>>

\* recv_timeout found nothing, or both senders gone.
ReceiveNothing ==
    /\ main = "receive"
    /\ chan = <<>>
    /\ IF done < 2 /\ \A s \in Stream : reader[s].at = "ended"
       THEN Terminate("stopped")
       ELSE /\ main' = "poll"
            /\ UNCHANGED <<payload, chan, status, done, output, verdict>>
    /\ UNCHANGED <<now, reaped, reader, spent>>

Mentioned == \E s \in Stream : printed[s] # 0 /\ output[s] >= printed[s]

Judge ==
    /\ main = "judge"
    /\ Return(IF status # "success" THEN "failed"
              ELSE IF Mentioned THEN "passed" ELSE "mismatch")
    /\ UNCHANGED <<now, payload, reaped, reader, spent>>

\* The thread that terminate_self_test leaves behind.
Reap ==
    /\ main = "returned"
    /\ exit # "none"
    /\ ~reaped
    /\ reaped' = TRUE
    /\ UNCHANGED <<now, payload, reader, spent, chan, caller>>

-----------------------------------------------------------------------------
Reading(s) ==
    \/ ReadChunk(s)
    \/ ReadEof(s)
    \/ Reserve(s)
    \/ SendData(s)
    \/ SendLimit(s)
    \/ SendDone(s)

Calling ==
    \/ SpawnBusy
    \/ SpawnError
    \/ Spawn
    \/ Poll
    \/ CheckClock
    \/ Receive
    \/ ReceiveNothing
    \/ Judge

Payload == (\E s \in Stream : Write(s)) \/ Fork \/ Escape \/ ChildExit \/ DescendantExit

Next ==
    \/ Tick
    \/ Payload
    \/ \E s \in Stream : Reading(s) \/ ReadError(s)
    \/ Calling
    \/ Reap

Spec == Init /\ [][Next]_vars

\* Time passes and the threads run; the payload owes nothing, and a read that
\* waits for it need not fail.
Fairness ==
    /\ WF_vars(Tick)
    /\ WF_vars(Calling)
    /\ WF_vars(Reap)
    /\ \A s \in Stream : WF_vars(Reading(s))

FairSpec == Spec /\ Fairness

-----------------------------------------------------------------------------
(* What the probe promises.                                                *)

Judged == verdict \in {"passed", "failed", "mismatch"}

\* Bytes of s in the channel, and with what its reader is about to send.
Charge(m, s) == IF m.kind = "data" /\ m.stream = s THEN m.size ELSE 0
Queued(s) == SumSeq([i \in DOMAIN chan |-> Charge(chan[i], s)])
InFlight(s) == Queued(s) + IF reader[s].at = "send" THEN reader[s].size ELSE 0

\* However the two readers interleave in reserve_output, the budget is exactly
\* what they have taken out of the pipes and handed on: no charge is lost and
\* none is made twice, so the caller never holds more than the limit.
BudgetExact ==
    main # "returned" =>
        spent = Total(output) + InFlight("stdout") + InFlight("stderr")

\* A verdict on the payload is one on all it and its descendants ever wrote:
\* nothing is still in a pipe, in the channel or about to be written.
OutputComplete == Judged => holders = {} /\ output = wrote

\* Each verdict is about what the payload did, whatever raced with it.
VerdictRight ==
    /\ verdict = "failed" => exit = "failure"
    /\ verdict \in {"passed", "mismatch"} => exit = "success" /\ Total(wrote) <= Limit
    /\ verdict = "passed" <=> verdict \in {"passed", "mismatch"} /\ \E s \in Stream : printed[s] # 0
    /\ verdict = "limit" => Total(wrote) > Limit
    /\ verdict # "stopped"

\* The timeout bounds the whole probe, also against a payload that never
\* exits, floods its output, or leaves a descendant with the pipes.
ProbeReturns == <>(main = "returned")

\* Once the probe has returned its threads end and its child is reaped,
\* unless a descendant has escaped the process group with the pipes.
NothingLeftBehind ==
    main = "returned" ~>
        \/ escaped
        \/ /\ \A s \in Stream : reader[s].at \in {"new", "ended"}
           /\ exit # "none" => reaped

=============================================================================
