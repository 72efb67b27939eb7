----------------------------- MODULE SdkTracer ------------------------------
(***************************************************************************)
(* The Python SDK's LLMTracer and HttpTransport in one asyncio event loop: *)
(* the application records spans, a background task flushes them, and      *)
(* shutdown (or the atexit hook) flushes what is left.  Code between two   *)
(* awaits is one action.  The background task and shutdown never flush at  *)
(* the same time, because shutdown first cancels the task and waits for    *)
(* it, so there is at most one batch in flight.                            *)
(*                                                                         *)
(* The ingest endpoint is external; it is modelled by the outcomes of one  *)
(* POST that send_batch tells apart.                                       *)
(***************************************************************************)
EXTENDS Integers, Sequences, FiniteSets, SequencesExt

CONSTANTS
    MaxSpans,     \* bound: how many spans the application records
    BufferSize,   \* buffer_size, the deque's maxlen
    MaxBatch,     \* most spans the ingest API accepts in one request
    MaxAttempts,  \* HttpTransport.MAX_ATTEMPTS
    Faults        \* a subset of {"unexpected", "exit", "reject", "midsend"}

ASSUME SdkAssumption ==
    /\ {MaxSpans, BufferSize, MaxBatch, MaxAttempts} \subseteq Nat \ {0}
    /\ Faults \subseteq {"unexpected", "exit", "reject", "midsend"}

VARIABLES
    recorded,    \* spans recorded so far; they are numbered 1, 2, ...
    buffer,      \* _buffer
    pending,     \* _pending_batches
    pendingSpans,\* _pending_spans
    inflight,    \* << >> or the batch that _flush has popped
    attempt,     \* attempts made for it in this send_batch
    loop,        \* the flush task: "none", "sleep", "send", "ended"
    phase,       \* "open", "flushing" (in shutdown), "closed", "exiting", "exited"
    counters,    \* dropped_spans and final_delivery_failures (failed_flushes
                 \* only grows and nothing reads it: left out)
    delivered,   \* spans the API has accepted (history)
    keysOf,      \* idempotency keys each span was sent under (history)
    overflowed,  \* spans the full deque dropped (history)
    discarded,   \* spans dropped by shutdown(flush=False) (history)
    lost         \* spans that left the tracer in any other way (history)

tracer == <<buffer, pending, pendingSpans, counters>>
history == <<delivered, keysOf, overflowed, discarded, lost>>
vars == <<recorded, tracer, inflight, attempt, loop, phase, history>>

-----------------------------------------------------------------------------
(* A flush batch is identified by its first span: its key is generated when *)
(* the buffer is drained, and drained spans never return to the buffer.     *)
SpansIn(b) == ToSet(b.spans)
Waiting == ToSet(buffer) \cup UNION {SpansIn(b) : b \in ToSet(pending)}
InFlight == UNION {SpansIn(b) : b \in ToSet(inflight)}

Spans == 1 .. MaxSpans
Batch == [key : Spans, spans : Seq(Spans)]

TypeOK ==
    /\ recorded \in 0 .. MaxSpans
    /\ buffer \in Seq(Spans) /\ Len(buffer) <= BufferSize
    /\ pending \in Seq(Batch)
    /\ pendingSpans \in 0 .. MaxSpans
    /\ inflight \in Seq(Batch) /\ Len(inflight) <= 1
    /\ attempt \in 0 .. MaxAttempts - 1
    /\ loop \in {"none", "sleep", "send", "ended"}
    /\ phase \in {"open", "flushing", "closed", "exiting", "exited"}
    /\ counters \in [dropped : Nat, final : Nat]
    /\ keysOf \in [Spans -> SUBSET Spans]
    /\ delivered \cup overflowed \cup discarded \cup lost \subseteq Spans

Init ==
    /\ recorded = 0
    /\ buffer = << >> /\ pending = << >> /\ pendingSpans = 0
    /\ inflight = << >> /\ attempt = 0
    /\ loop = "none" /\ phase = "open"
    /\ counters = [dropped |-> 0, final |-> 0]
    /\ delivered = {} /\ overflowed = {} /\ discarded = {} /\ lost = {}
    /\ keysOf = [s \in Spans |-> {}]

-----------------------------------------------------------------------------
(* record: append to the deque, which drops its oldest span when it is full. *)
(* Nothing stops the application from recording after shutdown.              *)
Record ==
    LET full == Len(buffer) >= BufferSize IN
    /\ recorded < MaxSpans /\ phase # "exited"
    /\ recorded' = recorded + 1
    /\ buffer' = Append(IF full THEN Tail(buffer) ELSE buffer, recorded + 1)
    /\ counters' = [counters EXCEPT !.dropped = IF full THEN @ + 1 ELSE @]
    /\ overflowed' = IF full THEN overflowed \cup {Head(buffer)} ELSE overflowed
    /\ UNCHANGED <<pending, pendingSpans, inflight, attempt, loop, phase,
                   delivered, keysOf, discarded, lost>>

(* start: create the flush task unless one is running.  The application, and *)
(* the start that init schedules, do not run it while shutdown awaits.       *)
Start ==
    /\ phase = "open" /\ loop \in {"none", "ended"}
    /\ loop' = "sleep"
    /\ UNCHANGED <<recorded, tracer, inflight, attempt, phase, history>>

HasBufferedSpans == Len(buffer) > 0 \/ pendingSpans > 0

(* Seeded fault: the buffer goes ahead of the failed batch. *)
PopNextFlushBatch_NewestFirst ==
    IF buffer # << >>
      THEN /\ inflight' = <<[key |-> Head(buffer), spans |-> buffer]>>
           /\ buffer' = << >>
           /\ UNCHANGED <<pending, pendingSpans>>
      ELSE /\ inflight' = <<Head(pending)>>
           /\ pending' = Tail(pending)
           /\ pendingSpans' = pendingSpans - Len(Head(pending).spans)
           /\ UNCHANGED buffer

(* Seeded fault: the failed batch's spans stay in the count. *)
PopNextFlushBatch_KeepsCount ==
    IF pending # << >>
      THEN /\ inflight' = <<Head(pending)>>
           /\ pending' = Tail(pending)
           /\ UNCHANGED <<buffer, pendingSpans>>
      ELSE /\ inflight' = <<[key |-> Head(buffer), spans |-> buffer]>>
           /\ buffer' = << >>
           /\ UNCHANGED <<pending, pendingSpans>>

(* _pop_next_flush_batch: the failed batch first, else the whole buffer under *)
(* a fresh idempotency key.                                                   *)
PopNextFlushBatch ==
    IF pending # << >>
      THEN /\ inflight' = <<Head(pending)>>
           /\ pending' = Tail(pending)
           /\ pendingSpans' = pendingSpans - Len(Head(pending).spans)
           /\ UNCHANGED buffer
      ELSE /\ inflight' = <<[key |-> Head(buffer), spans |-> buffer]>>
           /\ buffer' = << >>
           /\ UNCHANGED <<pending, pendingSpans>>

(* The flush task wakes up and pops a batch (with nothing to pop it sleeps    *)
(* again); shutdown and the atexit hook do the same until nothing is left.    *)
BeginFlush ==
    /\ inflight = << >> /\ (pending # << >> \/ buffer # << >>)
    /\ \/ loop = "sleep" /\ phase = "open" /\ loop' = "send"
       \/ phase \in {"flushing", "exiting"} /\ UNCHANGED loop
    /\ PopNextFlushBatch
    /\ attempt' = 0
    /\ UNCHANGED <<recorded, counters, phase, history>>

(* The batch leaves _flush; the flush task sleeps again. *)
EndFlush(p) ==
    /\ inflight' = << >>
    /\ attempt' = 0
    /\ loop' = IF loop = "send" THEN "sleep" ELSE loop
    /\ phase' = p

Sent == LET b == inflight[1] IN
    keysOf' = [s \in Spans |-> IF s \in SpansIn(b) THEN keysOf[s] \cup {b.key}
                                                   ELSE keysOf[s]]

(* A POST without a usable answer: the API may or may not have accepted. *)
Unanswered ==
    /\ Sent
    /\ \/ UNCHANGED delivered
       \/ /\ Len(inflight[1].spans) <= MaxBatch
          /\ delivered' = delivered \cup InFlight

(* The API accepts the batch and the SDK sees the 202. *)
SendOk ==
    /\ inflight # << >>
    /\ Len(inflight[1].spans) <= MaxBatch
    /\ Sent
    /\ delivered' = delivered \cup InFlight
    /\ EndFlush(phase)
    /\ UNCHANGED <<recorded, tracer, overflowed, discarded, lost>>

(* Seeded fault: a failed batch is not kept. *)
PushFailedBatch_Forgets ==
    /\ counters' = [counters EXCEPT !.final = IF phase = "flushing" THEN @ + 1 ELSE @]
    /\ UNCHANGED <<pending, pendingSpans>>

(* Seeded fault: the batch gets a new idempotency key. *)
PushFailedBatch_NewKey ==
    /\ pending' = <<[inflight[1] EXCEPT !.key = Last(inflight[1].spans)]>> \o pending
    /\ pendingSpans' = pendingSpans + Len(inflight[1].spans)
    /\ UNCHANGED counters

(* _flush after an unsuccessful send_batch: push the batch back; in shutdown *)
(* the loop ends and the failure is counted as final.                        *)
PushFailedBatch ==
    /\ pending' = inflight \o pending
    /\ pendingSpans' = pendingSpans + Len(inflight[1].spans)
    /\ counters' = [counters EXCEPT !.final = IF phase = "flushing" THEN @ + 1 ELSE @]

AfterFailure == CASE phase = "flushing" -> "closed"
                  [] phase = "exiting" -> "exited"
                  [] OTHER -> phase

(* 429, or another 4xx (an oversized batch always gets a 422): send_batch *)
(* gives up at once.                                                      *)
SendRejected ==
    /\ inflight # << >>
    /\ "reject" \in Faults \/ Len(inflight[1].spans) > MaxBatch
    /\ Sent
    /\ PushFailedBatch
    /\ EndFlush(AfterFailure)
    /\ UNCHANGED <<recorded, buffer, delivered, overflowed, discarded, lost>>

CanRetry == attempt < MaxAttempts - 1

(* 5xx, a connection error or a timeout: sleep and try again, give up after *)
(* MAX_ATTEMPTS.                                                            *)
SendRetryable ==
    /\ inflight # << >>
    /\ Unanswered
    /\ \/ /\ CanRetry
          /\ attempt' = attempt + 1
          /\ UNCHANGED <<inflight, loop, phase, pending, pendingSpans, counters>>
       \/ /\ ~CanRetry
          /\ PushFailedBatch
          /\ EndFlush(AfterFailure)
    /\ UNCHANGED <<recorded, buffer, overflowed, discarded, lost>>

(* Any other httpx error (ReadError, RemoteProtocolError, ...) is not caught: *)
(* it ends the flush task, or leaves shutdown, with the batch popped.  The    *)
(* atexit hook swallows it.                                                   *)
SendUnexpected ==
    /\ "unexpected" \in Faults
    /\ inflight # << >>
    /\ Unanswered
    /\ inflight' = << >> /\ attempt' = 0
    /\ lost' = lost \cup InFlight
    /\ loop' = IF loop = "send" THEN "ended" ELSE loop
    /\ phase' = CASE phase = "flushing" -> "open"
                  [] phase = "exiting" -> "exited"
                  [] OTHER -> phase
    /\ UNCHANGED <<recorded, tracer, overflowed, discarded>>

(* The flush task is cancelled where it awaits.  A task that is sending has *)
(* popped its batch, which is gone with the task, answered or not.          *)
CancelFlush ==
    /\ loop' = IF loop = "none" THEN "none" ELSE "ended"
    /\ inflight' = << >> /\ attempt' = 0
    /\ lost' = lost \cup InFlight
    /\ IF inflight = << >> THEN UNCHANGED <<delivered, keysOf>> ELSE Unanswered

(* shutdown: cancel the flush task, then flush.  Without flush the buffers *)
(* are cleared and the tracer closes.                                      *)
Shutdown(flush) ==
    /\ phase = "open"
    /\ inflight # << >> => "midsend" \in Faults
    /\ CancelFlush
    /\ IF flush
         THEN /\ phase' = "flushing"
              /\ UNCHANGED <<buffer, pending, pendingSpans, discarded>>
         ELSE /\ phase' = "closed"
              /\ buffer' = << >> /\ pending' = << >> /\ pendingSpans' = 0
              /\ discarded' = discarded \cup Waiting
    /\ UNCHANGED <<recorded, counters, overflowed>>

(* Nothing is left to flush: shutdown closes the client, atexit returns. *)
FlushedAll ==
    /\ phase \in {"flushing", "exiting"} /\ inflight = << >> /\ ~HasBufferedSpans
    /\ phase' = IF phase = "flushing" THEN "closed" ELSE "exited"
    /\ UNCHANGED <<recorded, tracer, inflight, attempt, loop, history>>

(* The process ends.  asyncio.run cancels the flush task; the atexit hook then *)
(* flushes an open tracer unless its event loop is closed.                     *)
Exit ==
    /\ "exit" \in Faults
    /\ phase \in {"open", "closed"}
    /\ phase' \in IF phase = "open" THEN {"exiting", "exited"} ELSE {"exited"}
    /\ CancelFlush
    /\ UNCHANGED <<recorded, tracer, overflowed, discarded>>

-----------------------------------------------------------------------------
SendStep == SendOk \/ SendRejected \/ SendRetryable \/ SendUnexpected

Next ==
    \/ Record \/ Start \/ BeginFlush \/ SendStep
    \/ \E flush \in BOOLEAN : Shutdown(flush)
    \/ FlushedAll \/ Exit

(* The event loop keeps running its tasks, and every POST ends, at the latest *)
(* with the client's timeout.                                                 *)
Fairness == WF_vars(BeginFlush) /\ WF_vars(SendStep) /\ WF_vars(FlushedAll)

Spec == Init /\ [][Next]_vars /\ Fairness

(* With an API that in the end accepts a batch it is able to accept. *)
SpecWilling == Spec /\ SF_vars(SendOk)

-----------------------------------------------------------------------------
(* No span vanishes: everything recorded is waiting, in flight, accepted by *)
(* the API, or was taken out by one of the three ways the tracer has to     *)
(* drop spans.  The diagnostics say so: dropped_spans counts the overflow   *)
(* and pending_spans, kept by increments on both sides of an await, the     *)
(* spans of failed batches, so that shutdown's loop ends when none is left. *)
SpansAreAccounted ==
    /\ 1 .. recorded = Waiting \cup InFlight \cup delivered \cup overflowed
                         \cup discarded \cup lost
    /\ counters.dropped = Cardinality(overflowed)
    /\ pendingSpans = Cardinality(UNION {SpansIn(b) : b \in ToSet(pending)})

(* A span is never sent under two idempotency keys, through retries, failed  *)
(* flushes and shutdown, so the API can recognise every repetition.          *)
OneKeyPerSpan == \A s \in Spans : Cardinality(keysOf[s]) <= 1

(* Failed batches retry before newer spans: no span is accepted while an     *)
(* older span that the tracer still holds has not been.                      *)
DeliveredInOrder ==
    \A s \in (Waiting \cup InFlight) \ delivered : \A t \in delivered : t < s

(* shutdown, and the atexit hook, come to an end: their loop runs while       *)
(* _has_buffered_spans, which looks at the count of pending spans and not at  *)
(* the batches, and _flush reports success when there is nothing to pop.  The *)
(* application may go on to record meanwhile, but not for ever (MaxSpans).    *)
ShutdownEnds == phase \in {"flushing", "exiting"} ~> phase \notin {"flushing", "exiting"}

(* "Long-running services can rely on the background transport."  A running  *)
(* flush task gets every span delivered, or it is dropped from a full buffer, *)
(* if the API accepts what it is able to accept; unless the task dies of an  *)
(* uncaught error or the tracer is shut down.                                *)
EventuallyDelivered ==
    \A s \in Spans : (s \in Waiting /\ loop = "sleep") ~>
        (s \in delivered \cup overflowed \/ loop = "ended" \/ phase # "open")
=============================================================================
