------------------------------- MODULE Outbox -------------------------------
(***************************************************************************)
(* The span outbox: process_span_batch commits one outbox_events row per   *)
(* inserted span, deliver_span_outbox_events claims rows and publishes     *)
(* them to Redis Pub/Sub.  Delivery tasks come from the batch that         *)
(* committed the rows, from the retry middleware and, where the scheduler  *)
(* loads the task, from cron.                                              *)
(*                                                                         *)
(* One action per statement of the delivery task that other tasks can see: *)
(* the claim transaction, a publish, a mark.                               *)
(***************************************************************************)
EXTENDS Integers, FiniteSets

CONSTANTS
    Events,       \* outbox rows, one per inserted span
    Workers,      \* concurrent executions of deliver_span_outbox_events
    MaxAttempts,  \* OUTBOX_MAX_ATTEMPTS
    MaxRetries,   \* max_retries of the task: executions of one message
    Limit,        \* rows per claim
    Scheduled,    \* the scheduler process has loaded the task's cron label
    Faults        \* a subset of {"publish", "kiq", "db", "crash"}

ASSUME OutboxAssumption ==
    /\ IsFiniteSet(Events)
    /\ MaxAttempts \in Nat \ {0}
    /\ MaxRetries \in Nat \ {0}
    /\ Limit \in Nat \ {0}
    /\ Scheduled \in BOOLEAN
    /\ Faults \subseteq {"publish", "kiq", "db", "crash"}

VARIABLES
    status,     \* status column, or "ABSENT" before the row is committed
    attempts,   \* attempts column
    ready,      \* available_at <= now()
    created,    \* created_at, as the number of the inserting transaction
    published,  \* how often the row's message reached Redis Pub/Sub (history)
    queue,      \* delivery messages waiting, by their _retries label
    wpc,        \* where each delivery task stands
    claim,      \* rows the task claimed and has not finished
    cur,        \* the row the task works on
    tries       \* the _retries label of the message the task runs

rows == <<status, attempts, ready, created>>
local == <<wpc, claim, cur, tries>>
vars == <<rows, published, queue, local>>

-----------------------------------------------------------------------------
Statuses == {"ABSENT", "PENDING", "PROCESSING", "DELIVERED", "FAILED"}

TypeOK ==
    /\ status \in [Events -> Statuses]
    /\ attempts \in [Events -> 0 .. MaxAttempts]
    /\ ready \in [Events -> BOOLEAN]
    /\ created \in [Events -> Nat]
    /\ published \in [Events -> Nat]
    /\ queue \in [0 .. MaxRetries - 1 -> Nat]
    /\ wpc \in [Workers -> {"idle", "publish", "markDelivered", "markFailed"}]
    /\ claim \in [Workers -> SUBSET Events]
    /\ cur \in [Workers -> SUBSET Events]
    /\ tries \in [Workers -> 0 .. MaxRetries - 1]

Init ==
    /\ status = [e \in Events |-> "ABSENT"]
    /\ attempts = [e \in Events |-> 0]
    /\ ready = [e \in Events |-> TRUE]
    /\ created = [e \in Events |-> 0]
    /\ published = [e \in Events |-> 0]
    /\ queue = [n \in 0 .. MaxRetries - 1 |-> 0]
    /\ wpc = [w \in Workers |-> "idle"]
    /\ claim = [w \in Workers |-> {}]
    /\ cur = [w \in Workers |-> {}]
    /\ tries = [w \in Workers |-> 0]

-----------------------------------------------------------------------------
(* Seeded fault: a claim also takes rows that are being processed. *)
Claimable_Processing(e) ==
    /\ status[e] \in {"PENDING", "FAILED", "PROCESSING"}
    /\ attempts[e] < MaxAttempts
    /\ ready[e]

(* The WHERE clause of claim_pending. *)
Claimable(e) ==
    /\ status[e] \in {"PENDING", "FAILED"}
    /\ attempts[e] < MaxAttempts
    /\ ready[e]

(* ORDER BY created_at LIMIT: a largest set of oldest claimable rows (rows of *)
(* one transaction share their created_at).                                   *)
IsClaim(S) ==
    LET eligible == {e \in Events : Claimable(e)} IN
    /\ S \subseteq eligible
    /\ Cardinality(S) <= Limit
    /\ S = eligible \/ Cardinality(S) = Limit
    /\ \A e \in S, f \in eligible \ S : created[e] <= created[f]

ClaimRows(S) ==
    /\ status' = [e \in Events |-> IF e \in S THEN "PROCESSING" ELSE status[e]]
    /\ attempts' = [e \in Events |-> IF e \in S THEN attempts[e] + 1 ELSE attempts[e]]
    /\ UNCHANGED <<ready, created>>

DeliverRow(e) ==
    /\ status' = [status EXCEPT ![e] = "DELIVERED"]
    /\ UNCHANGED <<attempts, ready, created>>

(* Seeded fault: a failed publish gives its attempt back. *)
FailRow_Refunds(e) ==
    /\ status' = [status EXCEPT ![e] = "PENDING"]
    /\ attempts' = [attempts EXCEPT ![e] = @ - 1]
    /\ ready' = [ready EXCEPT ![e] = FALSE]
    /\ UNCHANGED created

(* mark_failed: FAILED at the attempt limit, otherwise PENDING after a backoff. *)
FailRow(e) ==
    /\ status' = [status EXCEPT ![e] =
                    IF attempts[e] >= MaxAttempts THEN "FAILED" ELSE "PENDING"]
    /\ ready' = [ready EXCEPT ![e] = FALSE]
    /\ UNCHANGED <<attempts, created>>

-----------------------------------------------------------------------------
Push(q, n) == [q EXCEPT ![n] = @ + 1]
Pop(q, n) == [q EXCEPT ![n] = @ - 1]

Release(w) ==
    /\ wpc' = [wpc EXCEPT ![w] = "idle"]
    /\ claim' = [claim EXCEPT ![w] = {}]
    /\ cur' = [cur EXCEPT ![w] = {}]

(* DLQRetryMiddleware.on_error: the same message again with _retries + 1 (an  *)
(* enqueue that may itself raise) or, after the last execution, the dead      *)
(* letter queue.                                                              *)
Raise(w, n, q) ==
    /\ Release(w)
    /\ \/ queue' = IF n + 1 < MaxRetries THEN Push(q, n + 1) ELSE q
       \/ "kiq" \in Faults /\ queue' = q
    /\ UNCHANGED tries

(* process_span_batch commits the rows E of its inserted spans and enqueues a *)
(* delivery for the project; an enqueue error is logged and ignored, and a    *)
(* crash in between looks the same.                                           *)
CommitSpans(E) ==
    /\ E # {}
    /\ \A e \in E : status[e] = "ABSENT"
    /\ status' = [e \in Events |-> IF e \in E THEN "PENDING" ELSE status[e]]
    /\ created' = [e \in Events |->
                     IF e \in E THEN Cardinality({f \in Events : status[f] # "ABSENT"})
                                ELSE created[e]]
    /\ \/ queue' = Push(queue, 0)
       \/ "kiq" \in Faults /\ UNCHANGED queue
    /\ UNCHANGED <<attempts, ready, published, local>>

(* The scheduler enqueues a delivery every minute.  A tick that finds a     *)
(* delivery waiting adds no claim that the waiting one would not make, so   *)
(* ticks are bounded to an empty queue.                                     *)
CronTick ==
    /\ Scheduled
    /\ \A n \in DOMAIN queue : queue[n] = 0
    /\ queue' = Push(queue, 0)
    /\ UNCHANGED <<rows, published, local>>

(* A worker takes a message and runs the claim transaction. *)
StartDelivery(w, n, S) ==
    /\ wpc[w] = "idle"
    /\ queue[n] > 0
    /\ IsClaim(S)
    /\ ClaimRows(S)
    /\ queue' = Pop(queue, n)
    /\ wpc' = [wpc EXCEPT ![w] = IF S = {} THEN "idle" ELSE "publish"]
    /\ claim' = [claim EXCEPT ![w] = S]
    /\ tries' = [tries EXCEPT ![w] = n]
    /\ UNCHANGED <<published, cur>>

(* redis.publish of the next claimed row succeeds, or raises (whether or not *)
(* Redis saw the message).                                                   *)
Publish(w, e) ==
    /\ wpc[w] = "publish"
    /\ e \in claim[w]
    /\ cur' = [cur EXCEPT ![w] = {e}]
    /\ \/ /\ published' = [published EXCEPT ![e] = @ + 1]
          /\ wpc' = [wpc EXCEPT ![w] = "markDelivered"]
       \/ /\ "publish" \in Faults
          /\ published' \in {published, [published EXCEPT ![e] = @ + 1]}
          /\ wpc' = [wpc EXCEPT ![w] = "markFailed"]
    /\ UNCHANGED <<rows, queue, claim, tries>>

(* The publish failed: mark_failed, then the exception leaves the task and   *)
(* with it the loop over the other claimed rows.                             *)
MarkFailed(w, e) ==
    /\ wpc[w] = "markFailed"
    /\ e \in cur[w]
    /\ FailRow(e)
    /\ Raise(w, tries[w], queue)
    /\ UNCHANGED published

(* mark_delivered, then the next row or the end of the task. *)
MarkDelivered(w, e) ==
    /\ wpc[w] = "markDelivered"
    /\ e \in cur[w]
    /\ DeliverRow(e)
    /\ claim' = [claim EXCEPT ![w] = @ \ {e}]
    /\ cur' = [cur EXCEPT ![w] = {}]
    /\ wpc' = [wpc EXCEPT ![w] = IF claim[w] = {e} THEN "idle" ELSE "publish"]
    /\ UNCHANGED <<published, queue, tries>>

(* The backoff of a failed row is over. *)
BackoffElapses(e) ==
    /\ ~ready[e]
    /\ ready' = [ready EXCEPT ![e] = TRUE]
    /\ UNCHANGED <<status, attempts, created, published, queue, local>>

-----------------------------------------------------------------------------
(* The claim transaction raises: rolled back, or committed with its reply lost. *)
ClaimError(w, n, S) ==
    /\ "db" \in Faults
    /\ wpc[w] = "idle"
    /\ queue[n] > 0
    /\ IsClaim(S)
    /\ ClaimRows(S) \/ UNCHANGED rows
    /\ Raise(w, n, Pop(queue, n))
    /\ UNCHANGED published

(* mark_delivered or mark_failed raises, with or without effect. *)
MarkError(w, e) ==
    /\ "db" \in Faults
    /\ e \in cur[w]
    /\ \/ wpc[w] = "markDelivered" /\ (DeliverRow(e) \/ UNCHANGED rows)
       \/ wpc[w] = "markFailed" /\ (FailRow(e) \/ UNCHANGED rows)
    /\ Raise(w, tries[w], queue)
    /\ UNCHANGED published

(* The worker process dies.  The message was popped from the Redis list when *)
(* it was received, so nothing runs it again.                                *)
CrashWorker(w) ==
    /\ "crash" \in Faults
    /\ wpc[w] # "idle"
    /\ Release(w)
    /\ UNCHANGED <<rows, published, queue, tries>>

-----------------------------------------------------------------------------
DeliveryStep(w) ==
    \/ \E n \in 0 .. MaxRetries - 1, S \in SUBSET Events : StartDelivery(w, n, S)
    \/ \E e \in Events : Publish(w, e) \/ MarkDelivered(w, e) \/ MarkFailed(w, e)

FaultStep(w) ==
    \/ \E n \in 0 .. MaxRetries - 1, S \in SUBSET Events : ClaimError(w, n, S)
    \/ \E e \in Events : MarkError(w, e)
    \/ CrashWorker(w)

Next ==
    \/ \E E \in SUBSET Events : CommitSpans(E)
    \/ CronTick
    \/ \E w \in Workers : DeliveryStep(w) \/ FaultStep(w)
    \/ \E e \in Events : BackoffElapses(e)

(* Workers keep taking and running messages, the scheduler keeps ticking and *)
(* time passes; a claim that is tried again and again does not meet a        *)
(* database error every time.                                                *)
Fairness ==
    /\ \A w \in Workers : SF_vars(DeliveryStep(w))
    /\ WF_vars(CronTick)
    /\ \A e \in Events : WF_vars(BackoffElapses(e))

Spec == Init /\ [][Next]_vars /\ Fairness

-----------------------------------------------------------------------------
(* No row is in the hands of two delivery tasks, and a row in a task's hands *)
(* is PROCESSING: FOR UPDATE SKIP LOCKED plus the status change make a claim *)
(* exclusive, although nothing checks the status when a row is marked.       *)
ClaimsAreExclusive ==
    \A w \in Workers : \A e \in claim[w] :
        /\ status[e] = "PROCESSING"
        /\ \A v \in Workers \ {w} : e \notin claim[v]

(* Every message a subscriber sees is paid for with an attempt, so no row is *)
(* published more than OUTBOX_MAX_ATTEMPTS times, whatever fails and however *)
(* often; and a row is DELIVERED only if subscribers saw it.                 *)
PublishesAreBounded ==
    \A e \in Events :
        /\ published[e] <= attempts[e] /\ attempts[e] <= MaxAttempts
        /\ status[e] = "DELIVERED" => published[e] > 0

(* A step that ends no other task's PROCESSING and undoes no delivery. *)
Settles ==
    \A e \in Events :
        /\ status[e] = "DELIVERED" => status'[e] = "DELIVERED"
        /\ status[e] = "PROCESSING" /\ status'[e] # "PROCESSING" =>
             \E w \in Workers : e \in claim[w] /\ e \notin claim'[w]

(* What a task has settled stays settled: a DELIVERED row is not touched     *)
(* again, and a row only loses its PROCESSING status to the task that holds  *)
(* it.  mark_delivered and mark_failed are UPDATEs by id that do not look at *)
(* the status, so a late mark of one task could undo that of another.        *)
MarksAreFinal == [][Settles]_vars

(* What docs/delivery-guarantees.md promises of the outbox ("Retryable       *)
(* failures stay in `outbox_events` for scheduled retry", "At-least-once     *)
(* through outbox retry"): a row that waits for delivery is eventually       *)
(* delivered or, after OUTBOX_MAX_ATTEMPTS attempts, given up as FAILED.     *)
EventuallyResolved ==
    \A e \in Events : status[e] = "PENDING" ~> status[e] \in {"DELIVERED", "FAILED"}
=============================================================================
