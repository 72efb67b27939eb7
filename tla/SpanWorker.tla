----------------------------- MODULE SpanWorker -----------------------------
(***************************************************************************)
(* process_span_batch: worker tasks that take accepted batches from the    *)
(* Redis queue and write spans, trace rows, outbox events and metric       *)
(* buckets in one PostgreSQL transaction, with the retry and dead-letter   *)
(* middleware and the trace aggregate tasks they enqueue.                  *)
(*                                                                         *)
(* The transaction runs at READ COMMITTED.  Its span INSERT waits for      *)
(* other open transactions that inserted the same identity; everything     *)
(* else it writes becomes visible, and is decided, at commit: an UPDATE    *)
(* that waited for another transaction's row lock re-evaluates its WHERE   *)
(* clause on the committed row.  The aggregate task's UPDATE counts spans  *)
(* as of its start and writes when it gets the row.                        *)
(***************************************************************************)
EXTENDS Integers, FiniteSets, FiniteSetsExt

CONSTANTS
    Batches,     \* accepted ingest batches, one queue message each
    Workers,     \* concurrent executions of process_span_batch
    Spans,       \* span identities (id, started_at)
    BatchSpans,  \* the spans of each batch
    IdOf,        \* span id of an identity: outbox event key and payload key
    TraceOf,     \* trace_id
    StartOf,     \* started_at, a number
    Minute,      \* length of a minute in the unit of StartOf
    Bad,         \* spans whose preparation raises a permanent error
    Wanted,      \* spans whose payload the project's settings select
    MaxRetries,  \* max_retries of the task: executions of one message
    DlqConsumed, \* some worker process consumes the llm-obs-dlq queue
    Faults       \* which faults happen, see WorkerAssumption

ASSUME WorkerAssumption ==
    /\ BatchSpans \in [Batches -> SUBSET Spans]
    /\ \A b \in Batches : IsFiniteSet(BatchSpans[b])
    /\ StartOf \in [Spans -> Nat] /\ Minute \in Nat \ {0}
    /\ Bad \subseteq Spans /\ Wanted \subseteq Spans
    /\ MaxRetries \in Nat \ {0}
    /\ DlqConsumed \in BOOLEAN
    /\ Faults \subseteq {"transient", "ack", "s3", "post", "redis", "aggregate", "crash"}

VARIABLES
    queue,      \* waiting process_span_batch messages: <<batch, _retries>>
    dlq,        \* batches whose failure message waits on llm-obs-dlq
    failed,     \* batches with a failed_tasks row
    bstatus,    \* batch status in Redis, with its processed counter
    spans,      \* rows of spans
    keyed,      \* rows of spans that have a payload_s3_key
    objects,    \* payload objects in the bucket, by span id
    traceRows,  \* started_at of each trace's rows
    aggregate,  \* span_count of each trace row
    events,     \* span ids that have an outbox row
    buckets,    \* span_count per bucket_start
    aggTasks,   \* waiting update_trace_aggregates messages <<trace, started_at>>
    counting,   \* running ones, with their count: <<trace, started_at, count>>
    wpc,        \* where each worker stands
    task,       \* its message, {} when idle
    prepared,   \* spans it prepared; those with a stored payload
    stored,
    inserted,   \* spans its INSERT returned
    seen,       \* earliest existing start of each trace it has looked up
    raced,      \* traces written by a look-up no longer true (history)
    crossed,    \* traces of which two aggregate tasks ran at once (history)
    uncounted,  \* traces an aggregate task of which was lost (history)
    dropped     \* batches whose message was lost (history)

db == <<spans, keyed, traceRows, aggregate, events, buckets>>
local == <<prepared, stored, inserted, seen>>
aggregating == <<aggTasks, counting, crossed>>
vars == <<queue, dlq, failed, bstatus, db, objects, aggregating, wpc, task, local,
          raced, uncounted, dropped>>

-----------------------------------------------------------------------------
Traces == {TraceOf[s] : s \in Spans}
Ids == {IdOf[s] : s \in Spans}
Starts == {StartOf[s] : s \in Spans}

(* floor_to_minute. *)
MinuteOf(time) == (time \div Minute) * Minute
Minutes == {MinuteOf(st) : st \in Starts}

Retries == 0 .. MaxRetries - 1
BatchStatuses == {"accepted", "processing", "processed", "partial_failed", "failed"}

SpansOf(t, S) == {s \in S : TraceOf[s] = t}
EarliestStart(t, S) == Min({StartOf[s] : s \in SpansOf(t, S)})
TracesOf(S) == {TraceOf[s] : s \in S}

TypeOK ==
    /\ queue \subseteq Batches \X Retries
    /\ dlq \subseteq Batches /\ failed \subseteq Batches
    /\ bstatus \in [Batches -> [status : BatchStatuses, processed : Nat]]
    /\ spans \subseteq Spans /\ keyed \subseteq spans
    /\ objects \subseteq Ids
    /\ traceRows \in [Traces -> SUBSET Starts]
    /\ aggregate \in [Traces \X Starts -> Nat]
    /\ events \subseteq Ids
    /\ buckets \in [Minutes -> Nat]
    /\ aggTasks \subseteq Traces \X Starts
    /\ counting \subseteq Traces \X Starts \X Nat
    /\ wpc \in [Workers -> {"idle", "prepare", "insert", "ensure", "post",
                            "finish", "failed"}]
    /\ task \in [Workers -> SUBSET (Batches \X Retries)]
    /\ prepared \in [Workers -> SUBSET Spans]
    /\ stored \in [Workers -> SUBSET Spans]
    /\ inserted \in [Workers -> SUBSET Spans]
    /\ seen \in [Workers -> SUBSET (Traces \X (Starts \cup {-1}))]
    /\ raced \subseteq Traces /\ crossed \subseteq Traces /\ uncounted \subseteq Traces
    /\ dropped \subseteq Batches

Init ==
    /\ queue = Batches \X {0}
    /\ dlq = {} /\ failed = {}
    /\ bstatus = [b \in Batches |-> [status |-> "accepted", processed |-> 0]]
    /\ spans = {} /\ keyed = {} /\ objects = {}
    /\ traceRows = [t \in Traces |-> {}]
    /\ aggregate = [r \in Traces \X Starts |-> 0]
    /\ events = {}
    /\ buckets = [m \in Minutes |-> 0]
    /\ aggTasks = {} /\ counting = {}
    /\ wpc = [w \in Workers |-> "idle"]
    /\ task = [w \in Workers |-> {}]
    /\ prepared = [w \in Workers |-> {}]
    /\ stored = [w \in Workers |-> {}]
    /\ inserted = [w \in Workers |-> {}]
    /\ seen = [w \in Workers |-> {}]
    /\ raced = {} /\ crossed = {} /\ uncounted = {} /\ dropped = {}

-----------------------------------------------------------------------------
Goto(w, p) == wpc' = [wpc EXCEPT ![w] = p]
BatchOf(w) == (CHOOSE m \in task[w] : TRUE)[1]
RetriesOf(w) == (CHOOSE m \in task[w] : TRUE)[2]

Release(w) ==
    /\ Goto(w, "idle")
    /\ task' = [task EXCEPT ![w] = {}]
    /\ prepared' = [prepared EXCEPT ![w] = {}]
    /\ stored' = [stored EXCEPT ![w] = {}]
    /\ inserted' = [inserted EXCEPT ![w] = {}]
    /\ seen' = [seen EXCEPT ![w] = {}]

SetBatchStatus(b, st) == bstatus' = [bstatus EXCEPT ![b].status = st]

(* Seeded fault: the last failure is not sent to the dead letter queue. *)
OnError_NoDlq(b, n, q) ==
    /\ queue' = IF n + 1 < MaxRetries THEN q \cup {<<b, n + 1>>} ELSE q
    /\ UNCHANGED <<dlq, dropped>>

(* DLQRetryMiddleware.on_error: enqueue the message with _retries + 1, or send *)
(* the failure to the dead letter queue.  When Redis fails here too, the       *)
(* message is gone: a failed retry raises in the middleware, a failed DLQ      *)
(* enqueue is logged.                                                          *)
OnError(b, n, q) ==
    \/ /\ n + 1 < MaxRetries
       /\ \/ queue' = q \cup {<<b, n + 1>>} /\ UNCHANGED dropped
          \/ "redis" \in Faults /\ queue' = q /\ dropped' = dropped \cup {b}
       /\ UNCHANGED dlq
    \/ /\ n + 1 >= MaxRetries
       /\ queue' = q
       /\ \/ dlq' = dlq \cup {b} /\ UNCHANGED dropped
          \/ "redis" \in Faults /\ dropped' = dropped \cup {b} /\ UNCHANGED dlq

(* A worker pops a message and marks the batch processing.  If Redis fails *)
(* here the task raises outside its try block: no mark_failed.             *)
TakeBatch(w, b, n) ==
    /\ wpc[w] = "idle"
    /\ <<b, n>> \in queue
    /\ \/ /\ queue' = queue \ {<<b, n>>}
          /\ Goto(w, "prepare")
          /\ task' = [task EXCEPT ![w] = {<<b, n>>}]
          /\ SetBatchStatus(b, "processing")
          /\ UNCHANGED <<dlq, dropped>>
       \/ /\ "redis" \in Faults
          /\ OnError(b, n, queue \ {<<b, n>>})
          /\ UNCHANGED <<wpc, task, bstatus>>
    /\ UNCHANGED <<failed, db, objects, aggregating, local, raced, uncounted>>

(* The loop over the spans: parse, price and store each payload.  An S3 error *)
(* is swallowed by store_payload (the span goes on without a key); a permanent *)
(* error skips the span; any other error leaves the loop with the payloads     *)
(* stored so far.                                                              *)
PrepareSpans(w) ==
    LET valid == BatchSpans[BatchOf(w)] \ Bad IN
    /\ wpc[w] = "prepare"
    /\ \E ok \in (IF "s3" \in Faults THEN SUBSET (valid \cap Wanted)
                                     ELSE {valid \cap Wanted}) :
          /\ stored' = [stored EXCEPT ![w] = ok]
          /\ objects' = objects \cup {IdOf[s] : s \in ok}
    /\ prepared' = [prepared EXCEPT ![w] = valid]
    /\ Goto(w, "insert")
    /\ UNCHANGED <<queue, dlq, failed, bstatus, db, aggregating, task, inserted, seen,
                   raced, uncounted, dropped>>

(* Seeded fault: a transient error skips the span like a permanent one. *)
PrepareRaises_Skips(w) ==
    /\ "transient" \in Faults
    /\ wpc[w] = "prepare"
    /\ \E ok \in SUBSET (BatchSpans[BatchOf(w)] \ Bad) :
          prepared' = [prepared EXCEPT ![w] = ok]
    /\ Goto(w, "insert")
    /\ UNCHANGED <<queue, dlq, failed, bstatus, db, objects, aggregating, task,
                   stored, inserted, seen, raced, uncounted, dropped>>

PrepareRaises(w) ==
    /\ "transient" \in Faults
    /\ wpc[w] = "prepare"
    /\ \E ok \in SUBSET ((BatchSpans[BatchOf(w)] \ Bad) \cap Wanted) :
          objects' = objects \cup {IdOf[s] : s \in ok}
    /\ Goto(w, "failed")
    /\ UNCHANGED <<queue, dlq, failed, bstatus, db, aggregating, task, local,
                   raced, uncounted, dropped>>

(* bulk_insert_spans, which waits for open transactions that inserted one of *)
(* the same identities, and select_inserted_spans.                           *)
InsertSpans(w) ==
    /\ wpc[w] = "insert"
    /\ \A v \in Workers \ {w} :
          wpc[v] = "ensure" => inserted[v] \cap prepared[w] = {}
    /\ inserted' = [inserted EXCEPT ![w] = prepared[w] \ spans]
    /\ Goto(w, "ensure")
    /\ UNCHANGED <<queue, dlq, failed, bstatus, db, objects, aggregating, task,
                   prepared, stored, seen, raced, uncounted, dropped>>

(* The earliest committed row of a trace (-1: there is none). *)
FirstRow(t) == IF traceRows[t] = {} THEN -1 ELSE Min(traceRows[t])

(* ensure_trace_row, first half: SELECT that row, without a lock. *)
LookUpTrace(w, t) ==
    /\ wpc[w] = "ensure"
    /\ t \in TracesOf(inserted[w]) \ {r[1] : r \in seen[w]}
    /\ seen' = [seen EXCEPT ![w] = @ \cup {<<t, FirstRow(t)>>}]
    /\ UNCHANGED <<queue, dlq, failed, bstatus, db, objects, aggregating, wpc, task,
                   prepared, stored, inserted, raced, uncounted, dropped>>

(* The transaction has done its work and is about to commit. *)
AtCommit(w) == wpc[w] = "ensure" /\ TracesOf(inserted[w]) = {r[1] : r \in seen[w]}

Existing(w, t) == (CHOOSE r \in seen[w] : r[1] = t)[2]

(* Seeded fault: an earlier span does not move the trace row. *)
EnsuredRows_NoMove(w, t) ==
    IF Existing(w, t) = -1
      THEN traceRows[t] \cup {EarliestStart(t, inserted[w])} ELSE traceRows[t]

(* Seeded fault: moving the row loses it. *)
EnsuredRows_DropsRow(w, t) ==
    IF Existing(w, t) = -1
      THEN traceRows[t] \cup {EarliestStart(t, inserted[w])}
      ELSE IF Existing(w, t) > EarliestStart(t, inserted[w])
             THEN traceRows[t] \ {Existing(w, t)} ELSE traceRows[t]

(* ensure_trace_row, second half: INSERT ... ON CONFLICT DO NOTHING when there *)
(* was no row; nothing when the row starts early enough; otherwise             *)
(* UPDATE ... WHERE started_at = existing, which may match no row any more.    *)
EnsuredRows(w, t) ==
    LET start == EarliestStart(t, inserted[w])
        existing == Existing(w, t)
    IN CASE existing = -1 -> traceRows[t] \cup {start}
         [] existing # -1 /\ existing <= start -> traceRows[t]
         [] existing > start /\ existing \in traceRows[t] ->
              (traceRows[t] \ {existing}) \cup {start}
         [] OTHER -> traceRows[t]

(* Seeded fault: the batch's own start is used instead of the stable one. *)
StableStart_Own(w, t) == EarliestStart(t, inserted[w])

(* The start that ensure_trace_row returns, and the aggregate task uses. *)
StableStart(w, t) ==
    LET start == EarliestStart(t, inserted[w])
        existing == Existing(w, t)
    IN IF existing # -1 /\ existing <= start THEN existing ELSE start

Moves(w, t) ==
    Existing(w, t) > EarliestStart(t, inserted[w]) /\ Existing(w, t) \in traceRows[t]

(* The UPDATE would duplicate the primary key (id, started_at). *)
KeyClash(w) ==
    \E t \in TracesOf(inserted[w]) :
        Moves(w, t) /\ EarliestStart(t, inserted[w]) \in traceRows[t]

(* Seeded fault: the buckets count the spans of the batch, not the rows. *)
BucketCounts_Prepared(w) ==
    [m \in Minutes |-> buckets[m] + Cardinality({s \in prepared[w] : MinuteOf(StartOf[s]) = m})]

(* update_span_metric_buckets over the inserted spans. *)
BucketCounts(w) ==
    [m \in Minutes |-> buckets[m] + Cardinality({s \in inserted[w] : MinuteOf(StartOf[s]) = m})]

(* All the transaction's writes become visible. *)
Apply(w) ==
    LET moved == {t \in TracesOf(inserted[w]) : Moves(w, t)} IN
    /\ spans' = spans \cup inserted[w]
    /\ keyed' = keyed \cup (inserted[w] \cap stored[w])
    /\ traceRows' = [t \in Traces |-> IF t \in TracesOf(inserted[w])
                                        THEN EnsuredRows(w, t) ELSE traceRows[t]]
    /\ aggregate' = [r \in Traces \X Starts |->
                       IF r[2] \in traceRows'[r[1]] \ traceRows[r[1]]
                         THEN IF r[1] \in moved
                                THEN aggregate[<<r[1], Existing(w, r[1])>>] ELSE 0
                         ELSE aggregate[r]]
    /\ events' = events \cup {IdOf[s] : s \in inserted[w]}
    /\ buckets' = BucketCounts(w)
    /\ raced' = raced \cup {t \in TracesOf(inserted[w]) : Existing(w, t) # FirstRow(t)}

Commit(w) ==
    /\ AtCommit(w)
    /\ ~KeyClash(w)
    /\ Apply(w)
    /\ Goto(w, "post")
    /\ UNCHANGED <<queue, dlq, failed, bstatus, objects, aggregating, task, local,
                   uncounted, dropped>>

(* A database error before the commit: everything is rolled back.  After a    *)
(* commit whose reply is lost the handler sees the same error.                *)
TxnFails(w) ==
    /\ wpc[w] \in {"insert", "ensure"}
    /\ \/ "transient" \in Faults /\ UNCHANGED <<db, raced, uncounted>>
       \/ AtCommit(w) /\ KeyClash(w) /\ UNCHANGED <<db, raced, uncounted>>
       \/ /\ "ack" \in Faults /\ AtCommit(w) /\ ~KeyClash(w)
          /\ Apply(w)
          /\ uncounted' = uncounted \cup TracesOf(inserted[w])
    /\ Goto(w, "failed")
    /\ UNCHANGED <<queue, dlq, failed, bstatus, objects, aggregating, task, local, dropped>>

AggregateTasks(w) == {<<t, StableStart(w, t)>> : t \in TracesOf(inserted[w])}

(* After the commit: enqueue the aggregate tasks and the anomaly check; any of *)
(* these may raise, with the tasks so far enqueued.                            *)
PostCommit(w) ==
    /\ wpc[w] = "post"
    /\ \/ /\ aggTasks' = aggTasks \cup AggregateTasks(w)
          /\ Goto(w, "finish")
          /\ UNCHANGED uncounted
       \/ /\ "post" \in Faults
          /\ \E sent \in SUBSET AggregateTasks(w) :
                /\ aggTasks' = aggTasks \cup sent
                /\ uncounted' = uncounted \cup {m[1] : m \in AggregateTasks(w) \ sent}
          /\ Goto(w, "failed")
    /\ UNCHANGED <<queue, dlq, failed, bstatus, db, objects, counting, crossed, task, local,
                   raced, dropped>>

(* The final status: partial_failed when some span failed permanently. *)
FinishStatus(b) == IF BatchSpans[b] \cap Bad = {} THEN "processed" ELSE "partial_failed"

(* mark_finished ends the task. *)
Finish(w) ==
    /\ wpc[w] = "finish"
    /\ bstatus' = [bstatus EXCEPT ![BatchOf(w)] =
                     [status |-> FinishStatus(BatchOf(w)),
                      processed |-> Cardinality(inserted[w])]]
    /\ Release(w)
    /\ UNCHANGED <<queue, dlq, failed, db, objects, aggregating, raced, uncounted, dropped>>

FinishRaises(w) ==
    /\ "redis" \in Faults
    /\ wpc[w] = "finish"
    /\ Goto(w, "failed")
    /\ UNCHANGED <<queue, dlq, failed, bstatus, db, objects, aggregating, task, local,
                   raced, uncounted, dropped>>

(* The except block: mark_failed (which may itself raise) and re-raise. *)
Fail(w) ==
    /\ wpc[w] = "failed"
    /\ \/ SetBatchStatus(BatchOf(w), "failed")
       \/ "redis" \in Faults /\ UNCHANGED bstatus
    /\ OnError(BatchOf(w), RetriesOf(w), queue)
    /\ Release(w)
    /\ UNCHANGED <<failed, db, objects, aggregating, raced, uncounted>>

(* The worker process dies: its transaction rolls back and its message, popped *)
(* from the Redis list when it was received, is gone.                          *)
CrashWorker(w) ==
    /\ "crash" \in Faults
    /\ wpc[w] # "idle"
    /\ dropped' = dropped \cup {BatchOf(w)}
    /\ uncounted' = uncounted \cup (IF wpc[w] = "post" THEN TracesOf(inserted[w]) ELSE {})
    /\ Release(w)
    /\ UNCHANGED <<queue, dlq, failed, bstatus, db, objects, aggregating, raced>>

(* update_trace_aggregates: the UPDATE's subselects count the spans as of the *)
(* statement's start.  It looks for the row that starts at st, if there is one. *)
CountSpans(t, st) ==
    /\ <<t, st>> \in aggTasks
    /\ aggTasks' = aggTasks \ {<<t, st>>}
    /\ \/ /\ st \in traceRows[t]
          /\ counting' = counting \cup
                {<<t, st, Cardinality({s \in SpansOf(t, spans) : StartOf[s] >= st})>>}
          /\ crossed' = crossed \cup {c[1] : c \in {d \in counting : d[1] = t /\ d[2] = st}}
          /\ uncounted' = uncounted \ {t}
       \/ /\ st \notin traceRows[t]
          /\ UNCHANGED <<counting, crossed, uncounted>>
    /\ UNCHANGED <<queue, dlq, failed, bstatus, db, objects, wpc, task, local, raced, dropped>>

(* ... and are written when the row is locked, unless it has moved since:     *)
(* the WHERE clause is evaluated again, the counts are not.                   *)
UpdateAggregates(c) ==
    /\ c \in counting
    /\ counting' = counting \ {c}
    /\ aggregate' = [r \in Traces \X Starts |->
                       IF r = <<c[1], c[2]>> /\ r[2] \in traceRows[r[1]]
                         THEN c[3] ELSE aggregate[r]]
    /\ UNCHANGED <<queue, dlq, failed, bstatus, spans, keyed, traceRows, events, buckets,
                   objects, aggTasks, crossed, wpc, task, local, raced, uncounted, dropped>>

(* update_trace_aggregates has no retry_on_error label: when it raises, the    *)
(* middleware neither retries it nor sends it to the dead letter queue.        *)
AggregateRaises(t, st) ==
    /\ "aggregate" \in Faults
    /\ \/ /\ <<t, st>> \in aggTasks
          /\ aggTasks' = aggTasks \ {<<t, st>>}
          /\ UNCHANGED counting
       \/ /\ \E c \in counting : c[1] = t /\ c[2] = st /\ counting' = counting \ {c}
          /\ UNCHANGED aggTasks
    /\ uncounted' = uncounted \cup {t}
    /\ UNCHANGED <<queue, dlq, failed, bstatus, db, objects, crossed, wpc, task, local,
                   raced, dropped>>

(* handle_failed_task stores the failed-task record. *)
HandleFailedTask(b) ==
    /\ DlqConsumed
    /\ b \in dlq
    /\ dlq' = dlq \ {b}
    /\ failed' = failed \cup {b}
    /\ UNCHANGED <<queue, bstatus, db, objects, aggregating, wpc, task, local,
                   raced, uncounted, dropped>>

-----------------------------------------------------------------------------
WorkerStep(w) ==
    \/ \E b \in Batches, n \in Retries : TakeBatch(w, b, n)
    \/ PrepareSpans(w) \/ PrepareRaises(w)
    \/ InsertSpans(w)
    \/ \E t \in Traces : LookUpTrace(w, t)
    \/ Commit(w) \/ TxnFails(w)
    \/ PostCommit(w) \/ Finish(w) \/ FinishRaises(w) \/ Fail(w)

Next ==
    \/ \E w \in Workers : WorkerStep(w) \/ CrashWorker(w)
    \/ \E t \in Traces, st \in Starts : CountSpans(t, st) \/ AggregateRaises(t, st)
    \/ \E c \in counting : UpdateAggregates(c)
    \/ \E b \in Batches : HandleFailedTask(b)

(* Worker processes keep running and keep taking messages. *)
Fairness ==
    /\ \A w \in Workers : WF_vars(WorkerStep(w))
    /\ \A b \in Batches : WF_vars(HandleFailedTask(b))

Spec == Init /\ [][Next]_vars /\ Fairness

-----------------------------------------------------------------------------
(* The minute buckets that alerting reads count every span row exactly once, *)
(* although batches overlap, are retried after a commit and fail midway.     *)
BucketsMatchSpans ==
    \A m \in Minutes : buckets[m] = Cardinality({s \in spans : MinuteOf(StartOf[s]) = m})

(* What a span row promises to its readers: an outbox event for its id, a    *)
(* payload object behind its payload_s3_key, and a row of its trace; and a   *)
(* trace row starts when one of its spans does.                              *)
StoredSpanIsComplete ==
    /\ \A s \in spans : IdOf[s] \in events /\ traceRows[TraceOf[s]] # {}
    /\ \A s \in keyed : IdOf[s] \in objects
    /\ \A t \in Traces : \A st \in traceRows[t] :
          \E s \in SpansOf(t, spans) : StartOf[s] = st

(* A batch reported processed or partial_failed has all its valid spans in   *)
(* the database.                                                             *)
ProcessedMeansStored ==
    \A b \in Batches : bstatus[b].status \in {"processed", "partial_failed"} =>
        BatchSpans[b] \ Bad \subseteq spans

(* "Trace identity is stabilized by earliest known start time": a trace has  *)
(* exactly one row and it starts with the earliest stored span.              *)
TraceRowIsEarliest ==
    \A t \in TracesOf(spans) : traceRows[t] = {EarliestStart(t, spans)}

(* What ensure_trace_row does give, with any number of workers: the same for *)
(* a trace of which every transaction wrote by a look-up that was still true *)
(* when it committed.                                                        *)
TraceRowIsStable ==
    \A t \in TracesOf(spans) \ raced : traceRows[t] = {EarliestStart(t, spans)}

(* No aggregate task of the trace waits or runs, and no worker is about to   *)
(* enqueue one.                                                              *)
AggregatesDone(t) ==
    /\ \A m \in aggTasks : m[1] # t
    /\ \A c \in counting : c[1] # t
    /\ \A w \in Workers : wpc[w] = "post" => t \notin TracesOf(inserted[w])

RowsCount(t) ==
    \A st \in traceRows[t] : aggregate[<<t, st>>] = Cardinality(SpansOf(t, spans))

(* "Trace totals ... can lag until aggregate ... workers run": once every    *)
(* aggregate task of a trace has run, its row counts the trace's spans.      *)
TotalsCatchUp == \A t \in Traces \ raced : AggregatesDone(t) => RowsCount(t)

(* What update_trace_aggregates does give, whatever is lost and retried: the *)
(* same for a trace of which no two aggregate tasks ran at once and no task  *)
(* was lost since the last count.                                            *)
AggregatesConverge ==
    \A t \in Traces \ (raced \cup crossed \cup uncounted) : AggregatesDone(t) => RowsCount(t)

Resolved(b) ==
    bstatus[b].status \in {"processed", "partial_failed"} \/ b \in dlq \/ b \in failed

(* "Taskiq queue to worker execution: at-least-once": every accepted batch   *)
(* is processed to its end or reaches the dead letter queue.                 *)
BatchResolves == \A b \in Batches : <>Resolved(b)

(* What the queue does give: a batch that is not resolved is waiting on the  *)
(* queue or in a worker's hands, unless its only message was lost: the       *)
(* worker that had popped it died, or Redis failed when the middleware       *)
(* enqueued it again.  Nothing else, neither a failure before or after the   *)
(* commit nor one in the handling of a failure, leaves a batch nowhere.      *)
BatchIsAccountedFor ==
    \A b \in Batches :
        \/ Resolved(b) \/ b \in dropped
        \/ \E n \in Retries : <<b, n>> \in queue
        \/ \E w \in Workers, n \in Retries : <<b, n>> \in task[w]
=============================================================================
