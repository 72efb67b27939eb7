------------------------------ MODULE IngestApi ------------------------------
(***************************************************************************)
(* POST /v1/ingest: one request handler per element of Requests, all of    *)
(* them interleaved, over the idempotency_records table (PostgreSQL), the  *)
(* batch status keys (Redis) and the task queue (Redis).                   *)
(*                                                                         *)
(* A handler generates at most one batch id (a fresh UUID), so the batch   *)
(* of request r is named r.  Every await of the handler is one action;     *)
(* what PostgreSQL does in one committed transaction is one action.        *)
(***************************************************************************)
CONSTANTS
    Requests,   \* the HTTP requests, and the batches they create
    Keys,       \* idempotency keys, already scoped to one project
    Bodies,     \* request bodies, told apart by ingest_request_hash
    NoKey,      \* a request that carries no idempotency_key
    None,       \* SQL NULL / no batch
    Faults      \* which faults happen: a subset of {"db", "crash"}

ASSUME IngestAssumption ==
    /\ NoKey \notin Keys
    /\ None \notin Requests
    /\ None \notin Bodies
    /\ Faults \subseteq {"db", "crash"}

VARIABLES
    pc,           \* where each handler stands
    key, body,    \* the request: its idempotency key (or NoKey) and its spans
    rec,          \* idempotency_records, one row (or "ABSENT") per key
    batchStatus,  \* Redis ingest_batch:<project>:<batch> of each batch
    enqueued,     \* batches whose process_span_batch message reached the queue
    answer,       \* the response of each request
    everFailed    \* keys whose record has been FAILED at some time (history)

vars == <<pc, key, body, rec, batchStatus, enqueued, answer, everFailed>>

-----------------------------------------------------------------------------
(* Holding the reservation: the handler has inserted or reopened the record *)
(* and has not yet resolved it.                                             *)
OwnerPcs == {"create", "enqueue", "markFailed", "fail", "commit"}
ActivePcs == OwnerPcs \cup {"reserve", "reopen"}
FinalPcs == {"done", "aborted", "crashed"}

RecStatuses == {"ABSENT", "PENDING", "COMMITTED", "FAILED"}
Outcomes == {"none", "accepted", "conflict", "in_progress", "rate_limited", "error"}

Owner(r) == key[r] \in Keys /\ pc[r] \in OwnerPcs

TypeOK ==
    /\ pc \in [Requests -> ActivePcs \cup FinalPcs \cup {"idle"}]
    /\ key \in [Requests -> Keys \cup {NoKey}]
    /\ body \in [Requests -> Bodies \cup {None}]
    /\ rec \in [Keys -> [status : RecStatuses,
                         hash : Bodies \cup {None},
                         result : Requests \cup {None}]]
    /\ batchStatus \in [Requests -> {"absent", "accepted", "failed"}]
    /\ enqueued \subseteq Requests
    /\ answer \in [Requests -> [outcome : Outcomes, batch : Requests \cup {None}]]
    /\ everFailed \subseteq Keys

Init ==
    /\ pc = [r \in Requests |-> "idle"]
    /\ key = [r \in Requests |-> NoKey]
    /\ body = [r \in Requests |-> None]
    /\ rec = [k \in Keys |-> [status |-> "ABSENT", hash |-> None, result |-> None]]
    /\ batchStatus = [r \in Requests |-> "absent"]
    /\ enqueued = {}
    /\ answer = [r \in Requests |-> [outcome |-> "none", batch |-> None]]
    /\ everFailed = {}

-----------------------------------------------------------------------------
Goto(r, p) == pc' = [pc EXCEPT ![r] = p]

Respond(r, outcome, batch) ==
    /\ Goto(r, "done")
    /\ answer' = [answer EXCEPT ![r] = [outcome |-> outcome, batch |-> batch]]

(* An exception leaves the handler: HTTP 500, nothing else is written. *)
Abort(r) ==
    /\ Goto(r, "aborted")
    /\ answer' = [answer EXCEPT ![r] = [outcome |-> "error", batch |-> None]]

SetRecord(k, status, hash, result) ==
    rec' = [rec EXCEPT ![k] = [status |-> status, hash |-> hash, result |-> result]]

(* UPDATE idempotency_records ... WHERE key AND request_hash = :request_hash, *)
(* whatever the current status is.                                            *)
SetStatus(r, status, result) ==
    IF rec[key[r]].hash = body[r]
      THEN SetRecord(key[r], status, body[r], result)
      ELSE UNCHANGED rec

-----------------------------------------------------------------------------
(* A request arrives and passes the rate limiter. *)
Arrive(r, k, b) ==
    /\ pc[r] = "idle"
    /\ Goto(r, IF k = NoKey THEN "create" ELSE "reserve")
    /\ key' = [key EXCEPT ![r] = k]
    /\ body' = [body EXCEPT ![r] = b]
    /\ UNCHANGED <<rec, batchStatus, enqueued, answer, everFailed>>

(* rate_limiter.check raises 429 before anything is written. *)
RateLimited(r) ==
    /\ pc[r] = "idle"
    /\ Respond(r, "rate_limited", None)
    /\ UNCHANGED <<key, body, rec, batchStatus, enqueued, everFailed>>

(* Seeded fault: the upsert overwrites an existing row. *)
ReserveInsert_Overwrites(r) ==
    /\ pc[r] = "reserve"
    /\ SetRecord(key[r], "PENDING", body[r], r)
    /\ Goto(r, "create")
    /\ UNCHANGED <<key, body, batchStatus, enqueued, answer, everFailed>>

(* reserve: INSERT ... ON CONFLICT DO NOTHING inserts the row, then commits. *)
ReserveInsert(r) ==
    /\ pc[r] = "reserve"
    /\ rec[key[r]].status = "ABSENT"
    /\ SetRecord(key[r], "PENDING", body[r], r)
    /\ Goto(r, "create")
    /\ UNCHANGED <<key, body, batchStatus, enqueued, answer, everFailed>>

(* reserve: the row exists; SELECT it (no lock) and answer, or remember that *)
(* it was FAILED.  The row is never deleted, so INSERT and SELECT are one    *)
(* step.                                                                     *)
ReserveExisting(r) ==
    LET row == rec[key[r]] IN
    /\ pc[r] = "reserve"
    /\ row.status # "ABSENT"
    /\ \/ row.hash # body[r] /\ Respond(r, "conflict", None)
       \/ row.hash = body[r] /\ row.status = "COMMITTED"
            /\ Respond(r, "accepted", row.result)
       \/ row.hash = body[r] /\ row.status = "PENDING"
            /\ Respond(r, "in_progress", None)
       \/ row.hash = body[r] /\ row.status = "FAILED"
            /\ Goto(r, "reopen") /\ UNCHANGED answer
    /\ UNCHANGED <<key, body, rec, batchStatus, enqueued, everFailed>>

(* reserve: UPDATE ... SET status = 'PENDING' of the row that was FAILED when *)
(* it was read; the UPDATE does not look at the status again.                 *)
Reopen(r) ==
    /\ pc[r] = "reopen"
    /\ SetRecord(key[r], "PENDING", rec[key[r]].hash, r)
    /\ Goto(r, "create")
    /\ UNCHANGED <<key, body, batchStatus, enqueued, answer, everFailed>>

(* Seeded faults: the error of accept_batch is swallowed; the record is not *)
(* marked FAILED.                                                           *)
AcceptRaises_Swallowed(r) ==
    /\ Goto(r, IF key[r] = NoKey THEN "aborted" ELSE "commit")
    /\ UNCHANGED answer

AcceptRaises_NotRecorded(r) == Respond(r, "error", None)

(* Leaving accept_batch with an exception: with a key the record is marked *)
(* FAILED next, without one the request just fails.                        *)
AcceptRaises(r) ==
    IF key[r] = NoKey
      THEN Abort(r)
      ELSE Goto(r, "fail") /\ UNCHANGED answer

(* accept_batch: BatchStatusService.create_accepted, a SETEX; it may raise. *)
CreateAccepted(r) ==
    /\ pc[r] = "create"
    /\ \/ Goto(r, "enqueue") /\ UNCHANGED answer
            /\ batchStatus' = [batchStatus EXCEPT ![r] = "accepted"]
       \/ AcceptRaises(r) /\ UNCHANGED batchStatus
    /\ UNCHANGED <<key, body, rec, enqueued, everFailed>>

(* accept_batch: process_span_batch.kiq.  A raised error does not tell       *)
(* whether the message reached the queue.                                    *)
Enqueue(r) ==
    /\ pc[r] = "enqueue"
    /\ \/ /\ enqueued' = enqueued \cup {r}
          /\ IF key[r] = NoKey
               THEN Respond(r, "accepted", r)
               ELSE Goto(r, "commit") /\ UNCHANGED answer
       \/ /\ enqueued' \in {enqueued, enqueued \cup {r}}
          /\ Goto(r, "markFailed") /\ UNCHANGED answer
    /\ UNCHANGED <<key, body, rec, batchStatus, everFailed>>

(* Seeded fault: the error text is written into the status field. *)
MarkFailed_WrongField(r) ==
    /\ pc[r] = "markFailed"
    /\ AcceptRaises(r)
    /\ batchStatus' = [batchStatus EXCEPT ![r] = "error"]
    /\ UNCHANGED <<key, body, rec, enqueued, everFailed>>

(* accept_batch's handler: mark_failed, which may raise in its turn; either  *)
(* way an exception leaves accept_batch.                                     *)
MarkFailed(r) ==
    /\ pc[r] = "markFailed"
    /\ AcceptRaises(r)
    /\ \/ batchStatus' = [batchStatus EXCEPT ![r] = "failed"]
       \/ UNCHANGED batchStatus
    /\ UNCHANGED <<key, body, rec, enqueued, everFailed>>

(* mark_idempotency_failed, then the exception is re-raised. *)
FailRecord(r) ==
    /\ pc[r] = "fail"
    /\ SetStatus(r, "FAILED", None)
    /\ everFailed' = everFailed \cup {key[r]}
    /\ Respond(r, "error", None)
    /\ UNCHANGED <<key, body, batchStatus, enqueued>>

(* commit_idempotency_result, then 202. *)
CommitRecord(r) ==
    /\ pc[r] = "commit"
    /\ SetStatus(r, "COMMITTED", r)
    /\ Respond(r, "accepted", r)
    /\ UNCHANGED <<key, body, batchStatus, enqueued, everFailed>>

-----------------------------------------------------------------------------
(* A statement on idempotency_records raises: the transaction rolled back. *)
DbError(r) ==
    /\ "db" \in Faults
    /\ pc[r] \in {"reserve", "reopen", "fail", "commit"}
    /\ Abort(r)
    /\ UNCHANGED <<key, body, rec, batchStatus, enqueued, everFailed>>

(* The transaction commits but the connection dies before the reply: the     *)
(* handler sees an exception although the row has changed.                   *)
DbAckLost(r) ==
    /\ "db" \in Faults
    /\ \/ pc[r] = "reserve" /\ rec[key[r]].status = "ABSENT"
            /\ SetRecord(key[r], "PENDING", body[r], r) /\ UNCHANGED everFailed
       \/ pc[r] = "reopen"
            /\ SetRecord(key[r], "PENDING", rec[key[r]].hash, r)
            /\ UNCHANGED everFailed
       \/ pc[r] = "fail" /\ SetStatus(r, "FAILED", None)
            /\ everFailed' = everFailed \cup {key[r]}
       \/ pc[r] = "commit" /\ SetStatus(r, "COMMITTED", r) /\ UNCHANGED everFailed
    /\ Abort(r)
    /\ UNCHANGED <<key, body, batchStatus, enqueued>>

(* The API process dies (deploy, OOM kill) while it serves the request. *)
Crash(r) ==
    /\ "crash" \in Faults
    /\ pc[r] \in ActivePcs
    /\ Goto(r, "crashed")
    /\ UNCHANGED <<key, body, rec, batchStatus, enqueued, answer, everFailed>>

-----------------------------------------------------------------------------
HandlerStep(r) ==
    \/ ReserveInsert(r) \/ ReserveExisting(r) \/ Reopen(r)
    \/ CreateAccepted(r) \/ Enqueue(r) \/ MarkFailed(r)
    \/ FailRecord(r) \/ CommitRecord(r)

FaultStep(r) == DbError(r) \/ DbAckLost(r) \/ Crash(r)

Next ==
    \E r \in Requests :
        \/ \E k \in Keys \cup {NoKey}, b \in Bodies : Arrive(r, k, b)
        \/ RateLimited(r)
        \/ HandlerStep(r)
        \/ FaultStep(r)

(* A handler that is not killed keeps running: asyncio resumes it after every *)
(* await.  Arrivals and faults are not promised.                              *)
Spec == Init /\ [][Next]_vars /\ \A r \in Requests : WF_vars(HandlerStep(r))

-----------------------------------------------------------------------------
(* A request answered 202 names a batch whose worker task is on the queue,   *)
(* which was created for the same key and the same spans.  A replay gets the *)
(* batch of another request out of the record, so this needs COMMITTED rows  *)
(* to be truthful however handlers, retries and faults interleave.           *)
AcceptedWasEnqueued ==
    \A r \in Requests : answer[r].outcome = "accepted" =>
        LET b == answer[r].batch IN
        b \in enqueued /\ key[b] = key[r] /\ body[b] = body[r]

(* The idempotency promise as far as the INSERT ... ON CONFLICT alone carries *)
(* it: as long as no handler has marked the key's record FAILED, at most one  *)
(* batch is enqueued for the key, whatever duplicates, crashes and database   *)
(* errors happen.                                                             *)
OneBatchUntilFailure ==
    \A k \in Keys \ everFailed : \A b, c \in enqueued :
        key[b] = k /\ key[c] = k => b = c

(* A PENDING record is never left behind by a handler that ran to its end:  *)
(* its batch's handler is still at work, or was cut short by a crash or a   *)
(* database error.  (When two handlers reopened the same record, the row    *)
(* belongs to the later one.)                                               *)
PendingIsOwned ==
    \A k \in Keys : rec[k].status = "PENDING" =>
        pc[rec[k].result] \in OwnerPcs \cup {"aborted", "crashed"}

(* The refinement mapping: a request is asked once its handler has passed the *)
(* rate limiter.                                                              *)
Asked == [r \in Requests |-> IF body[r] = None THEN {} ELSE {<<key[r], body[r]>>}]

Promise == INSTANCE IdempotentIngest WITH
    asked <- Asked, queued <- enqueued, reply <- answer, failed <- everFailed

(* The handlers implement the endpoint's promise: every batch that reaches the *)
(* queue and every answer is allowed by IdempotentIngest at the moment it      *)
(* happens.  A 202 names a queued batch of the same key and body, a 409 of     *)
(* either kind has its cause, an answered request has no further effect, and   *)
(* a key gets no second batch before an attempt of it failed.                  *)
ImplementsIdempotentIngest == Promise!Spec

(* All 202 answers for one key and body carry the same batch_id, and no other *)
(* batch was enqueued for that key with it.                                   *)
OriginalBatchReturned ==
    \A r, s \in Requests :
        (/\ answer[r].outcome = "accepted" /\ answer[s].outcome = "accepted"
         /\ key[r] = key[s] /\ key[r] # NoKey)
        => answer[r].batch = answer[s].batch

(* Every reservation is resolved, so that a failed attempt can be retried,   *)
(* unless its handler crashed or lost the database.                          *)
EveryReservationResolves ==
    \A k \in Keys : rec[k].status = "PENDING" ~>
        \/ rec[k].status # "PENDING"
        \/ pc[rec[k].result] \in {"aborted", "crashed"}
=============================================================================
