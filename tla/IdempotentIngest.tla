-------------------------- MODULE IdempotentIngest --------------------------
(***************************************************************************)
(* What POST /v1/ingest promises its clients, without handlers, rows or    *)
(* awaits: which batches may be enqueued for an idempotency key, and what  *)
(* each answer means at the moment it is given.  IngestApi implements it.  *)
(***************************************************************************)
CONSTANTS
    Requests,  \* the HTTP requests; the batch a request creates has its name
    Keys,      \* idempotency keys
    Bodies,    \* request bodies
    NoKey,     \* a request without a key
    None       \* no batch

VARIABLES
    asked,     \* what each request asks for: {} or {<<key, body>>}
    queued,    \* batches handed to the workers
    reply,     \* the answer to each request
    failed     \* keys for which an attempt was recorded as failed

vars == <<asked, queued, reply, failed>>

Unanswered == [outcome |-> "none", batch |-> None]

Init ==
    /\ asked = [r \in Requests |-> {}]
    /\ queued = {}
    /\ reply = [r \in Requests |-> Unanswered]
    /\ failed = {}

-----------------------------------------------------------------------------
Answer(r, outcome, batch) ==
    /\ reply[r] = Unanswered
    /\ reply' = [reply EXCEPT ![r] = [outcome |-> outcome, batch |-> batch]]

Ask(r, k, b) ==
    /\ asked[r] = {} /\ reply[r] = Unanswered
    /\ asked' = [asked EXCEPT ![r] = {<<k, b>>}]
    /\ UNCHANGED <<queued, reply, failed>>

(* A request's batch goes to the workers only while the request is open, and *)
(* only as the first one of its key unless an attempt for that key failed.   *)
Enqueue(r, k, b) ==
    /\ <<k, b>> \in asked[r] /\ reply[r] = Unanswered
    /\ k \in Keys \ failed => \A s \in queued : \A d \in Bodies : <<k, d>> \notin asked[s]
    /\ queued' = queued \cup {r}
    /\ \/ UNCHANGED reply
       \/ k = NoKey /\ Answer(r, "accepted", r)
    /\ UNCHANGED <<asked, failed>>

(* 202 names a batch that the workers have, made for the same key and body. *)
Accept(r, k, b, s) ==
    /\ <<k, b>> \in asked[r] /\ k \in Keys
    /\ s \in queued /\ <<k, b>> \in asked[s]
    /\ Answer(r, "accepted", s)
    /\ UNCHANGED <<asked, queued, failed>>

(* 409: the key was used with another body. *)
Conflict(r, k, b) ==
    /\ <<k, b>> \in asked[r] /\ k \in Keys
    /\ \E s \in Requests, d \in Bodies \ {b} : <<k, d>> \in asked[s]
    /\ Answer(r, "conflict", None)
    /\ UNCHANGED <<asked, queued, failed>>

(* 409: another request with this key and body is open (a crash leaves it *)
(* open for ever), or was cut short by a database error.                  *)
InProgress(r, k, b) ==
    /\ <<k, b>> \in asked[r] /\ k \in Keys
    /\ \E s \in Requests \ {r} :
          <<k, b>> \in asked[s] /\ reply[s].outcome \in {"none", "error"}
    /\ Answer(r, "in_progress", None)
    /\ UNCHANGED <<asked, queued, failed>>

(* 500, with or without a record of the failed attempt. *)
Error(r, k, b) ==
    /\ <<k, b>> \in asked[r]
    /\ Answer(r, "error", None)
    /\ \/ UNCHANGED failed
       \/ k \in Keys /\ failed' = failed \cup {k}
    /\ UNCHANGED <<asked, queued>>

(* 429, before the request has any effect. *)
Refuse(r) ==
    /\ asked[r] = {}
    /\ Answer(r, "rate_limited", None)
    /\ UNCHANGED <<asked, queued, failed>>

Next ==
    \E r \in Requests :
        \/ Refuse(r)
        \/ \E k \in Keys \cup {NoKey}, b \in Bodies :
              \/ Ask(r, k, b) \/ Enqueue(r, k, b)
              \/ \E s \in Requests : Accept(r, k, b, s)
              \/ Conflict(r, k, b) \/ InProgress(r, k, b) \/ Error(r, k, b)

Spec == Init /\ [][Next]_vars
=============================================================================
