--------------------------- MODULE IngestApiProofs ---------------------------
(***************************************************************************)
(* Proofs that the ingest handlers keep AcceptedWasEnqueued,               *)
(* OneBatchUntilFailure and PendingIsOwned for any number of requests,     *)
(* keys and bodies, and under every combination of faults; and that they   *)
(* implement IdempotentIngest: each step of a handler is a step of the     *)
(* promise or changes nothing that a client or a worker can see.           *)
(***************************************************************************)
EXTENDS IngestApi, TLAPS

(* Once a request is being served its key and body are fixed; before that  *)
(* nothing has been done in its name.                                      *)
HandlerInv ==
    \A r \in Requests :
        /\ pc[r] = "idle" => r \notin enqueued /\ answer[r].outcome = "none"
        /\ pc[r] \in ActivePcs => body[r] \in Bodies /\ answer[r].outcome = "none"
        /\ pc[r] \in {"reserve", "reopen", "fail", "commit"} => key[r] \in Keys
        /\ pc[r] = "commit" => r \in enqueued

(* A row belongs to the request whose batch it names, and a COMMITTED row   *)
(* names a batch that is on the queue.                                      *)
RecordInv ==
    \A k \in Keys :
        /\ rec[k].status \in {"PENDING", "COMMITTED"} =>
              /\ rec[k].result \in Requests
              /\ pc[rec[k].result] # "idle"
              /\ key[rec[k].result] = k
              /\ body[rec[k].result] = rec[k].hash
        /\ rec[k].status = "COMMITTED" => rec[k].result \in enqueued
        /\ rec[k].status = "FAILED" => k \in everFailed

(* A handler that holds or is about to take over a reservation finds the    *)
(* row it reserved, with its own body's hash; only a failed key is reopened. *)
ReservationInv ==
    \A r \in Requests :
        /\ Owner(r) \/ pc[r] = "reopen" =>
              /\ rec[key[r]].status # "ABSENT"
              /\ rec[key[r]].hash = body[r]
        /\ pc[r] = "reopen" => key[r] \in everFailed

(* While a key has never failed, the row names the only request that ever   *)
(* owned the reservation.                                                   *)
SoleOwnerInv ==
    \A r \in Requests :
        (key[r] \in Keys \ everFailed /\ (r \in enqueued \/ pc[r] \in OwnerPcs))
        => rec[key[r]].status # "ABSENT" /\ rec[key[r]].result = r

(* The inductive invariant. *)
IInv ==
    /\ TypeOK
    /\ HandlerInv
    /\ RecordInv
    /\ ReservationInv
    /\ SoleOwnerInv
    /\ AcceptedWasEnqueued
    /\ PendingIsOwned

-----------------------------------------------------------------------------
(* Init establishes the inductive invariant. *)
LEMMA InitIInv == Init => IInv
  BY IngestAssumption
  DEF Init, IInv, TypeOK, HandlerInv, RecordInv, ReservationInv, SoleOwnerInv,
      AcceptedWasEnqueued, PendingIsOwned, Owner, OwnerPcs, ActivePcs, FinalPcs,
      RecStatuses, Outcomes

(* Arrive keeps the inductive invariant. *)
LEMMA ArriveIInv ==
    ASSUME IInv, NEW r \in Requests,
           NEW k \in Keys \cup {NoKey}, NEW b \in Bodies,
           Arrive(r, k, b)
    PROVE  IInv'
  <1> USE IngestAssumption
      DEF IInv, Arrive, Goto, OwnerPcs, ActivePcs, FinalPcs
  <1>1. TypeOK'
    BY DEF TypeOK, HandlerInv, RecStatuses, Outcomes
  <1>2. HandlerInv'
    BY DEF TypeOK, HandlerInv
  <1>3. RecordInv'
    BY DEF TypeOK, HandlerInv, RecordInv, ReservationInv, Owner
  <1>4. ReservationInv'
    BY DEF TypeOK, HandlerInv, RecordInv, ReservationInv, Owner
  <1>5. SoleOwnerInv'
    BY DEF TypeOK, HandlerInv, RecordInv, ReservationInv, SoleOwnerInv,
        Owner
  <1>6. AcceptedWasEnqueued'
    BY DEF TypeOK, HandlerInv, RecordInv, AcceptedWasEnqueued
  <1>7. PendingIsOwned'
    BY DEF TypeOK, HandlerInv, RecordInv, ReservationInv, PendingIsOwned,
        Owner
  <1> QED BY <1>1, <1>2, <1>3, <1>4, <1>5, <1>6, <1>7

(* RateLimited keeps the inductive invariant. *)
LEMMA RateLimitedIInv ==
    ASSUME IInv, NEW r \in Requests,
           RateLimited(r)
    PROVE  IInv'
  <1> USE IngestAssumption
      DEF IInv, RateLimited, Respond, Goto, OwnerPcs, ActivePcs, FinalPcs
  <1>1. TypeOK'
    BY DEF TypeOK, HandlerInv, RecStatuses, Outcomes
  <1>2. HandlerInv'
    BY DEF TypeOK, HandlerInv
  <1>3. RecordInv'
    BY DEF TypeOK, HandlerInv, RecordInv, ReservationInv, Owner
  <1>4. ReservationInv'
    BY DEF TypeOK, HandlerInv, RecordInv, ReservationInv, Owner
  <1>5. SoleOwnerInv'
    BY DEF TypeOK, HandlerInv, RecordInv, ReservationInv, SoleOwnerInv,
        Owner
  <1>6. AcceptedWasEnqueued'
    BY DEF TypeOK, HandlerInv, RecordInv, AcceptedWasEnqueued
  <1>7. PendingIsOwned'
    BY DEF TypeOK, HandlerInv, RecordInv, ReservationInv, PendingIsOwned,
        Owner
  <1> QED BY <1>1, <1>2, <1>3, <1>4, <1>5, <1>6, <1>7

(* ReserveInsert keeps the inductive invariant. *)
LEMMA ReserveInsertIInv ==
    ASSUME IInv, NEW r \in Requests,
           ReserveInsert(r)
    PROVE  IInv'
  <1> USE IngestAssumption
      DEF IInv, ReserveInsert, SetRecord, Goto, OwnerPcs, ActivePcs,
          FinalPcs
  <1>1. TypeOK'
    BY DEF TypeOK, HandlerInv, RecStatuses, Outcomes
  <1>2. HandlerInv'
    BY DEF TypeOK, HandlerInv
  <1>3. RecordInv'
    BY DEF TypeOK, HandlerInv, RecordInv, ReservationInv, Owner
  <1>4. ReservationInv'
    BY DEF TypeOK, HandlerInv, RecordInv, ReservationInv, Owner
  <1>5. SoleOwnerInv'
    BY DEF TypeOK, HandlerInv, RecordInv, ReservationInv, SoleOwnerInv,
        Owner
  <1>6. AcceptedWasEnqueued'
    BY DEF TypeOK, HandlerInv, RecordInv, AcceptedWasEnqueued
  <1>7. PendingIsOwned'
    BY DEF TypeOK, HandlerInv, RecordInv, ReservationInv, PendingIsOwned,
        Owner
  <1> QED BY <1>1, <1>2, <1>3, <1>4, <1>5, <1>6, <1>7

(* ReserveExisting keeps the inductive invariant. *)
LEMMA ReserveExistingIInv ==
    ASSUME IInv, NEW r \in Requests,
           ReserveExisting(r)
    PROVE  IInv'
  <1> USE IngestAssumption
      DEF IInv, ReserveExisting, Respond, Goto, OwnerPcs, ActivePcs,
          FinalPcs
  <1>1. TypeOK'
    BY SMTT(30) DEF TypeOK, HandlerInv, RecStatuses, Outcomes
  <1>2. HandlerInv'
    BY DEF TypeOK, HandlerInv
  <1>3. RecordInv'
    BY DEF TypeOK, HandlerInv, RecordInv, ReservationInv, Owner
  <1>4. ReservationInv'
    BY DEF TypeOK, HandlerInv, RecordInv, ReservationInv, Owner
  <1>5. SoleOwnerInv'
    BY DEF TypeOK, HandlerInv, RecordInv, ReservationInv, SoleOwnerInv,
        Owner
  <1>6. AcceptedWasEnqueued'
    <2>1. \A q \in Requests \ {r} : answer'[q] = answer[q]
      BY DEF TypeOK
    <2>2. ASSUME answer'[r].outcome = "accepted"
          PROVE  /\ rec[key[r]].status = "COMMITTED"
                 /\ rec[key[r]].hash = body[r]
                 /\ answer'[r].batch = rec[key[r]].result
      BY <2>2 DEF TypeOK, HandlerInv
    <2>3. answer'[r].outcome = "accepted" =>
              /\ answer'[r].batch \in enqueued
              /\ key[answer'[r].batch] = key[r]
              /\ body[answer'[r].batch] = body[r]
      BY <2>2 DEF TypeOK, HandlerInv, RecordInv
    <2> QED BY <2>1, <2>3 DEF AcceptedWasEnqueued
  <1>7. PendingIsOwned'
    BY DEF TypeOK, HandlerInv, RecordInv, ReservationInv, PendingIsOwned,
        Owner
  <1> QED BY <1>1, <1>2, <1>3, <1>4, <1>5, <1>6, <1>7

(* Reopen keeps the inductive invariant. *)
LEMMA ReopenIInv ==
    ASSUME IInv, NEW r \in Requests,
           Reopen(r)
    PROVE  IInv'
  <1> USE IngestAssumption
      DEF IInv, Reopen, SetRecord, Goto, OwnerPcs, ActivePcs, FinalPcs
  <1>1. TypeOK'
    BY DEF TypeOK, HandlerInv, RecStatuses, Outcomes
  <1>2. HandlerInv'
    BY DEF TypeOK, HandlerInv
  <1>3. RecordInv'
    BY DEF TypeOK, HandlerInv, RecordInv, ReservationInv, Owner
  <1>4. ReservationInv'
    BY DEF TypeOK, HandlerInv, RecordInv, ReservationInv, Owner
  <1>5. SoleOwnerInv'
    BY DEF TypeOK, HandlerInv, RecordInv, ReservationInv, SoleOwnerInv,
        Owner
  <1>6. AcceptedWasEnqueued'
    BY DEF TypeOK, HandlerInv, RecordInv, AcceptedWasEnqueued
  <1>7. PendingIsOwned'
    BY DEF TypeOK, HandlerInv, RecordInv, ReservationInv, PendingIsOwned,
        Owner
  <1> QED BY <1>1, <1>2, <1>3, <1>4, <1>5, <1>6, <1>7

(* CreateAccepted keeps the inductive invariant. *)
LEMMA CreateAcceptedIInv ==
    ASSUME IInv, NEW r \in Requests,
           CreateAccepted(r)
    PROVE  IInv'
  <1> USE IngestAssumption
      DEF IInv, CreateAccepted, AcceptRaises, Abort, Goto, OwnerPcs,
          ActivePcs, FinalPcs
  <1>1. TypeOK'
    BY DEF TypeOK, HandlerInv, RecStatuses, Outcomes
  <1>2. HandlerInv'
    BY DEF TypeOK, HandlerInv
  <1>3. RecordInv'
    BY DEF TypeOK, HandlerInv, RecordInv, ReservationInv, Owner
  <1>4. ReservationInv'
    BY DEF TypeOK, HandlerInv, RecordInv, ReservationInv, Owner
  <1>5. SoleOwnerInv'
    BY DEF TypeOK, HandlerInv, RecordInv, ReservationInv, SoleOwnerInv,
        Owner
  <1>6. AcceptedWasEnqueued'
    BY DEF TypeOK, HandlerInv, RecordInv, AcceptedWasEnqueued
  <1>7. PendingIsOwned'
    BY DEF TypeOK, HandlerInv, RecordInv, ReservationInv, PendingIsOwned,
        Owner
  <1> QED BY <1>1, <1>2, <1>3, <1>4, <1>5, <1>6, <1>7

(* Enqueue keeps the inductive invariant. *)
LEMMA EnqueueIInv ==
    ASSUME IInv, NEW r \in Requests,
           Enqueue(r)
    PROVE  IInv'
  <1> USE IngestAssumption
      DEF IInv, Enqueue, Respond, Goto, OwnerPcs, ActivePcs, FinalPcs
  <1>1. TypeOK'
    BY DEF TypeOK, HandlerInv, RecStatuses, Outcomes
  <1>2. HandlerInv'
    BY DEF TypeOK, HandlerInv
  <1>3. RecordInv'
    BY DEF TypeOK, HandlerInv, RecordInv, ReservationInv, Owner
  <1>4. ReservationInv'
    BY DEF TypeOK, HandlerInv, RecordInv, ReservationInv, Owner
  <1>5. SoleOwnerInv'
    BY DEF TypeOK, HandlerInv, RecordInv, ReservationInv, SoleOwnerInv,
        Owner
  <1>6. AcceptedWasEnqueued'
    BY DEF TypeOK, HandlerInv, RecordInv, AcceptedWasEnqueued
  <1>7. PendingIsOwned'
    BY DEF TypeOK, HandlerInv, RecordInv, ReservationInv, PendingIsOwned,
        Owner
  <1> QED BY <1>1, <1>2, <1>3, <1>4, <1>5, <1>6, <1>7

(* MarkFailed keeps the inductive invariant. *)
LEMMA MarkFailedIInv ==
    ASSUME IInv, NEW r \in Requests,
           MarkFailed(r)
    PROVE  IInv'
  <1> USE IngestAssumption
      DEF IInv, MarkFailed, AcceptRaises, Abort, Goto, OwnerPcs,
          ActivePcs, FinalPcs
  <1>1. TypeOK'
    <2>1. batchStatus' \in [Requests -> {"absent", "accepted", "failed"}]
      BY DEF TypeOK
    <2>2. /\ pc' \in [Requests -> ActivePcs \cup FinalPcs \cup {"idle"}]
          /\ answer' \in [Requests -> [outcome : Outcomes,
                                       batch : Requests \cup {None}]]
      BY DEF TypeOK, Outcomes
    <2> QED BY <2>1, <2>2 DEF TypeOK
  <1>2. HandlerInv'
    BY DEF TypeOK, HandlerInv
  <1>3. RecordInv'
    BY DEF TypeOK, HandlerInv, RecordInv, ReservationInv, Owner
  <1>4. ReservationInv'
    BY DEF TypeOK, HandlerInv, RecordInv, ReservationInv, Owner
  <1>5. SoleOwnerInv'
    BY DEF TypeOK, HandlerInv, RecordInv, ReservationInv, SoleOwnerInv,
        Owner
  <1>6. AcceptedWasEnqueued'
    BY DEF TypeOK, HandlerInv, RecordInv, AcceptedWasEnqueued
  <1>7. PendingIsOwned'
    BY DEF TypeOK, HandlerInv, RecordInv, ReservationInv, PendingIsOwned,
        Owner
  <1> QED BY <1>1, <1>2, <1>3, <1>4, <1>5, <1>6, <1>7

(* FailRecord keeps the inductive invariant. *)
LEMMA FailRecordIInv ==
    ASSUME IInv, NEW r \in Requests,
           FailRecord(r)
    PROVE  IInv'
  <1> USE IngestAssumption
      DEF IInv, FailRecord, SetStatus, SetRecord, Respond, Goto,
          OwnerPcs, ActivePcs, FinalPcs
  <1>1. TypeOK'
    BY DEF TypeOK, HandlerInv, RecStatuses, Outcomes
  <1>2. HandlerInv'
    BY DEF TypeOK, HandlerInv
  <1>3. RecordInv'
    BY DEF TypeOK, HandlerInv, RecordInv, ReservationInv, Owner
  <1>4. ReservationInv'
    BY DEF TypeOK, HandlerInv, RecordInv, ReservationInv, Owner
  <1>5. SoleOwnerInv'
    BY DEF TypeOK, HandlerInv, RecordInv, ReservationInv, SoleOwnerInv,
        Owner
  <1>6. AcceptedWasEnqueued'
    BY DEF TypeOK, HandlerInv, RecordInv, AcceptedWasEnqueued
  <1>7. PendingIsOwned'
    BY DEF TypeOK, HandlerInv, RecordInv, ReservationInv, PendingIsOwned,
        Owner
  <1> QED BY <1>1, <1>2, <1>3, <1>4, <1>5, <1>6, <1>7

(* CommitRecord keeps the inductive invariant. *)
LEMMA CommitRecordIInv ==
    ASSUME IInv, NEW r \in Requests,
           CommitRecord(r)
    PROVE  IInv'
  <1> USE IngestAssumption
      DEF IInv, CommitRecord, SetStatus, SetRecord, Respond, Goto,
          OwnerPcs, ActivePcs, FinalPcs
  <1>1. TypeOK'
    BY DEF TypeOK, HandlerInv, RecStatuses, Outcomes
  <1>2. HandlerInv'
    BY DEF TypeOK, HandlerInv
  <1>3. RecordInv'
    BY DEF TypeOK, HandlerInv, RecordInv, ReservationInv, Owner
  <1>4. ReservationInv'
    <2>1. key[r] \in Keys /\ rec[key[r]].hash = body[r] /\ Owner(r)
      BY DEF TypeOK, HandlerInv, ReservationInv, Owner
    <2>2. \A k \in Keys : rec'[k].hash = rec[k].hash
                          /\ (rec[k].status # "ABSENT" => rec'[k].status # "ABSENT")
      BY <2>1 DEF TypeOK
    <2>3. \A q \in Requests : pc'[q] \in OwnerPcs \cup {"reopen"} => pc'[q] = pc[q]
      BY DEF TypeOK
    <2> QED BY <2>2, <2>3 DEF TypeOK, HandlerInv, ReservationInv, Owner
  <1>5. SoleOwnerInv'
    BY DEF TypeOK, HandlerInv, RecordInv, ReservationInv, SoleOwnerInv,
        Owner
  <1>6. AcceptedWasEnqueued'
    BY DEF TypeOK, HandlerInv, RecordInv, AcceptedWasEnqueued
  <1>7. PendingIsOwned'
    BY DEF TypeOK, HandlerInv, RecordInv, ReservationInv, PendingIsOwned,
        Owner
  <1> QED BY <1>1, <1>2, <1>3, <1>4, <1>5, <1>6, <1>7

(* DbError keeps the inductive invariant. *)
LEMMA DbErrorIInv ==
    ASSUME IInv, NEW r \in Requests,
           DbError(r)
    PROVE  IInv'
  <1> USE IngestAssumption
      DEF IInv, DbError, Abort, Goto, OwnerPcs, ActivePcs, FinalPcs
  <1>1. TypeOK'
    BY DEF TypeOK, HandlerInv, RecStatuses, Outcomes
  <1>2. HandlerInv'
    BY DEF TypeOK, HandlerInv
  <1>3. RecordInv'
    BY DEF TypeOK, HandlerInv, RecordInv, ReservationInv, Owner
  <1>4. ReservationInv'
    BY DEF TypeOK, HandlerInv, RecordInv, ReservationInv, Owner
  <1>5. SoleOwnerInv'
    BY DEF TypeOK, HandlerInv, RecordInv, ReservationInv, SoleOwnerInv,
        Owner
  <1>6. AcceptedWasEnqueued'
    BY DEF TypeOK, HandlerInv, RecordInv, AcceptedWasEnqueued
  <1>7. PendingIsOwned'
    BY DEF TypeOK, HandlerInv, RecordInv, ReservationInv, PendingIsOwned,
        Owner
  <1> QED BY <1>1, <1>2, <1>3, <1>4, <1>5, <1>6, <1>7

(* DbAckLost keeps the inductive invariant. *)
LEMMA DbAckLostIInv ==
    ASSUME IInv, NEW r \in Requests,
           DbAckLost(r)
    PROVE  IInv'
  <1> USE IngestAssumption
      DEF IInv, DbAckLost, SetStatus, SetRecord, Abort, Goto, OwnerPcs,
          ActivePcs, FinalPcs
  <1>1. TypeOK'
    BY DEF TypeOK, HandlerInv, RecStatuses, Outcomes
  <1>2. HandlerInv'
    BY DEF TypeOK, HandlerInv
  <1>3. RecordInv'
    BY DEF TypeOK, HandlerInv, RecordInv, ReservationInv, Owner
  <1>4. ReservationInv'
    BY DEF TypeOK, HandlerInv, RecordInv, ReservationInv, Owner
  <1>5. SoleOwnerInv'
    BY DEF TypeOK, HandlerInv, RecordInv, ReservationInv, SoleOwnerInv,
        Owner
  <1>6. AcceptedWasEnqueued'
    BY DEF TypeOK, HandlerInv, RecordInv, AcceptedWasEnqueued
  <1>7. PendingIsOwned'
    BY DEF TypeOK, HandlerInv, RecordInv, ReservationInv, PendingIsOwned,
        Owner
  <1> QED BY <1>1, <1>2, <1>3, <1>4, <1>5, <1>6, <1>7

(* Crash keeps the inductive invariant. *)
LEMMA CrashIInv ==
    ASSUME IInv, NEW r \in Requests,
           Crash(r)
    PROVE  IInv'
  <1> USE IngestAssumption
      DEF IInv, Crash, Goto, OwnerPcs, ActivePcs, FinalPcs
  <1>1. TypeOK'
    BY DEF TypeOK, HandlerInv, RecStatuses, Outcomes
  <1>2. HandlerInv'
    BY DEF TypeOK, HandlerInv
  <1>3. RecordInv'
    BY DEF TypeOK, HandlerInv, RecordInv, ReservationInv, Owner
  <1>4. ReservationInv'
    BY DEF TypeOK, HandlerInv, RecordInv, ReservationInv, Owner
  <1>5. SoleOwnerInv'
    BY DEF TypeOK, HandlerInv, RecordInv, ReservationInv, SoleOwnerInv,
        Owner
  <1>6. AcceptedWasEnqueued'
    BY DEF TypeOK, HandlerInv, RecordInv, AcceptedWasEnqueued
  <1>7. PendingIsOwned'
    BY DEF TypeOK, HandlerInv, RecordInv, ReservationInv, PendingIsOwned,
        Owner
  <1> QED BY <1>1, <1>2, <1>3, <1>4, <1>5, <1>6, <1>7

(* Every step, and stuttering, keeps the inductive invariant. *)
LEMMA NextIInv == IInv /\ [Next]_vars => IInv'
  <1> SUFFICES ASSUME IInv, [Next]_vars PROVE IInv'
    OBVIOUS
  <1>1. CASE UNCHANGED vars
    BY <1>1 DEF vars, IInv, TypeOK, HandlerInv, RecordInv, ReservationInv, Owner,
                SoleOwnerInv, AcceptedWasEnqueued, PendingIsOwned
  <1>2. CASE Next
    <2> PICK r \in Requests :
            \/ \E k \in Keys \cup {NoKey}, b \in Bodies : Arrive(r, k, b)
            \/ RateLimited(r)
            \/ HandlerStep(r)
            \/ FaultStep(r)
      BY <1>2 DEF Next
    <2>1. CASE \E k \in Keys \cup {NoKey}, b \in Bodies : Arrive(r, k, b)
      BY <2>1, ArriveIInv
    <2>2. CASE RateLimited(r)
      BY <2>2, RateLimitedIInv
    <2>3. CASE HandlerStep(r)
      BY <2>3, ReserveInsertIInv, ReserveExistingIInv, ReopenIInv,
         CreateAcceptedIInv, EnqueueIInv, MarkFailedIInv, FailRecordIInv,
         CommitRecordIInv
      DEF HandlerStep
    <2>4. CASE FaultStep(r)
      BY <2>4, DbErrorIInv, DbAckLostIInv, CrashIInv DEF FaultStep
    <2> QED BY <2>1, <2>2, <2>3, <2>4
  <1> QED BY <1>1, <1>2

(* The inductive invariant holds in every reachable state. *)
THEOREM IngestInductive == Spec => []IInv
  BY InitIInv, NextIInv, PTL DEF Spec

-----------------------------------------------------------------------------
(* The variables of the ingest handlers keep their types. *)
THEOREM IngestTypeOK == Spec => []TypeOK
  <1>1. IInv => TypeOK
    BY DEF IInv
  <1> QED BY <1>1, IngestInductive, PTL

(* A 202 answer, replayed or not, names a batch that ingest_spans put on the *)
(* worker queue for the same key and spans, whatever faults occurred.        *)
THEOREM IngestAcceptedWasEnqueued == Spec => []AcceptedWasEnqueued
  <1>1. IInv => AcceptedWasEnqueued
    BY DEF IInv
  <1> QED BY <1>1, IngestInductive, PTL

(* Until reserve's record of a key has been marked FAILED, at most one batch *)
(* is enqueued for that key.                                                 *)
THEOREM IngestOneBatchUntilFailure == Spec => []OneBatchUntilFailure
  <1>1. IInv => OneBatchUntilFailure
    BY DEF IInv, TypeOK, SoleOwnerInv, OneBatchUntilFailure
  <1> QED BY <1>1, IngestInductive, PTL

(* A handler that ran to its end never leaves its record PENDING. *)
THEOREM IngestPendingIsOwned == Spec => []PendingIsOwned
  <1>1. IInv => PendingIsOwned
    BY DEF IInv
  <1> QED BY <1>1, IngestInductive, PTL

-----------------------------------------------------------------------------
(* The refinement. *)
NoAnswer == [outcome |-> "none", batch |-> None]

(* What the refinement needs beyond IInv: an unfinished handler has not      *)
(* answered and has not enqueued before its time, an aborted one answered    *)
(* 500, and the hash in a row is the body of some request with its key.      *)
AnswerInv ==
    /\ \A r \in Requests :
          /\ pc[r] \in ActivePcs \cup {"idle", "crashed"} => answer[r] = NoAnswer
          /\ pc[r] = "idle" => body[r] = None
          /\ pc[r] = "aborted" => answer[r].outcome = "error"
          /\ pc[r] \in ActivePcs \ {"markFailed", "fail", "commit"} => r \notin enqueued
    /\ \A k \in Keys : rec[k].status # "ABSENT" =>
          \E s \in Requests : key[s] = k /\ body[s] = rec[k].hash /\ body[s] \in Bodies

(* The inductive invariant of the refinement. *)
RInv == IInv /\ AnswerInv

-----------------------------------------------------------------------------
(* Init establishes AnswerInv. *)
LEMMA InitAnswerInv == Init => AnswerInv
  BY IngestAssumption DEF Init, AnswerInv, NoAnswer, ActivePcs, OwnerPcs

(* Every step of a handler keeps AnswerInv. *)
LEMMA StepAnswerInv ==
    ASSUME RInv, NEW r \in Requests,
           \/ \E k \in Keys \cup {NoKey}, b \in Bodies : Arrive(r, k, b)
           \/ RateLimited(r)
           \/ HandlerStep(r)
           \/ FaultStep(r)
    PROVE  AnswerInv'
  <1> USE IngestAssumption DEF RInv, IInv, OwnerPcs, ActivePcs, FinalPcs, Goto
  <1> DEFINE
        Handlers == \A q \in Requests :
            /\ pc[q] \in ActivePcs \cup {"idle", "crashed"} => answer[q] = NoAnswer
            /\ pc[q] = "idle" => body[q] = None
            /\ pc[q] = "aborted" => answer[q].outcome = "error"
            /\ pc[q] \in ActivePcs \ {"markFailed", "fail", "commit"} => q \notin enqueued
        Rows == \A k \in Keys : rec[k].status # "ABSENT" =>
            \E s \in Requests : key[s] = k /\ body[s] = rec[k].hash /\ body[s] \in Bodies
  <1>0. ASSUME Handlers', Rows' PROVE AnswerInv'
    BY <1>0 DEF AnswerInv
  <1>1. ASSUME NEW k \in Keys \cup {NoKey}, NEW b \in Bodies, Arrive(r, k, b)
        PROVE  AnswerInv'
    <2>1. Handlers'
      BY <1>1 DEF Arrive, TypeOK, AnswerInv, HandlerInv, NoAnswer
    <2>2. Rows'
      BY <1>1 DEF Arrive, TypeOK, AnswerInv
    <2> QED BY <2>1, <2>2, <1>0
  <1>2. CASE RateLimited(r)
    <2>1. Handlers'
      BY <1>2 DEF RateLimited, Respond, TypeOK, AnswerInv, NoAnswer
    <2>2. Rows'
      BY <1>2 DEF RateLimited, TypeOK, AnswerInv
    <2> QED BY <2>1, <2>2, <1>0
  <1>3. CASE ReserveInsert(r)
    <2>1. Handlers'
      BY <1>3 DEF ReserveInsert, TypeOK, AnswerInv, NoAnswer
    <2>2. Rows'
      BY <1>3 DEF ReserveInsert, SetRecord, TypeOK, HandlerInv, AnswerInv
    <2> QED BY <2>1, <2>2, <1>0
  <1>4. CASE ReserveExisting(r)
    <2>1. Handlers'
      BY <1>4 DEF ReserveExisting, Respond, TypeOK, AnswerInv, NoAnswer
    <2>2. Rows'
      BY <1>4 DEF ReserveExisting, TypeOK, AnswerInv
    <2> QED BY <2>1, <2>2, <1>0
  <1>5. CASE Reopen(r)
    <2>1. Handlers'
      BY <1>5 DEF Reopen, TypeOK, AnswerInv, NoAnswer
    <2>2. Rows'
      BY <1>5 DEF Reopen, SetRecord, TypeOK, HandlerInv, ReservationInv, AnswerInv
    <2> QED BY <2>1, <2>2, <1>0
  <1>6. CASE CreateAccepted(r)
    <2>1. Handlers'
      BY <1>6 DEF CreateAccepted, AcceptRaises, Abort, TypeOK, AnswerInv, NoAnswer
    <2>2. Rows'
      BY <1>6 DEF CreateAccepted, TypeOK, AnswerInv
    <2> QED BY <2>1, <2>2, <1>0
  <1>7. CASE Enqueue(r)
    <2>1. Handlers'
      BY <1>7 DEF Enqueue, Respond, TypeOK, AnswerInv, NoAnswer
    <2>2. Rows'
      BY <1>7 DEF Enqueue, TypeOK, AnswerInv
    <2> QED BY <2>1, <2>2, <1>0
  <1>8. CASE MarkFailed(r)
    <2>1. Handlers'
      BY <1>8 DEF MarkFailed, AcceptRaises, Abort, TypeOK, AnswerInv, NoAnswer
    <2>2. Rows'
      BY <1>8 DEF MarkFailed, TypeOK, AnswerInv
    <2> QED BY <2>1, <2>2, <1>0
  <1>9. CASE FailRecord(r)
    <2>1. Handlers'
      BY <1>9 DEF FailRecord, Respond, TypeOK, AnswerInv, NoAnswer
    <2>2. Rows'
      BY <1>9 DEF FailRecord, SetStatus, SetRecord, TypeOK, HandlerInv, AnswerInv
    <2> QED BY <2>1, <2>2, <1>0
  <1>10. CASE CommitRecord(r)
    <2>1. Handlers'
      BY <1>10 DEF CommitRecord, Respond, TypeOK, AnswerInv, NoAnswer
    <2>2. Rows'
      BY <1>10 DEF CommitRecord, SetStatus, SetRecord, TypeOK, HandlerInv, AnswerInv
    <2> QED BY <2>1, <2>2, <1>0
  <1>11. CASE DbError(r)
    <2>1. Handlers'
      BY <1>11 DEF DbError, Abort, TypeOK, AnswerInv, NoAnswer
    <2>2. Rows'
      BY <1>11 DEF DbError, TypeOK, AnswerInv
    <2> QED BY <2>1, <2>2, <1>0
  <1>12. CASE DbAckLost(r)
    <2>1. Handlers'
      BY <1>12 DEF DbAckLost, Abort, TypeOK, AnswerInv, NoAnswer
    <2>2. Rows'
      BY <1>12 DEF DbAckLost, SetStatus, SetRecord, TypeOK, HandlerInv,
                   ReservationInv, AnswerInv
    <2> QED BY <2>1, <2>2, <1>0
  <1>13. CASE Crash(r)
    <2>1. Handlers'
      BY <1>13 DEF Crash, TypeOK, AnswerInv, NoAnswer
    <2>2. Rows'
      BY <1>13 DEF Crash, TypeOK, AnswerInv
    <2> QED BY <2>1, <2>2, <1>0
  <1> QED
    BY <1>1, <1>2, <1>3, <1>4, <1>5, <1>6, <1>7, <1>8, <1>9, <1>10, <1>11, <1>12,
       <1>13
    DEF HandlerStep, FaultStep

(* Stuttering, and every step, keep the inductive invariant. *)
LEMMA NextRInv == RInv /\ [Next]_vars => RInv'
  <1> SUFFICES ASSUME RInv, [Next]_vars PROVE AnswerInv'
    BY NextIInv DEF RInv
  <1>1. CASE UNCHANGED vars
    BY <1>1 DEF vars, RInv, AnswerInv
  <1>2. CASE Next
    BY <1>2, StepAnswerInv DEF Next
  <1> QED BY <1>1, <1>2

-----------------------------------------------------------------------------
(* The initial state maps to the initial state of the promise. *)
LEMMA InitRefines == Init => Promise!Init
  BY DEF Init, Promise!Init, Promise!Unanswered, Asked

(* What the mapping shows of a request that is being served, and that it moves *)
(* only when a request arrives.                                                *)
LEMMA AskedFacts ==
    ASSUME RInv
    PROVE  /\ \A q \in Requests : body[q] \in Bodies =>
                 Asked[q] = {<<key[q], body[q]>>}
           /\ UNCHANGED <<key, body>> => UNCHANGED Asked
  BY IngestAssumption DEF RInv, IInv, TypeOK, Asked

(* The step that follows from one handler's step is a step of the promise. *)
LEMMA StepRefines ==
    ASSUME RInv, NEW r \in Requests,
           \/ \E k \in Keys \cup {NoKey}, b \in Bodies : Arrive(r, k, b)
           \/ RateLimited(r)
           \/ HandlerStep(r)
           \/ FaultStep(r)
    PROVE  [Promise!Next]_(Promise!vars)
  <1> USE IngestAssumption
      DEF RInv, IInv, OwnerPcs, ActivePcs, FinalPcs, Goto, NoAnswer
  <1> DEFINE Open == pc[r] \in ActivePcs
  <1>a. Open => /\ answer[r] = Promise!Unanswered
                /\ <<key[r], body[r]>> \in Asked[r]
                /\ key[r] \in Keys \cup {NoKey} /\ body[r] \in Bodies
    BY AskedFacts DEF TypeOK, HandlerInv, AnswerInv, Promise!Unanswered
  <1>b. ASSUME Open, NEW o, NEW b,
               answer' = [answer EXCEPT ![r] = [outcome |-> o, batch |-> b]]
        PROVE  Promise!Answer(r, o, b)
    BY <1>a, <1>b DEF Promise!Answer
  <1>c. ASSUME UNCHANGED <<key, body, enqueued, answer, everFailed>>
        PROVE  UNCHANGED Promise!vars
    BY <1>c, AskedFacts DEF Promise!vars
  \* An exception that leaves a handler is the promise's Error.
  <1>d. ASSUME Open, UNCHANGED <<key, body, enqueued>>,
               answer' = [answer EXCEPT ![r] = [outcome |-> "error", batch |-> None]],
               \/ UNCHANGED everFailed
               \/ key[r] \in Keys /\ everFailed' = everFailed \cup {key[r]}
        PROVE  Promise!Next
    <2>1. Promise!Answer(r, "error", None)
      BY <1>d, <1>b
    <2>2. Promise!Error(r, key[r], body[r])
      BY <2>1, <1>a, <1>d, AskedFacts DEF Promise!Error
    <2> QED BY <2>2, <1>a, <1>d DEF Promise!Next
  <1>1. ASSUME NEW k \in Keys \cup {NoKey}, NEW b \in Bodies, Arrive(r, k, b)
        PROVE  Promise!Next
    <2>1. Asked[r] = {} /\ Asked' = [Asked EXCEPT ![r] = {<<k, b>>}]
      BY <1>1, ZenonT(30) DEF Arrive, Asked, TypeOK, AnswerInv
    <2>2. answer[r] = Promise!Unanswered
      BY <1>1 DEF Arrive, AnswerInv, Promise!Unanswered
    <2>3. Promise!Ask(r, k, b)
      BY <1>1, <2>1, <2>2 DEF Arrive, Promise!Ask
    <2> QED BY <2>3 DEF Promise!Next
  <1>2. ASSUME RateLimited(r) PROVE Promise!Next
    <2>1. Asked[r] = {} /\ UNCHANGED Asked
      BY <1>2, AskedFacts DEF RateLimited, Asked, AnswerInv
    <2>2. answer[r] = Promise!Unanswered
      BY <1>2 DEF RateLimited, AnswerInv, Promise!Unanswered
    <2>3. Promise!Refuse(r)
      BY <1>2, <2>1, <2>2 DEF RateLimited, Respond, Promise!Refuse, Promise!Answer
    <2> QED BY <2>3 DEF Promise!Next
  <1>3. ASSUME ReserveInsert(r) \/ Reopen(r) PROVE UNCHANGED Promise!vars
    BY <1>3, <1>c DEF ReserveInsert, Reopen
  <1>4. ASSUME ReserveExisting(r) PROVE [Promise!Next]_(Promise!vars)
    <2>0. Open /\ key[r] \in Keys /\ UNCHANGED <<key, body, enqueued, everFailed>>
      BY <1>4 DEF ReserveExisting, HandlerInv
    <2> DEFINE row == rec[key[r]]
    <2>1. CASE row.hash # body[r] /\ Respond(r, "conflict", None)
      <3>1. PICK s \in Requests :
                key[s] = key[r] /\ body[s] = row.hash /\ body[s] \in Bodies
        BY <1>4, <2>0 DEF ReserveExisting, AnswerInv
      <3>2. <<key[r], row.hash>> \in Asked[s] /\ row.hash \in Bodies \ {body[r]}
        BY <3>1, <2>1, AskedFacts
      <3>3. Promise!Answer(r, "conflict", None)
        BY <2>0, <2>1, <1>b DEF Respond
      <3>4. Promise!Conflict(r, key[r], body[r])
        BY <3>2, <3>3, <2>0, <1>a, AskedFacts DEF Promise!Conflict
      <3> QED BY <3>4, <2>0, <1>a DEF Promise!Next
    <2>2. CASE row.hash = body[r] /\ row.status = "COMMITTED"
                 /\ Respond(r, "accepted", row.result)
      <3>1. row.result \in Requests /\ row.result \in enqueued
            /\ key[row.result] = key[r] /\ body[row.result] = body[r]
        BY <2>0, <2>2 DEF RecordInv
      <3>2. <<key[r], body[r]>> \in Asked[row.result]
        BY <3>1, <2>0, <1>a, AskedFacts
      <3>3. Promise!Answer(r, "accepted", row.result)
        BY <2>0, <2>2, <1>b DEF Respond
      <3>4. Promise!Accept(r, key[r], body[r], row.result)
        BY <3>1, <3>2, <3>3, <2>0, <1>a, AskedFacts DEF Promise!Accept
      <3> QED BY <3>1, <3>4, <2>0, <1>a DEF Promise!Next
    <2>3. CASE row.hash = body[r] /\ row.status = "PENDING"
                 /\ Respond(r, "in_progress", None)
      <3>1. row.result \in Requests
            /\ key[row.result] = key[r] /\ body[row.result] = body[r]
        BY <2>0, <2>3 DEF RecordInv
      <3>2. pc[row.result] \in OwnerPcs \cup {"aborted", "crashed"}
        BY <2>0, <2>3 DEF PendingIsOwned
      <3>3. row.result # r /\ answer[row.result].outcome \in {"none", "error"}
        BY <3>1, <3>2, <1>4 DEF ReserveExisting, AnswerInv
      <3>4. <<key[r], body[r]>> \in Asked[row.result]
        BY <3>1, <2>0, <1>a, AskedFacts
      <3>5. Promise!Answer(r, "in_progress", None)
        BY <2>0, <2>3, <1>b DEF Respond
      <3>6. Promise!InProgress(r, key[r], body[r])
        BY <3>1, <3>3, <3>4, <3>5, <2>0, <1>a, AskedFacts DEF Promise!InProgress
      <3> QED BY <3>6, <2>0, <1>a DEF Promise!Next
    <2>4. CASE UNCHANGED answer
      BY <2>0, <2>4, <1>c
    <2> QED BY <1>4, <2>1, <2>2, <2>3, <2>4 DEF ReserveExisting
  <1>5. ASSUME CreateAccepted(r) \/ MarkFailed(r) PROVE [Promise!Next]_(Promise!vars)
    <2>0. Open /\ UNCHANGED <<key, body, enqueued, everFailed>>
      BY <1>5 DEF CreateAccepted, MarkFailed
    <2>1. CASE UNCHANGED answer
      BY <2>0, <2>1, <1>c
    <2>2. CASE Abort(r)
      BY <2>0, <2>2, <1>d DEF Abort
    <2> QED BY <1>5, <2>1, <2>2 DEF CreateAccepted, MarkFailed, AcceptRaises
  <1>6. ASSUME Enqueue(r) PROVE [Promise!Next]_(Promise!vars)
    <2>0. Open /\ pc[r] = "enqueue" /\ UNCHANGED <<key, body, everFailed>>
      BY <1>6 DEF Enqueue
    <2> DEFINE Hidden == enqueued' = enqueued /\ answer' = answer
               Sent == /\ enqueued' = enqueued \cup {r}
                       /\ \/ answer' = answer
                          \/ key[r] = NoKey /\ Respond(r, "accepted", r)
    <2>1. ASSUME Hidden PROVE UNCHANGED Promise!vars
      BY <2>0, <2>1, <1>c
    <2>2. ASSUME Sent PROVE Promise!Next
      \* The key has not failed, so the row names r as the only enqueuer.
      <3>1. ASSUME key[r] \in Keys \ everFailed, NEW s \in enqueued, NEW d \in Bodies
            PROVE  <<key[r], d>> \notin Asked[s]
        <4>1. s \in Requests /\ s # r
          BY <2>0 DEF TypeOK, AnswerInv
        <4>2. key[s] # key[r]
          BY <3>1, <4>1, <2>0 DEF SoleOwnerInv
        <4> QED BY <4>1, <4>2 DEF Asked
      <3>2. UNCHANGED answer \/ (key[r] = NoKey /\ Promise!Answer(r, "accepted", r))
        BY <2>0, <2>2, <1>b DEF Respond
      <3>3. Promise!Enqueue(r, key[r], body[r])
        BY <3>1, <3>2, <2>0, <2>2, <1>a, AskedFacts DEF Promise!Enqueue
      <3> QED BY <3>3, <2>0, <1>a DEF Promise!Next
    <2>3. Hidden \/ Sent
      BY <1>6 DEF Enqueue
    <2> HIDE DEF Hidden, Sent
    <2> QED BY <2>1, <2>2, <2>3
  <1>7. ASSUME FailRecord(r) PROVE Promise!Next
    BY <1>7, <1>d DEF FailRecord, Respond, HandlerInv
  <1>8. ASSUME CommitRecord(r) PROVE Promise!Next
    <2>0. Open /\ key[r] \in Keys /\ r \in enqueued
          /\ UNCHANGED <<key, body, enqueued, everFailed>>
      BY <1>8 DEF CommitRecord, HandlerInv
    <2>1. Promise!Answer(r, "accepted", r)
      BY <1>8, <2>0, <1>b DEF CommitRecord, Respond
    <2>2. Promise!Accept(r, key[r], body[r], r)
      BY <2>0, <2>1, <1>a, AskedFacts DEF Promise!Accept
    <2> QED BY <2>2, <2>0, <1>a DEF Promise!Next
  <1>9. ASSUME DbError(r) PROVE Promise!Next
    BY <1>9, <1>d DEF DbError, Abort
  <1>10. ASSUME DbAckLost(r) PROVE Promise!Next
    BY <1>10, <1>d DEF DbAckLost, Abort, HandlerInv
  <1>11. ASSUME Crash(r) PROVE UNCHANGED Promise!vars
    BY <1>11, <1>c DEF Crash
  <1> QED
    BY <1>1, <1>2, <1>3, <1>4, <1>5, <1>6, <1>7, <1>8, <1>9, <1>10, <1>11
    DEF HandlerStep, FaultStep

(* Every step of the handlers maps to a step of the promise or a stutter. *)
LEMMA NextRefines == RInv /\ [Next]_vars => [Promise!Next]_(Promise!vars)
  <1> SUFFICES ASSUME RInv, [Next]_vars PROVE [Promise!Next]_(Promise!vars)
    OBVIOUS
  <1>1. CASE UNCHANGED vars
    BY <1>1, AskedFacts DEF vars, Promise!vars
  <1>2. CASE Next
    BY <1>2, StepRefines DEF Next
  <1> QED BY <1>1, <1>2

(* POST /v1/ingest keeps its promise: however requests, faults and crashes   *)
(* interleave, every batch that reaches the worker queue and every answer of *)
(* ingest_spans is one that IdempotentIngest allows.                         *)
THEOREM IngestImplementsPromise == Spec => ImplementsIdempotentIngest
  <1>1. Init => RInv
    BY InitIInv, InitAnswerInv DEF RInv
  <1> QED
    BY <1>1, NextRInv, InitRefines, NextRefines, PTL
    DEF Spec, ImplementsIdempotentIngest, Promise!Spec
=============================================================================
