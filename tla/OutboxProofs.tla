---------------------------- MODULE OutboxProofs ----------------------------
(***************************************************************************)
(* Proofs that the outbox keeps ClaimsAreExclusive, PublishesAreBounded    *)
(* and MarksAreFinal for any number of rows and delivery tasks, any limits *)
(* and under every combination of faults.                                  *)
(***************************************************************************)
EXTENDS Outbox, FiniteSetTheorems, TLAPS

(* A delivery task works on one of the rows it claimed and on at most one;  *)
(* a task that is not running holds nothing.                                *)
TaskInv ==
    \A w \in Workers :
        /\ cur[w] \subseteq claim[w]
        /\ \A e, f \in cur[w] : e = f
        /\ wpc[w] = "idle" => claim[w] = {}
        /\ wpc[w] = "publish" => cur[w] = {}

(* A claimed row that its task has not come to has an attempt to spend, and *)
(* a row is marked delivered only after a publish.                          *)
PaidInv ==
    /\ \A w \in Workers : \A e \in claim[w] \ cur[w] : published[e] < attempts[e]
    /\ \A w \in Workers : wpc[w] = "markDelivered" =>
           \A e \in cur[w] : published[e] > 0

(* The inductive invariant. *)
IInv ==
    /\ TypeOK
    /\ TaskInv
    /\ PaidInv
    /\ ClaimsAreExclusive
    /\ PublishesAreBounded

-----------------------------------------------------------------------------
(* Init establishes the inductive invariant. *)
LEMMA InitIInv == Init => IInv
  BY OutboxAssumption
  DEF Init, IInv, TypeOK, TaskInv, PaidInv, ClaimsAreExclusive,
      PublishesAreBounded, Statuses

(* A new message is one more of a label's messages. *)
LEMMA PushTyped ==
    ASSUME NEW q \in [0 .. MaxRetries - 1 -> Nat], NEW n \in 0 .. MaxRetries - 1
    PROVE  Push(q, n) \in [0 .. MaxRetries - 1 -> Nat]
  BY OutboxAssumption DEF Push

(* What DLQRetryMiddleware.on_error does to the queue: at most one message  *)
(* is added, whose label stays below max_retries.                           *)
LEMMA RaiseTyped ==
    ASSUME NEW w \in Workers, NEW n \in 0 .. MaxRetries - 1,
           NEW q \in [0 .. MaxRetries - 1 -> Nat], Raise(w, n, q)
    PROVE  queue' \in [0 .. MaxRetries - 1 -> Nat]
  <1>1. CASE queue' = q
    BY <1>1
  <1>2. CASE n + 1 < MaxRetries /\ queue' = Push(q, n + 1)
    <2>1. n + 1 \in 0 .. MaxRetries - 1
      BY <1>2, OutboxAssumption
    <2> QED
      BY <1>2, <2>1, PushTyped
  <1> QED
    BY <1>1, <1>2 DEF Raise

(* The creation times that CommitSpans hands out are numbers. *)
LEMMA CommittedCount ==
    Cardinality({f \in Events : status[f] # "ABSENT"}) \in Nat
  <1>1. IsFiniteSet({f \in Events : status[f] # "ABSENT"})
    BY OutboxAssumption, FS_Subset
  <1> QED
    BY <1>1, FS_CardinalityType

(* A message that is taken is one less of its label's messages. *)
LEMMA PopTyped ==
    ASSUME NEW q \in [0 .. MaxRetries - 1 -> Nat], NEW n \in 0 .. MaxRetries - 1,
           q[n] > 0
    PROVE  Pop(q, n) \in [0 .. MaxRetries - 1 -> Nat]
  <1>1. q[n] - 1 \in Nat
    OBVIOUS
  <1> QED
    BY <1>1 DEF Pop

(* CommitSpans keeps the inductive invariant. *)
LEMMA CommitSpansIInv ==
    ASSUME IInv, NEW E \in SUBSET Events, CommitSpans(E)
    PROVE  IInv'
  <1> USE OutboxAssumption DEF IInv, CommitSpans, local
  <1>1. TypeOK'
    <2>1. queue' \in [0 .. MaxRetries - 1 -> Nat]
      <3>1. 0 \in 0 .. MaxRetries - 1
        OBVIOUS
      <3>2. Push(queue, 0) \in [0 .. MaxRetries - 1 -> Nat]
        BY <3>1, PushTyped DEF TypeOK
      <3> QED
        BY <3>2 DEF TypeOK
    <2>2. created' \in [Events -> Nat]
      BY CommittedCount DEF TypeOK
    <2>3. status' \in [Events -> Statuses]
      BY DEF TypeOK, Statuses
    <2> QED
      BY <2>1, <2>2, <2>3 DEF TypeOK
  <1>2. TaskInv'
    BY DEF TypeOK, TaskInv
  <1>3. PaidInv'
    BY DEF TypeOK, PaidInv
  <1>4. ClaimsAreExclusive'
    BY DEF TypeOK, ClaimsAreExclusive
  <1>5. PublishesAreBounded'
    BY DEF TypeOK, PublishesAreBounded, Statuses
  <1> QED
    BY <1>1, <1>2, <1>3, <1>4, <1>5

(* CronTick keeps the inductive invariant. *)
LEMMA CronTickIInv ==
    ASSUME IInv, CronTick
    PROVE  IInv'
  <1> USE OutboxAssumption DEF IInv, CronTick, rows, local
  <1>1. TypeOK'
    <2>1. 0 \in 0 .. MaxRetries - 1
      OBVIOUS
    <2> QED
      BY <2>1, PushTyped DEF TypeOK
  <1>2. TaskInv' /\ PaidInv' /\ ClaimsAreExclusive' /\ PublishesAreBounded'
    BY DEF TaskInv, PaidInv, ClaimsAreExclusive, PublishesAreBounded
  <1> QED
    BY <1>1, <1>2

(* What a claim takes was in no task's hands and has an attempt left. *)
LEMMA ClaimIsFresh ==
    ASSUME IInv, NEW S \in SUBSET Events, IsClaim(S), NEW e \in S
    PROVE  /\ attempts[e] < MaxAttempts
           /\ \A v \in Workers : e \notin claim[v]
  BY DEF IInv, IsClaim, Claimable, ClaimsAreExclusive

(* claim_pending moves rows to PROCESSING and spends one attempt each. *)
LEMMA ClaimRowsTyped ==
    ASSUME IInv, NEW S \in SUBSET Events, IsClaim(S), ClaimRows(S)
    PROVE  /\ status' \in [Events -> Statuses]
           /\ attempts' \in [Events -> 0 .. MaxAttempts]
  <1>1. \A e \in S : attempts[e] < MaxAttempts
    BY ClaimIsFresh
  <1>2. \A e \in Events : IF e \in S THEN attempts[e] + 1 \in 0 .. MaxAttempts
                                     ELSE attempts[e] \in 0 .. MaxAttempts
    BY <1>1, OutboxAssumption DEF IInv, TypeOK
  <1>3. attempts' \in [Events -> 0 .. MaxAttempts]
    BY <1>2 DEF ClaimRows
  <1>4. status' \in [Events -> Statuses]
    BY DEF IInv, TypeOK, ClaimRows, Statuses
  <1> QED
    BY <1>3, <1>4

(* A claim by itself publishes nothing and delivers nothing. *)
LEMMA ClaimRowsBounded ==
    ASSUME IInv, NEW S \in SUBSET Events, IsClaim(S), ClaimRows(S),
           UNCHANGED published
    PROVE  PublishesAreBounded'
  <1>1. attempts' \in [Events -> 0 .. MaxAttempts]
    BY ClaimRowsTyped
  <1> SUFFICES ASSUME NEW e \in Events
               PROVE  /\ published'[e] <= attempts'[e] /\ attempts'[e] <= MaxAttempts
                      /\ status'[e] = "DELIVERED" => published'[e] > 0
    BY DEF PublishesAreBounded
  <1>2. attempts'[e] <= MaxAttempts
    BY <1>1, OutboxAssumption
  <1>3. attempts'[e] = attempts[e] \/ attempts'[e] = attempts[e] + 1
    BY DEF ClaimRows
  <1>4. published'[e] <= attempts'[e]
    BY <1>3, OutboxAssumption DEF IInv, TypeOK, PublishesAreBounded
  <1>5. status'[e] = "DELIVERED" => published'[e] > 0
    BY DEF ClaimRows, IInv, PublishesAreBounded
  <1> QED
    BY <1>2, <1>4, <1>5

(* StartDelivery keeps the inductive invariant. *)
LEMMA StartDeliveryIInv ==
    ASSUME IInv, NEW w \in Workers, NEW n \in 0 .. MaxRetries - 1,
           NEW S \in SUBSET Events, StartDelivery(w, n, S)
    PROVE  IInv'
  <1> USE OutboxAssumption DEF IInv, StartDelivery
  <1>0. \A e \in S : \A v \in Workers : e \notin claim[v]
    BY ClaimIsFresh
  <1>1. TypeOK'
    <2>1. queue' \in [0 .. MaxRetries - 1 -> Nat]
      BY PopTyped DEF TypeOK
    <2> QED
      BY <2>1, ClaimRowsTyped DEF TypeOK, ClaimRows
  <1>2. TaskInv'
    BY SMTT(30) DEF TypeOK, TaskInv
  <1>3. PaidInv'
    <2>1. ASSUME NEW v \in Workers, NEW f \in claim'[v] \ cur'[v]
          PROVE  published'[f] < attempts'[f]
      <3>1. f \in Events /\ published[f] <= attempts[f]
        BY <2>1 DEF TypeOK, PublishesAreBounded
      <3>2. CASE v = w
        BY <2>1, <3>1, <3>2 DEF TypeOK, ClaimRows
      <3>3. CASE v # w
        BY <1>0, <2>1, <3>1, <3>3 DEF TypeOK, PaidInv, ClaimRows
      <3> QED
        BY <3>2, <3>3
    <2> QED
      BY <2>1 DEF TypeOK, PaidInv
  <1>4. ClaimsAreExclusive'
    BY <1>0 DEF TypeOK, ClaimsAreExclusive, ClaimRows
  <1>5. PublishesAreBounded'
    BY ClaimRowsBounded
  <1> QED
    BY <1>1, <1>2, <1>3, <1>4, <1>5

(* Publish keeps the inductive invariant: the row it publishes is in no     *)
(* other task's hands and had an attempt to spend.                          *)
LEMMA PublishIInv ==
    ASSUME IInv, NEW w \in Workers, NEW e \in Events, Publish(w, e)
    PROVE  IInv'
  <1> USE OutboxAssumption DEF IInv, Publish, rows
  <1>1. /\ published[e] < attempts[e]
        /\ published' \in {published, [published EXCEPT ![e] = @ + 1]}
    BY DEF TypeOK, TaskInv, PaidInv
  <1>2. TypeOK'
    <2>1. published[e] + 1 \in Nat
      BY DEF TypeOK
    <2>2. published' \in [Events -> Nat]
      BY <1>1, <2>1 DEF TypeOK
    <2> QED
      BY <2>2 DEF TypeOK
  <1>3. TaskInv'
    BY DEF TypeOK, TaskInv
  <1>4. PaidInv'
    <2>1. ASSUME NEW v \in Workers, NEW f \in claim'[v] \ cur'[v]
          PROVE  published'[f] < attempts'[f]
      BY <1>1, <2>1, SMTT(30) DEF TypeOK, TaskInv, PaidInv, ClaimsAreExclusive
    <2>2. ASSUME NEW v \in Workers, wpc'[v] = "markDelivered", NEW f \in cur'[v]
          PROVE  published'[f] > 0
      BY <1>1, <2>2, SMTT(30) DEF TypeOK, TaskInv, PaidInv
    <2> QED
      BY <2>1, <2>2 DEF PaidInv
  <1>5. ClaimsAreExclusive'
    BY DEF TypeOK, ClaimsAreExclusive
  <1>6. PublishesAreBounded'
    <2>1. ASSUME NEW f \in Events
          PROVE  /\ published'[f] <= attempts[f]
                 /\ published'[f] >= published[f]
      <3>1. f # e => published'[f] = published[f]
        BY <1>1 DEF TypeOK
      <3>2. published'[e] \in {published[e], published[e] + 1}
        BY <1>1 DEF TypeOK
      <3>3. /\ published[f] \in Nat /\ published[e] \in Nat
            /\ attempts[f] \in Nat /\ attempts[e] \in Nat
        BY DEF TypeOK
      <3> QED
        BY <1>1, <3>1, <3>2, <3>3 DEF PublishesAreBounded
    <2>2. ASSUME NEW f \in Events, status[f] = "DELIVERED"
          PROVE  published'[f] > 0
      <3>1. published[f] \in Nat /\ published'[f] \in Nat /\ published[f] > 0
        BY <1>2, <2>2 DEF TypeOK, PublishesAreBounded
      <3> QED
        BY <2>1, <3>1
    <2> QED
      BY <2>1, <2>2 DEF PublishesAreBounded
  <1> QED
    BY <1>2, <1>3, <1>4, <1>5, <1>6

(* A task that ends drops its rows; the row it worked on may be marked then *)
(* or not, and no other task has that row.                                  *)
LEMMA ReleaseKeeps ==
    ASSUME IInv, NEW w \in Workers, NEW e \in Events,
           Release(w), UNCHANGED <<published, tries, attempts, created>>,
           queue' \in [0 .. MaxRetries - 1 -> Nat],
           ready' \in [Events -> BOOLEAN],
           \/ UNCHANGED status
           \/ e \in cur[w] /\ status' = [status EXCEPT ![e] = "PENDING"]
           \/ e \in cur[w] /\ status' = [status EXCEPT ![e] = "FAILED"]
           \/ /\ e \in cur[w] /\ published[e] > 0
              /\ status' = [status EXCEPT ![e] = "DELIVERED"]
    PROVE  IInv'
  <1> USE DEF IInv, Release
  <1>1. TypeOK'
    <2>1. status' \in [Events -> Statuses]
      BY DEF TypeOK, Statuses
    <2> QED
      BY <2>1 DEF TypeOK
  <1>2. TaskInv'
    BY DEF TypeOK, TaskInv
  <1>3. PaidInv'
    BY DEF TypeOK, PaidInv
  <1>4. ClaimsAreExclusive'
    BY DEF TypeOK, TaskInv, ClaimsAreExclusive
  <1>5. PublishesAreBounded'
    BY DEF TypeOK, PublishesAreBounded
  <1> QED
    BY <1>1, <1>2, <1>3, <1>4, <1>5

(* MarkFailed keeps the inductive invariant. *)
LEMMA MarkFailedIInv ==
    ASSUME IInv, NEW w \in Workers, NEW e \in Events, MarkFailed(w, e)
    PROVE  IInv'
  <1>1. queue' \in [0 .. MaxRetries - 1 -> Nat]
    BY RaiseTyped DEF IInv, TypeOK, MarkFailed
  <1>2. ready' \in [Events -> BOOLEAN]
    BY DEF IInv, TypeOK, MarkFailed, FailRow
  <1> QED
    BY <1>1, <1>2, ReleaseKeeps DEF MarkFailed, FailRow, Raise

(* MarkDelivered keeps the inductive invariant. *)
LEMMA MarkDeliveredIInv ==
    ASSUME IInv, NEW w \in Workers, NEW e \in Events, MarkDelivered(w, e)
    PROVE  IInv'
  <1> USE OutboxAssumption DEF IInv, MarkDelivered, DeliverRow
  <1>1. TypeOK'
    BY DEF TypeOK, Statuses
  <1>2. TaskInv'
    BY DEF TypeOK, TaskInv
  <1>3. PaidInv'
    BY SMTT(30) DEF TypeOK, TaskInv, PaidInv
  <1>4. ClaimsAreExclusive'
    BY SMTT(30) DEF TypeOK, TaskInv, ClaimsAreExclusive
  <1>5. PublishesAreBounded'
    BY DEF TypeOK, PaidInv, PublishesAreBounded
  <1> QED
    BY <1>1, <1>2, <1>3, <1>4, <1>5

(* BackoffElapses keeps the inductive invariant. *)
LEMMA BackoffElapsesIInv ==
    ASSUME IInv, NEW e \in Events, BackoffElapses(e)
    PROVE  IInv'
  BY DEF BackoffElapses, local, IInv, TypeOK, TaskInv, PaidInv,
         ClaimsAreExclusive, PublishesAreBounded

(* ClaimError keeps the inductive invariant: rows that are claimed without  *)
(* the task knowing it lose an attempt and are in nobody's hands.           *)
LEMMA ClaimErrorIInv ==
    ASSUME IInv, NEW w \in Workers, NEW n \in 0 .. MaxRetries - 1,
           NEW S \in SUBSET Events, ClaimError(w, n, S)
    PROVE  IInv'
  <1> USE DEF IInv, ClaimError, Raise, Release
  <1>1. TypeOK'
    <2>1. Pop(queue, n) \in [0 .. MaxRetries - 1 -> Nat]
      BY PopTyped DEF TypeOK
    <2>2. queue' \in [0 .. MaxRetries - 1 -> Nat]
      BY <2>1, RaiseTyped
    <2>3. CASE ClaimRows(S)
      BY <2>2, <2>3, ClaimRowsTyped DEF TypeOK, ClaimRows
    <2>4. CASE UNCHANGED rows
      BY <2>2, <2>4 DEF TypeOK, rows
    <2> QED
      BY <2>3, <2>4
  <1>2. TaskInv'
    BY DEF TypeOK, TaskInv
  <1>3. \A f \in Events :
          /\ attempts'[f] \in {attempts[f], attempts[f] + 1}
          /\ status'[f] \in {status[f], "PROCESSING"}
    BY DEF TypeOK, ClaimRows, rows
  <1>4. PaidInv'
    <2>1. ASSUME NEW v \in Workers, NEW f \in claim'[v] \ cur'[v]
          PROVE  published'[f] < attempts'[f]
      <3>1. f \in claim[v] \ cur[v] /\ f \in Events
        BY <2>1 DEF TypeOK, TaskInv
      <3>2. published[f] < attempts[f]
        BY <3>1 DEF PaidInv
      <3>3. published[f] \in Nat /\ attempts[f] \in Nat
        BY <3>1 DEF TypeOK
      <3> QED
        BY <1>3, <3>1, <3>2, <3>3
    <2> QED
      BY <2>1 DEF TypeOK, TaskInv, PaidInv
  <1>5. ClaimsAreExclusive'
    <2>1. \A v \in Workers : claim'[v] \subseteq claim[v] /\ claim[v] \subseteq Events
      BY DEF TypeOK
    <2> QED
      BY <1>3, <2>1 DEF ClaimsAreExclusive
  <1>6. PublishesAreBounded'
    <2>1. CASE ClaimRows(S)
      BY <2>1, ClaimRowsBounded
    <2>2. CASE UNCHANGED rows
      BY <2>2 DEF rows, PublishesAreBounded
    <2> QED
      BY <2>1, <2>2
  <1> QED
    BY <1>1, <1>2, <1>4, <1>5, <1>6

(* MarkError keeps the inductive invariant. *)
LEMMA MarkErrorIInv ==
    ASSUME IInv, NEW w \in Workers, NEW e \in Events, MarkError(w, e)
    PROVE  IInv'
  <1>1. queue' \in [0 .. MaxRetries - 1 -> Nat]
    BY RaiseTyped DEF IInv, TypeOK, MarkError
  <1>2. ready' \in [Events -> BOOLEAN]
    BY DEF IInv, TypeOK, MarkError, DeliverRow, FailRow, rows
  <1>3. wpc[w] = "markDelivered" => published[e] > 0
    BY DEF IInv, PaidInv, MarkError
  <1> QED
    BY <1>1, <1>2, <1>3, ReleaseKeeps
    DEF MarkError, DeliverRow, FailRow, rows, Raise

(* CrashWorker keeps the inductive invariant. *)
LEMMA CrashWorkerIInv ==
    ASSUME IInv, NEW w \in Workers, CrashWorker(w)
    PROVE  IInv'
  BY OutboxAssumption
  DEF CrashWorker, Release, rows, IInv, TypeOK, TaskInv, PaidInv,
      ClaimsAreExclusive, PublishesAreBounded

(* Every step of the outbox and its delivery tasks keeps the inductive      *)
(* invariant.                                                               *)
LEMMA NextIInv == IInv /\ [Next]_vars => IInv'
  <1> SUFFICES ASSUME IInv, [Next]_vars PROVE IInv'
    OBVIOUS
  <1>1. CASE UNCHANGED vars
    BY <1>1 DEF vars, rows, local, IInv, TypeOK, TaskInv, PaidInv,
                ClaimsAreExclusive, PublishesAreBounded
  <1>2. CASE Next
    BY <1>2, CommitSpansIInv, CronTickIInv, StartDeliveryIInv, PublishIInv,
       MarkFailedIInv, MarkDeliveredIInv, BackoffElapsesIInv, ClaimErrorIInv,
       MarkErrorIInv, CrashWorkerIInv
    DEF Next, DeliveryStep, FaultStep
  <1> QED
    BY <1>1, <1>2

(* The inductive invariant holds in every reachable state. *)
THEOREM Invariance == Spec => []IInv
  BY InitIInv, NextIInv, PTL DEF Spec

(* deliver_span_outbox_events: however many deliveries run at once, and     *)
(* whatever fails, no row is in the hands of two of them and every row in a *)
(* delivery's hands is PROCESSING.                                          *)
THEOREM ExclusiveClaims == Spec => []ClaimsAreExclusive
  BY Invariance, PTL DEF IInv

(* claim_pending charges an attempt before a row can be published, so no    *)
(* row is published more often than OUTBOX_MAX_ATTEMPTS, and mark_delivered *)
(* is only reached by rows that subscribers saw.                            *)
THEOREM BoundedPublishes == Spec => []PublishesAreBounded
  BY Invariance, PTL DEF IInv

(* A claim finds no DELIVERED row and leaves a PROCESSING one alone. *)
LEMMA ClaimSettles ==
    ASSUME TypeOK, NEW S \in SUBSET Events, IsClaim(S), ClaimRows(S)
    PROVE  Settles
  BY DEF Settles, TypeOK, IsClaim, Claimable, ClaimRows

(* A mark changes one row, which the marking task holds and lets go. *)
LEMMA MarkSettles ==
    ASSUME TypeOK, ClaimsAreExclusive, NEW w \in Workers, NEW e \in claim[w],
           e \notin claim'[w], DeliverRow(e) \/ FailRow(e)
    PROVE  Settles
  <1>1. e \in Events /\ status[e] = "PROCESSING"
    BY DEF TypeOK, ClaimsAreExclusive
  <1>2. \A f \in Events \ {e} : status'[f] = status[f]
    BY <1>1 DEF TypeOK, DeliverRow, FailRow
  <1> QED
    BY <1>1, <1>2 DEF Settles

(* mark_delivered and mark_failed do not look at the status of their row,   *)
(* and still no mark undoes another: only the task that holds a row ends    *)
(* its PROCESSING, and DELIVERED is for good.                               *)
THEOREM FinalMarks == Spec => MarksAreFinal
  <1>1. ASSUME IInv, [Next]_vars PROVE [Settles]_vars
    <2> USE <1>1
    <2> SUFFICES ASSUME Next PROVE Settles
      OBVIOUS
    <2>1. CASE UNCHANGED status
      BY <2>1 DEF Settles
    <2>2. ASSUME NEW E \in SUBSET Events, CommitSpans(E) PROVE Settles
      BY <2>2 DEF CommitSpans, Settles, IInv, TypeOK
    <2>3. ASSUME NEW w \in Workers, NEW e \in cur[w],
                 DeliverRow(e) \/ FailRow(e), e \notin claim'[w]
          PROVE  Settles
      <3>1. e \in claim[w]
        BY <2>3 DEF IInv, TaskInv
      <3> QED
        BY <2>3, <3>1, MarkSettles DEF IInv
    <2>4. ASSUME NEW w \in Workers, DeliveryStep(w) PROVE Settles
      <3>1. CASE \E n \in 0 .. MaxRetries - 1, S \in SUBSET Events : StartDelivery(w, n, S)
        BY <3>1, ClaimSettles DEF StartDelivery, IInv
      <3>2. ASSUME NEW e \in Events, Publish(w, e) PROVE Settles
        BY <3>2, <2>1 DEF Publish, rows
      <3>3. ASSUME NEW e \in Events, MarkDelivered(w, e) PROVE Settles
        BY <3>3, <2>3 DEF MarkDelivered, IInv, TypeOK
      <3>4. ASSUME NEW e \in Events, MarkFailed(w, e) PROVE Settles
        BY <3>4, <2>3 DEF MarkFailed, Raise, Release, IInv, TypeOK
      <3> QED
        BY <2>4, <3>1, <3>2, <3>3, <3>4 DEF DeliveryStep
    <2>5. ASSUME NEW w \in Workers, FaultStep(w) PROVE Settles
      <3>1. CASE \E n \in 0 .. MaxRetries - 1, S \in SUBSET Events : ClaimError(w, n, S)
        BY <3>1, <2>1, ClaimSettles DEF ClaimError, IInv, rows
      <3>2. ASSUME NEW e \in Events, MarkError(w, e) PROVE Settles
        <4>1. e \in cur[w] /\ e \notin claim'[w]
          BY <3>2 DEF MarkError, Raise, Release, IInv, TypeOK
        <4> QED
          BY <3>2, <4>1, <2>1, <2>3 DEF MarkError, rows
      <3>3. CASE CrashWorker(w)
        BY <3>3, <2>1 DEF CrashWorker, rows
      <3> QED
        BY <2>5, <3>1, <3>2, <3>3 DEF FaultStep
    <2> QED
      BY <2>1, <2>2, <2>4, <2>5 DEF Next, CronTick, BackoffElapses, rows
  <1> QED
    BY <1>1, Invariance, PTL DEF Spec, MarksAreFinal
=============================================================================
