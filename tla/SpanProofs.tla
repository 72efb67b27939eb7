----------------------------- MODULE SpanProofs -----------------------------
(***************************************************************************)
(* Proofs about the span worker and the console's queries, for any         *)
(* batches, spans and traces, any number of workers, any faults, any bound *)
(* on retries and any page size.                                           *)
(***************************************************************************)
EXTENDS SpanQueries, FiniteSetTheorems, WellFoundedInduction, TLAPS

(* A worker that is busy has exactly one message. *)
TaskInv ==
    \A w \in Workers : wpc[w] # "idle" =>
        \E b \in Batches, n \in Retries : task[w] = {<<b, n>>}

(* What a worker prepared is the valid part of its batch, and the payloads  *)
(* it stored are in the bucket.                                             *)
PreparedInv ==
    \A w \in Workers :
        /\ wpc[w] \in {"insert", "ensure", "post", "finish"} =>
              prepared[w] = BatchSpans[BatchOf(w)] \ Bad
        /\ \A s \in stored[w] : IdOf[s] \in objects

(* Open transactions insert distinct spans, none of which is stored; what a *)
(* transaction did not insert is stored, and after the commit everything is. *)
TxnInv ==
    /\ \A w \in Workers :
          /\ wpc[w] = "ensure" =>
                /\ inserted[w] \subseteq prepared[w]
                /\ inserted[w] \cap spans = {}
                /\ prepared[w] \ inserted[w] \subseteq spans
          /\ wpc[w] \in {"post", "finish"} => prepared[w] \subseteq spans
    /\ \A v, w \in Workers :
          v # w /\ wpc[v] = "ensure" /\ wpc[w] = "ensure" =>
              inserted[v] \cap inserted[w] = {}

(* A worker that enqueues aggregate tasks has looked up their traces, and a *)
(* trace that a worker has seen a row of keeps having one.                  *)
SeenInv ==
    \A w \in Workers :
        /\ wpc[w] = "post" => TracesOf(inserted[w]) = {r[1] : r \in seen[w]}
        /\ \A r \in seen[w] : r[2] # -1 => traceRows[r[1]] # {}

(* Only finitely many spans are ever stored. *)
FiniteInv ==
    /\ IsFiniteSet(spans)
    /\ \A w \in Workers : IsFiniteSet(prepared[w]) /\ IsFiniteSet(inserted[w])

(* The inductive invariant. *)
IInv ==
    /\ TypeOK
    /\ TaskInv
    /\ PreparedInv
    /\ TxnInv
    /\ SeenInv
    /\ FiniteInv
    /\ BucketsMatchSpans
    /\ StoredSpanIsComplete
    /\ ProcessedMeansStored

-----------------------------------------------------------------------------
(* Something will count the spans of the row again, or its task was lost. *)
Pending(t, st) ==
    \/ <<t, st>> \in aggTasks
    \/ \E w \in Workers :
          wpc[w] = "post" /\ t \in TracesOf(inserted[w]) /\ st = StableStart(w, t)
    \/ t \in uncounted

(* A span_count that is out of date will be brought up to date: a task that *)
(* has the right count runs, or another one is to come.  A running task     *)
(* with an older count is followed by another one.                          *)
AggregateInv ==
    \A t \in Traces \ (raced \cup crossed) : \A st \in traceRows[t] :
        /\ \/ aggregate[<<t, st>>] = Cardinality(SpansOf(t, spans))
           \/ <<t, st, Cardinality(SpansOf(t, spans))>> \in counting
           \/ Pending(t, st)
        /\ \A d \in counting : d[1] = t /\ d[2] = st =>
              d[3] = Cardinality(SpansOf(t, spans)) \/ Pending(t, st)

(* The inductive invariant with the trace rows and their totals. *)
SInv == IInv /\ TraceRowIsStable /\ AggregateInv

-----------------------------------------------------------------------------
(* What a reader has been given, and what it was there for, is stored. *)
ReaderInv ==
    /\ mode = "idle" => cursor = << >> /\ shown = {} /\ panel = NoQuery
    /\ panel # NoQuery => mode = "board"
    /\ mode = "board" => known \subseteq spans /\ shown \subseteq spans /\ cutoff \in Cutoffs
    /\ mode \in {"find", "row", "spans"} =>
          /\ cursor = <<cursor[1], cursor[2]>> /\ cursor[2] \in Traces
          /\ known \subseteq SpansOf(cursor[2], spans)

(* The row that a detail request has read starts no later than any span the *)
(* trace had.                                                               *)
DetailInv ==
    mode = "spans" /\ cursor[2] \notin raced => \A s \in known : StartOf[s] >= cursor[1]

(* A trace that a listing has yet to show lies after the cursor; once the   *)
(* listing has ended, before its window.  Rows only move to earlier starts. *)
ListInv ==
    mode \in {"list", "listed"} =>
        /\ window \in Windows
        /\ cursor = << >> \/ cursor \in Nat \X Nat
        /\ \A t \in known \ raced :
              /\ t \in Traces /\ traceRows[t] # {}
              /\ \A st \in traceRows[t] : st <= window[2]
              /\ \/ \E r \in shown : r[2] = t
                 \/ \A st \in traceRows[t] :
                       IF mode = "list" THEN AfterCursor(<<st, t>>) ELSE st < window[1]

(* The inductive invariant of the worker and its readers. *)
QInv ==
    /\ SInv
    /\ ReaderInv
    /\ PanelsAgree
    /\ DetailInv /\ DetailShowsWholeTrace /\ ListInv

-----------------------------------------------------------------------------
(* What the operators of the model return. *)

(* A set of numbers has a least element. *)
LEMMA MinIsLeast ==
    ASSUME NEW S \in SUBSET Nat, S # {}
    PROVE  Min(S) \in S /\ \A y \in S : Min(S) <= y
  <1>1. PICK x \in S : \A y \in S : ~(<<y, x>> \in OpToRel(<, Nat))
    BY NatLessThanWellFounded, WFMin
  <1>2. OpToRel(<, Nat) = {ss \in Nat \X Nat : ss[1] < ss[2]}
    BY DEF OpToRel
  <1>3. \A y \in S : x <= y
    <2>1. ASSUME NEW y \in S, y < x PROVE FALSE
      <3>1. <<y, x>> \in {ss \in Nat \X Nat : ss[1] < ss[2]}
        BY <2>1
      <3> QED
        BY <1>1, <1>2, <3>1
    <2> QED
      BY <2>1
  <1> QED
    BY <1>3 DEF Min

(* Start times are numbers. *)
LEMMA StartsAreNat == Starts \subseteq Nat
  BY WorkerAssumption DEF Starts

(* The earliest start of a trace's spans is the start of one of them. *)
LEMMA EarliestIsAStart ==
    ASSUME NEW S \in SUBSET Spans, NEW t \in TracesOf(S)
    PROVE  /\ EarliestStart(t, S) \in Starts
           /\ \E s \in SpansOf(t, S) : StartOf[s] = EarliestStart(t, S)
           /\ \A s \in SpansOf(t, S) : EarliestStart(t, S) <= StartOf[s]
  <1> DEFINE T == {StartOf[s] : s \in SpansOf(t, S)}
  <1>1. T \in SUBSET Nat /\ T \subseteq Starts /\ T # {}
    BY WorkerAssumption DEF TracesOf, SpansOf, Starts
  <1>2. Min(T) \in T /\ \A y \in T : Min(T) <= y
    <2> HIDE DEF T
    <2> QED
      BY <1>1, MinIsLeast
  <1> QED
    BY <1>1, <1>2 DEF EarliestStart

(* The message of a busy worker. *)
LEMMA BusyTask ==
    ASSUME TaskInv, NEW w \in Workers, wpc[w] # "idle"
    PROVE  /\ BatchOf(w) \in Batches /\ RetriesOf(w) \in Retries
           /\ task[w] = {<<BatchOf(w), RetriesOf(w)>>}
  <1>1. PICK b \in Batches, n \in Retries : task[w] = {<<b, n>>}
    BY DEF TaskInv
  <1>2. (CHOOSE m \in task[w] : TRUE) = <<b, n>>
    BY <1>1
  <1> QED
    BY <1>1, <1>2 DEF BatchOf, RetriesOf

(* What a worker knows of a trace it has looked up. *)
LEMMA ExistingType ==
    ASSUME TypeOK, SeenInv, NEW w \in Workers, NEW t \in {r[1] : r \in seen[w]}
    PROVE  /\ t \in Traces
           /\ Existing(w, t) \in Starts \cup {-1}
           /\ Existing(w, t) # -1 => traceRows[t] # {}
  <1>2. PICK r \in seen[w] : r[1] = t
    OBVIOUS
  <1>3. (CHOOSE q \in seen[w] : q[1] = t) \in seen[w]
        /\ (CHOOSE q \in seen[w] : q[1] = t)[1] = t
    BY <1>2
  <1>4. seen[w] \subseteq Traces \X (Starts \cup {-1})
    BY DEF TypeOK
  <1>5. Existing(w, t) = (CHOOSE q \in seen[w] : q[1] = t)[2]
    BY DEF Existing
  <1>6. t \in Traces /\ Existing(w, t) \in Starts \cup {-1}
    BY <1>3, <1>4, <1>5
  <1>7. Existing(w, t) # -1 => traceRows[t] # {}
    BY <1>3, <1>5 DEF SeenInv
  <1> QED
    BY <1>6, <1>7

(* The rows of a trace after the commit: there is one, and a new one starts *)
(* with an inserted span.                                                   *)
LEMMA EnsuredRowsType ==
    ASSUME TypeOK, SeenInv, NEW w \in Workers, AtCommit(w),
           NEW t \in TracesOf(inserted[w])
    PROVE  /\ EnsuredRows(w, t) \subseteq traceRows[t] \cup {EarliestStart(t, inserted[w])}
           /\ EnsuredRows(w, t) # {}
  <1> DEFINE start == EarliestStart(t, inserted[w])
             existing == Existing(w, t)
  <1>1. start \in Nat
    BY EarliestIsAStart, StartsAreNat DEF TypeOK
  <1>2. existing \in Nat \cup {-1} /\ (existing # -1 => traceRows[t] # {})
    BY ExistingType, StartsAreNat DEF AtCommit
  <1>3. EnsuredRows(w, t) =
          CASE existing = -1 -> traceRows[t] \cup {start}
            [] existing # -1 /\ existing <= start -> traceRows[t]
            [] existing > start /\ existing \in traceRows[t] ->
                 (traceRows[t] \ {existing}) \cup {start}
            [] OTHER -> traceRows[t]
    BY DEF EnsuredRows
  <1> HIDE DEF start, existing
  <1>a. CASE existing = -1
    BY <1>a, <1>1, <1>2, <1>3 DEF start
  <1>b. CASE existing # -1 /\ existing <= start
    BY <1>b, <1>1, <1>2, <1>3
  <1>c. CASE existing > start /\ existing \in traceRows[t]
    BY <1>c, <1>1, <1>2, <1>3 DEF start
  <1>d. CASE existing # -1 /\ existing > start /\ existing \notin traceRows[t]
    BY <1>d, <1>1, <1>2, <1>3
  <1> QED
    BY <1>1, <1>2, <1>a, <1>b, <1>c, <1>d

-----------------------------------------------------------------------------
(* What a commit makes of the tables, whether or not its reply arrives. *)

LEMMA ApplyType ==
    ASSUME IInv, NEW w \in Workers, AtCommit(w), Apply(w)
    PROVE  /\ spans' \subseteq Spans /\ keyed' \subseteq spans'
           /\ traceRows' \in [Traces -> SUBSET Starts]
           /\ aggregate' \in [Traces \X Starts -> Nat]
           /\ events' \subseteq Ids
           /\ buckets' \in [Minutes -> Nat]
           /\ IsFiniteSet(spans')
  <1> USE DEF IInv
  <1>1. inserted[w] \subseteq Spans /\ wpc[w] = "ensure"
    BY DEF TypeOK, AtCommit
  <1>2. spans' \subseteq Spans /\ keyed' \subseteq spans' /\ events' \subseteq Ids
    BY <1>1 DEF Apply, TypeOK, Ids
  <1>3. traceRows' \in [Traces -> SUBSET Starts]
    <2>1. \A t \in TracesOf(inserted[w]) : EnsuredRows(w, t) \subseteq Starts
      <3>1. \A t \in TracesOf(inserted[w]) : EarliestStart(t, inserted[w]) \in Starts
        BY <1>1, EarliestIsAStart
      <3>2. \A t \in TracesOf(inserted[w]) : t \in Traces
        BY <1>1 DEF TracesOf, Traces
      <3>3. \A t \in TracesOf(inserted[w]) : traceRows[t] \subseteq Starts
        BY <3>2 DEF TypeOK
      <3> QED
        BY <3>1, <3>3, EnsuredRowsType
    <2> QED
      BY <2>1 DEF Apply, TypeOK
  <1>4. aggregate' \in [Traces \X Starts -> Nat]
    <2>1. \A t \in TracesOf(inserted[w]) : Moves(w, t) =>
              t \in Traces /\ Existing(w, t) \in Starts
      BY ExistingType DEF Moves, TypeOK, AtCommit
    <2>2. \A t \in TracesOf(inserted[w]) : Moves(w, t) =>
              aggregate[<<t, Existing(w, t)>>] \in Nat
      BY <2>1 DEF TypeOK
    <2> QED
      BY <2>2 DEF Apply, TypeOK
  <1>5. IsFiniteSet(inserted[w]) /\ IsFiniteSet(spans)
    BY DEF FiniteInv
  <1>6. \A m \in Minutes : Cardinality({s \in inserted[w] : MinuteOf(StartOf[s]) = m}) \in Nat
    BY <1>5, FS_Subset, FS_CardinalityType
  <1>7. buckets' \in [Minutes -> Nat]
    <2> DEFINE n(m) == Cardinality({s \in inserted[w] : MinuteOf(StartOf[s]) = m})
    <2>1. buckets' = [m \in Minutes |-> buckets[m] + n(m)]
      BY DEF Apply, BucketCounts
    <2>2. \A m \in Minutes : n(m) \in Nat /\ buckets[m] \in Nat
      BY <1>6 DEF TypeOK
    <2> HIDE DEF n
    <2>3. \A m \in Minutes : buckets[m] + n(m) \in Nat
      BY <2>2
    <2> QED
      BY <2>1, <2>3
  <1>8. IsFiniteSet(spans')
    BY <1>5, FS_Union DEF Apply
  <1> QED
    BY <1>2, <1>3, <1>4, <1>7, <1>8

LEMMA ApplyBuckets ==
    ASSUME IInv, NEW w \in Workers, AtCommit(w), Apply(w)
    PROVE  BucketsMatchSpans'
  <1> USE DEF IInv
  <1>1. inserted[w] \cap spans = {} /\ IsFiniteSet(inserted[w]) /\ IsFiniteSet(spans)
    BY DEF TxnInv, AtCommit, FiniteInv
  <1>2. ASSUME NEW m \in Minutes
        PROVE  buckets'[m] = Cardinality({s \in spans' : MinuteOf(StartOf[s]) = m})
    <2> DEFINE A == {s \in spans : MinuteOf(StartOf[s]) = m}
               B == {s \in inserted[w] : MinuteOf(StartOf[s]) = m}
    <2>1. IsFiniteSet(A) /\ IsFiniteSet(B)
      BY <1>1, FS_Subset
    <2>2. A \cap B = {}
      BY <1>1
    <2>3. {s \in spans' : MinuteOf(StartOf[s]) = m} = A \cup B
      BY DEF Apply
    <2>4. buckets'[m] = buckets[m] + Cardinality(B)
      BY DEF Apply, BucketCounts
    <2>5. buckets[m] = Cardinality(A)
      BY DEF BucketsMatchSpans
    <2> HIDE DEF A, B
    <2>6. Cardinality(A \cup B) = Cardinality(A) + Cardinality(B) - Cardinality(A \cap B)
      BY <2>1, FS_Union
    <2>7. Cardinality(A \cap B) = 0 /\ Cardinality(A) \in Nat /\ Cardinality(B) \in Nat
      BY <2>1, <2>2, FS_EmptySet, FS_CardinalityType
    <2>8. buckets'[m] = Cardinality(A \cup B)
      BY <2>4, <2>5, <2>6, <2>7
    <2> QED
      BY <2>3, <2>8, Zenon
  <1> QED
    BY <1>2 DEF BucketsMatchSpans

(* A trace that has a row still has one. *)
LEMMA ApplyKeepsRows ==
    ASSUME IInv, NEW w \in Workers, AtCommit(w), Apply(w)
    PROVE  \A t \in Traces : (traceRows[t] # {} \/ t \in TracesOf(inserted[w]))
                                 => traceRows'[t] # {}
  <1>1. \A t \in TracesOf(inserted[w]) : EnsuredRows(w, t) # {}
    BY EnsuredRowsType DEF IInv
  <1> QED
    BY <1>1 DEF Apply

LEMMA ApplyComplete ==
    ASSUME IInv, NEW w \in Workers, AtCommit(w), Apply(w), objects' = objects
    PROVE  StoredSpanIsComplete'
  <1> USE DEF IInv
  <1>1. inserted[w] \subseteq Spans /\ spans \subseteq Spans
    BY DEF TypeOK
  <1>2. \A s \in spans' : IdOf[s] \in events' /\ traceRows'[TraceOf[s]] # {}
    <2>1. ASSUME NEW s \in spans
          PROVE  IdOf[s] \in events' /\ traceRows'[TraceOf[s]] # {}
      <3>1. TraceOf[s] \in Traces
        BY <1>1 DEF Traces
      <3> QED
        BY <3>1, ApplyKeepsRows DEF StoredSpanIsComplete, Apply
    <2>2. ASSUME NEW s \in inserted[w]
          PROVE  IdOf[s] \in events' /\ traceRows'[TraceOf[s]] # {}
      <3>1. TraceOf[s] \in Traces /\ TraceOf[s] \in TracesOf(inserted[w])
        BY <1>1 DEF Traces, TracesOf
      <3> QED
        BY <3>1, ApplyKeepsRows DEF Apply
    <2> QED
      BY <2>1, <2>2 DEF Apply
  <1>3. \A s \in keyed' : IdOf[s] \in objects'
    BY DEF Apply, StoredSpanIsComplete, PreparedInv
  <1>4. ASSUME NEW t \in Traces, NEW st \in traceRows'[t]
        PROVE  \E s \in SpansOf(t, spans') : StartOf[s] = st
    <2>1. CASE st \in traceRows[t]
      <3>1. PICK s \in SpansOf(t, spans) : StartOf[s] = st
        BY <2>1 DEF StoredSpanIsComplete
      <3> QED
        BY <3>1 DEF SpansOf, Apply
    <2>2. CASE st \notin traceRows[t]
      <3>1. t \in TracesOf(inserted[w]) /\ st = EarliestStart(t, inserted[w])
        BY <2>2, EnsuredRowsType DEF Apply
      <3>2. PICK s \in SpansOf(t, inserted[w]) : StartOf[s] = st
        BY <1>1, <3>1, EarliestIsAStart
      <3> QED
        BY <3>2 DEF SpansOf, Apply
    <2> QED
      BY <2>1, <2>2
  <1> QED
    BY <1>2, <1>3, <1>4 DEF StoredSpanIsComplete

-----------------------------------------------------------------------------
(* What the parts of an action that several actions share preserve. *)

LEMMA OnErrorType ==
    ASSUME NEW b \in Batches, NEW n \in Retries, NEW q \in SUBSET (Batches \X Retries),
           dlq \subseteq Batches, OnError(b, n, q)
    PROVE  /\ queue' \subseteq Batches \X Retries /\ dlq' \subseteq Batches
           /\ dropped' \subseteq dropped \cup {b}
  BY WorkerAssumption DEF OnError, Retries

(* The tasks after the commit and the histories keep their types. *)
HistoryOK ==
    /\ aggTasks \subseteq Traces \X Starts
    /\ counting \subseteq Traces \X Starts \X Nat
    /\ raced \subseteq Traces /\ crossed \subseteq Traces /\ uncounted \subseteq Traces
    /\ dropped \subseteq Batches

LEMMA TracesType ==
    ASSUME TypeOK, NEW w \in Workers
    PROVE  TracesOf(inserted[w]) \subseteq Traces
  BY DEF TypeOK, TracesOf, Traces

LEMMA AggregateTasksType ==
    ASSUME IInv, NEW w \in Workers, wpc[w] = "post"
    PROVE  /\ AggregateTasks(w) \subseteq Traces \X Starts
           /\ \A m \in AggregateTasks(w) : m[1] \in Traces
  <1> USE DEF IInv
  <1>1. ASSUME NEW t \in TracesOf(inserted[w])
        PROVE  t \in Traces /\ StableStart(w, t) \in Starts
    <2>1. EarliestStart(t, inserted[w]) \in Starts
      BY EarliestIsAStart DEF TypeOK
    <2>2. t \in {r[1] : r \in seen[w]}
      BY DEF SeenInv
    <2>3. t \in Traces /\ Existing(w, t) \in Starts \cup {-1}
      BY <2>2, ExistingType
    <2> QED
      BY <2>1, <2>3 DEF StableStart
  <1> QED
    BY <1>1 DEF AggregateTasks

LEMMA HistoryStep == IInv /\ [Next]_vars => HistoryOK'
  <1> SUFFICES ASSUME IInv, [Next]_vars PROVE HistoryOK'
    OBVIOUS
  <1> USE DEF IInv
  <1>0. HistoryOK
    BY DEF TypeOK, HistoryOK
  <1>1. ASSUME NEW b \in Batches, NEW n \in Retries, NEW q \in SUBSET (Batches \X Retries),
               OnError(b, n, q), UNCHANGED <<aggregating, raced, uncounted>>
        PROVE  HistoryOK'
    <2>1. dropped' \subseteq dropped \cup {b}
      BY <1>1, OnErrorType DEF TypeOK
    <2> QED
      BY <1>0, <1>1, <2>1 DEF HistoryOK, aggregating
  <1>2. ASSUME UNCHANGED <<aggregating, raced, uncounted, dropped>> PROVE HistoryOK'
    BY <1>0, <1>2 DEF HistoryOK, aggregating
  <1>3. ASSUME NEW w \in Workers, NEW b \in Batches, NEW n \in Retries, TakeBatch(w, b, n)
        PROVE  HistoryOK'
    <2>1. queue \ {<<b, n>>} \in SUBSET (Batches \X Retries)
      BY DEF TypeOK
    <2> QED
      BY <1>1, <1>2, <1>3, <2>1 DEF TakeBatch
  <1>4. ASSUME NEW w \in Workers,
               \/ PrepareSpans(w) \/ PrepareRaises(w) \/ InsertSpans(w)
               \/ (\E t \in Traces : LookUpTrace(w, t)) \/ Finish(w) \/ FinishRaises(w)
        PROVE  HistoryOK'
    BY <1>2, <1>4 DEF PrepareSpans, PrepareRaises, InsertSpans, LookUpTrace, Finish,
                      FinishRaises
  <1>5. ASSUME NEW w \in Workers, Commit(w) \/ TxnFails(w) PROVE HistoryOK'
    <2>1. /\ UNCHANGED <<aggregating, dropped>>
          /\ raced' \subseteq raced \cup TracesOf(inserted[w])
          /\ uncounted' \subseteq uncounted \cup TracesOf(inserted[w])
      BY <1>5 DEF Commit, TxnFails, Apply
    <2> QED
      BY <1>0, <2>1, TracesType DEF HistoryOK, aggregating
  <1>6. ASSUME NEW w \in Workers, PostCommit(w) PROVE HistoryOK'
    <2>1. /\ UNCHANGED <<counting, crossed, raced, dropped>>
          /\ aggTasks' \subseteq aggTasks \cup AggregateTasks(w)
          /\ uncounted' \subseteq uncounted \cup {m[1] : m \in AggregateTasks(w)}
      BY <1>6 DEF PostCommit
    <2>2. /\ AggregateTasks(w) \subseteq Traces \X Starts
          /\ \A m \in AggregateTasks(w) : m[1] \in Traces
      BY <1>6, AggregateTasksType DEF PostCommit
    <2> QED
      BY <1>0, <2>1, <2>2 DEF HistoryOK
  <1>7. ASSUME NEW w \in Workers, Fail(w) PROVE HistoryOK'
    <2>1. BatchOf(w) \in Batches /\ RetriesOf(w) \in Retries
      BY <1>7, BusyTask DEF Fail
    <2>2. queue \in SUBSET (Batches \X Retries)
      BY DEF TypeOK
    <2> QED
      BY <1>1, <1>7, <2>1, <2>2 DEF Fail
  <1>8. ASSUME NEW w \in Workers, CrashWorker(w) PROVE HistoryOK'
    <2>1. BatchOf(w) \in Batches
      BY <1>8, BusyTask DEF CrashWorker
    <2>2. /\ UNCHANGED <<aggregating, raced>> /\ dropped' = dropped \cup {BatchOf(w)}
          /\ uncounted' \subseteq uncounted \cup TracesOf(inserted[w])
      BY <1>8 DEF CrashWorker
    <2> QED
      BY <1>0, <2>1, <2>2, TracesType DEF HistoryOK, aggregating
  <1>9. ASSUME NEW t \in Traces, NEW st \in Starts, CountSpans(t, st) PROVE HistoryOK'
    <2> DEFINE n == Cardinality({s \in SpansOf(t, spans) : StartOf[s] >= st})
    <2>1. n \in Nat
      BY FS_Subset, FS_CardinalityType DEF FiniteInv, SpansOf
    <2>2. /\ UNCHANGED <<raced, dropped>> /\ aggTasks' \subseteq aggTasks
          /\ counting' \subseteq counting \cup {<<t, st, n>>}
          /\ crossed' \subseteq crossed \cup {t} /\ uncounted' \subseteq uncounted
      BY <1>9 DEF CountSpans
    <2> HIDE DEF n
    <2> QED
      BY <1>0, <2>1, <2>2 DEF HistoryOK
  <1>10. ASSUME NEW t \in Traces, NEW st \in Starts, AggregateRaises(t, st) PROVE HistoryOK'
    <2>1. /\ UNCHANGED <<raced, crossed, dropped>> /\ aggTasks' \subseteq aggTasks
          /\ counting' \subseteq counting /\ uncounted' = uncounted \cup {t}
      BY <1>10 DEF AggregateRaises
    <2> QED
      BY <1>0, <2>1 DEF HistoryOK
  <1>11. ASSUME NEW c \in counting, UpdateAggregates(c) PROVE HistoryOK'
    <2>1. UNCHANGED <<aggTasks, raced, crossed, uncounted, dropped>>
          /\ counting' \subseteq counting
      BY <1>11 DEF UpdateAggregates
    <2> QED
      BY <1>0, <2>1 DEF HistoryOK
  <1>12. ASSUME NEW b \in Batches, HandleFailedTask(b) PROVE HistoryOK'
    BY <1>2, <1>12 DEF HandleFailedTask
  <1>13. CASE UNCHANGED vars
    BY <1>2, <1>13 DEF vars
  <1> QED
    BY <1>3, <1>4, <1>5, <1>6, <1>7, <1>8, <1>9, <1>10, <1>11, <1>12, <1>13
       DEF Next, WorkerStep

(* Tables that did not change, and objects that stay, keep what they promise. *)
LEMMA SameTables ==
    ASSUME IInv, UNCHANGED <<spans, keyed, traceRows, events, buckets>>,
           objects \subseteq objects'
    PROVE  /\ BucketsMatchSpans' /\ StoredSpanIsComplete'
           /\ (UNCHANGED bstatus => ProcessedMeansStored')
  <1> USE DEF IInv
  <1>1. BucketsMatchSpans'
    BY DEF BucketsMatchSpans
  <1>2. StoredSpanIsComplete'
    BY DEF StoredSpanIsComplete, SpansOf
  <1>3. UNCHANGED bstatus => ProcessedMeansStored'
    BY DEF ProcessedMeansStored
  <1> QED
    BY <1>1, <1>2, <1>3

(* A worker that lets go of its message, without changing a table. *)
LEMMA ReleaseStep ==
    ASSUME IInv, HistoryOK', NEW w \in Workers, Release(w), UNCHANGED <<db, objects>>,
           queue' \subseteq Batches \X Retries, dlq' \subseteq Batches,
           failed' \subseteq Batches,
           bstatus' \in [Batches -> [status : BatchStatuses, processed : Nat]],
           ProcessedMeansStored'
    PROVE  IInv'
  <1> USE DEF IInv
  <1>1. TypeOK'
    BY DEF TypeOK, HistoryOK, Release, Goto, db
  <1>2. /\ wpc'[w] = "idle" /\ task'[w] = {} /\ prepared'[w] = {} /\ stored'[w] = {}
        /\ inserted'[w] = {} /\ seen'[w] = {}
    BY DEF TypeOK, Release, Goto
  <1>3. \A v \in Workers \ {w} :
           /\ wpc'[v] = wpc[v] /\ task'[v] = task[v] /\ prepared'[v] = prepared[v]
           /\ stored'[v] = stored[v] /\ inserted'[v] = inserted[v] /\ seen'[v] = seen[v]
    BY DEF TypeOK, Release, Goto
  <1>4. TaskInv'
    BY <1>2, <1>3 DEF TaskInv
  <1>5. PreparedInv'
    <2>1. \A v \in Workers \ {w} : BatchOf(v)' = BatchOf(v)
      BY <1>3 DEF BatchOf
    <2>2. objects' = objects
      OBVIOUS
    <2>3. ASSUME NEW v \in Workers
          PROVE  /\ wpc'[v] \in {"insert", "ensure", "post", "finish"} =>
                        prepared'[v] = BatchSpans[BatchOf(v)'] \ Bad
                 /\ \A s \in stored'[v] : IdOf[s] \in objects'
      BY <1>2, <1>3, <2>1, <2>2 DEF PreparedInv
    <2> QED
      BY <2>3 DEF PreparedInv
  <1>6. TxnInv'
    BY <1>2, <1>3 DEF TxnInv, db
  <1>7. SeenInv'
    BY <1>2, <1>3 DEF SeenInv, db
  <1>8. FiniteInv'
    BY <1>2, <1>3, FS_EmptySet DEF FiniteInv, db
  <1>9. BucketsMatchSpans' /\ StoredSpanIsComplete'
    BY SameTables DEF db
  <1> QED
    BY <1>1, <1>4, <1>5, <1>6, <1>7, <1>8, <1>9

(* A worker that goes on to its next step, or to its except block, without  *)
(* changing a table or what it knows.                                       *)
LEMMA MoveStep ==
    ASSUME IInv, HistoryOK', NEW w \in Workers, wpc[w] # "idle", NEW p, Goto(w, p),
           p = "failed" \/ (wpc[w] = "post" /\ p = "finish"),
           UNCHANGED <<queue, dlq, failed, bstatus, db, task, local>>,
           objects \subseteq objects', objects' \subseteq Ids
    PROVE  IInv'
  <1> USE DEF IInv
  <1>1. TypeOK'
    BY DEF TypeOK, HistoryOK, Goto, db, local
  <1>2. wpc'[w] = p /\ \A v \in Workers \ {w} : wpc'[v] = wpc[v]
    BY DEF TypeOK, Goto
  <1>3. TaskInv'
    BY <1>2 DEF TaskInv
  <1>4. PreparedInv'
    BY <1>2 DEF PreparedInv, BatchOf, local
  <1>5. TxnInv'
    BY <1>2 DEF TxnInv, db, local
  <1>6. SeenInv' /\ FiniteInv'
    BY <1>2 DEF SeenInv, FiniteInv, db, local
  <1>7. BucketsMatchSpans' /\ StoredSpanIsComplete' /\ ProcessedMeansStored'
    BY SameTables DEF db
  <1> QED
    BY <1>1, <1>3, <1>4, <1>5, <1>6, <1>7

(* A worker that commits. *)
LEMMA ApplyStep ==
    ASSUME IInv, HistoryOK', NEW w \in Workers, AtCommit(w), Apply(w),
           NEW p \in {"post", "failed"}, Goto(w, p),
           UNCHANGED <<queue, dlq, failed, bstatus, objects, task, local>>
    PROVE  IInv'
  <1> USE DEF IInv
  <1>1. TypeOK'
    BY ApplyType DEF TypeOK, HistoryOK, Goto, local
  <1>2. wpc'[w] = p /\ \A v \in Workers \ {w} : wpc'[v] = wpc[v]
    BY DEF TypeOK, Goto
  <1>3. TaskInv'
    BY <1>2 DEF TaskInv, AtCommit
  <1>4. PreparedInv'
    BY <1>2 DEF PreparedInv, BatchOf, local, AtCommit
  <1>5. TxnInv'
    <2>1. spans' = spans \cup inserted[w] /\ wpc[w] = "ensure"
          /\ inserted' = inserted /\ prepared' = prepared
      BY DEF Apply, AtCommit, local
    <2>2. prepared[w] \subseteq spans'
      BY <2>1 DEF TxnInv
    <2>3. \A v \in Workers \ {w} : wpc[v] = "ensure" => inserted[v] \cap inserted[w] = {}
      BY <2>1 DEF TxnInv
    <2> QED
      BY <1>2, <2>1, <2>2, <2>3 DEF TxnInv
  <1>6. SeenInv'
    <2>1. \A v \in Workers : \A r \in seen[v] : r[1] \in Traces
      BY DEF TypeOK
    <2>2. \A t \in Traces : traceRows[t] # {} => traceRows'[t] # {}
      BY ApplyKeepsRows
    <2>3. seen' = seen
      BY DEF local
    <2> QED
      BY <1>2, <2>1, <2>2, <2>3 DEF SeenInv, AtCommit, local
  <1>7. FiniteInv'
    BY ApplyType DEF FiniteInv, local
  <1>8. ProcessedMeansStored'
    BY DEF ProcessedMeansStored, Apply
  <1> QED
    BY <1>1, <1>3, <1>4, <1>5, <1>6, <1>7, <1>8, ApplyBuckets, ApplyComplete

-----------------------------------------------------------------------------
(* Every action preserves the invariant. *)

LEMMA TakeBatchStep ==
    ASSUME IInv, HistoryOK', NEW w \in Workers, NEW b \in Batches, NEW n \in Retries,
           TakeBatch(w, b, n)
    PROVE  IInv'
  <1> USE DEF IInv
  <1>0. UNCHANGED <<failed, db, objects, local>> /\ wpc[w] = "idle"
    BY DEF TakeBatch
  <1>1. BucketsMatchSpans' /\ StoredSpanIsComplete' /\ FiniteInv'
    BY <1>0, SameTables DEF db, local, FiniteInv
  <1>2. ASSUME queue' = queue \ {<<b, n>>}, Goto(w, "prepare"),
               task' = [task EXCEPT ![w] = {<<b, n>>}],
               SetBatchStatus(b, "processing"), UNCHANGED dlq
        PROVE  IInv'
    <2>1. TypeOK'
      BY <1>0, <1>2 DEF TypeOK, HistoryOK, Goto, SetBatchStatus, BatchStatuses, db, local
    <2>2. /\ wpc'[w] = "prepare" /\ task'[w] = {<<b, n>>}
          /\ \A v \in Workers \ {w} : wpc'[v] = wpc[v] /\ task'[v] = task[v]
      BY <1>2 DEF TypeOK, Goto
    <2>3. TaskInv'
      BY <2>2 DEF TaskInv
    <2>4. PreparedInv' /\ TxnInv'
      BY <1>0, <2>2 DEF PreparedInv, TxnInv, BatchOf, db, local
    <2>7. SeenInv'
      BY <1>0, <2>2 DEF SeenInv, db, local
    <2>5. /\ bstatus'[b].status = "processing"
          /\ \A c \in Batches \ {b} : bstatus'[c] = bstatus[c]
      BY <1>2 DEF TypeOK, SetBatchStatus
    <2>6. ProcessedMeansStored'
      BY <1>0, <2>5 DEF ProcessedMeansStored, db
    <2> QED
      BY <1>1, <2>1, <2>3, <2>4, <2>6, <2>7
  <1>3. ASSUME OnError(b, n, queue \ {<<b, n>>}), UNCHANGED <<wpc, task, bstatus>>
        PROVE  IInv'
    <2>1. queue \ {<<b, n>>} \in SUBSET (Batches \X Retries) /\ dlq \subseteq Batches
      BY DEF TypeOK
    <2>2. queue' \subseteq Batches \X Retries /\ dlq' \subseteq Batches
      BY <1>3, <2>1, OnErrorType
    <2>3. TypeOK'
      BY <1>0, <1>3, <2>2 DEF TypeOK, HistoryOK, db, local
    <2>4. TaskInv' /\ PreparedInv' /\ TxnInv' /\ ProcessedMeansStored'
      BY <1>0, <1>3 DEF TaskInv, PreparedInv, TxnInv, ProcessedMeansStored, BatchOf,
                        db, local
    <2>5. SeenInv'
      BY <1>0, <1>3 DEF SeenInv, db, local
    <2> QED
      BY <1>1, <2>3, <2>4, <2>5
  <1> QED
    BY <1>2, <1>3 DEF TakeBatch

LEMMA PrepareSpansStep ==
    ASSUME IInv, HistoryOK', NEW w \in Workers, PrepareSpans(w)
    PROVE  IInv'
  <1> USE DEF IInv
  <1> DEFINE valid == BatchSpans[BatchOf(w)] \ Bad
  <1>0. /\ UNCHANGED <<queue, dlq, failed, bstatus, db, task, inserted, seen>>
        /\ wpc[w] = "prepare"
    BY DEF PrepareSpans
  <1>1. valid \subseteq Spans /\ IsFiniteSet(valid)
    BY <1>0, BusyTask, WorkerAssumption, FS_Difference
  <1>2. PICK ok \in SUBSET valid : /\ stored' = [stored EXCEPT ![w] = ok]
                                   /\ objects' = objects \cup {IdOf[s] : s \in ok}
    BY DEF PrepareSpans
  <1>3. prepared' = [prepared EXCEPT ![w] = valid] /\ wpc' = [wpc EXCEPT ![w] = "insert"]
    BY DEF PrepareSpans, Goto
  <1> HIDE DEF valid
  <1>4. TypeOK'
    BY <1>0, <1>1, <1>2, <1>3 DEF TypeOK, HistoryOK, Ids, db
  <1>5. /\ prepared'[w] = valid /\ wpc'[w] = "insert" /\ stored'[w] = ok
        /\ \A v \in Workers \ {w} :
              wpc'[v] = wpc[v] /\ prepared'[v] = prepared[v] /\ stored'[v] = stored[v]
    BY <1>2, <1>3 DEF TypeOK
  <1>6. TaskInv'
    BY <1>0, <1>5 DEF TaskInv
  <1>7. PreparedInv'
    BY <1>0, <1>2, <1>5 DEF PreparedInv, BatchOf, valid
  <1>8. TxnInv' /\ SeenInv' /\ FiniteInv'
    BY <1>0, <1>1, <1>5 DEF TxnInv, SeenInv, FiniteInv, db
  <1>9. BucketsMatchSpans' /\ StoredSpanIsComplete' /\ ProcessedMeansStored'
    BY <1>0, <1>2, SameTables DEF db
  <1> QED
    BY <1>4, <1>6, <1>7, <1>8, <1>9

LEMMA PrepareRaisesStep ==
    ASSUME IInv, HistoryOK', NEW w \in Workers, PrepareRaises(w)
    PROVE  IInv'
  <1>1. PICK ok \in SUBSET (BatchSpans[BatchOf(w)] \ Bad) :
            objects' = objects \cup {IdOf[s] : s \in ok}
    BY DEF PrepareRaises
  <1>2. wpc[w] # "idle" /\ BatchSpans[BatchOf(w)] \subseteq Spans
    BY BusyTask, WorkerAssumption DEF PrepareRaises, IInv
  <1>3. objects \subseteq objects' /\ objects' \subseteq Ids
    BY <1>1, <1>2 DEF IInv, TypeOK, Ids
  <1> QED
    BY <1>2, <1>3, MoveStep DEF PrepareRaises

LEMMA InsertSpansStep ==
    ASSUME IInv, HistoryOK', NEW w \in Workers, InsertSpans(w)
    PROVE  IInv'
  <1> USE DEF IInv
  <1>0. /\ UNCHANGED <<queue, dlq, failed, bstatus, db, objects, task,
                       prepared, stored, seen>>
        /\ wpc[w] = "insert"
    BY DEF InsertSpans
  <1>1. /\ inserted'[w] = prepared[w] \ spans /\ wpc'[w] = "ensure"
        /\ \A v \in Workers \ {w} : wpc'[v] = wpc[v] /\ inserted'[v] = inserted[v]
    BY DEF InsertSpans, Goto, TypeOK
  <1>2. TypeOK'
    BY <1>0 DEF InsertSpans, Goto, TypeOK, HistoryOK, db
  <1>3. TaskInv' /\ PreparedInv'
    <2>1. TaskInv'
      BY <1>0, <1>1 DEF TaskInv
    <2>2. PreparedInv'
      BY <1>0, <1>1 DEF PreparedInv, BatchOf
    <2> QED
      BY <2>1, <2>2
  <1>4. TxnInv'
    <2>1. \A v \in Workers \ {w} : wpc[v] = "ensure" => inserted[v] \cap prepared[w] = {}
      BY DEF InsertSpans
    <2> QED
      BY <1>0, <1>1, <2>1 DEF TxnInv, db
  <1>5. SeenInv' /\ BucketsMatchSpans' /\ StoredSpanIsComplete' /\ ProcessedMeansStored'
    BY <1>0, <1>1, SameTables DEF SeenInv, db
  <1>6. FiniteInv'
    <2>1. IsFiniteSet(prepared[w] \ spans)
      BY FS_Difference DEF FiniteInv
    <2> QED
      BY <1>0, <1>1, <2>1 DEF FiniteInv, db
  <1> QED
    BY <1>2, <1>3, <1>4, <1>5, <1>6

LEMMA LookUpTraceStep ==
    ASSUME IInv, HistoryOK', NEW w \in Workers, NEW t \in Traces, LookUpTrace(w, t)
    PROVE  IInv'
  <1> USE DEF IInv
  <1> DEFINE row == FirstRow(t)
  <1>0. /\ UNCHANGED <<queue, dlq, failed, bstatus, db, objects, wpc, task,
                       prepared, stored, inserted>>
        /\ seen' = [seen EXCEPT ![w] = @ \cup {<<t, row>>}]
    BY DEF LookUpTrace
  <1>1. row \in Starts \cup {-1} /\ (row # -1 => traceRows[t] # {})
    <2>1. traceRows[t] \in SUBSET Starts
      BY DEF TypeOK
    <2> QED
      BY <2>1, StartsAreNat, MinIsLeast DEF FirstRow
  <1> HIDE DEF row
  <1>2. seen'[w] = seen[w] \cup {<<t, row>>} /\ \A v \in Workers \ {w} : seen'[v] = seen[v]
    BY <1>0 DEF TypeOK
  <1>3. TypeOK'
    <2>1. seen' \in [Workers -> SUBSET (Traces \X (Starts \cup {-1}))]
      BY <1>0, <1>1 DEF TypeOK
    <2> QED
      BY <1>0, <2>1 DEF TypeOK, HistoryOK, db
  <1>4. TaskInv' /\ PreparedInv' /\ TxnInv' /\ FiniteInv'
    BY <1>0 DEF TaskInv, PreparedInv, TxnInv, FiniteInv, BatchOf, db
  <1>5. SeenInv'
    <2>1. wpc[w] # "post" /\ wpc' = wpc /\ inserted' = inserted /\ traceRows' = traceRows
      BY <1>0 DEF LookUpTrace, db
    <2> QED
      BY <1>1, <1>2, <2>1 DEF SeenInv
  <1>6. BucketsMatchSpans' /\ StoredSpanIsComplete' /\ ProcessedMeansStored'
    BY <1>0, SameTables DEF db
  <1> QED
    BY <1>3, <1>4, <1>5, <1>6

LEMMA TxnFailsStep ==
    ASSUME IInv, HistoryOK', NEW w \in Workers, TxnFails(w)
    PROVE  IInv'
  <1>0. /\ UNCHANGED <<queue, dlq, failed, bstatus, objects, task, local>>
        /\ Goto(w, "failed") /\ wpc[w] # "idle"
    BY DEF TxnFails
  <1>1. CASE UNCHANGED db
    BY <1>0, <1>1, MoveStep DEF IInv, TypeOK
  <1>2. CASE AtCommit(w) /\ Apply(w)
    BY <1>0, <1>2, ApplyStep
  <1> QED
    BY <1>1, <1>2 DEF TxnFails

LEMMA PostCommitStep ==
    ASSUME IInv, HistoryOK', NEW w \in Workers, PostCommit(w)
    PROVE  IInv'
  <1> USE DEF IInv
  <1>0. /\ wpc[w] = "post"
        /\ UNCHANGED <<queue, dlq, failed, bstatus, db, objects, task, local>>
    BY DEF PostCommit
  <1>1. \E p \in {"failed", "finish"} : Goto(w, p)
    BY DEF PostCommit
  <1> QED
    BY <1>0, <1>1, MoveStep DEF TypeOK

LEMMA FinishStep ==
    ASSUME IInv, HistoryOK', NEW w \in Workers, Finish(w)
    PROVE  IInv'
  <1> USE DEF IInv
  <1>0. wpc[w] = "finish" /\ UNCHANGED <<queue, dlq, failed, db, objects>>
    BY DEF Finish
  <1>1. BatchOf(w) \in Batches
    BY <1>0, BusyTask
  <1>2. Cardinality(inserted[w]) \in Nat /\ FinishStatus(BatchOf(w)) \in BatchStatuses
    BY FS_CardinalityType DEF FiniteInv, FinishStatus, BatchStatuses
  <1>3. bstatus' \in [Batches -> [status : BatchStatuses, processed : Nat]]
    BY <1>1, <1>2 DEF Finish, TypeOK
  <1>4. \A b \in Batches \ {BatchOf(w)} : bstatus'[b] = bstatus[b]
    BY <1>1 DEF Finish, TypeOK
  <1>5. BatchSpans[BatchOf(w)] \ Bad \subseteq spans
    BY <1>0 DEF PreparedInv, TxnInv
  <1>6. ProcessedMeansStored'
    BY <1>0, <1>4, <1>5 DEF ProcessedMeansStored, db
  <1>7. queue' \subseteq Batches \X Retries /\ dlq' \subseteq Batches /\ failed' \subseteq Batches
    BY <1>0 DEF TypeOK
  <1> QED
    BY <1>0, <1>3, <1>6, <1>7, ReleaseStep DEF Finish

LEMMA FailStep ==
    ASSUME IInv, HistoryOK', NEW w \in Workers, Fail(w)
    PROVE  IInv'
  <1> USE DEF IInv
  <1>0. wpc[w] = "failed" /\ UNCHANGED <<failed, db, objects>>
    BY DEF Fail
  <1>1. BatchOf(w) \in Batches /\ RetriesOf(w) \in Retries
    BY <1>0, BusyTask
  <1>2. queue \in SUBSET (Batches \X Retries) /\ dlq \subseteq Batches
    BY DEF TypeOK
  <1>3. queue' \subseteq Batches \X Retries /\ dlq' \subseteq Batches
    BY <1>1, <1>2, OnErrorType DEF Fail
  <1>4. bstatus' \in [Batches -> [status : BatchStatuses, processed : Nat]]
    BY <1>1 DEF Fail, SetBatchStatus, TypeOK, BatchStatuses
  <1>5. \A b \in Batches : bstatus'[b].status = "failed" \/ bstatus'[b] = bstatus[b]
    BY <1>1 DEF Fail, SetBatchStatus, TypeOK
  <1>6. ProcessedMeansStored'
    BY <1>0, <1>5 DEF ProcessedMeansStored, db
  <1>7. failed' \subseteq Batches
    BY <1>0 DEF TypeOK
  <1> QED
    BY <1>0, <1>3, <1>4, <1>6, <1>7, ReleaseStep DEF Fail

LEMMA CrashWorkerStep ==
    ASSUME IInv, HistoryOK', NEW w \in Workers, CrashWorker(w)
    PROVE  IInv'
  <1> USE DEF IInv
  <1>0. UNCHANGED <<queue, dlq, failed, bstatus, db, objects>> /\ Release(w)
    BY DEF CrashWorker
  <1>1. ProcessedMeansStored'
    BY <1>0, SameTables DEF db
  <1>2. /\ queue' \subseteq Batches \X Retries /\ dlq' \subseteq Batches
        /\ failed' \subseteq Batches
        /\ bstatus' \in [Batches -> [status : BatchStatuses, processed : Nat]]
    BY <1>0 DEF TypeOK
  <1> QED
    BY <1>0, <1>1, <1>2, ReleaseStep

(* The steps of the other tasks change no span, no trace row and no worker. *)
LEMMA OtherTaskStep ==
    ASSUME IInv, HistoryOK',
           \/ \E t \in Traces, st \in Starts :
                 CountSpans(t, st) \/ AggregateRaises(t, st)
           \/ \E c \in counting : UpdateAggregates(c)
           \/ \E b \in Batches : HandleFailedTask(b)
    PROVE  IInv'
  <1> USE DEF IInv
  <1>0. /\ UNCHANGED <<queue, bstatus, spans, keyed, traceRows, events, buckets, objects,
                       wpc, task, local>>
        /\ dlq' \subseteq Batches /\ failed' \subseteq Batches
    BY DEF CountSpans, UpdateAggregates, AggregateRaises, HandleFailedTask, TypeOK, db
  <1>1. aggregate' \in [Traces \X Starts -> Nat]
    <2>1. ASSUME NEW c \in counting, UpdateAggregates(c)
          PROVE  aggregate' \in [Traces \X Starts -> Nat]
      <3>1. c[3] \in Nat
        BY DEF TypeOK
      <3> QED
        BY <2>1, <3>1 DEF UpdateAggregates, TypeOK
    <2>2. ASSUME UNCHANGED aggregate PROVE aggregate' \in [Traces \X Starts -> Nat]
      BY <2>2 DEF TypeOK
    <2> QED
      BY <2>1, <2>2 DEF CountSpans, AggregateRaises, HandleFailedTask, db
  <1>2. TypeOK'
    BY <1>0, <1>1 DEF TypeOK, HistoryOK, local
  <1>3. TaskInv' /\ PreparedInv'
    BY <1>0 DEF TaskInv, PreparedInv, BatchOf, local
  <1>4. TxnInv' /\ SeenInv' /\ FiniteInv'
    BY <1>0 DEF TxnInv, SeenInv, FiniteInv, local
  <1>5. BucketsMatchSpans' /\ StoredSpanIsComplete' /\ ProcessedMeansStored'
    BY <1>0, SameTables
  <1> QED
    BY <1>2, <1>3, <1>4, <1>5

-----------------------------------------------------------------------------
LEMMA InitIInv == Init => IInv
  <1> SUFFICES ASSUME Init PROVE IInv
    OBVIOUS
  <1> USE DEF Init
  <1>1. TypeOK
    BY WorkerAssumption DEF TypeOK, BatchStatuses, Retries
  <1>2. TaskInv /\ PreparedInv /\ TxnInv /\ SeenInv /\ ProcessedMeansStored
    BY DEF TaskInv, PreparedInv, TxnInv, SeenInv, ProcessedMeansStored
  <1>3. FiniteInv
    BY FS_EmptySet DEF FiniteInv
  <1>4. BucketsMatchSpans
    <2>1. \A m \in Minutes : {s \in spans : MinuteOf(StartOf[s]) = m} = {}
      OBVIOUS
    <2> QED
      BY <2>1, FS_EmptySet DEF BucketsMatchSpans
  <1>5. StoredSpanIsComplete
    BY DEF StoredSpanIsComplete
  <1> QED
    BY <1>1, <1>2, <1>3, <1>4, <1>5 DEF IInv

LEMMA NextIInv == IInv /\ [Next]_vars => IInv'
  <1> SUFFICES ASSUME IInv, [Next]_vars PROVE IInv'
    OBVIOUS
  <1>0. HistoryOK'
    BY HistoryStep
  <1>1. ASSUME NEW w \in Workers, NEW b \in Batches, NEW n \in Retries, TakeBatch(w, b, n)
        PROVE  IInv'
    BY <1>0, <1>1, TakeBatchStep
  <1>2. ASSUME NEW w \in Workers, PrepareSpans(w) \/ PrepareRaises(w) \/ InsertSpans(w)
        PROVE  IInv'
    BY <1>0, <1>2, PrepareSpansStep, PrepareRaisesStep, InsertSpansStep
  <1>3. ASSUME NEW w \in Workers, NEW t \in Traces, LookUpTrace(w, t)
        PROVE  IInv'
    BY <1>0, <1>3, LookUpTraceStep
  <1>4. ASSUME NEW w \in Workers, Commit(w) PROVE IInv'
    BY <1>0, <1>4, ApplyStep DEF Commit
  <1>5. ASSUME NEW w \in Workers, TxnFails(w) \/ PostCommit(w) \/ Finish(w) \/ Fail(w)
        PROVE  IInv'
    BY <1>0, <1>5, TxnFailsStep, PostCommitStep, FinishStep, FailStep
  <1>6. ASSUME NEW w \in Workers, FinishRaises(w) PROVE IInv'
    BY <1>0, <1>6, MoveStep DEF FinishRaises, IInv, TypeOK
  <1>7. ASSUME NEW w \in Workers, CrashWorker(w) PROVE IInv'
    BY <1>0, <1>7, CrashWorkerStep
  <1>8. ASSUME \/ \E t \in Traces, st \in Starts :
                     CountSpans(t, st) \/ AggregateRaises(t, st)
               \/ \E c \in counting : UpdateAggregates(c)
               \/ \E b \in Batches : HandleFailedTask(b)
        PROVE  IInv'
    BY <1>0, <1>8, OtherTaskStep
  <1>9. CASE UNCHANGED vars
    <2>1. UNCHANGED <<queue, dlq, failed, bstatus, objects, wpc, task>>
          /\ UNCHANGED <<spans, keyed, traceRows, aggregate, events, buckets>>
          /\ UNCHANGED <<prepared, stored, inserted, seen>>
      BY <1>9 DEF vars, db, local
    <2>2. TypeOK'
      BY <1>0, <2>1 DEF IInv, TypeOK, HistoryOK
    <2>3. TaskInv' /\ PreparedInv' /\ TxnInv' /\ SeenInv' /\ FiniteInv'
      BY <2>1 DEF IInv, TaskInv, PreparedInv, TxnInv, SeenInv, FiniteInv, BatchOf
    <2>4. BucketsMatchSpans' /\ StoredSpanIsComplete' /\ ProcessedMeansStored'
      BY <2>1, SameTables
    <2> QED
      BY <2>2, <2>3, <2>4 DEF IInv
  <1> QED
    BY <1>1, <1>2, <1>3, <1>4, <1>5, <1>6, <1>7, <1>8, <1>9 DEF Next, WorkerStep

(* The inductive invariant holds in every state of the span worker,         *)
(* process_span_batch with its retries, crashes and lost replies.           *)
THEOREM Invariance == Spec => []IInv
  <1>1. Init => IInv
    BY InitIInv
  <1>2. IInv /\ [Next]_vars => IInv'
    BY NextIInv
  <1> QED
    BY <1>1, <1>2, PTL DEF Spec

(* update_span_metric_buckets counts every span row exactly once, however   *)
(* batches overlap and whatever is retried after a commit.                  *)
THEOREM BucketsAreExact == Spec => []BucketsMatchSpans
  <1>1. IInv => BucketsMatchSpans
    BY DEF IInv
  <1> QED
    BY <1>1, Invariance, PTL

(* A committed span has its outbox event, its trace row and, behind its     *)
(* key, its payload; a trace row starts with one of its spans.              *)
THEOREM SpansAreComplete == Spec => []StoredSpanIsComplete
  <1>1. IInv => StoredSpanIsComplete
    BY DEF IInv
  <1> QED
    BY <1>1, Invariance, PTL

(* mark_finished is only reached when every valid span of the batch is in   *)
(* the database.                                                            *)
THEOREM ProcessedIsStored == Spec => []ProcessedMeansStored
  <1>1. IInv => ProcessedMeansStored
    BY DEF IInv
  <1> QED
    BY <1>1, Invariance, PTL

-----------------------------------------------------------------------------
(* No batch is nowhere. *)

Accounted(b) ==
    \/ Resolved(b) \/ b \in dropped
    \/ \E n \in Retries : <<b, n>> \in queue
    \/ \E w \in Workers, n \in Retries : <<b, n>> \in task[w]

(* The middleware puts the message somewhere, or its loss is on record. *)
LEMMA OnErrorAccounts ==
    ASSUME NEW b \in Batches, NEW n \in Retries, NEW q, OnError(b, n, q)
    PROVE  /\ b \in dlq' \/ b \in dropped' \/ \E k \in Retries : <<b, k>> \in queue'
           /\ q \subseteq queue' /\ dlq \subseteq dlq' /\ dropped \subseteq dropped'
  <1>1. CASE n + 1 < MaxRetries
    <2>1. n + 1 \in Retries
      BY <1>1, WorkerAssumption DEF Retries
    <2> QED
      BY <1>1, <2>1, WorkerAssumption DEF OnError, Retries
  <1>2. CASE n + 1 >= MaxRetries
    BY <1>2, WorkerAssumption DEF OnError, Retries
  <1> QED
    BY <1>1, <1>2, WorkerAssumption DEF Retries

(* A step that takes nothing away from a batch leaves it accounted for. *)
LEMMA StaysAccounted ==
    ASSUME NEW b \in Batches, Accounted(b),
           bstatus'[b].status = bstatus[b].status,
           b \in dlq => b \in dlq' \cup failed', b \in failed => b \in failed',
           b \in dropped => b \in dropped',
           \A n \in Retries : <<b, n>> \in queue => <<b, n>> \in queue',
           \A w \in Workers, n \in Retries : <<b, n>> \in task[w] => <<b, n>> \in task'[w]
    PROVE  Accounted(b)'
  BY DEF Accounted, Resolved

(* One batch was handled by a worker; the others were not touched. *)
LEMMA OnlyOneTouched ==
    ASSUME NEW b \in Batches, BatchIsAccountedFor, Accounted(b)',
           \A c \in Batches \ {b} :
               /\ bstatus'[c].status = bstatus[c].status
               /\ \A n \in Retries : <<c, n>> \in queue => <<c, n>> \in queue'
               /\ \A w \in Workers, n \in Retries :
                     <<c, n>> \in task[w] => <<c, n>> \in task'[w],
           dlq \subseteq dlq', failed \subseteq failed', dropped \subseteq dropped'
    PROVE  BatchIsAccountedFor'
  <1>1. ASSUME NEW c \in Batches \ {b} PROVE Accounted(c)'
    <2>1. Accounted(c)
      BY DEF BatchIsAccountedFor, Accounted
    <2> QED
      BY <2>1, StaysAccounted
  <1>2. \A c \in Batches : Accounted(c)'
    BY <1>1
  <1> QED
    BY <1>2 DEF BatchIsAccountedFor, Accounted

(* An idle worker holds no message. *)
IdleInv == \A w \in Workers : wpc[w] = "idle" => task[w] = {}

LEMMA IdleStep == IInv /\ IdleInv /\ [Next]_vars => IdleInv'
  <1> SUFFICES ASSUME IInv, IdleInv, [Next]_vars PROVE IdleInv'
    OBVIOUS
  <1> USE DEF IInv, TypeOK, IdleInv
  <1>1. ASSUME UNCHANGED <<wpc, task>> PROVE IdleInv'
    BY <1>1
  <1>2. ASSUME NEW w \in Workers, NEW p, p # "idle", Goto(w, p), UNCHANGED task
        PROVE  IdleInv'
    BY <1>2 DEF Goto
  <1>3. ASSUME NEW w \in Workers, Release(w) PROVE IdleInv'
    BY <1>3 DEF Release, Goto
  <1>4. ASSUME NEW w \in Workers, NEW b \in Batches, NEW n \in Retries, TakeBatch(w, b, n)
        PROVE  IdleInv'
    BY <1>4 DEF TakeBatch, Goto
  <1>5. ASSUME NEW w \in Workers,
               \/ PrepareSpans(w) \/ PrepareRaises(w) \/ InsertSpans(w) \/ Commit(w)
               \/ TxnFails(w) \/ PostCommit(w) \/ FinishRaises(w)
        PROVE  IdleInv'
    BY <1>2, <1>5 DEF PrepareSpans, PrepareRaises, InsertSpans, Commit, TxnFails,
                      PostCommit, FinishRaises
  <1>6. ASSUME NEW w \in Workers, Finish(w) \/ Fail(w) \/ CrashWorker(w) PROVE IdleInv'
    BY <1>3, <1>6 DEF Finish, Fail, CrashWorker
  <1>7. ASSUME \/ \E w \in Workers, t \in Traces : LookUpTrace(w, t)
               \/ \E t \in Traces, st \in Starts : CountSpans(t, st) \/ AggregateRaises(t, st)
               \/ \E c \in counting : UpdateAggregates(c)
               \/ \E b \in Batches : HandleFailedTask(b)
        PROVE  IdleInv'
    BY <1>1, <1>7 DEF LookUpTrace, CountSpans, AggregateRaises, UpdateAggregates,
                      HandleFailedTask
  <1>8. CASE UNCHANGED vars
    BY <1>1, <1>8 DEF vars
  <1> QED
    BY <1>4, <1>5, <1>6, <1>7, <1>8 DEF Next, WorkerStep

LEMMA AccountedStep ==
    IInv /\ IdleInv /\ BatchIsAccountedFor /\ [Next]_vars => BatchIsAccountedFor'
  <1> SUFFICES ASSUME IInv, IdleInv, BatchIsAccountedFor, [Next]_vars PROVE BatchIsAccountedFor'
    OBVIOUS
  <1> USE DEF IInv
  <1>0. \A b \in Batches : Accounted(b)
    BY DEF BatchIsAccountedFor, Accounted
  <1>1. ASSUME UNCHANGED <<bstatus, dlq, failed, dropped, queue, task>>
        PROVE  BatchIsAccountedFor'
    BY <1>1 DEF BatchIsAccountedFor, Resolved
  <1>2. ASSUME NEW w \in Workers, NEW b \in Batches, NEW n \in Retries, TakeBatch(w, b, n)
        PROVE  BatchIsAccountedFor'
    <2>0. /\ wpc[w] = "idle" /\ <<b, n>> \in queue /\ UNCHANGED failed
          /\ task[w] = {} /\ \A m \in queue : m # <<b, n>> => m \in queue \ {<<b, n>>}
      BY <1>2 DEF TakeBatch, IdleInv
    <2>1. CASE /\ queue' = queue \ {<<b, n>>} /\ task' = [task EXCEPT ![w] = {<<b, n>>}]
               /\ SetBatchStatus(b, "processing") /\ UNCHANGED <<dlq, dropped>>
      <3>1. Accounted(b)'
        <4>1. <<b, n>> \in task'[w]
          BY <2>1 DEF TypeOK
        <4> QED
          BY <4>1 DEF Accounted
      <3>2. \A c \in Batches \ {b} : bstatus'[c].status = bstatus[c].status
        BY <2>1 DEF SetBatchStatus, TypeOK
      <3>3. \A c \in Batches \ {b}, k \in Retries : <<c, k>> \in queue => <<c, k>> \in queue'
        BY <2>1
      <3>4. \A v \in Workers : task[v] \subseteq task'[v]
        BY <2>0, <2>1 DEF TypeOK
      <3> QED
        BY <2>0, <2>1, <3>1, <3>2, <3>3, <3>4, OnlyOneTouched
    <2>2. CASE OnError(b, n, queue \ {<<b, n>>}) /\ UNCHANGED <<task, bstatus>>
      <3>1. Accounted(b)'
        BY <2>2, OnErrorAccounts DEF Accounted, Resolved
      <3>2. /\ queue \ {<<b, n>>} \subseteq queue' /\ dlq \subseteq dlq'
            /\ dropped \subseteq dropped'
        BY <2>2, OnErrorAccounts
      <3> QED
        BY <2>0, <2>2, <3>1, <3>2, OnlyOneTouched
    <2> QED
      BY <1>2, <2>1, <2>2 DEF TakeBatch
  <1>3. ASSUME NEW w \in Workers,
               \/ PrepareSpans(w) \/ PrepareRaises(w) \/ InsertSpans(w)
               \/ (\E t \in Traces : LookUpTrace(w, t)) \/ Commit(w) \/ TxnFails(w)
               \/ PostCommit(w) \/ FinishRaises(w)
        PROVE  BatchIsAccountedFor'
    BY <1>1, <1>3 DEF PrepareSpans, PrepareRaises, InsertSpans, LookUpTrace, Commit,
                      TxnFails, PostCommit, FinishRaises
  <1>4. ASSUME NEW w \in Workers, NEW b \in Batches, b = BatchOf(w), wpc[w] # "idle",
               Release(w), UNCHANGED failed,
               queue \subseteq queue', dlq \subseteq dlq', dropped \subseteq dropped',
               \A c \in Batches \ {b} : bstatus'[c].status = bstatus[c].status,
               Accounted(b)'
        PROVE  BatchIsAccountedFor'
    <2>1. task[w] = {<<b, RetriesOf(w)>>}
      BY <1>4, BusyTask
    <2>2. \A c \in Batches \ {b}, v \in Workers, k \in Retries :
             <<c, k>> \in task[v] => <<c, k>> \in task'[v]
      BY <1>4, <2>1 DEF Release, TypeOK
    <2> QED
      BY <1>4, <2>2, OnlyOneTouched
  <1>5. ASSUME NEW w \in Workers, Finish(w) PROVE BatchIsAccountedFor'
    <2>1. PICK b \in Batches : b = BatchOf(w)
      BY <1>5, BusyTask DEF Finish
    <2>2. /\ bstatus'[b].status = FinishStatus(b)
          /\ \A c \in Batches \ {b} : bstatus'[c] = bstatus[c]
      BY <1>5, <2>1 DEF Finish, TypeOK
    <2>3. Accounted(b)'
      BY <2>2 DEF Accounted, Resolved, FinishStatus
    <2> QED
      BY <1>4, <1>5, <2>1, <2>2, <2>3 DEF Finish
  <1>6. ASSUME NEW w \in Workers, Fail(w) PROVE BatchIsAccountedFor'
    <2>1. PICK b \in Batches, n \in Retries : b = BatchOf(w) /\ n = RetriesOf(w)
      BY <1>6, BusyTask DEF Fail
    <2>2. OnError(b, n, queue)
      BY <1>6, <2>1 DEF Fail
    <2>3. Accounted(b)'
      BY <2>2, OnErrorAccounts DEF Accounted, Resolved
    <2>4. queue \subseteq queue' /\ dlq \subseteq dlq' /\ dropped \subseteq dropped'
      BY <2>2, OnErrorAccounts
    <2>5. \A c \in Batches \ {b} : bstatus'[c].status = bstatus[c].status
      BY <1>6, <2>1 DEF Fail, SetBatchStatus, TypeOK
    <2>6. wpc[w] # "idle" /\ Release(w) /\ UNCHANGED failed
      BY <1>6 DEF Fail
    <2> QED
      BY <1>4, <2>1, <2>3, <2>4, <2>5, <2>6
  <1>7. ASSUME NEW w \in Workers, CrashWorker(w) PROVE BatchIsAccountedFor'
    <2>1. PICK b \in Batches : b = BatchOf(w)
      BY <1>7, BusyTask DEF CrashWorker
    <2>2. Accounted(b)'
      BY <1>7, <2>1 DEF CrashWorker, Accounted
    <2> QED
      BY <1>4, <1>7, <2>1, <2>2 DEF CrashWorker
  <1>8. ASSUME NEW b \in Batches, HandleFailedTask(b) PROVE BatchIsAccountedFor'
    <2>1. ASSUME NEW c \in Batches PROVE Accounted(c)'
      BY <1>0, <1>8 DEF HandleFailedTask, Accounted, Resolved
    <2> QED
      BY <2>1 DEF BatchIsAccountedFor, Accounted
  <1>9. ASSUME \/ \E t \in Traces, st \in Starts : CountSpans(t, st) \/ AggregateRaises(t, st)
               \/ \E c \in counting : UpdateAggregates(c)
        PROVE  BatchIsAccountedFor'
    BY <1>1, <1>9 DEF CountSpans, AggregateRaises, UpdateAggregates
  <1>10. CASE UNCHANGED vars
    BY <1>1, <1>10 DEF vars
  <1> QED
    BY <1>2, <1>3, <1>5, <1>6, <1>7, <1>8, <1>9, <1>10 DEF Next, WorkerStep

(* Through every failure of process_span_batch and of its retry middleware, *)
(* an unresolved batch has a message on the queue or a worker that holds it, *)
(* or the loss of that message is on record.                                *)
THEOREM BatchesAreKept == Spec => []BatchIsAccountedFor
  <1>1. Init => BatchIsAccountedFor
    <2>1. 0 \in Retries
      BY WorkerAssumption DEF Retries
    <2> QED
      BY <2>1 DEF Init, BatchIsAccountedFor
  <1>2. Init => IdleInv
    BY DEF Init, IdleInv
  <1>3. Spec => []IInv
    BY Invariance
  <1> QED
    BY <1>1, <1>2, <1>3, IdleStep, AccountedStep, PTL DEF Spec

-----------------------------------------------------------------------------
(* A look-up that is still true at the commit keeps one row per trace. *)

LEMMA EarliestUnique ==
    ASSUME NEW S \in SUBSET Spans, NEW t, NEW s \in SpansOf(t, S),
           \A q \in SpansOf(t, S) : StartOf[s] <= StartOf[q]
    PROVE  EarliestStart(t, S) = StartOf[s]
  <1>1. t \in TracesOf(S) /\ SpansOf(t, S) \subseteq Spans
    BY DEF SpansOf, TracesOf
  <1>2. PICK q \in SpansOf(t, S) : StartOf[q] = EarliestStart(t, S)
    BY <1>1, EarliestIsAStart
  <1>3. EarliestStart(t, S) <= StartOf[s]
    BY <1>1, EarliestIsAStart
  <1>4. StartOf[s] \in Nat /\ StartOf[q] \in Nat /\ StartOf[s] <= StartOf[q]
    BY <1>1, WorkerAssumption
  <1> QED
    BY <1>2, <1>3, <1>4

(* A trace without spans has no row. *)
LEMMA NoSpanNoRow ==
    ASSUME IInv, NEW t \in Traces, traceRows[t] # {}
    PROVE  t \in TracesOf(spans)
  BY DEF IInv, StoredSpanIsComplete, SpansOf, TracesOf

LEMMA StableApply ==
    ASSUME IInv, TraceRowIsStable, NEW w \in Workers, AtCommit(w), Apply(w),
           NEW t \in TracesOf(inserted[w]) \ raced'
    PROVE  /\ traceRows'[t] = {StableStart(w, t)}
           /\ StableStart(w, t) = EarliestStart(t, spans')
  <1> USE DEF IInv
  <1> DEFINE start == EarliestStart(t, inserted[w])
             existing == Existing(w, t)
  <1>1. inserted[w] \in SUBSET Spans /\ spans \in SUBSET Spans /\ t \in Traces
    BY DEF TypeOK, TracesOf, Traces
  <1>2. spans' = spans \cup inserted[w] /\ spans' \in SUBSET Spans
    BY <1>1 DEF Apply
  <1>3. SpansOf(t, spans') = SpansOf(t, spans) \cup SpansOf(t, inserted[w])
    BY <1>2 DEF SpansOf
  <1>4. /\ start \in Nat
        /\ \E s \in SpansOf(t, inserted[w]) : StartOf[s] = start
        /\ \A s \in SpansOf(t, inserted[w]) : start <= StartOf[s]
    BY <1>1, EarliestIsAStart, StartsAreNat
  <1>5. traceRows'[t] = EnsuredRows(w, t)
    BY <1>1 DEF Apply
  <1>6. existing = FirstRow(t) /\ t \notin raced
    BY DEF Apply
  <1>7. CASE t \notin TracesOf(spans)
    <2>1. traceRows[t] = {} /\ existing = -1
      BY <1>1, <1>6, <1>7, NoSpanNoRow DEF FirstRow
    <2>2. traceRows'[t] = {start} /\ StableStart(w, t) = start
      BY <1>5, <2>1 DEF EnsuredRows, StableStart
    <2>3. SpansOf(t, spans') = SpansOf(t, inserted[w])
      BY <1>3, <1>7 DEF SpansOf, TracesOf
    <2>4. EarliestStart(t, spans') = start
      BY <2>3 DEF EarliestStart
    <2> QED
      BY <2>2, <2>4
  <1>8. CASE t \in TracesOf(spans)
    <2> DEFINE e == EarliestStart(t, spans)
    <2>1. /\ e \in Nat
          /\ \E s \in SpansOf(t, spans) : StartOf[s] = e
          /\ \A s \in SpansOf(t, spans) : e <= StartOf[s]
      BY <1>1, <1>8, EarliestIsAStart, StartsAreNat
    <2>2. traceRows[t] = {e}
      BY <1>6, <1>8 DEF TraceRowIsStable
    <2>3. Min({e}) = e
      BY <2>1, MinIsLeast
    <2>4. existing = e
      BY <1>6, <2>2, <2>3 DEF FirstRow
    <2>5. EnsuredRows(w, t) =
            CASE existing = -1 -> traceRows[t] \cup {start}
              [] existing # -1 /\ existing <= start -> traceRows[t]
              [] existing > start /\ existing \in traceRows[t] ->
                   (traceRows[t] \ {existing}) \cup {start}
              [] OTHER -> traceRows[t]
      BY DEF EnsuredRows
    <2>6. StableStart(w, t) = IF existing # -1 /\ existing <= start THEN existing ELSE start
      BY DEF StableStart
    <2>7. \A s \in SpansOf(t, spans') : StartOf[s] \in Nat
      BY <1>2, WorkerAssumption DEF SpansOf
    <2> HIDE DEF start, existing, e
    <2>8. CASE e <= start
      <3>1. traceRows'[t] = {e} /\ StableStart(w, t) = e
        BY <1>4, <1>5, <2>1, <2>2, <2>4, <2>5, <2>6, <2>8
      <3>2. PICK s \in SpansOf(t, spans) : StartOf[s] = e
        BY <2>1
      <3>3. \A q \in SpansOf(t, spans') : StartOf[s] <= StartOf[q]
        BY <1>3, <1>4, <2>1, <2>7, <2>8, <3>2
      <3>4. s \in SpansOf(t, spans')
        BY <1>3
      <3>5. EarliestStart(t, spans') = StartOf[s]
        BY <1>2, <3>3, <3>4, EarliestUnique
      <3> QED
        BY <3>1, <3>2, <3>5
    <2>9. CASE start < e
      <3>1. traceRows'[t] = {start} /\ StableStart(w, t) = start
        BY <1>4, <1>5, <2>1, <2>2, <2>4, <2>5, <2>6, <2>9
      <3>2. PICK s \in SpansOf(t, inserted[w]) : StartOf[s] = start
        BY <1>4
      <3>3. \A q \in SpansOf(t, spans') : StartOf[s] <= StartOf[q]
        BY <1>3, <1>4, <2>1, <2>7, <2>9, <3>2
      <3>4. s \in SpansOf(t, spans')
        BY <1>3
      <3>5. EarliestStart(t, spans') = StartOf[s]
        BY <1>2, <3>3, <3>4, EarliestUnique
      <3> QED
        BY <3>1, <3>2, <3>5
    <2> QED
      BY <1>4, <2>1, <2>8, <2>9
  <1> QED
    BY <1>7, <1>8

(* The rows of the other traces stay. *)
LEMMA OtherRowsStay ==
    ASSUME NEW w \in Workers, Apply(w), NEW t \in Traces, t \notin TracesOf(inserted[w])
    PROVE  traceRows'[t] = traceRows[t] /\ SpansOf(t, spans') = SpansOf(t, spans)
  BY DEF Apply, SpansOf, TracesOf

LEMMA StableApplyStep ==
    ASSUME IInv, TraceRowIsStable, NEW w \in Workers, AtCommit(w), Apply(w)
    PROVE  TraceRowIsStable'
  <1>1. ASSUME NEW t \in TracesOf(spans') \ raced'
        PROVE  traceRows'[t] = {EarliestStart(t, spans')}
    <2>1. t \in Traces /\ t \notin raced
      BY ApplyType DEF TracesOf, Traces, Apply
    <2>2. CASE t \in TracesOf(inserted[w])
      BY <2>2, StableApply
    <2>3. CASE t \notin TracesOf(inserted[w])
      <3>1. traceRows'[t] = traceRows[t] /\ SpansOf(t, spans') = SpansOf(t, spans)
        BY <2>1, <2>3, OtherRowsStay
      <3>2. t \in TracesOf(spans)
        BY <3>1 DEF SpansOf, TracesOf
      <3>3. EarliestStart(t, spans') = EarliestStart(t, spans)
        BY <3>1 DEF EarliestStart
      <3> QED
        BY <2>1, <3>1, <3>2, <3>3 DEF TraceRowIsStable
    <2> QED
      BY <2>2, <2>3
  <1> QED
    BY <1>1 DEF TraceRowIsStable

(* Only a commit writes spans or trace rows. *)
LEMMA ApplyOrNot ==
    ASSUME [Next]_vars
    PROVE  \/ UNCHANGED <<spans, traceRows, raced>>
           \/ \E w \in Workers :
                 /\ AtCommit(w) /\ Apply(w)
                 /\ \/ Goto(w, "post") /\ UNCHANGED uncounted
                    \/ Goto(w, "failed") /\ uncounted' = uncounted \cup TracesOf(inserted[w])
                 /\ UNCHANGED <<aggTasks, counting, crossed, local>>
  <1>1. ASSUME NEW w \in Workers, Commit(w) \/ TxnFails(w)
        PROVE  \/ UNCHANGED <<spans, traceRows, raced>>
               \/ /\ AtCommit(w) /\ Apply(w)
                  /\ \/ Goto(w, "post") /\ UNCHANGED uncounted
                     \/ Goto(w, "failed") /\ uncounted' = uncounted \cup TracesOf(inserted[w])
                  /\ UNCHANGED <<aggTasks, counting, crossed, local>>
    BY <1>1 DEF Commit, TxnFails, db, aggregating
  <1>2. ASSUME NEW w \in Workers, CrashWorker(w)
        PROVE  UNCHANGED <<spans, traceRows, raced>>
    BY <1>2 DEF CrashWorker, db
  <1>3. ASSUME NEW w \in Workers, WorkerStep(w), ~Commit(w), ~TxnFails(w)
        PROVE  UNCHANGED <<spans, traceRows, raced>>
    BY <1>3 DEF WorkerStep, TakeBatch, PrepareSpans, PrepareRaises, InsertSpans,
                LookUpTrace, PostCommit, Finish, FinishRaises, Fail, db
  <1>4. ASSUME \/ UNCHANGED vars
               \/ \E t \in Traces, st \in Starts : CountSpans(t, st) \/ AggregateRaises(t, st)
               \/ \E c \in counting : UpdateAggregates(c)
               \/ \E b \in Batches : HandleFailedTask(b)
        PROVE  UNCHANGED <<spans, traceRows, raced>>
    BY <1>4 DEF vars, db, CountSpans, UpdateAggregates, AggregateRaises, HandleFailedTask
  <1> QED
    BY <1>1, <1>2, <1>3, <1>4 DEF Next

LEMMA StableStep == IInv /\ TraceRowIsStable /\ [Next]_vars => TraceRowIsStable'
  <1> SUFFICES ASSUME IInv, TraceRowIsStable, [Next]_vars PROVE TraceRowIsStable'
    OBVIOUS
  <1>1. CASE UNCHANGED <<spans, traceRows, raced>>
    BY <1>1 DEF TraceRowIsStable, EarliestStart, SpansOf, TracesOf
  <1>2. CASE \E w \in Workers : AtCommit(w) /\ Apply(w)
    BY <1>2, StableApplyStep
  <1> QED
    BY <1>1, <1>2, ApplyOrNot

-----------------------------------------------------------------------------
(* No span_count stays out of date. *)

(* A worker that keeps what it knows keeps the starts it returns. *)
LEMMA SameStable ==
    ASSUME NEW w \in Workers, inserted'[w] = inserted[w], seen'[w] = seen[w]
    PROVE  /\ TracesOf(inserted[w])' = TracesOf(inserted[w])
           /\ \A t : StableStart(w, t)' = StableStart(w, t)
  <1>1. \A t : Existing(w, t)' = Existing(w, t)
    BY DEF Existing
  <1>2. \A t : EarliestStart(t, inserted[w])' = EarliestStart(t, inserted[w])
    BY DEF EarliestStart, SpansOf
  <1> QED
    BY <1>1, <1>2 DEF StableStart, TracesOf

(* What is pending stays so, unless its task is taken. *)
LEMMA PendingStays ==
    ASSUME NEW t, NEW st, Pending(t, st),
           \A w \in Workers : wpc[w] = "post" =>
              \/ wpc'[w] = "post" /\ inserted'[w] = inserted[w] /\ seen'[w] = seen[w]
              \/ AggregateTasks(w) \subseteq aggTasks'
              \/ t \in TracesOf(inserted[w]) => t \in uncounted' \/ <<t, st>> \in aggTasks',
           <<t, st>> \in aggTasks => <<t, st>> \in aggTasks' \/ t \in uncounted',
           t \in uncounted => t \in uncounted'
    PROVE  Pending(t, st)'
  <1>1. CASE <<t, st>> \in aggTasks \/ t \in uncounted
    BY <1>1 DEF Pending
  <1>2. CASE \E w \in Workers :
                wpc[w] = "post" /\ t \in TracesOf(inserted[w]) /\ st = StableStart(w, t)
    <2>1. PICK w \in Workers :
             wpc[w] = "post" /\ t \in TracesOf(inserted[w]) /\ st = StableStart(w, t)
      BY <1>2
    <2>2. CASE wpc'[w] = "post" /\ inserted'[w] = inserted[w] /\ seen'[w] = seen[w]
      <3>1. t \in TracesOf(inserted[w])' /\ st = StableStart(w, t)'
        BY <2>1, <2>2, SameStable
      <3> QED
        BY <2>2, <3>1 DEF Pending
    <2>3. CASE AggregateTasks(w) \subseteq aggTasks'
      BY <2>1, <2>3 DEF Pending, AggregateTasks
    <2>4. CASE t \in uncounted' \/ <<t, st>> \in aggTasks'
      BY <2>4 DEF Pending
    <2> QED
      BY <2>1, <2>2, <2>3, <2>4
  <1> QED
    BY <1>1, <1>2 DEF Pending

(* A step that changes no table, runs no aggregate task and loses no count  *)
(* that it does not record as lost.                                         *)
LEMMA AggregateSame ==
    ASSUME AggregateInv, UNCHANGED <<spans, traceRows, aggregate, raced, counting, crossed>>,
           \A t \in Traces, st \in Starts : Pending(t, st) => Pending(t, st)',
           TypeOK
    PROVE  AggregateInv'
  <1> SUFFICES ASSUME NEW t \in Traces \ (raced \cup crossed), NEW st \in traceRows[t]
               PROVE  /\ \/ aggregate[<<t, st>>] = Cardinality(SpansOf(t, spans))
                         \/ <<t, st, Cardinality(SpansOf(t, spans))>> \in counting
                         \/ Pending(t, st)'
                      /\ \A d \in counting : d[1] = t /\ d[2] = st =>
                            d[3] = Cardinality(SpansOf(t, spans)) \/ Pending(t, st)'
    BY DEF AggregateInv, SpansOf
  <1>1. st \in Starts
    BY DEF TypeOK
  <1>2. Pending(t, st) => Pending(t, st)'
    BY <1>1
  <1> QED
    BY <1>2 DEF AggregateInv

LEMMA AggregateApply ==
    ASSUME IInv, TraceRowIsStable, AggregateInv, NEW w \in Workers, AtCommit(w), Apply(w),
           \/ Goto(w, "post") /\ UNCHANGED uncounted
           \/ Goto(w, "failed") /\ uncounted' = uncounted \cup TracesOf(inserted[w]),
           UNCHANGED <<aggTasks, counting, crossed, local>>
    PROVE  AggregateInv'
  <1>1. UNCHANGED <<inserted, seen, aggTasks, counting, crossed>> /\ wpc[w] = "ensure"
    BY DEF local, AtCommit
  <1>2. /\ raced \subseteq raced' /\ uncounted \subseteq uncounted'
        /\ \A v \in Workers : wpc[v] = "post" => wpc'[v] = "post"
    BY <1>1 DEF Apply, Goto, IInv, TypeOK
  <1>3. ASSUME NEW t \in Traces \ (raced' \cup crossed), NEW st \in traceRows'[t],
               t \in TracesOf(inserted[w])
        PROVE  Pending(t, st)'
    <2>1. st = StableStart(w, t)
      BY <1>3, StableApply
    <2>2. t \in TracesOf(inserted[w])' /\ StableStart(w, t)' = StableStart(w, t)
      BY <1>1, <1>3, SameStable
    <2>3. wpc'[w] = "post" \/ t \in uncounted'
      BY <1>3 DEF Goto, IInv, TypeOK
    <2> QED
      BY <2>1, <2>2, <2>3 DEF Pending
  <1>4. ASSUME NEW t \in Traces \ (raced' \cup crossed), NEW st \in traceRows'[t],
               t \notin TracesOf(inserted[w])
        PROVE  /\ \/ aggregate'[<<t, st>>] = Cardinality(SpansOf(t, spans'))
                  \/ <<t, st, Cardinality(SpansOf(t, spans'))>> \in counting
                  \/ Pending(t, st)'
               /\ \A d \in counting : d[1] = t /\ d[2] = st =>
                     d[3] = Cardinality(SpansOf(t, spans')) \/ Pending(t, st)'
    <2>1. traceRows'[t] = traceRows[t] /\ SpansOf(t, spans') = SpansOf(t, spans)
      BY <1>4, OtherRowsStay
    <2>2. st \in Starts /\ t \notin raced
      BY <1>2, <1>4, <2>1 DEF IInv, TypeOK
    <2>3. aggregate'[<<t, st>>] = aggregate[<<t, st>>]
      BY <2>1, <2>2 DEF Apply
    <2>4. Pending(t, st) => Pending(t, st)'
      BY <1>1, <1>2, PendingStays
    <2> QED
      BY <1>4, <2>1, <2>2, <2>3, <2>4 DEF AggregateInv
  <1>5. \A t \in Traces \ (raced' \cup crossed) : \A st \in traceRows'[t] :
           /\ \/ aggregate'[<<t, st>>] = Cardinality(SpansOf(t, spans'))
              \/ <<t, st, Cardinality(SpansOf(t, spans'))>> \in counting
              \/ Pending(t, st)'
           /\ \A d \in counting : d[1] = t /\ d[2] = st =>
                 d[3] = Cardinality(SpansOf(t, spans')) \/ Pending(t, st)'
    BY <1>3, <1>4
  <1> QED
    BY <1>1, <1>5 DEF AggregateInv, SpansOf

(* The count that an aggregate task of the current row starts with. *)
LEMMA CountIsRight ==
    ASSUME IInv, TraceRowIsStable, NEW t \in Traces \ raced, NEW st \in traceRows[t]
    PROVE  /\ traceRows[t] = {st}
           /\ {s \in SpansOf(t, spans) : StartOf[s] >= st} = SpansOf(t, spans)
  <1>1. t \in TracesOf(spans) /\ spans \in SUBSET Spans
    BY NoSpanNoRow DEF IInv, TypeOK
  <1>2. st = EarliestStart(t, spans) /\ traceRows[t] = {st}
    BY <1>1 DEF TraceRowIsStable
  <1>3. \A s \in SpansOf(t, spans) : st <= StartOf[s] /\ StartOf[s] \in Nat
    BY <1>1, <1>2, EarliestIsAStart, WorkerAssumption DEF SpansOf
  <1>4. st \in Nat
    BY StartsAreNat DEF IInv, TypeOK
  <1> QED
    BY <1>2, <1>3, <1>4

LEMMA AggregateCount ==
    ASSUME IInv, TraceRowIsStable, AggregateInv, NEW t \in Traces, NEW st \in Starts,
           CountSpans(t, st)
    PROVE  AggregateInv'
  <1>1. /\ UNCHANGED <<spans, traceRows, aggregate, raced, wpc, inserted, seen>>
        /\ aggTasks' = aggTasks \ {<<t, st>>}
        /\ crossed \subseteq crossed' /\ counting \subseteq counting'
    BY DEF CountSpans, db, local
  <1>2. ASSUME NEW u \in Traces, NEW x \in Starts, Pending(u, x), <<u, x>> # <<t, st>>,
               u \in uncounted => u \in uncounted'
        PROVE  Pending(u, x)'
    BY <1>1, <1>2, PendingStays
  <1> SUFFICES ASSUME NEW u \in Traces \ (raced \cup crossed'), NEW x \in traceRows[u]
               PROVE  /\ \/ aggregate[<<u, x>>] = Cardinality(SpansOf(u, spans))
                         \/ <<u, x, Cardinality(SpansOf(u, spans))>> \in counting'
                         \/ Pending(u, x)'
                      /\ \A d \in counting' : d[1] = u /\ d[2] = x =>
                            d[3] = Cardinality(SpansOf(u, spans)) \/ Pending(u, x)'
    BY <1>1 DEF AggregateInv, SpansOf
  <1>3. x \in Starts /\ u \notin crossed
    BY <1>1 DEF IInv, TypeOK
  <1>4. /\ \/ aggregate[<<u, x>>] = Cardinality(SpansOf(u, spans))
           \/ <<u, x, Cardinality(SpansOf(u, spans))>> \in counting
           \/ Pending(u, x)
        /\ \A d \in counting : d[1] = u /\ d[2] = x =>
              d[3] = Cardinality(SpansOf(u, spans)) \/ Pending(u, x)
    BY <1>3 DEF AggregateInv
  <1>5. CASE u = t /\ st \in traceRows[t]
    <2>1. x = st /\ {s \in SpansOf(t, spans) : StartOf[s] >= st} = SpansOf(t, spans)
      BY <1>5, CountIsRight
    <2>2. counting' = counting \cup {<<t, st, Cardinality(SpansOf(t, spans))>>}
      BY <1>5, <2>1 DEF CountSpans
    <2>3. \A d \in counting : ~(d[1] = t /\ d[2] = st)
      BY <1>5 DEF CountSpans
    <2> QED
      BY <1>5, <2>1, <2>2, <2>3
  <1>6. CASE ~(u = t /\ st \in traceRows[t])
    <2>1. <<u, x>> # <<t, st>>
      BY <1>6
    <2>2. u \in uncounted => u \in uncounted'
      BY <1>6 DEF CountSpans
    <2>3. \A d \in counting' : d[1] = u /\ d[2] = x => d \in counting
      <3>1. PICK n : counting' \subseteq counting \cup {<<t, st, n>>}
        BY DEF CountSpans
      <3> QED
        BY <2>1, <3>1
    <2>4. Pending(u, x) => Pending(u, x)'
      BY <1>2, <1>3, <2>1, <2>2
    <2> QED
      BY <1>1, <1>4, <2>3, <2>4
  <1> QED
    BY <1>5, <1>6

LEMMA AggregateUpdate ==
    ASSUME IInv, AggregateInv, NEW c \in counting, UpdateAggregates(c)
    PROVE  AggregateInv'
  <1>1. /\ UNCHANGED <<spans, traceRows, raced, crossed, uncounted, aggTasks, wpc, inserted, seen>>
        /\ counting' = counting \ {c} /\ aggregate \in [Traces \X Starts -> Nat]
    BY DEF UpdateAggregates, IInv, TypeOK, local
  <1>2. c[1] \in Traces /\ c[2] \in Starts /\ c[3] \in Nat /\ c = <<c[1], c[2], c[3]>>
    BY DEF IInv, TypeOK
  <1> SUFFICES ASSUME NEW u \in Traces \ (raced \cup crossed), NEW x \in traceRows[u]
               PROVE  /\ \/ aggregate'[<<u, x>>] = Cardinality(SpansOf(u, spans))
                         \/ <<u, x, Cardinality(SpansOf(u, spans))>> \in counting'
                         \/ Pending(u, x)'
                      /\ \A d \in counting' : d[1] = u /\ d[2] = x =>
                            d[3] = Cardinality(SpansOf(u, spans)) \/ Pending(u, x)'
    BY <1>1 DEF AggregateInv, SpansOf
  <1>3. Pending(u, x) => Pending(u, x)'
    BY <1>1, PendingStays
  <1>4. x \in Starts
    BY DEF IInv, TypeOK
  <1>5. /\ \/ aggregate[<<u, x>>] = Cardinality(SpansOf(u, spans))
           \/ <<u, x, Cardinality(SpansOf(u, spans))>> \in counting
           \/ Pending(u, x)
        /\ \A d \in counting : d[1] = u /\ d[2] = x =>
              d[3] = Cardinality(SpansOf(u, spans)) \/ Pending(u, x)
    BY DEF AggregateInv
  <1>6. CASE u = c[1] /\ x = c[2]
    <2>1. aggregate'[<<u, x>>] = c[3]
      BY <1>1, <1>4, <1>6 DEF UpdateAggregates
    <2>2. c[3] = Cardinality(SpansOf(u, spans)) \/ Pending(u, x)
      BY <1>2, <1>5, <1>6
    <2> QED
      BY <1>1, <1>3, <1>5, <2>1, <2>2
  <1>7. CASE ~(u = c[1] /\ x = c[2])
    <2>1. <<u, x>> # <<c[1], c[2]>>
      BY <1>7
    <2>2. aggregate'[<<u, x>>] = aggregate[<<u, x>>]
      BY <1>1, <1>4, <2>1 DEF UpdateAggregates
    <2>3. <<u, x, Cardinality(SpansOf(u, spans))>> # c
      BY <1>2, <1>7
    <2> QED
      BY <1>1, <1>3, <1>5, <2>2, <2>3
  <1> QED
    BY <1>6, <1>7

LEMMA AggregateLost ==
    ASSUME IInv, AggregateInv, NEW t \in Traces, NEW st \in Starts, AggregateRaises(t, st)
    PROVE  AggregateInv'
  <1>1. /\ UNCHANGED <<spans, traceRows, aggregate, raced, crossed, wpc, inserted, seen>>
        /\ counting' \subseteq counting /\ uncounted' = uncounted \cup {t}
        /\ \A m \in aggTasks : m \in aggTasks' \/ m = <<t, st>>
        /\ \A c \in counting : c \in counting' \/ c[1] = t
    BY DEF AggregateRaises, db, local
  <1> SUFFICES ASSUME NEW u \in Traces \ (raced \cup crossed), NEW x \in traceRows[u]
               PROVE  /\ \/ aggregate[<<u, x>>] = Cardinality(SpansOf(u, spans))
                         \/ <<u, x, Cardinality(SpansOf(u, spans))>> \in counting'
                         \/ Pending(u, x)'
                      /\ \A d \in counting' : d[1] = u /\ d[2] = x =>
                            d[3] = Cardinality(SpansOf(u, spans)) \/ Pending(u, x)'
    BY <1>1 DEF AggregateInv, SpansOf
  <1>2. Pending(u, x) => Pending(u, x)'
    BY <1>1, PendingStays
  <1>3. u = t => Pending(u, x)'
    BY <1>1 DEF Pending
  <1>4. /\ \/ aggregate[<<u, x>>] = Cardinality(SpansOf(u, spans))
           \/ <<u, x, Cardinality(SpansOf(u, spans))>> \in counting
           \/ Pending(u, x)
        /\ \A d \in counting : d[1] = u /\ d[2] = x =>
              d[3] = Cardinality(SpansOf(u, spans)) \/ Pending(u, x)
    BY DEF AggregateInv
  <1>5. <<u, x, Cardinality(SpansOf(u, spans))>> \in counting =>
           <<u, x, Cardinality(SpansOf(u, spans))>> \in counting' \/ u = t
    BY <1>1
  <1> QED
    BY <1>1, <1>2, <1>3, <1>4, <1>5

LEMMA AggregateStep ==
    IInv /\ TraceRowIsStable /\ AggregateInv /\ [Next]_vars => AggregateInv'
  <1> SUFFICES ASSUME IInv, TraceRowIsStable, AggregateInv, [Next]_vars
               PROVE  AggregateInv'
    OBVIOUS
  <1>0. TypeOK
    BY DEF IInv
  <1>1. ASSUME UNCHANGED <<db, aggregating, raced>>, uncounted \subseteq uncounted',
               \A w \in Workers : wpc[w] = "post" =>
                  \/ wpc'[w] = "post" /\ inserted'[w] = inserted[w] /\ seen'[w] = seen[w]
                  \/ TracesOf(inserted[w]) \subseteq uncounted'
        PROVE  AggregateInv'
    <2>1. \A t \in Traces, st \in Starts : Pending(t, st) => Pending(t, st)'
      BY <1>1, PendingStays DEF aggregating
    <2> QED
      BY <1>0, <1>1, <2>1, AggregateSame DEF db, aggregating
  <1>2. ASSUME NEW w \in Workers,
               \/ \E b \in Batches, n \in Retries : TakeBatch(w, b, n)
               \/ PrepareSpans(w) \/ PrepareRaises(w) \/ InsertSpans(w)
               \/ (TxnFails(w) /\ UNCHANGED <<db, raced, uncounted>>)
               \/ (\E t \in Traces : LookUpTrace(w, t))
               \/ Finish(w) \/ FinishRaises(w) \/ Fail(w)
        PROVE  AggregateInv'
    <2>1. UNCHANGED <<db, aggregating, raced, uncounted>> /\ wpc[w] # "post"
      BY <1>2 DEF TakeBatch, PrepareSpans, PrepareRaises, InsertSpans, TxnFails,
                  LookUpTrace, Finish, FinishRaises, Fail
    <2>2. \A v \in Workers \ {w} :
             wpc'[v] = wpc[v] /\ inserted'[v] = inserted[v] /\ seen'[v] = seen[v]
      BY <1>0, <1>2 DEF TakeBatch, PrepareSpans, PrepareRaises, InsertSpans, TxnFails,
                  LookUpTrace, Finish, FinishRaises, Fail, Release, Goto, local, TypeOK
    <2> QED
      BY <1>1, <2>1, <2>2
  <1>3. ASSUME NEW w \in Workers, AtCommit(w), Apply(w),
               \/ Goto(w, "post") /\ UNCHANGED uncounted
               \/ Goto(w, "failed") /\ uncounted' = uncounted \cup TracesOf(inserted[w]),
               UNCHANGED <<aggTasks, counting, crossed, local>>
        PROVE  AggregateInv'
    BY <1>3, AggregateApply
  <1>4. ASSUME NEW w \in Workers, Commit(w) \/ TxnFails(w) PROVE AggregateInv'
    <2>1. CASE Commit(w)
      BY <1>3, <2>1 DEF Commit, aggregating
    <2>2. CASE TxnFails(w)
      BY <1>2, <1>3, <2>2 DEF TxnFails, aggregating
    <2> QED
      BY <1>4, <2>1, <2>2
  <1>5. ASSUME NEW w \in Workers, PostCommit(w) PROVE AggregateInv'
    <2>1. /\ UNCHANGED <<spans, traceRows, aggregate, raced, counting, crossed, inserted, seen>>
          /\ wpc[w] = "post" /\ aggTasks \subseteq aggTasks' /\ uncounted \subseteq uncounted'
          /\ \A m \in AggregateTasks(w) : m \in aggTasks' \/ m[1] \in uncounted'
          /\ \A v \in Workers \ {w} : wpc'[v] = wpc[v]
      BY <1>0, <1>5 DEF PostCommit, db, local, Goto, TypeOK
    <2>2. ASSUME NEW t \in Traces, NEW st \in Starts, Pending(t, st)
          PROVE  Pending(t, st)'
      <3>1. CASE <<t, st>> \in AggregateTasks(w)
        BY <2>1, <3>1 DEF Pending
      <3>2. CASE <<t, st>> \notin AggregateTasks(w)
        <4>1. ~(t \in TracesOf(inserted[w]) /\ st = StableStart(w, t))
          BY <3>2 DEF AggregateTasks
        <4>2. CASE <<t, st>> \in aggTasks \/ t \in uncounted
          BY <2>1, <4>2 DEF Pending
        <4>3. CASE \E v \in Workers \ {w} :
                      wpc[v] = "post" /\ t \in TracesOf(inserted[v]) /\ st = StableStart(v, t)
          <5>1. PICK v \in Workers \ {w} :
                   wpc[v] = "post" /\ t \in TracesOf(inserted[v]) /\ st = StableStart(v, t)
            BY <4>3
          <5>2. t \in TracesOf(inserted[v])' /\ st = StableStart(v, t)' /\ wpc'[v] = "post"
            BY <2>1, <5>1, SameStable
          <5> QED
            BY <5>2 DEF Pending
        <4> QED
          BY <2>2, <4>1, <4>2, <4>3 DEF Pending
      <3> QED
        BY <3>1, <3>2
    <2> QED
      BY <1>0, <2>1, <2>2, AggregateSame
  <1>6. ASSUME NEW w \in Workers, CrashWorker(w) PROVE AggregateInv'
    <2>1. /\ UNCHANGED <<db, aggregating, raced>> /\ uncounted \subseteq uncounted'
          /\ wpc[w] = "post" => TracesOf(inserted[w]) \subseteq uncounted'
          /\ \A v \in Workers \ {w} :
                wpc'[v] = wpc[v] /\ inserted'[v] = inserted[v] /\ seen'[v] = seen[v]
      BY <1>0, <1>6 DEF CrashWorker, Release, Goto, TypeOK
    <2> QED
      BY <1>1, <2>1
  <1>7. ASSUME \/ \E t \in Traces, st \in Starts : CountSpans(t, st) \/ AggregateRaises(t, st)
               \/ \E c \in counting : UpdateAggregates(c)
        PROVE  AggregateInv'
    BY <1>7, AggregateCount, AggregateUpdate, AggregateLost
  <1>8. ASSUME UNCHANGED vars \/ \E b \in Batches : HandleFailedTask(b)
        PROVE  AggregateInv'
    <2>1. UNCHANGED <<db, aggregating, raced, uncounted, wpc, inserted, seen>>
      BY <1>8 DEF vars, HandleFailedTask, local
    <2> QED
      BY <1>1, <2>1
  <1>9. ASSUME NEW w \in Workers, WorkerStep(w) \/ CrashWorker(w) PROVE AggregateInv'
    BY <1>2, <1>4, <1>5, <1>6, <1>9 DEF WorkerStep
  <1> QED
    BY <1>7, <1>8, <1>9 DEF Next

LEMMA InitSInv == Init => SInv
  <1> SUFFICES ASSUME Init PROVE SInv
    OBVIOUS
  <1>1. IInv
    BY InitIInv
  <1>2. TraceRowIsStable
    BY DEF Init, TraceRowIsStable, TracesOf
  <1>3. AggregateInv
    BY DEF Init, AggregateInv
  <1> QED
    BY <1>1, <1>2, <1>3 DEF SInv

LEMMA NextSInv == SInv /\ [Next]_vars => SInv'
  BY NextIInv, StableStep, AggregateStep DEF SInv

(* The inductive invariant with the trace rows and their totals. *)
THEOREM RowsInvariance == Spec => []SInv
  BY InitSInv, NextSInv, PTL DEF Spec

(* However many workers run process_span_batch and whatever fails,          *)
(* ensure_trace_row keeps exactly one row per trace, which starts with its  *)
(* earliest span, for every trace of which each transaction committed while *)
(* the row it had looked up was still the first.                            *)
THEOREM OneRowPerTrace == Spec => []TraceRowIsStable
  <1>1. SInv => TraceRowIsStable
    BY DEF SInv
  <1> QED
    BY <1>1, RowsInvariance, PTL

(* A span_count that no task waits or runs for counts every span of its     *)
(* trace, with any number of workers, unless two update_trace_aggregates of *)
(* the trace ran at once, or one was lost after the last count.             *)
THEOREM CountsConverge == Spec => []AggregatesConverge
  <1>1. SInv => AggregatesConverge
    <2> SUFFICES ASSUME SInv, NEW t \in Traces \ (raced \cup crossed \cup uncounted),
                        AggregatesDone(t), NEW st \in traceRows[t]
                 PROVE  aggregate[<<t, st>>] = Cardinality(SpansOf(t, spans))
      BY DEF AggregatesConverge, RowsCount
    <2>1. ~Pending(t, st)
      BY DEF Pending, AggregatesDone
    <2>2. <<t, st, Cardinality(SpansOf(t, spans))>> \notin counting
      BY DEF AggregatesDone
    <2> QED
      BY <2>1, <2>2 DEF SInv, AggregateInv
  <1> QED
    BY <1>1, RowsInvariance, PTL

-----------------------------------------------------------------------------
(* The time buckets of a series. *)

LEMMA DivBounds ==
    ASSUME NEW x \in Nat, NEW n \in Nat \ {0}
    PROVE  /\ x \div n \in Nat
           /\ (x \div n) * n <= x
           /\ x < (x \div n) * n + n
  OBVIOUS

LEMMA TimesOrder ==
    ASSUME NEW k \in Nat, NEW m \in Nat, NEW n \in Nat \ {0}, k * n < m * n + n
    PROVE  k <= m
  <1> SUFFICES ASSUME m + 1 <= k PROVE FALSE
    OBVIOUS
  <1>1. PICK d \in Nat : k = m + 1 + d
    BY k = m + 1 + (k - m - 1)
  <1>2. k * n = m * n + n + d * n
    BY <1>1
  <1>3. d * n \in Nat /\ m * n \in Nat
    OBVIOUS
  <1> QED
    BY <1>2, <1>3

LEMMA DivOfMultiple ==
    ASSUME NEW m \in Nat, NEW n \in Nat \ {0}
    PROVE  (m * n) \div n = m
  <1> DEFINE q == (m * n) \div n
  <1>1. m * n \in Nat
    OBVIOUS
  <1>2. q \in Nat /\ q * n <= m * n /\ m * n < q * n + n
    BY <1>1, DivBounds
  <1> HIDE DEF q
  <1>3. q * n \in Nat /\ q * n < m * n + n
    BY <1>1, <1>2
  <1>4. m <= q
    BY <1>2, TimesOrder
  <1>5. q <= m
    BY <1>2, <1>3, TimesOrder
  <1> QED
    BY <1>2, <1>4, <1>5 DEF q

(* A span that starts in the period, and no later than the current bucket, *)
(* falls into a bucket of generate_series.                                 *)
LEMMA SeriesCovers ==
    ASSUME NEW c \in Nat, NEW x \in Nat, x >= c,
           x < DateTrunc(c + Interval) + BucketSize
    PROVE  DateTrunc(x) \in TimeBuckets(c)
  <1> DEFINE n == BucketSize
             a == c \div n
             b == (c + Interval) \div n
             k == x \div n
  <1>1. n \in Nat \ {0} /\ Interval \in Nat /\ c + Interval \in Nat
    BY QueriesAssumption
  <1>2. /\ DateTrunc(c) = a * n /\ DateTrunc(c + Interval) = b * n /\ DateTrunc(x) = k * n
    BY DEF DateTrunc
  <1>3. a \in Nat /\ a * n <= c /\ c < a * n + n
    BY <1>1, DivBounds
  <1>4. b \in Nat /\ b * n <= c + Interval /\ c + Interval < b * n + n
    BY <1>1, DivBounds
  <1>5. k \in Nat /\ k * n <= x /\ x < k * n + n
    BY <1>1, DivBounds
  <1>6. x < b * n + n
    BY <1>2
  <1>7. TimeBuckets(c) = {DateTrunc(c) + i * n :
             i \in 0 .. ((DateTrunc(c + Interval) - DateTrunc(c)) \div n)}
    BY DEF TimeBuckets
  <1> HIDE DEF n, a, b, k
  <1>8. a * n \in Nat /\ b * n \in Nat /\ k * n \in Nat
    BY <1>1, <1>3, <1>4, <1>5
  <1>9. a <= k
    <2>1. a * n < k * n + n
      BY <1>1, <1>3, <1>5, <1>8
    <2> QED
      BY <1>1, <1>3, <1>5, <2>1, TimesOrder
  <1>10. k <= b
    <2>1. k * n < b * n + n
      BY <1>1, <1>5, <1>6, <1>8
    <2> QED
      BY <1>1, <1>4, <1>5, <2>1, TimesOrder
  <1>11. a <= b /\ b - a \in Nat /\ k - a \in 0 .. (b - a)
    BY <1>3, <1>4, <1>5, <1>9, <1>10
  <1>12. b * n - a * n = (b - a) * n
    BY <1>1, <1>3, <1>4
  <1>13. (b * n - a * n) \div n = b - a
    BY <1>1, <1>11, <1>12, DivOfMultiple
  <1>14. k * n = a * n + (k - a) * n
    BY <1>1, <1>3, <1>5
  <1>15. TimeBuckets(c) = {a * n + i * n : i \in 0 .. (b - a)}
    BY <1>2, <1>7, <1>13
  <1> QED
    BY <1>2, <1>11, <1>14, <1>15

-----------------------------------------------------------------------------
(* What a dashboard query counts. *)

LEMMA KeysFinite ==
    ASSUME NEW p, NEW S, IsFiniteSet(S)
    PROVE  IsFiniteSet(KeysOf(p, S))
  <1> DEFINE f == [s \in S |-> GroupKey(p, s)]
  <1>1. f \in Surjection(S, KeysOf(p, S))
    BY DEF Surjection, KeysOf
  <1> QED
    BY <1>1, FS_Surjection

(* A row that a result does not count belongs to a group that the LIMIT cut *)
(* off.                                                                     *)
LEMMA CutOffByLimit ==
    ASSUME IInv, NEW p, NEW c, NEW S \in Counts(p, c), NEW s \in RowsOf(p, c), s \notin S
    PROVE  /\ p.limited
           /\ Cardinality(KeysOf(p, S)) = GroupLimit
           /\ GroupKey(p, s) \notin KeysOf(p, S)
  <1> DEFINE rows == RowsOf(p, c)
             keys == KeysOf(p, rows)
             n == IF p.limited THEN Min({Cardinality(keys), GroupLimit})
                               ELSE Cardinality(keys)
  <1>1. PICK K \in SUBSET keys : Cardinality(K) = n /\ S = {q \in rows : GroupKey(p, q) \in K}
    BY DEF Counts
  <1>2. IsFiniteSet(rows)
    BY FS_Subset DEF RowsOf, IInv, FiniteInv
  <1>3. IsFiniteSet(keys)
    BY <1>2, KeysFinite
  <1>4. GroupKey(p, s) \in keys /\ GroupKey(p, s) \notin K
    BY <1>1 DEF KeysOf
  <1>5. KeysOf(p, S) = K
    BY <1>1 DEF KeysOf
  <1> HIDE DEF rows, keys
  <1>6. Cardinality(K) # Cardinality(keys) /\ Cardinality(keys) \in Nat
    BY <1>3, <1>4, FS_Subset, FS_CardinalityType
  <1>7. p.limited
    BY <1>1, <1>6
  <1>8. Min({Cardinality(keys), GroupLimit}) \in {Cardinality(keys), GroupLimit}
    <2>1. {Cardinality(keys), GroupLimit} \in SUBSET Nat
      BY <1>6, QueriesAssumption
    <2> QED
      BY <2>1, MinIsLeast
  <1>9. Cardinality(K) = GroupLimit
    BY <1>1, <1>6, <1>7, <1>8
  <1> QED
    BY <1>4, <1>5, <1>7, <1>9

LEMMA PanelStep ==
    ASSUME IInv, ReaderInv, QueryPanel
    PROVE  PanelsAgree'
  <1>1. /\ mode = "board" /\ cutoff' = cutoff /\ known' = known \cup shown
        /\ shown' \in Counts(panel', cutoff)
    BY DEF QueryPanel
  <1>2. known' \subseteq spans /\ spans \subseteq Spans /\ cutoff \in Nat
    BY <1>1, QueriesAssumption DEF ReaderInv, IInv, TypeOK
  <1> DEFINE due == {s \in known' : /\ StartOf[s] >= cutoff
                                    /\ panel'.failed => s \in Errors
                                    /\ panel'.series =>
                                         StartOf[s] < DateTrunc(cutoff + Interval) + BucketSize}
  <1>3. due \subseteq RowsOf(panel', cutoff)
    <2> SUFFICES ASSUME NEW s \in due PROVE s \in RowsOf(panel', cutoff)
      OBVIOUS
    <2>1. StartOf[s] \in Nat /\ s \in spans
      BY <1>2, WorkerAssumption
    <2>2. panel'.series => DateTrunc(StartOf[s]) \in TimeBuckets(cutoff)
      BY <1>2, <2>1, SeriesCovers
    <2> QED
      BY <2>1, <2>2 DEF RowsOf
  <1>4. \A s \in due \ shown' :
           /\ panel'.limited
           /\ Cardinality(KeysOf(panel', shown')) = GroupLimit
           /\ GroupKey(panel', s) \notin KeysOf(panel', shown')
    <2> HIDE DEF due
    <2> QED
      BY <1>1, <1>3, CutOffByLimit
  <1> QED
    BY <1>1, <1>4 DEF PanelsAgree, KeysOf, GroupKey, DateTrunc, Coalesce, ErrorMessage,
        Left, Normalized

-----------------------------------------------------------------------------
(* What a reader may rely on while the worker writes. *)

LEMMA SpansGrow == [Next]_vars => spans \subseteq spans' /\ raced \subseteq raced'
  <1>1. ASSUME NEW w \in Workers, WorkerStep(w) \/ CrashWorker(w)
        PROVE  spans \subseteq spans' /\ raced \subseteq raced'
    BY <1>1 DEF WorkerStep, CrashWorker, TakeBatch, PrepareSpans, PrepareRaises,
                InsertSpans, LookUpTrace, Commit, TxnFails, PostCommit, Finish,
                FinishRaises, Fail, Apply, db
  <1> QED
    BY <1>1 DEF Next, vars, db, CountSpans, UpdateAggregates, AggregateRaises,
                HandleFailedTask

(* The row of a trace whose look-ups were true only moves to an earlier start. *)
LEMMA RowsMoveEarlier ==
    ASSUME SInv, [Next]_vars, NEW t \in Traces \ raced', traceRows[t] # {}
    PROVE  /\ traceRows'[t] # {} /\ traceRows'[t] \subseteq Starts
           /\ \A old \in traceRows[t], new \in traceRows'[t] : new <= old
  <1>1. SInv'
    BY NextSInv
  <1>2. TraceRowIsStable /\ TraceRowIsStable' /\ IInv /\ IInv'
    BY <1>1 DEF SInv
  <1>3. /\ spans \in SUBSET Spans /\ spans' \in SUBSET Spans /\ spans \subseteq spans'
        /\ t \notin raced
    BY <1>2, SpansGrow DEF IInv, TypeOK
  <1>4. t \in TracesOf(spans)
    BY <1>2, NoSpanNoRow
  <1>5. t \in TracesOf(spans')
    BY <1>3, <1>4 DEF TracesOf
  <1>6. traceRows[t] = {EarliestStart(t, spans)} /\ traceRows'[t] = {EarliestStart(t, spans')}
    BY <1>2, <1>3, <1>4, <1>5 DEF TraceRowIsStable
  <1>7. PICK s \in SpansOf(t, spans) : StartOf[s] = EarliestStart(t, spans)
    BY <1>3, <1>4, EarliestIsAStart
  <1>8. s \in SpansOf(t, spans')
    BY <1>3 DEF SpansOf
  <1>9. EarliestStart(t, spans') <= StartOf[s] /\ EarliestStart(t, spans') \in Starts
    BY <1>3, <1>5, <1>8, EarliestIsAStart
  <1> QED
    BY <1>6, <1>7, <1>9

LEMMA SamePanel ==
    ASSUME PanelsAgree, UNCHANGED <<known, shown, panel, cutoff>>
    PROVE  PanelsAgree'
  <1>1. known' = known /\ shown' = shown /\ panel' = panel /\ cutoff' = cutoff
    OBVIOUS
  <1>2. KeysOf(panel, shown)' = KeysOf(panel, shown) /\ DateTrunc(cutoff)' = DateTrunc(cutoff)
    BY <1>1 DEF KeysOf, GroupKey, DateTrunc, Coalesce, ErrorMessage,
        Left, Normalized
  <1> QED
    BY <1>1, <1>2 DEF PanelsAgree, GroupKey, DateTrunc, Coalesce, ErrorMessage,
        Left, Normalized

LEMMA WorkerKeepsReader ==
    ASSUME QInv, [Next]_vars, UNCHANGED reader
    PROVE  QInv'
  <1>1. SInv' /\ spans \subseteq spans' /\ raced \subseteq raced'
    BY NextSInv, SpansGrow DEF QInv
  <1>2. UNCHANGED <<mode, window, cursor, known, shown, todo, panel, cutoff>>
    BY DEF reader
  <1>3. ReaderInv'
    BY <1>1, <1>2 DEF QInv, ReaderInv, SpansOf
  <1>4. PanelsAgree'
    <2>1. PanelsAgree
      BY DEF QInv
    <2> QED
      BY <1>2, <2>1, SamePanel
  <1>5. DetailInv' /\ DetailShowsWholeTrace'
    BY <1>1, <1>2 DEF QInv, DetailInv, DetailShowsWholeTrace
  <1>6. ListInv'
    <2> SUFFICES ASSUME mode \in {"list", "listed"}, NEW t \in known \ raced'
                 PROVE  /\ t \in Traces /\ traceRows'[t] # {}
                        /\ \A st \in traceRows'[t] : st <= window[2]
                        /\ \/ \E r \in shown : r[2] = t
                           \/ \A st \in traceRows'[t] :
                                 IF mode = "list" THEN AfterCursor(<<st, t>>)
                                                  ELSE st < window[1]
      BY <1>2 DEF QInv, ListInv, AfterCursor, Precedes
    <2>1. /\ t \in Traces /\ traceRows[t] # {}
          /\ window \in Windows /\ (cursor = << >> \/ cursor \in Nat \X Nat)
          /\ \A st \in traceRows[t] : st <= window[2]
          /\ \/ \E r \in shown : r[2] = t
             \/ \A st \in traceRows[t] :
                   IF mode = "list" THEN AfterCursor(<<st, t>>) ELSE st < window[1]
      BY <1>1 DEF QInv, ListInv
    <2>2. /\ traceRows'[t] # {} /\ traceRows'[t] \subseteq Nat
          /\ \A old \in traceRows[t], new \in traceRows'[t] : new <= old
      BY <2>1, RowsMoveEarlier, StartsAreNat DEF QInv
    <2>3. traceRows[t] \subseteq Nat /\ window[1] \in Nat /\ window[2] \in Nat
      BY <2>1, StartsAreNat, QueriesAssumption DEF QInv, SInv, IInv, TypeOK
    <2>4. PICK old \in traceRows[t] : TRUE
      BY <2>1
    <2>5. \A new \in traceRows'[t] : new <= window[2]
      BY <2>1, <2>2, <2>3, <2>4
    <2>6. ASSUME mode = "list", AfterCursor(<<old, t>>), NEW new \in traceRows'[t]
          PROVE  AfterCursor(<<new, t>>)
      BY <2>1, <2>2, <2>3, <2>6 DEF AfterCursor, Precedes
    <2>7. ASSUME mode = "listed", old < window[1], NEW new \in traceRows'[t]
          PROVE  new < window[1]
      BY <2>2, <2>3, <2>7
    <2> QED
      BY <2>1, <2>2, <2>5, <2>6, <2>7
  <1> QED
    BY <1>1, <1>3, <1>4, <1>5, <1>6 DEF QInv

-----------------------------------------------------------------------------
(* The pages of a listing. *)

LEMMA RowsType ==
    ASSUME IInv
    PROVE  /\ Rows \subseteq Nat \X Nat /\ IsFiniteSet(Rows)
           /\ \A t \in Traces : \A st : st \in traceRows[t] <=> <<st, t>> \in Rows
           /\ \A r \in Rows : r[2] \in Traces /\ r[1] \in traceRows[r[2]] /\ r = <<r[1], r[2]>>
  <1> DEFINE P == {<<StartOf[s], TraceOf[s]>> : s \in spans}
             f == [s \in spans |-> <<StartOf[s], TraceOf[s]>>]
  <1>1. /\ \A t \in Traces : \A st : st \in traceRows[t] <=> <<st, t>> \in Rows
        /\ \A r \in Rows : r[2] \in Traces /\ r[1] \in traceRows[r[2]] /\ r = <<r[1], r[2]>>
    BY DEF Rows
  <1>2. Rows \subseteq P
    BY <1>1 DEF IInv, StoredSpanIsComplete, SpansOf
  <1>3. f \in Surjection(spans, P)
    BY DEF Surjection
  <1>4. IsFiniteSet(P)
    BY <1>3, FS_Surjection DEF IInv, FiniteInv
  <1>5. IsFiniteSet(Rows)
    BY <1>2, <1>4, FS_Subset
  <1>6. \A t \in Traces : traceRows[t] \subseteq Nat /\ t \in Nat
    BY StartsAreNat, QueriesAssumption DEF IInv, TypeOK
  <1>7. Rows \subseteq Nat \X Nat
    BY <1>1, <1>6
  <1> QED
    BY <1>1, <1>5, <1>7

LEMMA SelectedType ==
    ASSUME IInv
    PROVE  Selected \subseteq Nat \X Nat /\ IsFiniteSet(Selected) /\ Page \subseteq Selected
  BY RowsType, FS_Subset DEF Selected, Page

(* The order of the list is total. *)
LEMMA PrecedesOrder ==
    ASSUME NEW p \in Nat \X Nat, NEW q \in Nat \X Nat, NEW r \in Nat \X Nat
    PROVE  /\ ~Precedes(p, p)
           /\ Precedes(p, q) /\ Precedes(q, r) => Precedes(p, r)
           /\ p = q \/ Precedes(p, q) \/ Precedes(q, p)
  BY DEF Precedes

(* The rows ahead of one in the list. *)
Ahead(r) == {q \in Selected : Precedes(r, q)}

LEMMA AheadCount ==
    ASSUME IInv, NEW q \in Selected, NEW r \in Selected, Precedes(q, r)
    PROVE  /\ Cardinality(Ahead(r)) \in Nat /\ Cardinality(Ahead(q)) \in Nat
           /\ Cardinality(Ahead(r)) < Cardinality(Ahead(q))
  <1>1. IsFiniteSet(Ahead(q)) /\ Ahead(q) \subseteq Nat \X Nat /\ Ahead(q) \subseteq Selected
    BY SelectedType, FS_Subset DEF Ahead
  <1>2. Ahead(r) \in SUBSET Ahead(q) /\ r \in Ahead(q) /\ r \notin Ahead(r)
    BY <1>1, SelectedType, PrecedesOrder DEF Ahead
  <1> QED
    BY <1>1, <1>2, FS_Subset, FS_CardinalityType

LEMMA PageByAhead == Page = {r \in Selected : Cardinality(Ahead(r)) < PageSize}
  BY DEF Page, Ahead

(* The rows of a page come before the other rows. *)
LEMMA PageIsFirst ==
    ASSUME IInv, NEW r \in Selected \ Page, NEW c \in Page
    PROVE  Precedes(r, c)
  <1>1. c \in Selected /\ r \in Nat \X Nat /\ c \in Nat \X Nat /\ r # c
    BY SelectedType
  <1>2. ASSUME Precedes(c, r) PROVE FALSE
    <2>1. /\ Cardinality(Ahead(r)) \in Nat /\ Cardinality(Ahead(c)) \in Nat
          /\ Cardinality(Ahead(r)) < Cardinality(Ahead(c))
      BY <1>1, <1>2, AheadCount
    <2>2. Cardinality(Ahead(c)) < PageSize /\ ~(Cardinality(Ahead(r)) < PageSize)
      BY <1>1, PageByAhead
    <2> QED
      BY <2>1, <2>2, QueriesAssumption
  <1> QED
    BY <1>1, <1>2, PrecedesOrder

LEMMA LastPage ==
    ASSUME IInv, ~HasMore
    PROVE  Page = Selected
  <1> SUFFICES ASSUME NEW r \in Selected PROVE Cardinality(Ahead(r)) < PageSize
    BY PageByAhead
  <1>1. IsFiniteSet(Selected) /\ Ahead(r) \in SUBSET Selected /\ r \notin Ahead(r)
    BY SelectedType, PrecedesOrder DEF Ahead
  <1>2. IsFiniteSet(Ahead(r))
    BY <1>1, FS_Subset
  <1>3. /\ Cardinality(Ahead(r)) \in Nat /\ Cardinality(Selected) \in Nat
        /\ Cardinality(Ahead(r)) < Cardinality(Selected)
    BY <1>1, <1>2, FS_Subset, FS_CardinalityType
  <1> QED
    BY <1>3, QueriesAssumption DEF HasMore

LEMMA PageNotEmpty ==
    ASSUME IInv, HasMore
    PROVE  Page # {}
  <1>1. IsFiniteSet(Selected) /\ Selected # {}
    BY SelectedType, FS_EmptySet, QueriesAssumption DEF HasMore
  <1> DEFINE N == {Cardinality(Ahead(r)) : r \in Selected}
  <1>2. \A r \in Selected : IsFiniteSet(Ahead(r)) /\ Cardinality(Ahead(r)) \in Nat
    BY <1>1, FS_Subset, FS_CardinalityType DEF Ahead
  <1>3. N \in SUBSET Nat /\ N # {}
    BY <1>1, <1>2
  <1>4. PICK r \in Selected : \A q \in Selected : Cardinality(Ahead(r)) <= Cardinality(Ahead(q))
    <2>1. Min(N) \in N /\ \A y \in N : Min(N) <= y
      <3> HIDE DEF N
      <3> QED
        BY <1>3, MinIsLeast
    <2> QED
      BY <2>1
  <1>5. Ahead(r) = {}
    <2>1. ASSUME NEW q \in Ahead(r) PROVE FALSE
      <3>1. q \in Selected /\ Precedes(r, q)
        BY DEF Ahead
      <3> QED
        BY <1>2, <1>4, <3>1, AheadCount
    <2> QED
      BY <2>1
  <1>6. Cardinality(Ahead(r)) = 0
    BY <1>5, FS_EmptySet
  <1> QED
    BY <1>6, PageByAhead, QueriesAssumption

(* A page that is not empty has a last row: the cursor. *)
LEMMA PageHasLast ==
    ASSUME IInv, Page # {}
    PROVE  \E r \in Page : \A q \in Page \ {r} : Precedes(r, q)
  <1> DEFINE S == {r[1] : r \in Page}
             T == {r[2] : r \in {q \in Page : q[1] = Min(S)}}
  <1>0. Page \subseteq Nat \X Nat
    BY SelectedType
  <1>1. Min(S) \in S /\ \A y \in S : Min(S) <= y
    <2>1. S \in SUBSET Nat /\ S # {}
      BY <1>0
    <2> HIDE DEF S
    <2> QED
      BY <2>1, MinIsLeast
  <1>2. Min(T) \in T /\ \A y \in T : Min(T) <= y
    <2>1. T \in SUBSET Nat /\ T # {}
      BY <1>0, <1>1
    <2> HIDE DEF T
    <2> QED
      BY <2>1, MinIsLeast
  <1>3. PICK r \in Page : r[1] = Min(S) /\ r[2] = Min(T)
    BY <1>2
  <1>4. ASSUME NEW q \in Page \ {r} PROVE Precedes(r, q)
    <2>1. r[1] <= q[1] /\ r \in Nat \X Nat /\ q \in Nat \X Nat
      BY <1>0, <1>1, <1>3
    <2>2. r[1] = q[1] => r[2] <= q[2]
      BY <1>2, <1>3
    <2>3. r[1] # q[1] \/ r[2] # q[2]
      BY <2>1
    <2> QED
      BY <2>1, <2>2, <2>3 DEF Precedes
  <1> QED
    BY <1>4

LEMMA NextPage ==
    ASSUME SInv, ListInv, ListPage
    PROVE  ListInv'
  <1> USE DEF SInv
  <1>1. /\ mode = "list" /\ shown' = shown \cup Page
        /\ UNCHANGED <<spans, traceRows, raced, window, known>>
    BY DEF ListPage, vars, db
  <1>2. /\ window \in Windows /\ window[1] \in Nat /\ window[2] \in Nat
        /\ cursor = << >> \/ cursor \in Nat \X Nat
    BY <1>1, QueriesAssumption DEF ListInv
  <1>3. \/ /\ mode' = "list" /\ cursor' \in Page /\ cursor' \in Nat \X Nat
           /\ cursor'[1] >= window[1]
        \/ /\ mode' = "listed" /\ Page = Selected /\ cursor' = cursor
    <2>1. CASE HasMore
      <3>1. cursor' = CHOOSE r \in Page : \A q \in Page \ {r} : Precedes(r, q)
        BY <2>1 DEF ListPage
      <3>2. \E r \in Page : \A q \in Page \ {r} : Precedes(r, q)
        BY <2>1, PageNotEmpty, PageHasLast
      <3>3. cursor' \in Page
        BY <3>1, <3>2
      <3>4. cursor' \in Selected /\ cursor' \in Nat \X Nat
        BY <3>3, SelectedType
      <3>5. cursor'[1] >= window[1]
        BY <1>2, <3>4 DEF Selected, InWindow
      <3> QED
        BY <1>1, <2>1, <3>3, <3>4, <3>5 DEF ListPage
    <2>2. CASE ~HasMore
      BY <2>2, LastPage DEF ListPage
    <2> QED
      BY <2>1, <2>2
  <1>4. ASSUME NEW t \in known \ raced
        PROVE  /\ t \in Traces /\ traceRows[t] # {} /\ traceRows[t] \subseteq Nat
               /\ \A st \in traceRows[t] : st <= window[2]
               /\ \/ \E r \in shown' : r[2] = t
                  \/ \A st \in traceRows[t] :
                        IF mode' = "list" THEN AfterCursor(<<st, t>>)' ELSE st < window[1]
    <2>1. /\ t \in Traces /\ traceRows[t] # {}
          /\ \A st \in traceRows[t] : st <= window[2]
          /\ \/ \E r \in shown : r[2] = t
             \/ \A st \in traceRows[t] : AfterCursor(<<st, t>>)
      BY <1>1 DEF ListInv
    <2>2. traceRows[t] \subseteq Nat
      BY <2>1, StartsAreNat DEF IInv, TypeOK
    <2>3. ASSUME \A st \in traceRows[t] : AfterCursor(<<st, t>>),
                 ~ \E r \in Page : r[2] = t,
                 NEW st \in traceRows[t]
          PROVE  IF mode' = "list" THEN AfterCursor(<<st, t>>)' ELSE st < window[1]
      <3>1. <<st, t>> \in Rows /\ <<st, t>> \notin Page /\ AfterCursor(<<st, t>>)
        BY <2>1, <2>3, RowsType
      <3>2. CASE st < window[1]
        <4>1. cursor' \in Nat \X Nat /\ cursor'[1] >= window[1] => Precedes(<<st, t>>, cursor')
          BY <1>2, <2>2, <3>2 DEF Precedes
        <4> QED
          BY <1>3, <3>2, <4>1 DEF AfterCursor, Precedes
      <3>3. CASE ~(st < window[1])
        <4>1. <<st, t>> \in Selected
          BY <1>2, <2>1, <2>2, <3>1, <3>3 DEF Selected, InWindow
        <4>2. cursor' \in Page => Precedes(<<st, t>>, cursor')
          BY <3>1, <4>1, PageIsFirst
        <4> QED
          BY <1>3, <3>1, <4>1, <4>2 DEF AfterCursor, Precedes
      <3> QED
        BY <3>2, <3>3
    <2> QED
      BY <1>1, <2>1, <2>2, <2>3
  <1> QED
    BY <1>1, <1>2, <1>3, <1>4 DEF ListInv, AfterCursor, Precedes

LEMMA FirstPage ==
    ASSUME SInv, ReaderInv, OpenList
    PROVE  ListInv'
  <1> USE DEF SInv
  <1>1. /\ UNCHANGED <<spans, traceRows, raced, cursor, shown>>
        /\ mode = "idle" /\ mode' = "list" /\ cursor = << >>
    BY DEF OpenList, vars, db, ReaderInv
  <1>2. PICK win \in Windows : /\ window' = win
                               /\ known' = {r[2] : r \in {q \in Rows : InWindow(q, win)}}
    BY DEF OpenList
  <1>3. ASSUME NEW t \in known' \ raced
        PROVE  /\ t \in Traces /\ traceRows[t] # {}
               /\ \A st \in traceRows[t] : st <= win[2]
    <2>1. PICK r \in Rows : InWindow(r, win) /\ r[2] = t
      BY <1>2
    <2>2. t \in Traces /\ r[1] \in traceRows[t]
      BY <2>1, RowsType
    <2>3. t \in TracesOf(spans)
      BY <2>2, NoSpanNoRow
    <2>4. traceRows[t] = {r[1]}
      BY <2>2, <2>3 DEF TraceRowIsStable
    <2> QED
      BY <2>1, <2>2, <2>4 DEF InWindow
  <1> QED
    BY <1>1, <1>2, <1>3 DEF ListInv, AfterCursor

LEMMA ReadRowStep ==
    ASSUME SInv, ReaderInv, ReadRow, UNCHANGED raced
    PROVE  DetailInv'
  <1>1. /\ UNCHANGED <<cursor, known>> /\ mode = "row"
        /\ mode' = IF cursor \in Rows THEN "spans" ELSE "missing"
    BY DEF ReadRow
  <1> SUFFICES ASSUME cursor \in Rows, cursor[2] \notin raced, NEW s \in known
               PROVE  StartOf[s] >= cursor[1]
    BY <1>1 DEF DetailInv
  <1>2. s \in SpansOf(cursor[2], spans) /\ spans \in SUBSET Spans
    BY <1>1 DEF ReaderInv, SInv, IInv, TypeOK
  <1>3. cursor[2] \in TracesOf(spans)
    BY <1>2 DEF SpansOf, TracesOf
  <1>4. cursor[2] \in Traces /\ cursor[1] \in traceRows[cursor[2]] /\ cursor \in Nat \X Nat
    BY RowsType DEF SInv
  <1>5. cursor[1] = EarliestStart(cursor[2], spans)
    BY <1>3, <1>4 DEF SInv, TraceRowIsStable
  <1>6. cursor[1] <= StartOf[s] /\ StartOf[s] \in Nat
    BY <1>2, <1>3, <1>5, EarliestIsAStart, WorkerAssumption DEF SpansOf
  <1> QED
    BY <1>4, <1>6

LEMMA ReadSpansStep ==
    ASSUME ReaderInv, DetailInv, ReadSpans, UNCHANGED raced
    PROVE  DetailShowsWholeTrace'
  BY DEF ReaderInv, DetailInv, ReadSpans, DetailShowsWholeTrace

-----------------------------------------------------------------------------
LEMMA ReaderStepKeeps ==
    ASSUME QInv, ReaderStep
    PROVE  QInv'
  <1> USE DEF QInv
  <1>0. UNCHANGED vars
    BY DEF ReaderStep, OpenList, ListPage, OpenDetail, FindStart, ReadRow, ReadSpans,
           OpenDashboard, QueryPanel, Close
  <1>1. SInv'
    BY <1>0, NextSInv
  <1>2. UNCHANGED <<spans, traceRows, raced>>
    BY <1>0 DEF vars, db
  <1>3. ReaderInv'
    <2>1. ASSUME OpenList \/ ListPage \/ Close PROVE ReaderInv'
      BY <1>2, <2>1 DEF OpenList, ListPage, Close, ReaderInv
    <2>2. ASSUME NEW t \in Traces, OpenDetail(t) PROVE ReaderInv'
      BY <1>2, <2>2 DEF OpenDetail, ReaderInv
    <2>3. ASSUME FindStart \/ ReadRow \/ ReadSpans PROVE ReaderInv'
      BY <1>2, <2>3 DEF FindStart, ReadRow, ReadSpans, ReaderInv, SpansOf
    <2>4. ASSUME OpenDashboard PROVE ReaderInv'
      BY <1>2, <2>4 DEF OpenDashboard, ReaderInv
    <2>5. ASSUME QueryPanel PROVE ReaderInv'
      <3>1. shown' \in Counts(panel', cutoff)
        BY <2>5 DEF QueryPanel
      <3>2. shown' \subseteq spans
        BY <3>1 DEF Counts, RowsOf
      <3> QED
        BY <1>2, <2>5, <3>2 DEF QueryPanel, ReaderInv
    <2> QED
      BY <2>1, <2>2, <2>3, <2>4, <2>5 DEF ReaderStep
  <1>4. PanelsAgree'
    <2>1. CASE QueryPanel
      BY <2>1, PanelStep DEF SInv
    <2>2. CASE ~QueryPanel
      <3>1. panel' = NoQuery
        BY <2>2 DEF ReaderStep, OpenList, ListPage, OpenDetail, FindStart, ReadRow,
                    ReadSpans, OpenDashboard, Close, ReaderInv
      <3> QED
        BY <3>1 DEF PanelsAgree
    <2> QED
      BY <2>1, <2>2
  <1>5. DetailInv' /\ DetailShowsWholeTrace' /\ ListInv'
    <2>1. CASE OpenList
      <3>1. mode' = "list"
        BY <2>1 DEF OpenList
      <3> QED
        BY <2>1, <3>1, FirstPage DEF DetailInv, DetailShowsWholeTrace
    <2>2. CASE ListPage
      <3>1. mode' \in {"list", "listed"}
        BY <2>2 DEF ListPage
      <3> QED
        BY <2>2, <3>1, NextPage DEF DetailInv, DetailShowsWholeTrace
    <2>3. CASE ReadRow
      <3>1. mode' \in {"spans", "missing"}
        BY <2>3 DEF ReadRow
      <3> QED
        BY <1>2, <2>3, <3>1, ReadRowStep DEF DetailShowsWholeTrace, ListInv
    <2>4. CASE ReadSpans
      <3>1. mode' = "detailed"
        BY <2>4 DEF ReadSpans
      <3> QED
        BY <1>2, <2>4, <3>1, ReadSpansStep DEF DetailInv, ListInv
    <2>5. CASE (\E t \in Traces : OpenDetail(t)) \/ FindStart \/ OpenDashboard
                 \/ QueryPanel \/ Close
      <3>1. mode' \in {"find", "row", "missing", "board", "closed"}
        BY <2>5 DEF OpenDetail, FindStart, OpenDashboard, QueryPanel, Close
      <3> QED
        BY <3>1 DEF DetailInv, DetailShowsWholeTrace, ListInv
    <2> QED
      BY <2>1, <2>2, <2>3, <2>4, <2>5 DEF ReaderStep
  <1> QED
    BY <1>1, <1>3, <1>4, <1>5

LEMMA InitQInv == QueriesInit => QInv
  <1> SUFFICES ASSUME QueriesInit PROVE QInv
    OBVIOUS
  <1>1. SInv
    BY InitSInv DEF QueriesInit
  <1>2. ReaderInv /\ PanelsAgree /\ DetailInv /\ DetailShowsWholeTrace /\ ListInv
    BY DEF QueriesInit, ReaderInv, PanelsAgree, DetailInv, DetailShowsWholeTrace, ListInv
  <1> QED
    BY <1>1, <1>2 DEF QInv

LEMMA NextQInv == QInv /\ [QueriesNext]_qvars => QInv'
  <1> SUFFICES ASSUME QInv, [QueriesNext]_qvars PROVE QInv'
    OBVIOUS
  <1>1. CASE Next /\ UNCHANGED reader
    BY <1>1, WorkerKeepsReader
  <1>2. CASE ReaderStep
    BY <1>2, ReaderStepKeeps
  <1>3. CASE UNCHANGED qvars
    BY <1>3, WorkerKeepsReader DEF qvars
  <1> QED
    BY <1>1, <1>2, <1>3 DEF QueriesNext

(* The inductive invariant of the worker and its readers. *)
THEOREM QueriesInvariance == QueriesSpec => []QInv
  BY InitQInv, NextQInv, PTL DEF QueriesSpec

(* The statements of get_analytics, run one after the other at READ          *)
(* COMMITTED, agree on every span, whatever any number of workers commit     *)
(* between them.                                                             *)
THEOREM DashboardAgrees == QueriesSpec => []PanelsAgree
  <1>1. QInv => PanelsAgree
    BY DEF QInv
  <1> QED
    BY <1>1, QueriesInvariance, PTL

(* get_with_spans, if it finds the row, shows every span the trace had when  *)
(* it was asked for, whatever any number of workers commit between its       *)
(* statements, unless a worker wrote the trace's row by a look-up that was   *)
(* no longer true.                                                           *)
THEOREM DetailIsWhole == QueriesSpec => []DetailShowsWholeTrace
  <1>1. QInv => DetailShowsWholeTrace
    BY DEF QInv
  <1> QED
    BY <1>1, QueriesInvariance, PTL

(* Following the cursors of list_with_cursor misses no trace that was in the *)
(* window when the listing began and still is, with the same exception.      *)
THEOREM ListingIsComplete == QueriesSpec => []PagingMissesNothing
  <1>1. QInv => PagingMissesNothing
    <2> SUFFICES ASSUME QInv, mode = "listed", NEW t \in known \ raced,
                        NEW r \in Rows, r[2] = t, InWindow(r, window)
                 PROVE  \E q \in shown : q[2] = t
      BY DEF PagingMissesNothing
    <2>1. r[1] \in traceRows[t] /\ r \in Nat \X Nat
      BY RowsType DEF QInv, SInv
    <2>2. window[1] \in Nat /\ window[1] <= r[1]
      BY QueriesAssumption DEF QInv, ListInv, InWindow
    <2>3. ~(r[1] < window[1])
      BY <2>1, <2>2
    <2> QED
      BY <2>1, <2>3 DEF QInv, ListInv
  <1> QED
    BY <1>1, QueriesInvariance, PTL
=============================================================================
