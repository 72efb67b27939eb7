----------------------------- MODULE SdkProofs ------------------------------
(***************************************************************************)
(* Proofs about the SDK.  The tracer accounts for every span, sends none   *)
(* under two keys and delivers in order, for any number of spans, any      *)
(* buffer, batch and attempt limits and every combination of faults.  The  *)
(* wrappers record every call once and build sound span trees, for any     *)
(* number of calls and tasks; the tracer they drive is that tracer.        *)
(***************************************************************************)
EXTENDS SdkClient, FiniteSetTheorems, SequenceTheorems, TLAPS

Increasing(s) == \A i, j \in 1 .. Len(s) : i < j => s[i] < s[j]

(* The batches that have left the buffer and are not done with. *)
Batches == ToSet(pending) \cup ToSet(inflight)

(* Spans wait in the order of their recording: what has left the buffer is   *)
(* older than what is in it, and a batch is named by its first span.         *)
OrderInv ==
    /\ Increasing(buffer)
    /\ ToSet(buffer) \subseteq 1 .. recorded
    /\ \A b \in Batches :
          /\ b.spans # << >> /\ Increasing(b.spans)
          /\ SpansIn(b) \subseteq 1 .. recorded
          /\ \A s \in SpansIn(b), u \in ToSet(buffer) : s < u

(* A span is given its key when it leaves the buffer and keeps it. *)
KeyInv ==
    /\ \A s \in Spans : \A k, l \in keysOf[s] : k = l
    /\ \A s \in Spans : s \in ToSet(buffer) \/ s > recorded => keysOf[s] = {}
    /\ \A b \in Batches : \A s \in SpansIn(b) : keysOf[s] \subseteq {b.key}

(* Nothing in the buffer has been delivered, and of a batch all or nothing.  *)
DeliveryInv ==
    /\ \A t \in delivered, u \in ToSet(buffer) : t < u
    /\ \A b \in Batches : \/ SpansIn(b) \subseteq delivered
                          \/ \A t \in delivered, s \in SpansIn(b) : t < s

(* At most one batch has left the buffer, whether it is in flight or failed, *)
(* and pending_spans is its size when it has failed.  The spans that the     *)
(* deque dropped are not in it.                                              *)
CountInv ==
    /\ pending = << >> \/ inflight = << >>
    /\ Len(pending) <= 1
    /\ pendingSpans = IF pending = << >> THEN 0 ELSE Len(pending[1].spans)
    /\ overflowed \subseteq 1 .. recorded
    /\ overflowed \cap ToSet(buffer) = {}
    /\ counters.dropped = Cardinality(overflowed)

Held == UNION {SpansIn(b) : b \in Batches}

(* Every span is somewhere. *)
AccountInv ==
    1 .. recorded = ToSet(buffer) \cup Held \cup delivered \cup overflowed
                      \cup discarded \cup lost

(* The inductive invariant of the tracer. *)
TracerInv == TypeOK /\ OrderInv /\ KeyInv /\ DeliveryInv /\ CountInv /\ AccountInv

-----------------------------------------------------------------------------
(* What ToSet returns for the sequences the tracer builds. *)
LEMMA ToSetOfNone == ToSet(<< >>) = {}
  BY DEF ToSet

LEMMA ToSetOfOne == ASSUME NEW e PROVE ToSet(<<e>>) = {e}
  BY DEF ToSet

(* The two queues the tracer can have. *)
LEMMA EmptyQueue == ASSUME NEW S PROVE << >> \in Seq(S) /\ Len(<< >>) = 0 /\ Len(<< >>) <= 1
  OBVIOUS

LEMMA OneQueue ==
    ASSUME NEW S, NEW e \in S
    PROVE  <<e>> \in Seq(S) /\ Len(<<e>>) <= 1 /\ <<e>> # << >> /\ <<e>>[1] = e
  OBVIOUS

(* A queue of at most one batch is empty or that batch. *)
LEMMA AtMostOne ==
    ASSUME NEW S, NEW q \in Seq(S), Len(q) <= 1
    PROVE  q = << >> \/ (q[1] \in S /\ q = <<q[1]>> /\ ToSet(q) = {q[1]})
  <1>1. CASE Len(q) = 0
    BY <1>1
  <1>2. CASE Len(q) = 1
    <2>0. q[1] \in S
      BY <1>2
    <2>1. q[1] \in S /\ q = <<q[1]>>
      BY <1>2, <2>0, SeqEqual
    <2>2. ToSet(q) = {q[1]}
      BY <2>1, ToSetOfOne
    <2> QED BY <2>1, <2>2
  <1>3. Len(q) = 0 \/ Len(q) = 1
    <2>1. PICK n \in Nat : n = Len(q)
      BY LenProperties
    <2>2. n <= 1
      BY <2>1
    <2>3. n = 0 \/ n = 1
      BY <2>2
    <2> QED BY <2>1, <2>3
  <1> QED BY <1>1, <1>2, <1>3

LEMMA ToSetOfAppend ==
    ASSUME NEW S, NEW s \in Seq(S), NEW e \in S
    PROVE  ToSet(Append(s, e)) = ToSet(s) \cup {e}
  <1> DEFINE a == Append(s, e)
  <1>1. /\ a \in Seq(S) /\ Len(a) = Len(s) + 1 /\ a[Len(s) + 1] = e
        /\ \A i \in 1 .. Len(s) : a[i] = s[i]
    OBVIOUS
  <1>2. DOMAIN s = 1 .. Len(s) /\ DOMAIN a = 1 .. Len(s) + 1 /\ Len(s) \in Nat
    BY <1>1
  <1> HIDE DEF a
  <1>3. ToSet(a) = ToSet(s) \cup {e}
    BY <1>1, <1>2 DEF ToSet
  <1> QED BY <1>3 DEF a

(* The oldest element of an increasing sequence is its head. *)
LEMMA HeadOfIncreasing ==
    ASSUME NEW s \in Seq(Nat), Increasing(s), s # << >>
    PROVE  /\ Tail(s) \in Seq(Nat) /\ Increasing(Tail(s))
           /\ Len(Tail(s)) = Len(s) - 1
           /\ ToSet(s) = {Head(s)} \cup ToSet(Tail(s))
           /\ Head(s) \notin ToSet(Tail(s))
  <1> DEFINE a == Tail(s)
  <1>1. /\ a \in Seq(Nat) /\ Len(a) = Len(s) - 1 /\ Head(s) = s[1] /\ Len(s) \in Nat \ {0}
        /\ \A i \in 1 .. Len(a) : a[i] = s[i + 1]
    OBVIOUS
  <1>2. DOMAIN s = 1 .. Len(s) /\ DOMAIN a = 1 .. Len(s) - 1
    BY <1>1
  <1>3. \A i \in 1 .. Len(s) : s[i] \in Nat
    OBVIOUS
  <1> HIDE DEF a
  <1>4. Increasing(a)
    <2>1. SUFFICES ASSUME NEW i \in 1 .. Len(a), NEW j \in 1 .. Len(a), i < j
                   PROVE  a[i] < a[j]
      BY DEF Increasing
    <2>2. i + 1 \in 1 .. Len(s) /\ j + 1 \in 1 .. Len(s) /\ i + 1 < j + 1
      BY <1>1, <2>1
    <2>3. s[i + 1] < s[j + 1]
      BY <2>2 DEF Increasing
    <2> QED BY <1>1, <2>3
  <1>5. ToSet(s) \subseteq {Head(s)} \cup ToSet(a)
    <2>1. SUFFICES ASSUME NEW i \in 1 .. Len(s), i # 1 PROVE s[i] \in ToSet(a)
      BY <1>1, <1>2 DEF ToSet
    <2>2. i - 1 \in 1 .. Len(a) /\ a[i - 1] = s[i]
      BY <1>1, <2>1
    <2> QED BY <1>1, <1>2, <2>2 DEF ToSet
  <1>6. 1 \in DOMAIN s /\ Head(s) \in ToSet(s)
    <2>1. 1 \in DOMAIN s
      BY <1>1, <1>2
    <2> QED BY <1>1, <2>1 DEF ToSet
  <1>7. ASSUME NEW u \in ToSet(a) PROVE u \in ToSet(s) /\ u # Head(s)
    <2>1. PICK i \in 1 .. Len(a) : u = a[i]
      BY <1>1, <1>2 DEF ToSet
    <2>2. i + 1 \in 1 .. Len(s) /\ 1 \in 1 .. Len(s) /\ 1 < i + 1 /\ u = s[i + 1]
      BY <1>1, <2>1
    <2>3. s[1] < s[i + 1]
      BY <2>2 DEF Increasing
    <2>4. u # Head(s)
      BY <1>1, <1>3, <2>2, <2>3
    <2>5. u \in ToSet(s)
      BY <1>2, <2>2 DEF ToSet
    <2> QED BY <2>4, <2>5
  <1> QED BY <1>1, <1>4, <1>5, <1>6, <1>7 DEF a

(* Recording appends a number above all others. *)
LEMMA IncreasingAppend ==
    ASSUME NEW s \in Seq(Nat), Increasing(s), NEW e \in Nat,
           \A u \in ToSet(s) : u < e
    PROVE  Increasing(Append(s, e))
  <1> DEFINE a == Append(s, e)
  <1>1. /\ Len(a) = Len(s) + 1 /\ a[Len(s) + 1] = e /\ Len(s) \in Nat
        /\ \A i \in 1 .. Len(s) : a[i] = s[i]
    OBVIOUS
  <1>2. \A i \in 1 .. Len(s) : s[i] < e /\ s[i] \in Nat
    BY DEF ToSet
  <1> HIDE DEF a
  <1>3. Increasing(a)
    <2>1. SUFFICES ASSUME NEW i \in 1 .. Len(a), NEW j \in 1 .. Len(a), i < j
                   PROVE  a[i] < a[j]
      BY DEF Increasing
    <2>2. i \in 1 .. Len(s) /\ a[i] = s[i]
      BY <1>1, <2>1
    <2>3. CASE j = Len(s) + 1
      BY <1>1, <1>2, <2>2, <2>3
    <2>4. CASE j # Len(s) + 1
      <3>1. j \in 1 .. Len(s) /\ a[j] = s[j]
        BY <1>1, <2>4
      <3> QED BY <2>1, <2>2, <3>1 DEF Increasing
    <2> QED BY <2>3, <2>4
  <1> QED BY <1>3 DEF a

(* An increasing sequence has as many elements as places. *)
LEMMA IncreasingCardinality ==
    ASSUME NEW s \in Seq(Nat), Increasing(s)
    PROVE  IsFiniteSet(ToSet(s)) /\ Cardinality(ToSet(s)) = Len(s)
  <1> DEFINE D == 1 .. Len(s)  T == ToSet(s)
  <1>1. Len(s) \in Nat /\ DOMAIN s = D /\ \A i \in D : s[i] \in Nat
    OBVIOUS
  <1>2. IsFiniteSet(D) /\ Cardinality(D) = Len(s)
    <2>1. PICK n \in Nat : n = Len(s)
      BY <1>1
    <2>2. IsFiniteSet(1 .. n) /\ Cardinality(1 .. n) = IF 1 > n THEN 0 ELSE n - 1 + 1
      BY FS_Interval
    <2>3. Cardinality(1 .. n) = n
      BY <2>2
    <2> QED BY <2>1, <2>2, <2>3
  <1>3. s \in [D -> T] /\ T = {s[i] : i \in D}
    BY <1>1 DEF ToSet
  <1>4. s \in Surjection(D, T)
    BY <1>3 DEF Surjection
  <1>5. \A i, j \in D : s[i] = s[j] => i = j
    BY <1>1 DEF Increasing
  <1>6. s \in Injection(D, T)
    BY <1>3, <1>5 DEF Injection, IsInjective
  <1> HIDE DEF D, T
  <1>7. IsFiniteSet(T) /\ Cardinality(T) = Cardinality(D)
    BY <1>2, <1>4, <1>6, FS_Surjection
  <1> QED BY <1>2, <1>7 DEF T

LEMMA ToSetType ==
    ASSUME NEW S, NEW s \in Seq(S)
    PROVE  ToSet(s) \subseteq S /\ (ToSet(s) = {} => s = << >>)
  <1>1. DOMAIN s = 1 .. Len(s) /\ \A i \in 1 .. Len(s) : s[i] \in S
    OBVIOUS
  <1>2. s # << >> => 1 \in DOMAIN s
    BY <1>1
  <1> QED BY <1>1, <1>2 DEF ToSet

-----------------------------------------------------------------------------
(* The tracer.  What is known of its queues in every state. *)
LEMMA QueueFacts ==
    ASSUME TracerInv
    PROVE  /\ buffer \in Seq(Nat) /\ ToSet(buffer) \subseteq Spans
           /\ recorded \in Nat /\ 1 .. recorded \subseteq Spans
           /\ Batches \subseteq Batch
           /\ \A b \in Batches : b.key \in Spans /\ b.spans \in Seq(Nat) /\ SpansIn(b) \subseteq Spans
           /\ \/ inflight = << >> /\ InFlight = {}
              \/ /\ inflight = <<inflight[1]>> /\ inflight[1] \in Batches
                 /\ pending = << >> /\ Batches = {inflight[1]}
                 /\ InFlight = SpansIn(inflight[1])
           /\ \/ pending = << >>
              \/ /\ pending = <<pending[1]>> /\ pending[1] \in Batches
                 /\ inflight = << >> /\ Batches = {pending[1]}
  <1> USE SdkAssumption DEF TracerInv
  <1>1. buffer \in Seq(Spans) /\ pending \in Seq(Batch) /\ inflight \in Seq(Batch)
        /\ Len(inflight) <= 1 /\ recorded \in 0 .. MaxSpans
    BY DEF TypeOK
  <1>2. buffer \in Seq(Nat) /\ ToSet(buffer) \subseteq Spans
    BY <1>1, ToSetType, SeqMonotonic DEF Spans
  <1>3. Batches \subseteq Batch
    BY <1>1, ToSetType DEF Batches
  <1>4. ASSUME NEW b \in Batches
        PROVE  b.key \in Spans /\ b.spans \in Seq(Nat) /\ SpansIn(b) \subseteq Spans
    <2>1. b.key \in Spans /\ b.spans \in Seq(Spans)
      BY <1>3 DEF Batch
    <2> QED BY <2>1, ToSetType, SeqMonotonic DEF SpansIn, Spans
  <1>5. recorded \in Nat /\ 1 .. recorded \subseteq Spans
    BY <1>1 DEF Spans
  <1>6. /\ inflight = << >> \/ (inflight = <<inflight[1]>> /\ ToSet(inflight) = {inflight[1]})
        /\ pending = << >> \/ (pending = <<pending[1]>> /\ ToSet(pending) = {pending[1]})
    BY <1>1, AtMostOne DEF CountInv
  <1>7. inflight = << >> => InFlight = {}
    BY ToSetOfNone DEF InFlight
  <1>8. inflight # << >> => InFlight = SpansIn(inflight[1])
    BY <1>6 DEF InFlight
  <1>9. pending = << >> \/ inflight = << >>
    BY DEF CountInv
  <1>10. inflight # << >> => Batches = {inflight[1]}
    BY <1>6, <1>9, ToSetOfNone DEF Batches
  <1>11. pending # << >> => Batches = {pending[1]}
    BY <1>6, <1>9, ToSetOfNone DEF Batches
  <1> QED BY <1>2, <1>3, <1>4, <1>5, <1>6, <1>7, <1>8, <1>9, <1>10, <1>11

(* A step that records nothing and takes no batch out of the buffer keeps   *)
(* the order of what is left.                                               *)
LEMMA OrderKept ==
    ASSUME TracerInv, recorded' = recorded, Batches' \subseteq Batches,
           buffer' = buffer \/ buffer' = << >>
    PROVE  OrderInv'
  <1>1. ToSet(buffer)' \subseteq ToSet(buffer)
    BY ToSetOfNone
  <1>2. Increasing(buffer)'
    BY DEF TracerInv, OrderInv, Increasing
  <1>3. OrderInv
    BY DEF TracerInv
  <1> QED BY <1>1, <1>2, <1>3 DEF OrderInv, SpansIn

(* Sending a batch adds its key to its spans only, and they have no other.   *)
LEMMA KeysKept ==
    ASSUME TracerInv, recorded' = recorded, Batches' \subseteq Batches,
           buffer' = buffer \/ buffer' = << >>,
           keysOf' = keysOf \/ (inflight # << >> /\ Sent)
    PROVE  KeyInv' /\ keysOf' \in [Spans -> SUBSET Spans]
  <1>1. ToSet(buffer)' \subseteq ToSet(buffer)
    BY ToSetOfNone
  <1>2. KeyInv /\ keysOf \in [Spans -> SUBSET Spans]
    BY DEF TracerInv, TypeOK
  <1>3. CASE keysOf' = keysOf
    BY <1>1, <1>2, <1>3 DEF KeyInv, SpansIn
  <1>4. CASE inflight # << >> /\ Sent
    <2> DEFINE b == inflight[1]
    <2>1. b \in Batches /\ Batches = {b} /\ b.key \in Spans /\ SpansIn(b) \subseteq Spans
      BY <1>4, QueueFacts
    <2> HIDE DEF b
    <2>2. /\ keysOf' \in [Spans -> SUBSET Spans]
          /\ \A s \in SpansIn(b) : keysOf'[s] = keysOf[s] \cup {b.key}
          /\ \A s \in Spans \ SpansIn(b) : keysOf'[s] = keysOf[s]
      BY <1>2, <1>4, <2>1 DEF Sent, b
    <2>3. \A s \in SpansIn(b) : keysOf[s] \subseteq {b.key}
      BY <1>2, <2>1 DEF KeyInv
    <2>4. \A s \in Spans : \A k, l \in keysOf'[s] : k = l
      BY <1>2, <2>2, <2>3 DEF KeyInv
    <2>5. \A s \in SpansIn(b) : s <= recorded /\ s \notin ToSet(buffer)
      BY <2>1, QueueFacts DEF TracerInv, OrderInv, Spans
    <2>6. \A s \in Spans : s \in ToSet(buffer)' \/ s > recorded => keysOf'[s] = {}
      BY <1>1, <1>2, <2>2, <2>5, QueueFacts DEF KeyInv, Spans
    <2>7. \A c \in Batches' : \A s \in SpansIn(c) : keysOf'[s] \subseteq {c.key}
      BY <2>1, <2>2, <2>3
    <2> QED BY <2>2, <2>4, <2>6, <2>7 DEF KeyInv, SpansIn
  <1> QED BY <1>3, <1>4

(* A batch is delivered as a whole and before anything younger. *)
LEMMA DeliveryKept ==
    ASSUME TracerInv, Batches' \subseteq Batches,
           buffer' = buffer \/ buffer' = << >>,
           delivered' = delivered \/ delivered' = delivered \cup InFlight
    PROVE  DeliveryInv'
  <1>1. ToSet(buffer)' \subseteq ToSet(buffer)
    BY ToSetOfNone
  <1>2. DeliveryInv
    BY DEF TracerInv
  <1>3. CASE delivered' = delivered
    BY <1>1, <1>2, <1>3 DEF DeliveryInv, SpansIn
  <1>4. CASE delivered' = delivered \cup InFlight /\ inflight = << >>
    <2>1. delivered' = delivered
      BY <1>4, QueueFacts
    <2> QED BY <1>3, <2>1
  <1>5. CASE delivered' = delivered \cup InFlight /\ inflight # << >>
    <2> DEFINE b == inflight[1]
    <2>1. b \in Batches /\ Batches = {b} /\ InFlight = SpansIn(b)
      BY <1>5, QueueFacts
    <2> HIDE DEF b
    <2>2. \A t \in SpansIn(b), u \in ToSet(buffer) : t < u
      BY <2>1 DEF TracerInv, OrderInv
    <2> QED BY <1>1, <1>2, <1>5, <2>1, <2>2 DEF DeliveryInv, SpansIn
  <1> QED BY <1>3, <1>4, <1>5

Loops == {"none", "sleep", "send", "ended"}
Phases == {"open", "flushing", "closed", "exiting", "exited"}

(* A step of the task or of shutdown that leaves the queues alone. *)
LEMMA QueuesKept ==
    ASSUME TracerInv, UNCHANGED <<recorded, tracer, inflight, attempt, history>>,
           loop' \in Loops, phase' \in Phases
    PROVE  TracerInv'
  <1> USE DEF tracer, history
  <1>1. TypeOK'
    BY DEF TracerInv, TypeOK, Loops, Phases
  <1>2. OrderInv' /\ KeyInv' /\ DeliveryInv' /\ CountInv' /\ AccountInv'
    BY DEF TracerInv, OrderInv, KeyInv, DeliveryInv, CountInv, AccountInv, Held,
           Batches, Increasing, SpansIn
  <1> QED BY <1>1, <1>2 DEF TracerInv

(* The batch in flight is accepted, or gone with the task that sent it; a    *)
(* shutdown that does not flush discards the rest.                           *)
LEMMA FlightEnds ==
    ASSUME TracerInv, recorded' = recorded, inflight' = << >>, attempt' = 0,
           UNCHANGED <<counters, overflowed>>, loop' \in Loops, phase' \in Phases,
           \/ UNCHANGED <<buffer, pending, pendingSpans, discarded>>
           \/ /\ buffer' = << >> /\ pending' = << >> /\ pendingSpans' = 0
              /\ discarded' = discarded \cup Waiting,
           keysOf' = keysOf \/ (inflight # << >> /\ Sent),
           \/ delivered' = delivered \cup InFlight /\ (lost' = lost \/ lost' = lost \cup InFlight)
           \/ delivered' = delivered /\ lost' = lost \cup InFlight
    PROVE  TracerInv'
  <1> USE ToSetOfNone
  <1>1. Batches' \subseteq Batches
    BY DEF Batches
  <1>2. OrderInv' /\ DeliveryInv' /\ KeyInv' /\ keysOf' \in [Spans -> SUBSET Spans]
    BY <1>1, OrderKept, DeliveryKept, KeysKept
  <1>3. InFlight \subseteq Spans
    BY QueueFacts DEF InFlight
  <1>4. Waiting \subseteq Spans
    BY QueueFacts DEF Waiting, Batches
  <1>5. TypeOK'
    <2>1. buffer' \in Seq(Spans) /\ Len(buffer') <= BufferSize /\ pending' \in Seq(Batch)
          /\ pendingSpans' \in 0 .. MaxSpans
      <3>1. CASE UNCHANGED <<buffer, pending, pendingSpans, discarded>>
        BY <3>1 DEF TracerInv, TypeOK
      <3>2. CASE buffer' = << >> /\ pending' = << >> /\ pendingSpans' = 0
        BY <3>2, SdkAssumption, EmptyQueue
      <3> QED BY <3>1, <3>2
    <2>2. inflight' \in Seq(Batch) /\ Len(inflight') <= 1 /\ attempt' \in 0 .. MaxAttempts - 1
      BY SdkAssumption
    <2>3. delivered' \cup overflowed' \cup discarded' \cup lost' \subseteq Spans
      BY <1>3, <1>4 DEF TracerInv, TypeOK
    <2>4. recorded' \in 0 .. MaxSpans /\ counters' \in [dropped : Nat, final : Nat]
      BY DEF TracerInv, TypeOK
    <2> QED BY <1>2, <2>1, <2>2, <2>3, <2>4 DEF TypeOK, Loops, Phases
  <1>6. CountInv'
    <2>1. ToSet(buffer)' \subseteq ToSet(buffer)
      OBVIOUS
    <2>2. Len(pending') <= 1
      BY DEF TracerInv, CountInv
    <2> QED BY <2>1, <2>2 DEF TracerInv, CountInv
  <1>7. AccountInv'
    <2> DEFINE Failed == UNION {SpansIn(b) : b \in ToSet(pending)}
    <2>1. Held = InFlight \cup Failed /\ Waiting = ToSet(buffer) \cup Failed
      BY DEF Held, Batches, InFlight, Waiting
    <2>2. AccountInv
      BY DEF TracerInv
    <2>3. CASE UNCHANGED <<buffer, pending, pendingSpans, discarded>>
      <3>1. Held' = Failed
        BY <2>3 DEF Held, Batches, SpansIn
      <3> HIDE DEF Failed
      <3> QED BY <2>1, <2>2, <2>3, <3>1 DEF AccountInv
    <2>4. CASE buffer' = << >> /\ pending' = << >> /\ discarded' = discarded \cup Waiting
      <3>1. Held' = {}
        BY <2>4 DEF Held, Batches
      <3>2. ToSet(buffer)' = {}
        BY <2>4
      <3> HIDE DEF Failed
      <3> QED BY <2>1, <2>2, <2>4, <3>1, <3>2 DEF AccountInv
    <2> QED BY <2>3, <2>4
  <1> QED BY <1>2, <1>5, <1>6, <1>7 DEF TracerInv

(* The size of a batch fits the counter. *)
LEMMA BatchSize ==
    ASSUME TracerInv, NEW b \in Batches
    PROVE  /\ Len(b.spans) \in 0 .. MaxSpans /\ Len(b.spans) > 0
           /\ Cardinality(SpansIn(b)) = Len(b.spans)
  <1>1. b.spans \in Seq(Nat) /\ Increasing(b.spans) /\ SpansIn(b) \subseteq Spans
        /\ b.spans # << >>
    BY QueueFacts DEF TracerInv, OrderInv
  <1>2. Cardinality(SpansIn(b)) = Len(b.spans)
    BY <1>1, IncreasingCardinality DEF SpansIn
  <1>3. IsFiniteSet(Spans) /\ Cardinality(Spans) = MaxSpans
    BY SdkAssumption, FS_Interval DEF Spans
  <1>4. Cardinality(SpansIn(b)) <= MaxSpans
    BY <1>1, <1>3, FS_Subset
  <1>5. Len(b.spans) \in Nat /\ Len(b.spans) > 0
    BY <1>1
  <1> QED BY <1>2, <1>4, <1>5, SdkAssumption

(* A send that will be repeated, at once or after the batch was pushed back. *)
LEMMA SendFails ==
    ASSUME TracerInv, inflight # << >>, Sent, UNCHANGED <<recorded, buffer, overflowed, discarded, lost>>,
           attempt' \in 0 .. MaxAttempts - 1, loop' \in Loops, phase' \in Phases,
           delivered' = delivered \/ delivered' = delivered \cup InFlight,
           \/ UNCHANGED <<inflight, pending, pendingSpans, counters>>
           \/ inflight' = << >> /\ PushFailedBatch
    PROVE  TracerInv'
  <1> DEFINE b == inflight[1]
  <1>1. /\ inflight = <<b>> /\ pending = << >> /\ Batches = {b} /\ b \in Batch
        /\ InFlight = SpansIn(b) /\ SpansIn(b) \subseteq Spans
    BY QueueFacts
  <1>2. pendingSpans = 0 /\ counters \in [dropped : Nat, final : Nat]
    BY <1>1 DEF TracerInv, CountInv, TypeOK
  <1>3. Len(b.spans) \in 0 .. MaxSpans
    BY <1>1, BatchSize
  <1> HIDE DEF b
  <1>4. /\ counters' \in [dropped : Nat, final : Nat] /\ counters'.dropped = counters.dropped
        /\ \/ inflight' = <<b>> /\ pending' = << >> /\ pendingSpans' = 0
           \/ inflight' = << >> /\ pending' = <<b>> /\ pendingSpans' = Len(b.spans)
    <2>1. CASE UNCHANGED <<inflight, pending, pendingSpans, counters>>
      BY <1>1, <1>2, <2>1
    <2>2. CASE inflight' = << >> /\ PushFailedBatch
      <3>1. pending' = <<b>>
        <4>1. inflight \in Seq({b}) /\ pending' = inflight \o << >>
          BY <1>1, <2>2 DEF PushFailedBatch
        <4> QED BY <1>1, <4>1
      <3>2. pendingSpans' = Len(b.spans)
        BY <1>2, <1>3, <2>2, SdkAssumption DEF PushFailedBatch, b
      <3>3. counters' \in [dropped : Nat, final : Nat] /\ counters'.dropped = counters.dropped
        <4>1. PICK n \in Nat : counters' = [counters EXCEPT !.final = n]
          <5>1. counters.final \in Nat /\ counters.final + 1 \in Nat
            BY <1>2
          <5> QED BY <2>2, <5>1 DEF PushFailedBatch
        <4> QED BY <1>2, <4>1
      <3> QED BY <2>2, <3>1, <3>2, <3>3
    <2> QED BY <2>1, <2>2
  <1>5. Batches' = {b}
    BY <1>4, ToSetOfOne, ToSetOfNone DEF Batches
  <1>6. OrderInv' /\ DeliveryInv' /\ KeyInv' /\ keysOf' \in [Spans -> SUBSET Spans]
    BY <1>1, <1>5, OrderKept, DeliveryKept, KeysKept
  <1>7. TypeOK'
    <2>1. pending' \in Seq(Batch) /\ inflight' \in Seq(Batch) /\ Len(inflight') <= 1
      BY <1>1, <1>4, OneQueue, EmptyQueue
    <2>2. pendingSpans' \in 0 .. MaxSpans
      BY <1>3, <1>4, SdkAssumption
    <2>3. delivered' \cup overflowed' \cup discarded' \cup lost' \subseteq Spans
      BY <1>1 DEF TracerInv, TypeOK
    <2> QED BY <1>4, <1>6, <2>1, <2>2, <2>3 DEF TracerInv, TypeOK, Loops, Phases
  <1>8. CountInv'
    <2>1. Len(pending') <= 1 /\ (pending' = << >> \/ inflight' = << >>)
      BY <1>1, <1>4, OneQueue, EmptyQueue
    <2>2. pendingSpans' = IF pending' = << >> THEN 0 ELSE Len(pending'[1].spans)
      BY <1>1, <1>4, OneQueue
    <2> QED BY <1>4, <2>1, <2>2 DEF TracerInv, CountInv
  <1>9. AccountInv'
    <2>1. Held' = SpansIn(b)
      BY <1>5 DEF Held, SpansIn
    <2>2. Held = SpansIn(b)
      BY <1>1 DEF Held
    <2> QED BY <1>1, <2>1, <2>2 DEF TracerInv, AccountInv
  <1> QED BY <1>6, <1>7, <1>8, <1>9 DEF TracerInv

LEMMA RecordTracerInv == ASSUME TracerInv, Record PROVE TracerInv'
  <1> DEFINE full == Len(buffer) >= BufferSize
             base == IF full THEN Tail(buffer) ELSE buffer
             n == recorded + 1
             dropped == IF full THEN {Head(buffer)} ELSE {}
  <1>1. /\ recorded < MaxSpans /\ recorded' = n /\ buffer' = Append(base, n)
        /\ counters' = [counters EXCEPT !.dropped = IF full THEN @ + 1 ELSE @]
        /\ overflowed' = overflowed \cup dropped
        /\ UNCHANGED <<pending, pendingSpans, inflight, attempt, loop, phase,
                       delivered, keysOf, discarded, lost>>
    BY DEF Record
  <1>2. /\ buffer \in Seq(Spans) /\ buffer \in Seq(Nat) /\ recorded \in Nat /\ n \in Nat
        /\ Len(buffer) <= BufferSize /\ Increasing(buffer) /\ ToSet(buffer) \subseteq 1 .. recorded
        /\ n \in Spans
    <2>1. /\ buffer \in Seq(Spans) /\ buffer \in Seq(Nat) /\ recorded \in Nat
          /\ Len(buffer) <= BufferSize
      BY QueueFacts DEF TracerInv, TypeOK
    <2>2. Increasing(buffer) /\ ToSet(buffer) \subseteq 1 .. recorded
      BY DEF TracerInv, OrderInv
    <2>3. n \in Nat /\ n \in Spans
      BY <1>1, <2>1, SdkAssumption DEF Spans
    <2> QED BY <2>1, <2>2, <2>3
  <1>3. full => buffer # << >>
    BY SdkAssumption
  <1>4. /\ base \in Seq(Spans) /\ base \in Seq(Nat) /\ Increasing(base)
        /\ ToSet(buffer) = ToSet(base) \cup dropped
        /\ ToSet(base) \cap dropped = {} /\ Len(base) < BufferSize
    <2>1. CASE full
      <3>1. Len(buffer) \in Nat /\ Tail(buffer) \in Seq(Spans)
        BY <1>2, <1>3, <2>1
      <3>2. /\ Tail(buffer) \in Seq(Nat) /\ Increasing(Tail(buffer))
            /\ Len(Tail(buffer)) = Len(buffer) - 1
            /\ ToSet(buffer) = {Head(buffer)} \cup ToSet(Tail(buffer))
            /\ Head(buffer) \notin ToSet(Tail(buffer))
        BY <1>2, <1>3, <2>1, HeadOfIncreasing
      <3>3. Len(Tail(buffer)) < BufferSize
        BY <1>2, <3>1, <3>2, SdkAssumption
      <3> QED BY <2>1, <3>1, <3>2, <3>3
    <2>2. CASE ~full
      <3>1. Len(buffer) \in Nat
        BY <1>2
      <3> QED BY <1>2, <2>2, <3>1, SdkAssumption
    <2> QED BY <2>1, <2>2
  <1> HIDE DEF full, base, n
  <1>5. /\ buffer' \in Seq(Spans) /\ Len(buffer') <= BufferSize /\ Increasing(buffer')
        /\ ToSet(buffer') = ToSet(base) \cup {n}
    <2>1. buffer' \in Seq(Spans) /\ ToSet(buffer') = ToSet(base) \cup {n}
      BY <1>1, <1>2, <1>4, ToSetOfAppend
    <2>2. Len(buffer') = Len(base) + 1 /\ Len(base) \in Nat
      BY <1>1, <1>2, <1>4
    <2>3. Len(buffer') <= BufferSize
      BY <1>4, <2>2, SdkAssumption
    <2>4. \A u \in ToSet(base) : u < n
      BY <1>2, <1>4 DEF n
    <2> QED BY <1>1, <1>2, <1>4, <2>1, <2>3, <2>4, IncreasingAppend
  <1>6. Batches' = Batches /\ Held' = Held
    BY <1>1 DEF Batches, Held, SpansIn
  <1>7. dropped \subseteq 1 .. recorded /\ dropped \subseteq Spans
    BY <1>2, <1>4, QueueFacts
  <1>8. OrderInv'
    <2>1. ToSet(buffer') \subseteq 1 .. n
      BY <1>2, <1>4, <1>5 DEF n
    <2>2. ASSUME NEW b \in Batches
          PROVE  /\ b.spans # << >> /\ Increasing(b.spans) /\ SpansIn(b) \subseteq 1 .. n
                 /\ \A s \in SpansIn(b), u \in ToSet(buffer') : s < u
      BY <1>2, <1>4, <1>5 DEF TracerInv, OrderInv, n
    <2> QED BY <1>1, <1>5, <1>6, <2>1, <2>2 DEF OrderInv, SpansIn
  <1>9. KeyInv'
    <2>1. keysOf[n] = {}
      BY <1>2 DEF TracerInv, KeyInv, n
    <2>2. \A s \in Spans : s \in ToSet(buffer') \/ s > n => keysOf[s] = {}
      BY <1>2, <1>4, <1>5, <2>1 DEF TracerInv, KeyInv, n, Spans
    <2> QED BY <1>1, <1>6, <2>2 DEF TracerInv, KeyInv, SpansIn
  <1>10. DeliveryInv'
    <2>1. \A t \in delivered : t \in 1 .. recorded
      BY DEF TracerInv, AccountInv
    <2>2. \A t \in delivered, u \in ToSet(buffer') : t < u
      BY <1>2, <1>4, <1>5, <2>1 DEF TracerInv, DeliveryInv, n
    <2> QED BY <1>1, <1>6, <2>2 DEF TracerInv, DeliveryInv, SpansIn
  <1>11. /\ overflowed' \subseteq 1 .. n /\ overflowed' \cap ToSet(buffer') = {}
         /\ counters' \in [dropped : Nat, final : Nat]
         /\ counters'.dropped = Cardinality(overflowed')
    <2>1. /\ overflowed \subseteq 1 .. recorded /\ overflowed \cap ToSet(buffer) = {}
          /\ counters.dropped = Cardinality(overflowed)
          /\ counters \in [dropped : Nat, final : Nat]
      BY DEF TracerInv, CountInv, TypeOK
    <2>2. IsFiniteSet(overflowed)
      <3>1. IsFiniteSet(1 .. recorded)
        BY <1>2, FS_Interval
      <3> QED BY <2>1, <3>1, FS_Subset
    <2>3. overflowed' \subseteq 1 .. n /\ overflowed' \cap ToSet(buffer') = {}
      BY <1>1, <1>2, <1>4, <1>5, <1>7, <2>1 DEF n
    <2>4. CASE full
      <3>1. overflowed' = overflowed \cup {Head(buffer)} /\ Head(buffer) \notin overflowed
        BY <1>1, <1>4, <2>1, <2>4
      <3>2. Cardinality(overflowed') = Cardinality(overflowed) + 1
        BY <2>2, <3>1, FS_AddElement
      <3> QED BY <1>1, <2>1, <2>3, <2>4, <3>2
    <2>5. CASE ~full
      BY <1>1, <2>1, <2>3, <2>5
    <2> QED BY <2>4, <2>5
  <1>12. CountInv'
    BY <1>1, <1>11 DEF TracerInv, CountInv
  <1>13. AccountInv'
    <2>1. 1 .. n = 1 .. recorded \cup {n}
      BY <1>2 DEF n
    <2> QED BY <1>1, <1>4, <1>5, <1>6, <2>1 DEF TracerInv, AccountInv
  <1>14. TypeOK'
    <2>1. recorded' \in 0 .. MaxSpans
      BY <1>1, <1>2, SdkAssumption DEF n
    <2>2. delivered' \cup overflowed' \cup discarded' \cup lost' \subseteq Spans
      BY <1>1, <1>7 DEF TracerInv, TypeOK
    <2> QED BY <1>1, <1>5, <1>11, <2>1, <2>2 DEF TracerInv, TypeOK
  <1> QED BY <1>8, <1>9, <1>10, <1>12, <1>13, <1>14 DEF TracerInv

(* _pop_next_flush_batch of a failed batch. *)
LEMMA PopFailed ==
    ASSUME TracerInv, inflight = << >>, pending # << >>, PopNextFlushBatch,
           attempt' = 0, loop' \in Loops, UNCHANGED <<recorded, counters, phase, history>>
    PROVE  TracerInv'
  <1> DEFINE b == pending[1]
  <1>1. pending = <<b>> /\ Batches = {b} /\ b \in Batch /\ b \in Batches
    BY QueueFacts
  <1>2. pendingSpans = Len(b.spans) /\ Len(b.spans) \in 0 .. MaxSpans
    BY <1>1, BatchSize DEF TracerInv, CountInv
  <1> HIDE DEF b
  <1>3. Head(pending) = b /\ Tail(pending) = << >>
    BY <1>1
  <1>4. inflight' = <<b>> /\ pending' = << >> /\ pendingSpans' = 0 /\ buffer' = buffer
    <2>1. inflight' = <<b>> /\ pending' = << >> /\ buffer' = buffer
          /\ pendingSpans' = pendingSpans - Len(b.spans)
      BY <1>3 DEF PopNextFlushBatch
    <2>2. pendingSpans - Len(b.spans) = 0
      BY <1>2, SdkAssumption
    <2> QED BY <2>1, <2>2
  <1>5. Batches' = {b} /\ Held' = Held
    <2>1. Batches' = {b}
      BY <1>4, ToSetOfOne, ToSetOfNone DEF Batches
    <2> QED BY <1>1, <2>1 DEF Held, SpansIn
  <1>6. OrderInv' /\ DeliveryInv' /\ KeyInv'
    BY <1>1, <1>4, <1>5, OrderKept, DeliveryKept, KeysKept DEF history
  <1>7. TypeOK'
    <2>1. pending' \in Seq(Batch) /\ inflight' \in Seq(Batch) /\ Len(inflight') <= 1
      BY <1>1, <1>4, OneQueue, EmptyQueue
    <2>2. pendingSpans' \in 0 .. MaxSpans /\ attempt' \in 0 .. MaxAttempts - 1
      BY <1>4, SdkAssumption
    <2> QED BY <1>4, <2>1, <2>2 DEF TracerInv, TypeOK, Loops, history
  <1>8. CountInv'
    <2>1. Len(pending') <= 1
      BY <1>4, EmptyQueue
    <2> QED BY <1>4, <2>1 DEF TracerInv, CountInv, history
  <1>9. AccountInv'
    BY <1>4, <1>5 DEF TracerInv, AccountInv, history
  <1> QED BY <1>6, <1>7, <1>8, <1>9 DEF TracerInv

(* _pop_next_flush_batch of the whole buffer. *)
LEMMA PopBuffer ==
    ASSUME TracerInv, inflight = << >>, pending = << >>, buffer # << >>, PopNextFlushBatch,
           attempt' = 0, loop' \in Loops, UNCHANGED <<recorded, counters, phase, history>>
    PROVE  TracerInv'
  <1> DEFINE b == [key |-> Head(buffer), spans |-> buffer]
  <1>1. Batches = {} /\ Held = {}
    <2>1. Batches = {}
      BY ToSetOfNone DEF Batches
    <2> QED BY <2>1 DEF Held
  <1>2. buffer # << >> /\ buffer \in Seq(Spans)
    BY DEF TracerInv, TypeOK
  <1>3. b \in Batch /\ b.spans = buffer /\ SpansIn(b) = ToSet(buffer)
    BY <1>2 DEF Batch, SpansIn
  <1>4. inflight' = <<b>> /\ pending' = << >> /\ pendingSpans' = 0 /\ buffer' = << >>
    BY DEF PopNextFlushBatch, TracerInv, CountInv
  <1> HIDE DEF b
  <1>5. Batches' = {b} /\ Held' = ToSet(buffer) /\ ToSet(buffer)' = {}
    <2>1. Batches' = {b} /\ ToSet(buffer)' = {}
      BY <1>4, ToSetOfOne, ToSetOfNone DEF Batches
    <2> QED BY <1>3, <2>1 DEF Held, SpansIn
  <1>6. OrderInv'
    <2>1. Increasing(buffer)'
      BY <1>4, EmptyQueue DEF Increasing
    <2> QED BY <1>2, <1>3, <1>5, <2>1 DEF TracerInv, OrderInv, SpansIn
  <1>7. KeyInv'
    BY <1>3, <1>5, QueueFacts DEF TracerInv, KeyInv, SpansIn, history
  <1>8. DeliveryInv'
    BY <1>3, <1>5 DEF TracerInv, DeliveryInv, SpansIn, history
  <1>9. TypeOK'
    <2>1. pending' \in Seq(Batch) /\ inflight' \in Seq(Batch) /\ Len(inflight') <= 1
          /\ buffer' \in Seq(Spans)
      BY <1>3, <1>4, OneQueue, EmptyQueue
    <2>2. Len(buffer') <= BufferSize
      BY <1>4, EmptyQueue, SdkAssumption
    <2>3. pendingSpans' \in 0 .. MaxSpans /\ attempt' \in 0 .. MaxAttempts - 1
      BY <1>4, SdkAssumption
    <2> QED BY <2>1, <2>2, <2>3 DEF TracerInv, TypeOK, Loops, history
  <1>10. CountInv'
    <2>1. Len(pending') <= 1
      BY <1>4, EmptyQueue
    <2> QED BY <1>4, <1>5, <2>1 DEF TracerInv, CountInv, history
  <1>11. AccountInv'
    BY <1>1, <1>5 DEF TracerInv, AccountInv, history
  <1> QED BY <1>6, <1>7, <1>8, <1>9, <1>10, <1>11 DEF TracerInv

LEMMA BeginFlushTracerInv == ASSUME TracerInv, BeginFlush PROVE TracerInv'
  <1>1. loop' \in Loops
    BY DEF BeginFlush, TracerInv, TypeOK, Loops
  <1>2. CASE pending # << >>
    BY <1>1, <1>2, PopFailed DEF BeginFlush
  <1>3. CASE pending = << >>
    BY <1>1, <1>3, PopBuffer DEF BeginFlush
  <1> QED BY <1>2, <1>3

(* The answers of one POST. *)
LEMMA SendTracerInv == ASSUME TracerInv, SendStep PROVE TracerInv'
  <1>1. phase \in Phases /\ loop \in Loops /\ AfterFailure \in Phases
        /\ attempt \in 0 .. MaxAttempts - 1 /\ 0 \in 0 .. MaxAttempts - 1
    <2>1. phase \in Phases /\ loop \in Loops /\ attempt \in 0 .. MaxAttempts - 1
      BY DEF TracerInv, TypeOK, Loops, Phases
    <2>2. AfterFailure \in Phases
      BY <2>1 DEF AfterFailure, Phases
    <2>3. 0 \in 0 .. MaxAttempts - 1
      BY SdkAssumption
    <2> QED BY <2>1, <2>2, <2>3
  <1>2. ASSUME NEW p \in Phases, EndFlush(p)
        PROVE  /\ inflight' = << >> /\ attempt' = 0 /\ attempt' \in 0 .. MaxAttempts - 1
               /\ loop' \in Loops /\ phase' \in Phases
    BY <1>1, <1>2 DEF EndFlush, Loops
  <1>3. CASE SendOk
    <2>1. inflight' = << >> /\ attempt' = 0 /\ loop' \in Loops /\ phase' \in Phases
      BY <1>1, <1>2, <1>3 DEF SendOk
    <2> QED BY <1>3, <2>1, FlightEnds DEF SendOk, tracer
  <1>4. CASE SendRejected
    <2>1. /\ inflight' = << >> /\ attempt' \in 0 .. MaxAttempts - 1
          /\ loop' \in Loops /\ phase' \in Phases
      BY <1>1, <1>2, <1>4 DEF SendRejected
    <2> QED BY <1>4, <2>1, SendFails DEF SendRejected
  <1>5. CASE SendRetryable
    <2>1. CASE CanRetry
      <3>1. attempt' \in 0 .. MaxAttempts - 1
        <4>1. attempt' = attempt + 1 /\ attempt < MaxAttempts - 1
          BY <1>5, <2>1 DEF SendRetryable, CanRetry
        <4> QED BY <1>1, <4>1, SdkAssumption
      <3>2. UNCHANGED <<inflight, loop, phase, pending, pendingSpans, counters>>
        BY <1>5, <2>1 DEF SendRetryable
      <3> QED BY <1>1, <1>5, <3>1, <3>2, SendFails DEF SendRetryable, Unanswered
    <2>2. CASE ~CanRetry
      <3>1. PushFailedBatch /\ EndFlush(AfterFailure)
        BY <1>5, <2>2 DEF SendRetryable
      <3>2. /\ inflight' = << >> /\ attempt' \in 0 .. MaxAttempts - 1
            /\ loop' \in Loops /\ phase' \in Phases
        BY <1>1, <1>2, <3>1
      <3> QED BY <1>5, <3>1, <3>2, SendFails DEF SendRetryable, Unanswered
    <2> QED BY <2>1, <2>2
  <1>6. CASE SendUnexpected
    <2>1. inflight' = << >> /\ attempt' = 0 /\ loop' \in Loops /\ phase' \in Phases
      BY <1>1, <1>6 DEF SendUnexpected, Loops, Phases
    <2> QED BY <1>6, <2>1, FlightEnds DEF SendUnexpected, Unanswered, tracer
  <1> QED BY <1>3, <1>4, <1>5, <1>6 DEF SendStep

LEMMA CancelledFlight ==
    ASSUME TracerInv, CancelFlush
    PROVE  /\ loop' \in Loops /\ inflight' = << >> /\ attempt' = 0
           /\ keysOf' = keysOf \/ (inflight # << >> /\ Sent)
           /\ \/ delivered' = delivered \cup InFlight /\ lost' = lost \cup InFlight
              \/ delivered' = delivered /\ lost' = lost \cup InFlight
  BY DEF CancelFlush, Unanswered, TracerInv, TypeOK, Loops

LEMMA ShutdownTracerInv ==
    ASSUME TracerInv, NEW flush \in BOOLEAN, Shutdown(flush) PROVE TracerInv'
  <1>1. phase' \in Phases
    BY DEF Shutdown, Phases
  <1>2. \/ UNCHANGED <<buffer, pending, pendingSpans, discarded>>
        \/ /\ buffer' = << >> /\ pending' = << >> /\ pendingSpans' = 0
           /\ discarded' = discarded \cup Waiting
    BY DEF Shutdown
  <1> QED BY <1>1, <1>2, CancelledFlight, FlightEnds DEF Shutdown

LEMMA ExitTracerInv == ASSUME TracerInv, Exit PROVE TracerInv'
  <1>1. phase' \in Phases
    BY DEF Exit, Phases
  <1> QED BY <1>1, CancelledFlight, FlightEnds DEF Exit, tracer

LEMMA InitTracerInv == Init => TracerInv
  <1> SUFFICES ASSUME Init PROVE TracerInv
    OBVIOUS
  <1> USE SdkAssumption, ToSetOfNone DEF Init
  <1>1. TypeOK
    <2>1. recorded \in 0 .. MaxSpans /\ pendingSpans \in 0 .. MaxSpans
          /\ attempt \in 0 .. MaxAttempts - 1
      OBVIOUS
    <2>2. /\ buffer \in Seq(Spans) /\ Len(buffer) = 0 /\ pending \in Seq(Batch)
          /\ inflight \in Seq(Batch) /\ Len(inflight) <= 1
      BY EmptyQueue
    <2>3. Len(buffer) <= BufferSize
      BY <2>2
    <2> QED BY <2>1, <2>2, <2>3 DEF TypeOK
  <1>2. Batches = {} /\ Held = {} /\ ToSet(buffer) = {}
    BY DEF Batches, Held
  <1>3. OrderInv
    <2>1. Increasing(buffer)
      BY EmptyQueue DEF Increasing
    <2> QED BY <1>2, <2>1 DEF OrderInv
  <1>4. KeyInv
    BY <1>2 DEF KeyInv
  <1>5. DeliveryInv
    BY <1>2 DEF DeliveryInv
  <1>6. CountInv
    <2>1. Len(pending) <= 1
      BY EmptyQueue
    <2>2. Cardinality(overflowed) = 0
      BY FS_EmptySet
    <2> QED BY <2>1, <2>2 DEF CountInv
  <1>7. AccountInv
    BY <1>2 DEF AccountInv
  <1> QED BY <1>1, <1>3, <1>4, <1>5, <1>6, <1>7 DEF TracerInv

(* Every step of the tracer keeps its invariant. *)
LEMMA NextTracerInv == ASSUME TracerInv, [Next]_vars PROVE TracerInv'
  <1> USE DEF Next
  <1>1. CASE Record BY <1>1, RecordTracerInv
  <1>2. CASE Start
    <2>1. loop' \in Loops /\ phase' \in Phases
      BY <1>2 DEF Start, TracerInv, TypeOK, Loops, Phases
    <2> QED BY <1>2, <2>1, QueuesKept DEF Start
  <1>3. CASE BeginFlush BY <1>3, BeginFlushTracerInv
  <1>4. CASE SendStep BY <1>4, SendTracerInv
  <1>5. CASE \E flush \in BOOLEAN : Shutdown(flush) BY <1>5, ShutdownTracerInv
  <1>6. CASE FlushedAll
    <2>1. loop' \in Loops /\ phase' \in Phases
      BY <1>6 DEF FlushedAll, TracerInv, TypeOK, Loops, Phases
    <2> QED BY <1>6, <2>1, QueuesKept DEF FlushedAll
  <1>7. CASE Exit BY <1>7, ExitTracerInv
  <1>8. CASE UNCHANGED vars
    <2>1. loop' \in Loops /\ phase' \in Phases
      BY <1>8 DEF vars, TracerInv, TypeOK, Loops, Phases
    <2> QED BY <1>8, <2>1, QueuesKept DEF vars
  <1> QED BY <1>1, <1>2, <1>3, <1>4, <1>5, <1>6, <1>7, <1>8

(* The invariant implies the three properties. *)
LEMMA TracerInvProperties ==
    ASSUME TracerInv PROVE SpansAreAccounted /\ OneKeyPerSpan /\ DeliveredInOrder
  <1>1. Held = InFlight \cup UNION {SpansIn(b) : b \in ToSet(pending)}
    BY DEF Held, Batches, InFlight
  <1>2. Waiting \cup InFlight = ToSet(buffer) \cup Held
    BY <1>1 DEF Waiting
  <1>3. pendingSpans = Cardinality(UNION {SpansIn(b) : b \in ToSet(pending)})
    <2>1. CASE pending = << >>
      <3>1. UNION {SpansIn(b) : b \in ToSet(pending)} = {}
        BY <2>1, ToSetOfNone
      <3> QED BY <2>1, <3>1, FS_EmptySet DEF TracerInv, CountInv
    <2>2. CASE pending # << >>
      <3>1. ToSet(pending) = {pending[1]} /\ pending[1] \in Batches
        <4>1. pending = <<pending[1]>> /\ pending[1] \in Batches
          BY <2>2, QueueFacts
        <4> QED BY <4>1, ToSetOfOne
      <3>2. UNION {SpansIn(b) : b \in ToSet(pending)} = SpansIn(pending[1])
        BY <3>1
      <3> QED BY <2>2, <3>1, <3>2, BatchSize DEF TracerInv, CountInv
    <2> QED BY <2>1, <2>2
  <1>4. SpansAreAccounted
    <2>1. 1 .. recorded = Waiting \cup InFlight \cup delivered \cup overflowed
                            \cup discarded \cup lost
      BY <1>2 DEF TracerInv, AccountInv
    <2> QED BY <1>3, <2>1 DEF SpansAreAccounted, TracerInv, CountInv
  <1>5. OneKeyPerSpan
    <2>1. SUFFICES ASSUME NEW s \in Spans PROVE Cardinality(keysOf[s]) <= 1
      BY DEF OneKeyPerSpan
    <2>2. \A k, l \in keysOf[s] : k = l
      BY DEF TracerInv, KeyInv
    <2>3. CASE keysOf[s] = {}
      BY <2>3, FS_EmptySet
    <2>4. CASE keysOf[s] # {}
      <3>1. PICK k \in keysOf[s] : TRUE
        BY <2>4
      <3>2. keysOf[s] = {k}
        BY <2>2, <3>1
      <3>3. Cardinality({k}) = 1
        BY FS_Singleton
      <3> QED BY <3>2, <3>3
    <2> QED BY <2>3, <2>4
  <1>6. DeliveredInOrder
    BY <1>2 DEF DeliveredInOrder, TracerInv, DeliveryInv, Held
  <1> QED BY <1>4, <1>5, <1>6

(* The tracer keeps its inductive invariant. *)
THEOREM TracerInvariance == Spec => []TracerInv
  BY InitTracerInv, NextTracerInv, PTL DEF Spec

(* No span vanishes from LLMTracer: through failed flushes, retries, full     *)
(* buffers, cancellation and shutdown it is waiting, in flight, accepted, or  *)
(* dropped in one of the three known ways, and dropped_spans and              *)
(* pending_spans count right.                                                 *)
THEOREM AllSpansAccounted == Spec => []SpansAreAccounted
  BY TracerInvariance, TracerInvProperties, PTL

(* _flush and send_batch never send a span under a second idempotency key. *)
THEOREM OneKey == Spec => []OneKeyPerSpan
  BY TracerInvariance, TracerInvProperties, PTL

(* A failed batch is retried before newer spans: no span is accepted ahead   *)
(* of an older one that the tracer still holds.                              *)
THEOREM InOrder == Spec => []DeliveredInOrder
  BY TracerInvariance, TracerInvProperties, PTL

-----------------------------------------------------------------------------
(* The wrappers. *)
EnteredPcs == {"open", "stream", "done", "strayed"}

ClientTypes ==
    /\ env \in BOOLEAN /\ instance \in {"none", "first", "next"} /\ made \in BOOLEAN
    /\ cpc \in [Calls -> {"idle", "built", "open", "stream", "done", "strayed"}]
    /\ recordedAt \in [Calls -> BOOLEAN] /\ acloses \in [Calls -> BOOLEAN]
    /\ iter \in [Calls -> {"no", "run", "over"}]
    /\ records \in [Calls -> Nat]
    /\ homes \in [Calls -> SUBSET {"first", "next", "nowhere"}]

(* A call that has not come to its end has recorded nothing; of one that     *)
(* has, either the wrapper recorded, or the stream it returned.              *)
CallInv ==
    \A c \in Calls :
        /\ records[c] = IF cpc[c] \in {"done", "strayed"} \/ recordedAt[c] THEN 1 ELSE 0
        /\ cpc[c] # "stream" => iter[c] = "no" /\ ~recordedAt[c]
        /\ iter[c] = "over" => recordedAt[c]
        /\ records[c] = 0 => homes[c] = {}
        /\ "nowhere" \in homes[c] =>
              ~env \/ (BadUsage /\ c \in Providers) \/ cpc[c] = "strayed"

FirstHome == {c \in Calls : "first" \in homes[c]}

(* The first tracer is open until the module gives it up, and its spans are  *)
(* the calls that were recorded with it.                                     *)
ModuleInv ==
    /\ instance # "none" => made
    /\ ~made => phase = "open"
    /\ instance = "first" => phase \notin {"flushing", "closed"}
    /\ IsFiniteSet(FirstHome) /\ recorded = Cardinality(FirstHome)

TreeTypes ==
    /\ ctx \in [Tasks -> Context] /\ frames \in [Tasks -> Seq(Calls)]
    /\ tasks \subseteq Tasks /\ Main \in tasks
    /\ cpc \in [Calls -> {"idle", "built", "open", "stream", "done", "strayed"}]
    /\ span \in [Calls -> Context] /\ saved \in [Calls -> Context]

(* A context names no span, or an entered one and its trace. *)
Sound(x, pcs, spans) ==
    x.span # 0 => pcs[x.span] \in EnteredPcs /\ spans[x.span].trace = x.trace

(* The contexts that tasks run in, and those that wrappers will restore. *)
ContextInv ==
    /\ \A t \in Tasks : Sound(ctx[t], cpc, span)
    /\ \A c \in Calls : cpc[c] \in EnteredPcs =>
          Sound(saved[c], cpc, span) /\ Sound(span[c], cpc, span) /\ span[c].span # c
    /\ \A c \in Calls : cpc[c] # "idle" => span[c].trace # 0

(* The wrappers of a task enclose each other: each will restore the context  *)
(* of the one around it.                                                     *)
Nested(f, x, pcs, spans, tokens) ==
    /\ \A i \in 1 .. Len(f) : pcs[f[i]] \in EnteredPcs
    /\ \A i \in 2 .. Len(f) : spans[f[i]].span = f[i - 1] /\ tokens[f[i]].span = f[i - 1]
    /\ f # << >> => x.span = f[Len(f)]

(* The outermost wrapper of the main task will restore the empty context. *)
Rooted(f, x, tokens) ==
    IF f = << >> THEN x = NoContext ELSE tokens[f[1]] = NoContext

FrameInv ==
    /\ \A t \in Tasks \ tasks : frames[t] = << >>
    /\ \A t \in Tasks : Nested(frames[t], ctx[t], cpc, span, saved)
    /\ Rooted(frames[Main], ctx[Main], saved)

RecordInv == ClientTypes /\ CallInv /\ ModuleInv
TreeInv == TreeTypes /\ ContextInv /\ FrameInv

(* The inductive invariant of the SDK. *)
ClientInv == TracerInv /\ RecordInv /\ TreeInv

-----------------------------------------------------------------------------
(* The span tree. *)
LEMMA BelowProperties ==
    ASSUME NEW S, NEW s \in Seq(S), NEW k \in 1 .. Len(s)
    PROVE  /\ SubSeq(s, 1, k - 1) \in Seq(S) /\ Len(SubSeq(s, 1, k - 1)) = k - 1
           /\ \A i \in 1 .. k - 1 : SubSeq(s, 1, k - 1)[i] = s[i]
  <1>1. Len(s) \in Nat \ {0} /\ \A i \in 1 .. Len(s) : s[i] \in S
    OBVIOUS
  <1> DEFINE n == k - 1
  <1>2. n \in Nat /\ \A i \in 1 .. n : s[i] \in S
    BY <1>1
  <1>4. \A i \in 1 .. n : 1 + i - 1 = i
    BY <1>2
  <1> HIDE DEF n
  <1>5. /\ SubSeq(s, 1, n) \in Seq(S)
        /\ Len(SubSeq(s, 1, n)) = IF 1 <= n THEN n - 1 + 1 ELSE 0
        /\ \A i \in 1 .. n - 1 + 1 : SubSeq(s, 1, n)[i] = s[1 + i - 1]
    BY <1>2, SubSeqProperties
  <1>6. Len(SubSeq(s, 1, n)) = n /\ \A i \in 1 .. n : SubSeq(s, 1, n)[i] = s[i]
    BY <1>2, <1>4, <1>5
  <1> QED BY <1>5, <1>6 DEF n

(* A step that neither builds, enters nor leaves a call keeps the tree. *)
LEMMA TreeKept ==
    ASSUME TreeInv, UNCHANGED <<ctx, frames, tasks, span, saved, cpc>>
    PROVE  TreeInv'
  BY DEF TreeInv, TreeTypes, ContextInv, FrameInv

(* Contexts stay sound when calls that were entered stay entered and keep    *)
(* their trace.                                                              *)
LEMMA SoundKept ==
    ASSUME NEW C, NEW S, NEW D, NEW Z,
           \A p \in Calls : C[p] \in EnteredPcs => D[p] \in EnteredPcs /\ Z[p] = S[p]
    PROVE  \A x \in Context : Sound(x, C, S) => Sound(x, D, Z)
  BY DEF Sound, Context

(* The types of what a task's frames name. *)
LEMMA FrameTypes ==
    ASSUME TreeTypes
    PROVE  /\ \A t \in Tasks : \A i \in 1 .. Len(frames[t]) : frames[t][i] \in Calls
           /\ \A t \in Tasks : Len(frames[t]) \in Nat /\ (frames[t] = << >> <=> Len(frames[t]) = 0)
           /\ \A t \in Tasks : frames[t] \in Seq(Calls) /\ ctx[t] \in Context
           /\ \A c \in Calls : span[c] \in Context /\ saved[c] \in Context
  <1>1. \A t \in Tasks : frames[t] \in Seq(Calls) /\ ctx[t] \in Context
    BY DEF TreeTypes
  <1>2. \A c \in Calls : span[c] \in Context /\ saved[c] \in Context
    BY DEF TreeTypes
  <1>3. ASSUME NEW q \in Seq(Calls)
        PROVE  /\ \A i \in 1 .. Len(q) : q[i] \in Calls
               /\ Len(q) \in Nat /\ (q = << >> <=> Len(q) = 0)
    OBVIOUS
  <1> QED BY <1>1, <1>2, <1>3

(* Frames stay nested when the calls that were entered stay as they are. *)
LEMMA NestedKept ==
    ASSUME NEW C, NEW S, NEW V, NEW D, NEW Z, NEW W,
           \A p \in Calls : C[p] \in EnteredPcs =>
              D[p] \in EnteredPcs /\ Z[p] = S[p] /\ W[p] = V[p]
    PROVE  /\ \A f \in Seq(Calls), x \in Context :
                 Nested(f, x, C, S, V) => Nested(f, x, D, Z, W)
           /\ \A f \in Seq(Calls), x \in Context :
                 Nested(f, x, C, S, V) /\ Rooted(f, x, V) => Rooted(f, x, W)
  <1>1. SUFFICES ASSUME NEW f \in Seq(Calls), NEW x \in Context, Nested(f, x, C, S, V)
                 PROVE  Nested(f, x, D, Z, W) /\ (Rooted(f, x, V) => Rooted(f, x, W))
    OBVIOUS
  <1>2. Len(f) \in Nat /\ (f # << >> => Len(f) >= 1) /\ \A i \in 1 .. Len(f) : f[i] \in Calls
    OBVIOUS
  <1>3. \A i \in 1 .. Len(f) : /\ C[f[i]] \in EnteredPcs /\ D[f[i]] \in EnteredPcs
                               /\ Z[f[i]] = S[f[i]] /\ W[f[i]] = V[f[i]]
    BY <1>1, <1>2 DEF Nested
  <1>4. \A i \in 2 .. Len(f) : i \in 1 .. Len(f)
    BY <1>2
  <1>5. Nested(f, x, D, Z, W)
    BY <1>1, <1>3, <1>4 DEF Nested
  <1>6. f # << >> => 1 \in 1 .. Len(f)
    BY <1>2
  <1>7. Rooted(f, x, V) => Rooted(f, x, W)
    BY <1>3, <1>6 DEF Rooted
  <1> QED BY <1>5, <1>7

(* A wrapper that is entered in its task's context goes on top. *)
LEMMA NestedPush ==
    ASSUME NEW C, NEW S, NEW V, NEW f \in Seq(Calls), NEW x, NEW y, NEW c \in Calls,
           Nested(f, x, C, S, V), C[c] \in EnteredPcs,
           S[c].span = x.span, V[c] = x, y.span = c
    PROVE  /\ Nested(Append(f, c), y, C, S, V)
           /\ Rooted(f, x, V) => Rooted(Append(f, c), y, V)
  <1> DEFINE g == Append(f, c)
  <1>1. /\ g \in Seq(Calls) /\ g # << >> /\ Len(g) = Len(f) + 1 /\ Len(f) \in Nat
        /\ g[Len(f) + 1] = c /\ \A i \in 1 .. Len(f) : g[i] = f[i]
    OBVIOUS
  <1>0. f # << >> => Len(f) >= 1
    OBVIOUS
  <1>2. f = << >> => Len(f) = 0
    OBVIOUS
  <1> HIDE DEF g
  <1>3. \A i \in 1 .. Len(g) : C[g[i]] \in EnteredPcs
    BY <1>1 DEF Nested
  <1>4. ASSUME NEW i \in 2 .. Len(g) PROVE S[g[i]].span = g[i - 1] /\ V[g[i]].span = g[i - 1]
    <2>1. CASE i <= Len(f)
      <3>1. i \in 2 .. Len(f) /\ g[i] = f[i] /\ g[i - 1] = f[i - 1]
        BY <1>1, <2>1
      <3> QED BY <3>1 DEF Nested
    <2>2. CASE i = Len(f) + 1
      <3>1. g[i] = c /\ g[i - 1] = f[Len(f)] /\ f # << >>
        BY <1>1, <1>2, <2>2
      <3> QED BY <3>1 DEF Nested
    <2> QED BY <1>1, <2>1, <2>2
  <1>5. y.span = g[Len(g)]
    BY <1>1
  <1>6. Rooted(f, x, V) => Rooted(g, y, V)
    <2>1. CASE f = << >>
      BY <1>1, <1>2, <2>1 DEF Rooted
    <2>2. CASE f # << >>
      <3>1. g[1] = f[1]
        BY <1>0, <1>1, <2>2
      <3> QED BY <1>1, <2>2, <3>1 DEF Rooted
    <2> QED BY <2>1, <2>2
  <1> QED BY <1>3, <1>4, <1>5, <1>6 DEF g, Nested

(* Leaving a wrapper restores the context of the one around it. *)
LEMMA NestedPop ==
    ASSUME NEW C, NEW S, NEW V, NEW f \in Seq(Calls), NEW x, NEW n \in 1 .. Len(f),
           Nested(f, x, C, S, V)
    PROVE  /\ Nested(SubSeq(f, 1, n - 1), V[f[n]], C, S, V)
           /\ Rooted(f, x, V) => Rooted(SubSeq(f, 1, n - 1), V[f[n]], V)
  <1> DEFINE g == SubSeq(f, 1, n - 1)
  <1>1. /\ g \in Seq(Calls) /\ Len(g) = n - 1 /\ n \in Nat \ {0} /\ n <= Len(f)
        /\ Len(f) \in Nat /\ f # << >> /\ \A i \in 1 .. n - 1 : g[i] = f[i]
    BY BelowProperties
  <1>2. g # << >> <=> n >= 2
    BY <1>1
  <1> HIDE DEF g
  <1>3. \A i \in 1 .. Len(g) : C[g[i]] \in EnteredPcs
    BY <1>1 DEF Nested
  <1>4. ASSUME NEW i \in 2 .. Len(g) PROVE S[g[i]].span = g[i - 1] /\ V[g[i]].span = g[i - 1]
    <2>1. i \in 2 .. Len(f) /\ g[i] = f[i] /\ g[i - 1] = f[i - 1]
      BY <1>1
    <2> QED BY <2>1 DEF Nested
  <1>5. g # << >> => V[f[n]].span = g[Len(g)]
    <2>1. SUFFICES ASSUME n >= 2 PROVE V[f[n]].span = g[Len(g)]
      BY <1>2
    <2>2. n \in 2 .. Len(f) /\ g[Len(g)] = f[n - 1]
      BY <1>1, <2>1
    <2> QED BY <2>2 DEF Nested
  <1>6. Rooted(f, x, V) => Rooted(g, V[f[n]], V)
    <2>1. CASE n >= 2
      <3>1. g # << >> /\ g[1] = f[1]
        BY <1>1, <1>2, <2>1
      <3> QED BY <3>1 DEF Rooted
    <2>2. CASE n = 1
      BY <1>1, <1>2, <2>2 DEF Rooted
    <2> QED BY <1>1, <2>1, <2>2
  <1> QED BY <1>3, <1>4, <1>5, <1>6 DEF g, Nested

LEMMA BuildSpanTree ==
    ASSUME TreeInv, NEW c \in Calls, NEW t \in Tasks, BuildSpan(c, t) PROVE TreeInv'
  <1> USE ClientAssumption DEF TreeInv
  <1> DEFINE T == IF ctx[t].trace # 0 THEN ctx[t].trace ELSE c
  <1>1. /\ cpc[c] = "idle" /\ cpc' = [cpc EXCEPT ![c] = "built"]
        /\ span' = [span EXCEPT ![c] = [span |-> ctx[t].span, trace |-> T]]
        /\ UNCHANGED <<ctx, frames, tasks, saved>>
    BY DEF BuildSpan
  <1>2. ctx[t] \in Context /\ T \in Calls
    BY DEF TreeTypes, Context
  <1> HIDE DEF T
  <1>3. /\ cpc'[c] = "built" /\ span'[c].trace = T
        /\ \A d \in Calls \ {c} : cpc'[d] = cpc[d] /\ span'[d] = span[d]
    BY <1>1 DEF TreeTypes
  <1>4. TreeTypes'
    BY <1>1, <1>2 DEF TreeTypes, Context
  <1>5. \A d \in Calls : /\ cpc'[d] \in EnteredPcs <=> cpc[d] \in EnteredPcs
                         /\ cpc[d] \in EnteredPcs => span'[d] = span[d] /\ saved'[d] = saved[d]
    BY <1>1, <1>3 DEF EnteredPcs
  <1>6. \A x \in Context : Sound(x, cpc, span) => Sound(x, cpc', span')
    BY <1>5, SoundKept
  <1>7. ContextInv'
    <2>1. \A u \in Tasks : Sound(ctx'[u], cpc', span')
      BY <1>1, <1>6, FrameTypes DEF ContextInv
    <2>2. \A d \in Calls : cpc'[d] \in EnteredPcs =>
            Sound(saved'[d], cpc', span') /\ Sound(span'[d], cpc', span') /\ span'[d].span # d
      BY <1>1, <1>5, <1>6, FrameTypes DEF ContextInv
    <2>3. \A d \in Calls : cpc'[d] # "idle" => span'[d].trace # 0
      BY <1>2, <1>3 DEF ContextInv
    <2> QED BY <2>1, <2>2, <2>3 DEF ContextInv
  <1>8. FrameInv'
    <2>1. /\ \A f \in Seq(Calls), x \in Context :
                Nested(f, x, cpc, span, saved) => Nested(f, x, cpc', span', saved')
          /\ \A f \in Seq(Calls), x \in Context :
                Nested(f, x, cpc, span, saved) /\ Rooted(f, x, saved) => Rooted(f, x, saved')
      BY <1>5, NestedKept
    <2> QED BY <1>1, <2>1, FrameTypes DEF FrameInv
  <1> QED BY <1>4, <1>7, <1>8

(* Entering a call: it joins the trace of its context. *)
LEMMA EnterCallTree ==
    ASSUME TreeInv, NEW c \in Calls, NEW t \in Tasks, EnterCall(c, t) PROVE TreeInv'
  <1> USE ClientAssumption DEF TreeInv
  <1> DEFINE T == TraceAtEntry(c, t)
             y == [span |-> c, trace |-> T]
             z == [span |-> ctx[t].span, trace |-> T]
  <1>1. /\ t \in tasks
        /\ cpc[c] = IF KindOf[c] = "manual" THEN "built" ELSE "idle"
        /\ cpc' = [cpc EXCEPT ![c] = "open"]
        /\ span' = [span EXCEPT ![c] = z]
        /\ saved' = [saved EXCEPT ![c] = ctx[t]]
        /\ ctx' = [ctx EXCEPT ![t] = y]
        /\ frames' = [frames EXCEPT ![t] = Append(frames[t], c)]
        /\ tasks' = tasks
    BY DEF EnterCall, AppCode
  <1>2. ctx[t] \in Context /\ span[c] \in Context /\ frames[t] \in Seq(Calls)
    BY DEF TreeTypes
  <1>3. T \in Calls
    <2>1. cpc[c] = "built" => span[c].trace # 0
      BY DEF ContextInv
    <2> QED BY <1>1, <1>2, <2>1 DEF TraceAtEntry, Context
  <1>4. ctx[t].trace # 0 => T = ctx[t].trace
    BY DEF TraceAtEntry
  <1>5. y \in Context /\ z \in Context /\ y.span = c /\ y.trace = T
        /\ z.span = ctx[t].span /\ z.trace = T
    BY <1>2, <1>3 DEF Context
  <1> HIDE DEF T, y, z
  <1>6. cpc[c] \notin EnteredPcs /\ cpc'[c] \in EnteredPcs
    BY <1>1 DEF EnteredPcs, TreeTypes
  <1>7. /\ span'[c] = z /\ saved'[c] = ctx[t]
        /\ \A d \in Calls \ {c} : cpc'[d] = cpc[d] /\ span'[d] = span[d] /\ saved'[d] = saved[d]
    BY <1>1 DEF TreeTypes
  <1>8. /\ ctx'[t] = y /\ frames'[t] = Append(frames[t], c)
        /\ \A u \in Tasks \ {t} : ctx'[u] = ctx[u] /\ frames'[u] = frames[u]
    BY <1>1 DEF TreeTypes
  <1>9. TreeTypes'
    <2>1. Append(frames[t], c) \in Seq(Calls)
      BY <1>2
    <2>2. frames' \in [Tasks -> Seq(Calls)]
      BY <1>1, <2>1 DEF TreeTypes
    <2> QED BY <1>1, <1>2, <1>5, <2>2 DEF TreeTypes
  <1>10. \A d \in Calls : cpc[d] \in EnteredPcs =>
            d # c /\ cpc'[d] \in EnteredPcs /\ span'[d] = span[d] /\ saved'[d] = saved[d]
    BY <1>6, <1>7
  <1>11. \A x \in Context : Sound(x, cpc, span) => Sound(x, cpc', span')
    BY <1>10, SoundKept
  <1>12. Sound(ctx[t], cpc, span)
    BY DEF ContextInv
  <1>13. z.span # 0 => z.span # c /\ Sound(z, cpc', span')
    <2>1. SUFFICES ASSUME ctx[t].span # 0
                   PROVE  z.span # c /\ Sound(z, cpc', span')
      BY <1>5
    <2>2. /\ ctx[t].span \in Calls /\ cpc[ctx[t].span] \in EnteredPcs
          /\ span[ctx[t].span].trace = ctx[t].trace
      BY <1>2, <1>12, <2>1 DEF Sound, Context
    <2>3. ctx[t].trace # 0
      BY <2>2 DEF ContextInv, EnteredPcs
    <2> QED BY <1>4, <1>5, <1>10, <2>2, <2>3 DEF Sound
  <1>14. Sound(y, cpc', span')
    BY <1>5, <1>6, <1>7 DEF Sound
  <1>15. ContextInv'
    <2>1. \A u \in Tasks : Sound(ctx'[u], cpc', span')
      BY <1>8, <1>11, <1>14, FrameTypes DEF ContextInv
    <2>2. ASSUME NEW d \in Calls, cpc'[d] \in EnteredPcs
          PROVE Sound(saved'[d], cpc', span') /\ Sound(span'[d], cpc', span') /\ span'[d].span # d
      <3>1. CASE d = c
        <4>1. Sound(z, cpc', span') /\ z.span # c
          BY <1>13 DEF Sound
        <4> QED BY <1>2, <1>7, <1>11, <1>12, <3>1, <4>1
      <3>2. CASE d # c
        BY <1>7, <1>11, <2>2, <3>2, FrameTypes DEF ContextInv
      <3> QED BY <3>1, <3>2
    <2>3. \A d \in Calls : cpc'[d] # "idle" => span'[d].trace # 0
      BY <1>3, <1>5, <1>7 DEF ContextInv
    <2> QED BY <2>1, <2>2, <2>3 DEF ContextInv
  <1>16. FrameInv'
    <2>1. /\ \A f \in Seq(Calls), x \in Context :
                Nested(f, x, cpc, span, saved) => Nested(f, x, cpc', span', saved')
          /\ \A f \in Seq(Calls), x \in Context :
                Nested(f, x, cpc, span, saved) /\ Rooted(f, x, saved) => Rooted(f, x, saved')
      BY <1>10, NestedKept
    <2>2. Nested(frames[t], ctx[t], cpc', span', saved')
      BY <1>2, <2>1 DEF FrameInv
    <2>3. /\ Nested(Append(frames[t], c), y, cpc', span', saved')
          /\ Rooted(frames[t], ctx[t], saved') => Rooted(Append(frames[t], c), y, saved')
      BY <1>2, <1>5, <1>6, <1>7, <2>2, NestedPush
    <2>4. \A u \in Tasks : Nested(frames'[u], ctx'[u], cpc', span', saved')
      BY <1>8, <2>1, <2>3, FrameTypes DEF FrameInv
    <2>5. Main \in Tasks /\ Rooted(frames[Main], ctx[Main], saved')
      BY <2>1, FrameTypes DEF FrameInv, TreeTypes
    <2>6. Rooted(frames'[Main], ctx'[Main], saved')
      BY <1>8, <2>3, <2>5
    <2>7. \A u \in Tasks \ tasks' : frames'[u] = << >>
      BY <1>1, <1>8 DEF FrameInv
    <2> QED BY <2>4, <2>6, <2>7 DEF FrameInv
  <1> QED BY <1>9, <1>15, <1>16

(* Leaving a call: the tokens restore the context around it. *)
LEMMA LeaveCallTree ==
    ASSUME TreeInv, NEW c \in Calls, NEW t \in Tasks, LeaveCall(c, t),
           NEW p \in {"stream", "done"}, cpc' = [cpc EXCEPT ![c] = p],
           UNCHANGED <<tasks, span, saved>>
    PROVE  TreeInv'
  <1> USE ClientAssumption DEF TreeInv
  <1>0. frames[t] \in Seq(Calls) /\ DOMAIN frames[t] = 1 .. Len(frames[t])
    BY DEF TreeTypes
  <1>1a. PICK k \in 1 .. Len(frames[t]) :
           /\ cpc[c] = "open" /\ frames[t][k] = c
           /\ frames' = [frames EXCEPT ![t] = SubSeq(frames[t], 1, k - 1)]
    BY <1>0 DEF LeaveCall, Innermost
  <1> DEFINE g == SubSeq(frames[t], 1, k - 1)
  <1>1. /\ cpc[c] = "open" /\ frames[t][k] = c
        /\ ctx' = [ctx EXCEPT ![t] = saved[c]] /\ frames' = [frames EXCEPT ![t] = g]
    BY <1>1a DEF LeaveCall
  <1>2. saved[c] \in Context /\ frames[t] # << >> /\ g \in Seq(Calls)
    BY <1>0, BelowProperties DEF TreeTypes
  <1>2a. ASSUME NEW x, NEW V, Nested(frames[t], x, cpc, span, V)
         PROVE  /\ Nested(g, V[c], cpc, span, V)
                /\ Rooted(frames[t], x, V) => Rooted(g, V[c], V)
    BY <1>0, <1>1, <1>2a, NestedPop
  <1> HIDE DEF g
  <1>3. /\ ctx'[t] = saved[c] /\ frames'[t] = g
        /\ \A u \in Tasks \ {t} : ctx'[u] = ctx[u] /\ frames'[u] = frames[u]
    BY <1>1 DEF TreeTypes
  <1>4. \A d \in Calls : /\ cpc'[d] \in EnteredPcs <=> cpc[d] \in EnteredPcs
                         /\ cpc'[d] # "idle" => cpc[d] # "idle"
    BY <1>1 DEF EnteredPcs, TreeTypes
  <1>5. TreeTypes'
    BY <1>1, <1>2 DEF TreeTypes
  <1>6. \A x \in Context : Sound(x, cpc, span) => Sound(x, cpc', span')
    BY <1>4, SoundKept
  <1>7. cpc[c] \in EnteredPcs
    BY <1>1 DEF EnteredPcs
  <1>8. ContextInv'
    <2>1. \A u \in Tasks : Sound(ctx'[u], cpc', span')
      BY <1>2, <1>3, <1>6, <1>7, FrameTypes DEF ContextInv
    <2>2. \A d \in Calls : cpc'[d] \in EnteredPcs =>
            Sound(saved'[d], cpc', span') /\ Sound(span'[d], cpc', span') /\ span'[d].span # d
      BY <1>4, <1>6, FrameTypes DEF ContextInv
    <2>3. \A d \in Calls : cpc'[d] # "idle" => span'[d].trace # 0
      BY <1>4 DEF ContextInv
    <2> QED BY <2>1, <2>2, <2>3 DEF ContextInv
  <1>9. FrameInv'
    <2>1. \A f \in Seq(Calls), x \in Context :
             Nested(f, x, cpc, span, saved) => Nested(f, x, cpc', span', saved')
      BY <1>4, NestedKept
    <2>2. Nested(frames[t], ctx[t], cpc, span, saved)
      BY DEF FrameInv
    <2>3. /\ Nested(g, saved[c], cpc, span, saved)
          /\ Rooted(frames[t], ctx[t], saved) => Rooted(g, saved[c], saved)
      BY <1>2a, <2>2
    <2>4. \A u \in Tasks : Nested(frames'[u], ctx'[u], cpc', span', saved')
      BY <1>2, <1>3, <2>1, <2>3, FrameTypes DEF FrameInv
    <2>5. Rooted(frames'[Main], ctx'[Main], saved')
      BY <1>3, <2>3 DEF FrameInv
    <2>6. t \in tasks
      BY <1>2 DEF FrameInv
    <2>7. \A u \in Tasks \ tasks' : frames'[u] = << >>
      BY <1>3, <2>6 DEF FrameInv
    <2> QED BY <2>4, <2>5, <2>7 DEF FrameInv
  <1> QED BY <1>5, <1>8, <1>9

(* A span left in another task stays where it was entered. *)
LEMMA StrayExitTree ==
    ASSUME TreeInv, NEW c \in Calls, NEW t \in Tasks, StrayExit(c, t) PROVE TreeInv'
  <1> USE ClientAssumption DEF TreeInv
  <1>1. /\ cpc[c] = "open" /\ cpc' = [cpc EXCEPT ![c] = "strayed"]
        /\ UNCHANGED <<ctx, frames, tasks, span, saved>>
    BY DEF StrayExit
  <1>2. TreeTypes'
    BY <1>1 DEF TreeTypes
  <1>3. \A d \in Calls : /\ cpc'[d] \in EnteredPcs <=> cpc[d] \in EnteredPcs
                         /\ cpc'[d] # "idle" => cpc[d] # "idle"
    BY <1>1 DEF EnteredPcs, TreeTypes
  <1>4. \A x \in Context : Sound(x, cpc, span) => Sound(x, cpc', span')
    BY <1>1, <1>3, SoundKept
  <1>5. ContextInv'
    <2>1. \A u \in Tasks : Sound(ctx'[u], cpc', span')
      BY <1>1, <1>4, FrameTypes DEF ContextInv
    <2>2. \A d \in Calls : cpc'[d] \in EnteredPcs =>
            Sound(saved'[d], cpc', span') /\ Sound(span'[d], cpc', span') /\ span'[d].span # d
      BY <1>1, <1>3, <1>4, FrameTypes DEF ContextInv
    <2>3. \A d \in Calls : cpc'[d] # "idle" => span'[d].trace # 0
      BY <1>1, <1>3 DEF ContextInv
    <2> QED BY <2>1, <2>2, <2>3 DEF ContextInv
  <1>6. FrameInv'
    <2>1. /\ \A f \in Seq(Calls), x \in Context :
                Nested(f, x, cpc, span, saved) => Nested(f, x, cpc', span', saved')
          /\ \A f \in Seq(Calls), x \in Context :
                Nested(f, x, cpc, span, saved) /\ Rooted(f, x, saved) => Rooted(f, x, saved')
      BY <1>1, <1>3, NestedKept
    <2> QED BY <1>1, <2>1, FrameTypes DEF FrameInv
  <1> QED BY <1>2, <1>5, <1>6

(* A new task starts in the context of its creator. *)
LEMMA SpawnTree ==
    ASSUME TreeInv, NEW t \in Tasks, NEW u \in Tasks, Spawn(t, u) PROVE TreeInv'
  <1> USE ClientAssumption DEF TreeInv
  <1>1. /\ u \notin tasks /\ tasks' = tasks \cup {u} /\ ctx' = [ctx EXCEPT ![u] = ctx[t]]
        /\ UNCHANGED <<frames, cpc, span, saved>>
    BY DEF Spawn
  <1>2. ctx'[u] = ctx[t] /\ \A v \in Tasks \ {u} : ctx'[v] = ctx[v]
    BY <1>1 DEF TreeTypes
  <1>3. TreeTypes'
    BY <1>1 DEF TreeTypes
  <1>4. ContextInv'
    BY <1>1, <1>2 DEF ContextInv
  <1>5. FrameInv'
    <2>1. frames[u] = << >> /\ Main # u
      BY <1>1 DEF FrameInv, TreeTypes
    <2>2. Nested(frames[u], ctx[t], cpc, span, saved)
      BY <2>1, EmptyQueue DEF Nested
    <2>3. \A v \in Tasks : Nested(frames'[v], ctx'[v], cpc', span', saved')
      BY <1>1, <1>2, <2>2 DEF FrameInv
    <2> QED BY <1>1, <1>2, <2>1, <2>3 DEF FrameInv
  <1> QED BY <1>3, <1>4, <1>5

-----------------------------------------------------------------------------
(* The records.  A call that has recorded nothing yet records once; its span *)
(* goes to a tracer that is not being shut down.                             *)
LEMMA RecordsOnce ==
    ASSUME TracerInv, RecordInv, NEW c \in Calls, records[c] = 0, env' = env,
           RecordSpan(c) \/ SpanLost(c)
    PROVE  /\ ModuleInv' /\ instance' \in {"none", "first", "next"} /\ made' \in BOOLEAN
           /\ records' = [records EXCEPT ![c] = 1]
           /\ homes' \in [Calls -> SUBSET {"first", "next", "nowhere"}]
           /\ \A d \in Calls \ {c} : homes'[d] = homes[d]
           /\ "nowhere" \in homes'[c] => ~env \/ (BadUsage /\ c \in Providers)
  <1> USE DEF RecordInv
  <1>1. /\ instance \in {"none", "first", "next"} /\ made \in BOOLEAN /\ env \in BOOLEAN
        /\ homes \in [Calls -> SUBSET {"first", "next", "nowhere"}]
        /\ records \in [Calls -> Nat] /\ homes[c] = {} /\ recorded \in Nat
    BY QueueFacts DEF ClientTypes, CallInv
  <1>2. records' = [records EXCEPT ![c] = 1]
    BY <1>1 DEF RecordSpan, SpanLost
  <1>3. ASSUME NEW h \in {"first", "next", "nowhere"}, homes' = [homes EXCEPT ![c] = @ \cup {h}]
        PROVE  /\ homes' \in [Calls -> SUBSET {"first", "next", "nowhere"}]
               /\ homes'[c] = {h} /\ \A d \in Calls \ {c} : homes'[d] = homes[d]
               /\ FirstHome' = IF h = "first" THEN FirstHome \cup {c} ELSE FirstHome
               /\ c \notin FirstHome
    <2>1. /\ homes' \in [Calls -> SUBSET {"first", "next", "nowhere"}]
          /\ homes'[c] = {h} /\ \A d \in Calls \ {c} : homes'[d] = homes[d]
      BY <1>1, <1>3
    <2> QED BY <1>1, <1>3, <2>1 DEF FirstHome
  <1>4. CASE SpanLost(c)
    <2>1. /\ homes' = [homes EXCEPT ![c] = @ \cup {"nowhere"}] /\ BadUsage /\ c \in Providers
          /\ instance' = instance /\ made' = made /\ phase' = phase /\ recorded' = recorded
      BY <1>4 DEF SpanLost, vars
    <2>2. ModuleInv'
      BY <1>3, <2>1 DEF ModuleInv
    <2> QED BY <1>1, <1>2, <1>3, <2>1, <2>2
  <1>5. CASE RecordSpan(c)
    <2> DEFINE h == TracerForRecord
    <2>1. /\ instance' = IF h = "nowhere" THEN "none" ELSE h
          /\ made' = (made \/ h # "nowhere")
          /\ IF h = "first" THEN Record ELSE UNCHANGED vars
          /\ homes' = [homes EXCEPT ![c] = @ \cup {h}]
      BY <1>5 DEF RecordSpan
    <2>2. /\ h \in {"first", "next", "nowhere"}
          /\ h = "nowhere" => ~env
          /\ h = "first" => instance = "first" \/ ~made
      BY <1>1 DEF TracerForRecord, Fresh
    <2> HIDE DEF h
    <2>9. /\ homes' \in [Calls -> SUBSET {"first", "next", "nowhere"}]
          /\ homes'[c] = {h} /\ \A d \in Calls \ {c} : homes'[d] = homes[d]
          /\ FirstHome' = IF h = "first" THEN FirstHome \cup {c} ELSE FirstHome
          /\ c \notin FirstHome
      BY <1>3, <2>1, <2>2
    <2>3. phase' = phase /\ recorded' = IF h = "first" THEN recorded + 1 ELSE recorded
      BY <2>1 DEF Record, vars
    <2>4. instance' # "none" => made'
      BY <2>1
    <2>5. ~made' => phase' = "open"
      BY <1>1, <2>1, <2>3 DEF ModuleInv
    <2>6. instance' = "first" => phase' \notin {"flushing", "closed"}
      BY <2>1, <2>2, <2>3 DEF ModuleInv
    <2>7. IsFiniteSet(FirstHome') /\ recorded' = Cardinality(FirstHome')
      <3>1. CASE h = "first"
        <4>1. FirstHome' = FirstHome \cup {c} /\ c \notin FirstHome
          BY <2>9, <3>1
        <4>2. IsFiniteSet(FirstHome) /\ recorded = Cardinality(FirstHome)
          BY DEF ModuleInv
        <4>3. IsFiniteSet(FirstHome') /\ Cardinality(FirstHome') = Cardinality(FirstHome) + 1
          BY <4>1, <4>2, FS_AddElement
        <4> QED BY <2>3, <3>1, <4>2, <4>3
      <3>2. CASE h # "first"
        <4>1. FirstHome' = FirstHome
          BY <2>9, <3>2
        <4> QED BY <2>3, <3>2, <4>1 DEF ModuleInv
      <3> QED BY <3>1, <3>2
    <2>8. ModuleInv'
      BY <2>4, <2>5, <2>6, <2>7 DEF ModuleInv
    <2>10. instance' \in {"none", "first", "next"} /\ made' \in BOOLEAN
      BY <1>1, <2>1, <2>2
    <2>11. "nowhere" \in homes'[c] => ~env
      BY <2>2, <2>9
    <2> QED BY <1>2, <2>8, <2>9, <2>10, <2>11
  <1> QED BY <1>4, <1>5

(* What a step leaves alone stays true of the module and of the calls. *)
LEMMA ModuleKept ==
    ASSUME ModuleInv, UNCHANGED <<instance, made, homes, phase, recorded>> PROVE ModuleInv'
  BY DEF ModuleInv, FirstHome

(* The wrapper records in its finally block. *)
LEMMA EndCallRecords ==
    ASSUME TracerInv, RecordInv, NEW c \in Calls, NEW t \in Tasks, EndCall(c, t), env' = env
    PROVE  RecordInv'
  <1> USE DEF RecordInv
  <1>1. /\ cpc[c] = "open" /\ cpc' = [cpc EXCEPT ![c] = "done"]
        /\ RecordSpan(c) \/ SpanLost(c)
        /\ UNCHANGED <<recordedAt, iter, acloses>>
    BY DEF EndCall, LeaveCall, Innermost
  <1>2. records[c] = 0 /\ ~recordedAt[c] /\ iter[c] = "no"
    BY <1>1 DEF CallInv
  <1>3. /\ ModuleInv' /\ instance' \in {"none", "first", "next"} /\ made' \in BOOLEAN
        /\ records' = [records EXCEPT ![c] = 1]
        /\ homes' \in [Calls -> SUBSET {"first", "next", "nowhere"}]
        /\ \A d \in Calls \ {c} : homes'[d] = homes[d]
        /\ "nowhere" \in homes'[c] => ~env \/ (BadUsage /\ c \in Providers)
    BY <1>1, <1>2, RecordsOnce
  <1>4. /\ cpc'[c] = "done" /\ records'[c] = 1
        /\ \A d \in Calls \ {c} : cpc'[d] = cpc[d] /\ records'[d] = records[d]
    BY <1>1, <1>3 DEF ClientTypes
  <1>5. ClientTypes'
    BY <1>1, <1>3 DEF ClientTypes
  <1>6. CallInv'
    BY <1>1, <1>2, <1>3, <1>4 DEF CallInv
  <1> QED BY <1>3, <1>5, <1>6

(* A span left in another task counts as the call's one record, and is gone. *)
LEMMA StrayExitRecords ==
    ASSUME RecordInv, NEW c \in Calls, NEW t \in Tasks, StrayExit(c, t), env' = env
    PROVE  RecordInv'
  <1> USE DEF RecordInv
  <1>1. /\ cpc[c] = "open" /\ cpc' = [cpc EXCEPT ![c] = "strayed"]
        /\ records' = [records EXCEPT ![c] = @ + 1]
        /\ homes' = [homes EXCEPT ![c] = @ \cup {"nowhere"}]
        /\ UNCHANGED <<recordedAt, iter, acloses, instance, made, phase, recorded>>
    BY DEF StrayExit, vars
  <1>2. records[c] = 0 /\ ~recordedAt[c] /\ iter[c] = "no" /\ homes[c] = {}
    BY <1>1 DEF CallInv
  <1>3. /\ cpc'[c] = "strayed" /\ records'[c] = 1 /\ homes'[c] = {"nowhere"}
        /\ \A d \in Calls \ {c} : /\ cpc'[d] = cpc[d] /\ records'[d] = records[d]
                                  /\ homes'[d] = homes[d]
    BY <1>1, <1>2 DEF ClientTypes
  <1>4. ClientTypes'
    BY <1>1 DEF ClientTypes
  <1>5. CallInv'
    BY <1>1, <1>2, <1>3 DEF CallInv
  <1>6. FirstHome' = FirstHome
    BY <1>2, <1>3 DEF FirstHome
  <1>7. ModuleInv'
    BY <1>1, <1>6 DEF ModuleInv
  <1> QED BY <1>4, <1>5, <1>7

(* The stream records when its iteration ends or it is closed, whichever     *)
(* comes first.                                                              *)
LEMMA StreamRecords ==
    ASSUME TracerInv, RecordInv, NEW c \in Calls, cpc[c] = "stream", env' = env,
           \/ RecordStream(c) /\ (iter' = iter \/ iter' = [iter EXCEPT ![c] = "over"])
           \/ UNCHANGED <<vars, instance, made, recordedAt, records, homes, iter>>,
           cpc' = cpc, acloses' \in [Calls -> BOOLEAN]
    PROVE  RecordInv'
  <1> USE DEF RecordInv
  <1>1. CASE /\ UNCHANGED <<vars, instance, made, recordedAt, records, homes>>
             /\ iter' = iter \/ (recordedAt[c] /\ iter' = [iter EXCEPT ![c] = "over"])
    <2>1. ModuleInv'
      BY <1>1, ModuleKept DEF vars
    <2>2. ClientTypes'
      BY <1>1 DEF ClientTypes
    <2>3. \A d \in Calls : iter'[d] = iter[d] \/ (d = c /\ recordedAt[c])
      BY <1>1 DEF ClientTypes
    <2>4. CallInv'
      BY <1>1, <2>3 DEF CallInv
    <2> QED BY <2>1, <2>2, <2>4
  <1>2. CASE /\ ~recordedAt[c] /\ RecordStream(c)
             /\ iter' = iter \/ iter' = [iter EXCEPT ![c] = "over"]
    <2>1. recordedAt' = [recordedAt EXCEPT ![c] = TRUE] /\ (RecordSpan(c) \/ SpanLost(c))
      BY <1>2 DEF RecordStream
    <2>2. records[c] = 0
      BY <1>2 DEF CallInv
    <2>3. /\ ModuleInv' /\ instance' \in {"none", "first", "next"} /\ made' \in BOOLEAN
          /\ records' = [records EXCEPT ![c] = 1]
          /\ homes' \in [Calls -> SUBSET {"first", "next", "nowhere"}]
          /\ \A d \in Calls \ {c} : homes'[d] = homes[d]
          /\ "nowhere" \in homes'[c] => ~env \/ (BadUsage /\ c \in Providers)
      BY <2>1, <2>2, RecordsOnce
    <2>4. /\ records'[c] = 1 /\ recordedAt'[c]
          /\ \A d \in Calls \ {c} : /\ records'[d] = records[d] /\ iter'[d] = iter[d]
                                    /\ recordedAt'[d] = recordedAt[d]
      BY <1>2, <2>1, <2>3 DEF ClientTypes
    <2>5. ClientTypes'
      BY <1>2, <2>1, <2>3 DEF ClientTypes
    <2>6. CallInv'
      BY <2>3, <2>4 DEF CallInv
    <2> QED BY <2>3, <2>5, <2>6
  <1>3. recordedAt[c] /\ RecordStream(c) =>
          UNCHANGED <<vars, instance, made, recordedAt, records, homes>>
    BY DEF RecordStream
  <1> QED BY <1>1, <1>2, <1>3

(* The calls' own steps that record nothing. *)
LEMMA CallsMoveOn ==
    ASSUME RecordInv, NEW c \in Calls, env' = env,
           UNCHANGED <<instance, made, homes, phase, recorded, recordedAt, records, acloses>>,
           \/ /\ cpc[c] \in {"idle", "built"} /\ iter' = iter
              /\ \E p \in {"built", "open"} : cpc' = [cpc EXCEPT ![c] = p]
           \/ cpc[c] = "open" /\ cpc' = [cpc EXCEPT ![c] = "stream"] /\ iter' = iter
           \/ cpc[c] = "stream" /\ cpc' = cpc /\ iter' = [iter EXCEPT ![c] = "run"]
    PROVE  RecordInv'
  <1> USE DEF RecordInv
  <1>1. ModuleInv'
    BY ModuleKept
  <1>2. ClientTypes'
    BY DEF ClientTypes
  <1>3. /\ \A d \in Calls \ {c} : cpc'[d] = cpc[d] /\ iter'[d] = iter[d]
        /\ cpc'[c] \notin {"done", "strayed"} /\ cpc[c] \notin {"done", "strayed"}
        /\ cpc'[c] = "stream" \/ (cpc[c] # "stream" /\ iter'[c] = iter[c])
        /\ iter'[c] = iter[c] \/ iter'[c] = "run"
    BY DEF ClientTypes
  <1>4. CallInv'
    BY <1>3 DEF CallInv
  <1> QED BY <1>1, <1>2, <1>4

-----------------------------------------------------------------------------
(* The composition.  What the wrappers do to the tracer is recording and     *)
(* shutting down, so every step of the SDK is a step of the tracer or leaves *)
(* it alone.                                                                 *)
LEMMA ClientStepIsTracerStep == ASSUME [ClientNext]_clientVars PROVE [Next]_vars
  <1>1. ASSUME NEW c \in Calls, RecordSpan(c) \/ SpanLost(c) \/ RecordStream(c) PROVE [Next]_vars
    BY <1>1 DEF RecordSpan, SpanLost, RecordStream, Next
  <1>2. CASE ClientStep
    <2>1. CASE InitTracer BY <2>1 DEF InitTracer
    <2>2. ASSUME NEW c \in Calls, NEW t \in Tasks,
                 \/ BuildSpan(c, t) \/ EnterCall(c, t)
                 \/ EndCall(c, t) \/ StrayExit(c, t) \/ ReturnStream(c, t)
          PROVE  [Next]_vars
      <3>1. CASE BuildSpan(c, t) BY <3>1 DEF BuildSpan
      <3>2. CASE EnterCall(c, t) BY <3>2 DEF EnterCall
      <3>3. CASE EndCall(c, t) BY <1>1, <3>3 DEF EndCall
      <3>4. CASE ReturnStream(c, t) BY <3>4 DEF ReturnStream
      <3>5. CASE StrayExit(c, t) BY <3>5 DEF StrayExit
      <3> QED BY <2>2, <3>1, <3>2, <3>3, <3>4, <3>5
    <2>3. ASSUME NEW c \in Calls, Iterate(c) \/ EndIteration(c) \/ CloseStream(c)
          PROVE  [Next]_vars
      BY <1>1, <2>3 DEF Iterate, EndIteration, CloseStream
    <2>4. ASSUME NEW t \in Tasks, NEW u \in Tasks, Spawn(t, u) PROVE [Next]_vars
      BY <2>4 DEF Spawn
    <2>5. ASSUME NEW flush \in BOOLEAN, ShutdownModule(flush) PROVE [Next]_vars
      BY <2>5 DEF ShutdownModule, Next
    <2> QED BY <1>2, <2>1, <2>2, <2>3, <2>4, <2>5 DEF ClientStep
  <1>3. CASE TracerStep BY <1>3 DEF TracerStep, Next
  <1>4. CASE UNCHANGED clientVars BY <1>4 DEF clientVars
  <1> QED BY <1>2, <1>3, <1>4 DEF ClientNext

LEMMA InitClientInv == ClientInit => ClientInv
  <1> SUFFICES ASSUME ClientInit PROVE ClientInv
    OBVIOUS
  <1> USE ClientAssumption DEF ClientInit
  <1>1. TracerInv /\ recorded = 0 /\ phase = "open"
    BY InitTracerInv DEF Init
  <1>2. RecordInv
    <2>1. ClientTypes /\ CallInv
      BY DEF ClientTypes, CallInv
    <2>2. FirstHome = {}
      BY DEF FirstHome
    <2>3. IsFiniteSet(FirstHome) /\ Cardinality(FirstHome) = 0
      BY <2>2, FS_EmptySet
    <2> QED BY <1>1, <2>1, <2>3 DEF RecordInv, ModuleInv
  <1>3. TreeTypes
    BY EmptyQueue DEF TreeTypes, Context, NoContext
  <1>4. ContextInv
    BY DEF ContextInv, Sound, NoContext, EnteredPcs
  <1>5. FrameInv
    <2>1. \A t \in Tasks : Nested(frames[t], ctx[t], cpc, span, saved)
      BY EmptyQueue DEF Nested
    <2> QED BY <2>1 DEF FrameInv, Rooted
  <1> QED BY <1>1, <1>2, <1>3, <1>4, <1>5 DEF ClientInv, TreeInv

(* While the module holds the first tracer no step of the tracer itself      *)
(* begins or ends its shutdown.                                              *)
LEMMA TracerStepRecords ==
    ASSUME RecordInv, made, TracerStep, UNCHANGED client PROVE RecordInv'
  <1> USE DEF RecordInv, client
  <1>1. recorded' = recorded
    BY DEF TracerStep, Start, BeginFlush, SendStep, SendOk, SendRejected, SendRetryable,
           SendUnexpected, FlushedAll, Exit
  <1>2. phase \notin {"flushing", "closed"} => phase' \notin {"flushing", "closed"}
    <2>1. ASSUME NEW p, EndFlush(p) PROVE phase' = p
      BY <2>1 DEF EndFlush
    <2>2. phase \notin {"flushing", "closed"} => AfterFailure \notin {"flushing", "closed"}
      BY DEF AfterFailure
    <2>3. CASE Start \/ BeginFlush BY <2>3 DEF Start, BeginFlush
    <2>4. CASE SendOk BY <2>1, <2>4 DEF SendOk
    <2>5. CASE SendRejected BY <2>1, <2>2, <2>5 DEF SendRejected
    <2>6. CASE SendRetryable BY <2>1, <2>2, <2>6 DEF SendRetryable
    <2>7. CASE SendUnexpected BY <2>7 DEF SendUnexpected
    <2>8. CASE FlushedAll BY <2>8 DEF FlushedAll
    <2>9. CASE Exit BY <2>9 DEF Exit
    <2> QED BY <2>3, <2>4, <2>5, <2>6, <2>7, <2>8, <2>9 DEF TracerStep, SendStep
  <1>3. ModuleInv'
    BY <1>1, <1>2 DEF ModuleInv, FirstHome
  <1> QED BY <1>3 DEF ClientTypes, CallInv

(* Every step of the SDK keeps the records. *)
LEMMA NextRecordInv ==
    ASSUME TracerInv, RecordInv, [ClientNext]_clientVars PROVE RecordInv'
  <1>1. CASE ClientStep /\ UNCHANGED env
    <2> USE <1>1
    <2>1. CASE InitTracer
      <3>1. /\ instance = "none" /\ instance' = Fresh /\ made' = TRUE
            /\ UNCHANGED <<phase, recorded, cpc, recordedAt, iter, acloses, records, homes>>
        BY <2>1 DEF InitTracer, vars
      <3>2. instance' \in {"first", "next"} /\ (instance' = "first" => ~made)
        BY <3>1 DEF Fresh
      <3>3. ModuleInv'
        BY <3>1, <3>2 DEF RecordInv, ModuleInv, FirstHome
      <3> QED BY <3>1, <3>2, <3>3 DEF RecordInv, ClientTypes, CallInv
    <2>2. ASSUME NEW c \in Calls, NEW t \in Tasks,
                 BuildSpan(c, t) \/ EnterCall(c, t) \/ ReturnStream(c, t)
          PROVE  RecordInv'
      <3>1. CASE BuildSpan(c, t)
        BY <3>1, CallsMoveOn DEF BuildSpan, vars
      <3>2. CASE EnterCall(c, t)
        BY <3>2, CallsMoveOn DEF EnterCall, vars
      <3>3. CASE ReturnStream(c, t)
        BY <3>3, CallsMoveOn DEF ReturnStream, LeaveCall, Innermost, vars
      <3> QED BY <2>2, <3>1, <3>2, <3>3
    <2>3. ASSUME NEW c \in Calls, NEW t \in Tasks, EndCall(c, t) \/ StrayExit(c, t)
          PROVE  RecordInv'
      BY <2>3, EndCallRecords, StrayExitRecords
    <2>4. ASSUME NEW c \in Calls, Iterate(c) PROVE RecordInv'
      BY <2>4, CallsMoveOn DEF Iterate, vars
    <2>5. ASSUME NEW c \in Calls, EndIteration(c) PROVE RecordInv'
      <3>1. cpc[c] = "stream" /\ acloses' \in [Calls -> BOOLEAN]
        BY <2>5 DEF EndIteration, RecordInv, CallInv, ClientTypes
      <3> QED BY <2>5, <3>1, StreamRecords DEF EndIteration
    <2>6. ASSUME NEW c \in Calls, CloseStream(c) PROVE RecordInv'
      <3>1. acloses' \in [Calls -> BOOLEAN]
        BY <2>6 DEF CloseStream, RecordInv, ClientTypes
      <3> QED BY <2>6, <3>1, StreamRecords DEF CloseStream
    <2>7. ASSUME NEW t \in Tasks, NEW u \in Tasks, Spawn(t, u) PROVE RecordInv'
      <3>1. UNCHANGED <<instance, made, homes, phase, recorded>>
        BY <2>7 DEF Spawn, vars
      <3>2. ModuleInv'
        BY <3>1, ModuleKept DEF RecordInv
      <3> QED BY <2>7, <3>2 DEF Spawn, RecordInv, ClientTypes, CallInv
    <2>8. ASSUME NEW flush \in BOOLEAN, ShutdownModule(flush) PROVE RecordInv'
      <3>1. /\ instance \in {"first", "next"} /\ instance' = "none" /\ recorded' = recorded
            /\ UNCHANGED <<made, cpc, recordedAt, iter, acloses, records, homes>>
        BY <2>8 DEF ShutdownModule, Shutdown, vars
      <3>2. ModuleInv'
        BY <3>1 DEF RecordInv, ModuleInv, FirstHome
      <3> QED BY <3>1, <3>2 DEF RecordInv, ClientTypes, CallInv
    <2> QED BY <2>1, <2>2, <2>3, <2>4, <2>5, <2>6, <2>7, <2>8 DEF ClientStep
  <1>2. CASE made /\ TracerStep /\ UNCHANGED client
    BY <1>2, TracerStepRecords
  <1>3. CASE UNCHANGED clientVars
    <2>1. UNCHANGED <<instance, made, homes, phase, recorded>>
      BY <1>3 DEF clientVars, client, vars
    <2>2. ModuleInv'
      BY <2>1, ModuleKept DEF RecordInv
    <2> QED BY <1>3, <2>2 DEF clientVars, client, RecordInv, ClientTypes, CallInv
  <1> QED BY <1>1, <1>2, <1>3 DEF ClientNext

(* Every step of the SDK keeps the tree. *)
LEMMA NextTreeInv == ASSUME TreeInv, [ClientNext]_clientVars PROVE TreeInv'
  <1>1. CASE ClientStep
    <2>1. CASE InitTracer BY <2>1, TreeKept DEF InitTracer
    <2>2. ASSUME NEW c \in Calls, NEW t \in Tasks,
                 \/ BuildSpan(c, t) \/ EnterCall(c, t)
                 \/ EndCall(c, t) \/ StrayExit(c, t) \/ ReturnStream(c, t)
          PROVE  TreeInv'
      <3>1. CASE EndCall(c, t) BY <3>1, LeaveCallTree DEF EndCall
      <3>2. CASE ReturnStream(c, t) BY <3>2, LeaveCallTree DEF ReturnStream
      <3> QED BY <2>2, <3>1, <3>2, BuildSpanTree, EnterCallTree, StrayExitTree
    <2>3. ASSUME NEW c \in Calls, Iterate(c) \/ EndIteration(c) \/ CloseStream(c)
          PROVE  TreeInv'
      BY <2>3, TreeKept DEF Iterate, EndIteration, CloseStream
    <2>4. ASSUME NEW t \in Tasks, NEW u \in Tasks, Spawn(t, u) PROVE TreeInv'
      BY <2>4, SpawnTree
    <2>5. ASSUME NEW flush \in BOOLEAN, ShutdownModule(flush) PROVE TreeInv'
      BY <2>5, TreeKept DEF ShutdownModule
    <2> QED BY <1>1, <2>1, <2>2, <2>3, <2>4, <2>5 DEF ClientStep
  <1>2. CASE UNCHANGED client
    BY <1>2, TreeKept DEF client
  <1> QED BY <1>1, <1>2 DEF ClientNext, clientVars

LEMMA NextClientInv == ASSUME ClientInv, [ClientNext]_clientVars PROVE ClientInv'
  BY ClientStepIsTracerStep, NextTracerInv, NextRecordInv, NextTreeInv DEF ClientInv

(* The SDK keeps its inductive invariant. *)
THEOREM ClientInvariance == ClientSpec => []ClientInv
  BY InitClientInv, NextClientInv, PTL DEF ClientSpec

(* Every wrapper records its call exactly once when it is over, the spans of *)
(* the first tracer are the calls recorded with it, and none goes to a       *)
(* tracer that shutdown is closing.                                          *)
THEOREM CallsRecordedOnce == ClientSpec => []OneSpanPerCall
  <1>1. ClientInv => OneSpanPerCall
    BY DEF ClientInv, RecordInv, CallInv, ModuleInv, FirstHome, OneSpanPerCall, Over
  <1> QED BY <1>1, ClientInvariance, PTL

(* However calls, streams, cancellations and tasks nest, and wherever a      *)
(* manual span is left, the spans form trees, and the main task outside      *)
(* every wrapper is back in the empty context.                               *)
THEOREM TreesAreSound == ClientSpec => []SpanTreeIsSound
  <1>1. ASSUME ClientInv PROVE SpanTreeIsSound
    <2> USE <1>1 DEF ClientInv, TreeInv
    <2>1. \A c \in Calls : Entered(c) /\ span[c].span # 0 =>
            LET p == span[c].span IN
            p # c /\ span[p].trace = span[c].trace /\ Entered(p)
      BY DEF ContextInv, Sound, EnteredPcs, Entered
    <2>2. \A t \in tasks : \A i \in 2 .. Len(frames[t]) :
            span[frames[t][i]].span = frames[t][i - 1]
      BY DEF TreeTypes, FrameInv, Nested
    <2>3. \A t \in tasks : frames[t] # << >> => ctx[t].span = Last(frames[t])
      BY DEF TreeTypes, FrameInv, Nested, Last
    <2>4. frames[Main] = << >> => ctx[Main] = NoContext
      BY DEF FrameInv, Rooted
    <2> QED BY <2>1, <2>2, <2>3, <2>4 DEF SpanTreeIsSound
  <1> QED BY <1>1, ClientInvariance, PTL

(* The tracer that the wrappers drive keeps the promises of SdkTracer. *)
THEOREM ClientTracerIsSound ==
    ClientSpec => [](SpansAreAccounted /\ OneKeyPerSpan /\ DeliveredInOrder)
  <1>1. ClientInv => SpansAreAccounted /\ OneKeyPerSpan /\ DeliveredInOrder
    BY TracerInvProperties DEF ClientInv
  <1> QED BY <1>1, ClientInvariance, PTL

(* The wrappers and the module implement the tracer's safety: recording and  *)
(* shutting down through them is what SdkTracer allows an application.       *)
THEOREM ClientImplementsTracer == ClientSpec => Init /\ [][Next]_vars
  BY ClientStepIsTracerStep, PTL DEF ClientSpec, ClientInit
=============================================================================
