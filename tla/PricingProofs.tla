---------------------------- MODULE PricingProofs ----------------------------
(***************************************************************************)
(* Proofs that pricing lookups keep PriceWasListed, SettledPriceIsRight    *)
(* and StaleIsExplained for any times, prices and bounds, any number of    *)
(* admin calls and batches.                                                *)
(***************************************************************************)
EXTENDS Pricing, FiniteSetTheorems, WellFoundedInduction, TLAPS

(* Where each batch stands. *)
BatchInv ==
    \A w \in Workers :
        /\ wpc[w] = "off" => /\ intervals[w] = << >> /\ charged[w] = << >>
                             /\ ~settled[w]
        /\ wpc[w] \in {"get", "db", "set"} => at[w] \in Times
        /\ wpc[w] = "set" => \E i \in Interval : got[w] = <<i>> /\ Covers(i, at[w])

(* A create call between its statements carries a row to insert. *)
DraftInv == \A a \in Admins : apc[a] = "insert" => draft[a].from \in Times /\ draft[a].price \in Prices

(* An interval that gives only prices the table has given. *)
Sound(i) == \A t \in Times : Covers(i, t) => i.price \in listed[t]

(* What the table says now is listed and, if rows never overlapped, all     *)
(* intervals that were ever read from it are sound.                         *)
ListedInv ==
    /\ \A t \in Times : PriceAt(rows, t) \in listed[t]
    /\ ~overlapped =>
          /\ ~Overlap(rows)
          /\ \A i \in cache : Sound(i)
          /\ \A w \in Workers : \A i \in ToSet(intervals[w]) : Sound(i)
          /\ \A w \in Workers : wpc[w] = "set" => Sound(got[w][1])

(* A stale interval was put back late, or some call has yet to look for it  *)
(* or has found it and will delete it.                                      *)
StaleInv ==
    Stale => \/ lateFill
             \/ \E a \in Admins : apc[a] = "scan" \/ (apc[a] = "delete" /\ found[a])

(* While a batch is settled no edit is under way, and every interval that   *)
(* is cached, kept by the batch or about to be cached is a row.             *)
SettledInv ==
    \A w \in Workers : settled[w] =>
        /\ ~Stale /\ ~Editing
        /\ ToSet(intervals[w]) \subseteq ToSet(rows)
        /\ \A v \in Workers : wpc[v] = "set" => got[v][1] \in ToSet(rows)

(* The inductive invariant. *)
IInv ==
    /\ TypeOK
    /\ BatchInv
    /\ DraftInv
    /\ ListedInv
    /\ StaleInv
    /\ SettledInv
    /\ PriceWasListed
    /\ SettledPriceIsRight

-----------------------------------------------------------------------------
(* What the operators of the model return. *)

(* A set of numbers has a least element. *)
LEMMA MinIsLeast ==
    ASSUME NEW S \in SUBSET Nat, S # {}
    PROVE  Min(S) \in S /\ \A y \in S : Min(S) <= y
  <1>1. PICK x \in S : \A y \in S : ~(<<y, x>> \in OpToRel(<, Nat))
    BY NatLessThanWellFounded, WFMin
  <1>2. OpToRel(<, Nat) = {ss \in Nat \X Nat : ss[1] < ss[2]}
    BY DEF OpToRel
  <1>3. \A y \in S : x <= y
    <2>1. ASSUME NEW y \in S, y < x PROVE FALSE
      <3>1. <<y, x>> \in {ss \in Nat \X Nat : ss[1] < ss[2]}
        BY <2>1
      <3> QED
        BY <1>1, <1>2, <3>1
    <2> QED
      BY <2>1
  <1> QED
    BY <1>3 DEF Min

(* A finite set of numbers has a greatest element: a least subset without   *)
(* one would have one more element than a subset that has one.              *)
LEMMA GreatestExists ==
    ASSUME NEW S \in SUBSET Nat, IsFiniteSet(S), S # {}
    PROVE  \E x \in S : \A y \in S : y <= x
  <1> DEFINE Has(T) == \E x \in T : \A y \in T : y <= x
             Bad == {T \in SUBSET S : T # {} /\ ~Has(T)}
  <1>1. ASSUME Bad # {} PROVE FALSE
    <2>1. IsWellFoundedOn(StrictSubsetOrdering(S), SUBSET S)
      BY FS_StrictSubsetOrderingWellFounded, FS_FiniteSubsetsOfFinite
    <2>2. PICK T \in Bad : \A U \in Bad : ~(<<U, T>> \in StrictSubsetOrdering(S))
      <3>1. Bad \subseteq SUBSET S
        OBVIOUS
      <3> HIDE DEF Bad
      <3> QED
        BY <1>1, <2>1, <3>1, WFMin
    <2>3. PICK x \in T : TRUE
      BY <2>2
    <2> DEFINE U == T \ {x}
    <2>4. U \notin Bad
      BY <2>2, <2>3 DEF StrictSubsetOrdering
    <2>5. CASE U = {}
      BY <2>2, <2>3, <2>5
    <2>6. CASE Has(U)
      <3>1. PICK m \in U : \A y \in U : y <= m
        BY <2>6
      <3>2. CASE x <= m
        <4>1. \A y \in T : y <= m
          BY <3>1, <3>2
        <4> QED
          BY <2>2, <3>1, <4>1
      <3>3. CASE m <= x
        <4>1. \A y \in T : y <= x
          BY <2>2, <3>1, <3>3
        <4> QED
          BY <2>2, <2>3, <4>1
      <3> QED
        BY <2>2, <3>1, <3>2, <3>3
    <2> QED
      BY <2>2, <2>4, <2>5, <2>6
  <1> QED
    BY <1>1

(* Points in time are numbers. *)
LEMMA TimesAreNat == Times \subseteq Nat /\ IsFiniteSet(Times) /\ Times # {}
  BY PricingAssumption

(* NULL is a number too. *)
LEMMA NeverIsNat == Never \in Nat
  <1>1. PICK x \in Times : \A y \in Times : y <= x
    BY TimesAreNat, GreatestExists
  <1>2. \E m \in Times : \A y \in Times : m >= y
    BY <1>1, TimesAreNat
  <1>3. Max(Times) \in Times
    BY <1>2 DEF Max
  <1> QED
    <2>1. Max(Times) \in Nat
      BY <1>3, TimesAreNat
    <2> HIDE DEF Max
    <2> QED
      BY <2>1 DEF Never

(* The SELECT of _get_pricing returns one of the valid rows: there is one   *)
(* that starts last.                                                        *)
LEMMA SelectedIsValid ==
    ASSUME NEW R \in Seq(Interval), NEW t \in Times, Valid(R, t) # {}
    PROVE  Selected(R, t) \in Valid(R, t) /\ Selected(R, t) \in Interval
  <1> DEFINE froms == {r.from : r \in Valid(R, t)}
  <1>0. \A r \in Interval : r.from \in Times
    BY DEF Interval
  <1>1. \A r \in Valid(R, t) : r \in Interval /\ r.from \in Times
    BY <1>0 DEF Valid, ToSet
  <1>2. froms \in SUBSET Nat /\ IsFiniteSet(froms) /\ froms # {}
    <2>1. froms \subseteq Times
      BY <1>1
    <2>2. froms # {}
      OBVIOUS
    <2> HIDE DEF froms
    <2>3. IsFiniteSet(froms)
      BY <2>1, TimesAreNat, FS_Subset
    <2> QED
      BY <2>1, <2>2, <2>3, TimesAreNat
  <1> HIDE DEF froms
  <1>3. PICK m \in froms : \A y \in froms : y <= m
    BY <1>2, GreatestExists
  <1>4. PICK r \in Valid(R, t) : \A s \in Valid(R, t) : s.from <= r.from
    BY <1>3 DEF froms
  <1> QED
    BY <1>1, <1>4 DEF Selected

(* A price for every time, or none. *)
LEMMA PriceAtTyped ==
    ASSUME NEW R \in Seq(Interval), NEW t \in Times
    PROVE  PriceAt(R, t) \in Prices \cup {NoPrice}
  BY SelectedIsValid DEF PriceAt, Interval

(* Where rows do not overlap, a row gives the price of the times it covers. *)
LEMMA RowGivesPrice ==
    ASSUME NEW R \in Seq(Interval), ~Overlap(R), NEW t \in Times,
           NEW r \in ToSet(R), Covers(r, t)
    PROVE  PriceAt(R, t) = r.price
  <1>1. \A s \in ToSet(R) : Covers(s, t) => s = r
    BY DEF ToSet, Overlap
  <1>2. Valid(R, t) # {}
    BY DEF Valid
  <1>3. Selected(R, t) \in Valid(R, t)
    BY <1>2, SelectedIsValid
  <1> QED
    BY <1>1, <1>2, <1>3 DEF PriceAt, Valid

(* FirstCovering finds an interval of the list that covers the time, if     *)
(* there is one.                                                            *)
LEMMA FirstCoveringCovers ==
    ASSUME NEW list \in Seq(Interval), NEW t \in Times, NEW i \in FirstCovering(list, t)
    PROVE  i \in ToSet(list) /\ Covers(i, t)
  <1> DEFINE hits == {j \in DOMAIN list : Covers(list[j], t)}
  <1>1. hits \in SUBSET Nat /\ hits # {} /\ i = list[Min(hits)]
    BY DEF FirstCovering
  <1> HIDE DEF hits
  <1>2. Min(hits) \in hits
    BY <1>1, MinIsLeast
  <1> QED
    BY <1>1, <1>2 DEF hits, ToSet

(* A list with one more interval. *)
LEMMA AppendInterval ==
    ASSUME NEW list \in Seq(Interval), NEW i \in Interval
    PROVE  /\ Append(list, i) \in Seq(Interval)
           /\ Len(Append(list, i)) = Len(list) + 1
           /\ ToSet(Append(list, i)) = ToSet(list) \cup {i}
  <1>1. /\ Append(list, i) \in Seq(Interval) /\ Len(Append(list, i)) = Len(list) + 1
        /\ Append(list, i)[Len(list) + 1] = i
        /\ \A j \in 1 .. Len(list) : Append(list, i)[j] = list[j]
    OBVIOUS
  <1>2. DOMAIN Append(list, i) = 1 .. Len(list) + 1 /\ DOMAIN list = 1 .. Len(list)
    BY <1>1
  <1>3. 1 .. Len(list) + 1 = (1 .. Len(list)) \cup {Len(list) + 1}
    OBVIOUS
  <1> QED
    BY <1>1, <1>2, <1>3 DEF ToSet

(* The tables that the admin calls commit. *)
LEMMA ClosedTyped ==
    ASSUME NEW R \in Seq(Interval), NEW d, d.from \in Times
    PROVE  Closed(R, d) \in Seq(Interval) /\ Len(Closed(R, d)) = Len(R)
  <1>0. \A r \in Interval : [r EXCEPT !.to = d.from] \in Interval
    BY DEF Interval
  <1>1. \A i \in 1 .. Len(R) : Closed(R, d)[i] \in Interval
    BY <1>0 DEF Closed
  <1>2. /\ Closed(R, d) = [i \in 1 .. Len(R) |-> Closed(R, d)[i]]
        /\ Len(R) \in Nat
    BY DEF Closed
  <1> QED
    BY <1>1, <1>2

-----------------------------------------------------------------------------
(* Init establishes the inductive invariant. *)
LEMMA InitIInv == Init => IInv
  <1> SUFFICES ASSUME Init PROVE IInv
    OBVIOUS
  <1> USE DEF Init
  <1>1. ToSet(<< >>) = {} /\ << >> \in Seq(Interval) /\ Len(<< >>) = 0
    BY DEF ToSet
  <1>2. TypeOK
    <2>1. Cardinality({}) = 0
      BY FS_EmptySet
    <2>2. edits \in 0 .. MaxEdits /\ batches \in 0 .. MaxBatches /\ 0 \in 0 .. MaxLookups
          /\ Len(rows) <= MaxRows
      BY <1>1, PricingAssumption
    <2>3. Cardinality(cache) <= 1
      BY <2>1
    <2>4. /\ got \in [Workers -> Seq(Interval)] /\ intervals \in [Workers -> Seq(Interval)]
          /\ charged \in [Workers -> {<< >>} \cup (Times \X (Prices \cup {NoPrice}))]
      BY <1>1
    <2>5. lookups \in [Workers -> 0 .. MaxLookups]
      BY <2>2
    <2>6. draft \in [Admins -> [from : Times \cup {0}, price : Prices \cup {NoPrice},
                                matched : SUBSET (1 .. MaxRows)]]
      BY DEF NoDraft
    <2> QED
      BY <1>1, <2>2, <2>3, <2>4, <2>5, <2>6 DEF TypeOK
  <1>3. BatchInv /\ DraftInv /\ SettledInv /\ PriceWasListed /\ SettledPriceIsRight
    BY DEF BatchInv, DraftInv, SettledInv, PriceWasListed, SettledPriceIsRight
  <1>4. ListedInv
    BY <1>1 DEF ListedInv, PriceAt, Valid, Overlap
  <1>5. StaleInv
    BY DEF StaleInv, Stale
  <1> QED
    BY <1>2, <1>3, <1>4, <1>5 DEF IInv

(* An admin call that commits a table keeps the inductive invariant: what   *)
(* was listed stays listed, no batch is settled any more, and the call has  *)
(* yet to scan.                                                             *)
LEMMA CommitTableIInv ==
    ASSUME IInv, NEW a \in Admins, NEW R \in Seq(Interval), Len(R) <= MaxRows,
           CommitTable(a, R), edits' \in 0 .. MaxEdits,
           draft' = draft \/ draft' = [draft EXCEPT ![a] = NoDraft]
    PROVE  IInv'
  <1> USE DEF IInv, CommitTable, batch
  <1>1. \A t \in Times : PriceAt(R, t) \in Prices \cup {NoPrice}
    BY PriceAtTyped
  <1>2. TypeOK'
    <2>1. listed' \in [Times -> SUBSET (Prices \cup {NoPrice})]
      BY <1>1 DEF TypeOK
    <2>2. draft' \in [Admins -> [from : Times \cup {0}, price : Prices \cup {NoPrice},
                                 matched : SUBSET (1 .. MaxRows)]]
      <3>1. NoDraft \in [from : Times \cup {0}, price : Prices \cup {NoPrice},
                         matched : SUBSET (1 .. MaxRows)]
        BY DEF NoDraft
      <3>2. draft \in [Admins -> [from : Times \cup {0}, price : Prices \cup {NoPrice},
                                  matched : SUBSET (1 .. MaxRows)]]
        BY DEF TypeOK
      <3> QED
        BY <3>1, <3>2
    <2> QED
      BY <2>1, <2>2 DEF TypeOK
  <1>3. \A t \in Times : listed[t] \subseteq listed'[t] /\ PriceAt(R, t) \in listed'[t]
    OBVIOUS
  <1>4. BatchInv' /\ SettledInv' /\ SettledPriceIsRight'
    BY DEF BatchInv, SettledInv, SettledPriceIsRight
  <1>8. DraftInv'
    BY DEF TypeOK, DraftInv
  <1>5. ListedInv'
    BY <1>3 DEF ListedInv, Sound
  <1>6. StaleInv'
    BY DEF TypeOK, StaleInv
  <1>7. PriceWasListed'
    <2>1. ASSUME NEW w \in Workers, charged[w] # << >> PROVE charged[w][1] \in Times
      BY <2>1 DEF TypeOK
    <2> QED
      BY <1>3, <2>1 DEF PriceWasListed
  <1> QED
    BY <1>2, <1>4, <1>5, <1>6, <1>7, <1>8

(* An admin call between its statements keeps the inductive invariant. *)
LEMMA CallIInv ==
    ASSUME IInv, NEW a \in Admins, apc[a] \notin {"scan", "delete"},
           NEW to \in {"idle", "insert"}, apc' = [apc EXCEPT ![a] = to],
           NEW d \in [from : Times \cup {0}, price : Prices \cup {NoPrice},
                       matched : SUBSET (1 .. MaxRows)],
           draft' = [draft EXCEPT ![a] = d],
           to = "insert" => d.from \in Times /\ d.price \in Prices,
           UNCHANGED <<table, cache, found, batch, history>>
    PROVE  IInv'
  <1> USE DEF IInv, table, batch, history
  <1>1. TypeOK'
    BY DEF TypeOK
  <1>2. BatchInv' /\ PriceWasListed' /\ SettledPriceIsRight'
    BY DEF BatchInv, PriceWasListed, SettledPriceIsRight
  <1>3. ListedInv'
    BY DEF ListedInv, Sound
  <1>4. DraftInv'
    BY DEF TypeOK, DraftInv
  <1>5. StaleInv'
    BY DEF TypeOK, StaleInv, Stale
  <1>6. SettledInv'
    BY DEF TypeOK, SettledInv, Stale, Editing
  <1> QED
    BY <1>1, <1>2, <1>3, <1>4, <1>5, <1>6

(* CreatePricing keeps the inductive invariant. *)
LEMMA CreatePricingIInv ==
    ASSUME IInv, NEW a \in Admins, NEW from \in Times, NEW price \in Prices,
           CreatePricing(a, from, price)
    PROVE  IInv'
  <1> DEFINE m == {i \in DOMAIN rows : ReachesPast(rows[i], from)}
             d == [from |-> from, price |-> price, matched |-> m]
  <1>1. m \subseteq 1 .. MaxRows
    <2>1. rows \in Seq(Interval) /\ Len(rows) < MaxRows /\ MaxRows \in Nat
      BY PricingAssumption DEF IInv, TypeOK, CreatePricing
    <2>2. DOMAIN rows = 1 .. Len(rows) /\ Len(rows) \in Nat
      BY <2>1
    <2> QED
      BY <2>1, <2>2
  <1> HIDE DEF m
  <1>2. d \in [from : Times \cup {0}, price : Prices \cup {NoPrice},
               matched : SUBSET (1 .. MaxRows)]
    BY <1>1
  <1> QED
    BY <1>2, CallIInv DEF CreatePricing, m

(* InsertPricing keeps the inductive invariant. *)
LEMMA InsertPricingIInv ==
    ASSUME IInv, NEW a \in Admins, InsertPricing(a)
    PROVE  IInv'
  <1> DEFINE d == draft[a]
             row == [from |-> d.from, to |-> Never, price |-> d.price]
             R == Append(Closed(rows, d), row)
  <1>1. rows \in Seq(Interval) /\ Len(rows) < MaxRows
    BY DEF IInv, TypeOK, InsertPricing
  <1>2. d.from \in Times /\ row \in Interval
    BY DEF IInv, DraftInv, InsertPricing, Interval
  <1>3. R \in Seq(Interval) /\ Len(R) = Len(rows) + 1
    BY <1>1, <1>2, ClosedTyped, AppendInterval
  <1>4. Len(R) <= MaxRows
    <2>1. Len(rows) \in Nat /\ MaxRows \in Nat
      BY <1>1, PricingAssumption
    <2> QED
      BY <1>1, <1>3, <2>1
  <1>5. edits' \in 0 .. MaxEdits
    BY DEF IInv, TypeOK, InsertPricing
  <1>6. CASE CommitTable(a, R)
    BY <1>3, <1>4, <1>5, <1>6, CommitTableIInv DEF InsertPricing
  <1>7. CASE apc' = [apc EXCEPT ![a] = "idle"] /\ UNCHANGED <<rows, cache, found, batch, history>>
    <2>1. NoDraft \in [from : Times \cup {0}, price : Prices \cup {NoPrice},
                       matched : SUBSET (1 .. MaxRows)]
      BY DEF NoDraft
    <2> QED
      BY <1>7, <2>1, CallIInv DEF InsertPricing, table
  <1> QED
    BY <1>6, <1>7 DEF InsertPricing

(* A call that changes one row keeps the inductive invariant. *)
LEMMA EditIInv ==
    ASSUME IInv, NEW a \in Admins, NEW n \in DOMAIN rows, NEW r \in Interval,
           edits < MaxEdits, edits' = edits + 1, UNCHANGED draft,
           CommitTable(a, [rows EXCEPT ![n] = r])
    PROVE  IInv'
  <1> DEFINE R == [rows EXCEPT ![n] = r]
  <1>1. rows \in Seq(Interval) /\ Len(rows) <= MaxRows
    BY DEF IInv, TypeOK
  <1>2. R \in Seq(Interval) /\ Len(R) = Len(rows)
    BY <1>1
  <1>3. edits' \in 0 .. MaxEdits
    BY PricingAssumption DEF IInv, TypeOK
  <1> QED
    BY <1>1, <1>2, <1>3, CommitTableIInv

(* UpdatePricing keeps the inductive invariant. *)
LEMMA UpdatePricingIInv ==
    ASSUME IInv, NEW a \in Admins, NEW n \in 1 .. MaxRows, NEW r \in Interval,
           UpdatePricing(a, n, r)
    PROVE  IInv'
  BY EditIInv DEF UpdatePricing

(* EndPricing keeps the inductive invariant. *)
LEMMA EndPricingIInv ==
    ASSUME IInv, NEW a \in Admins, NEW n \in 1 .. MaxRows, NEW to \in Times,
           EndPricing(a, n, to)
    PROVE  IInv'
  <1> DEFINE r == [rows[n] EXCEPT !.to = to]
  <1>1. n \in DOMAIN rows /\ rows[n] \in Interval
    BY DEF IInv, TypeOK, EndPricing
  <1>2. r \in Interval
    BY <1>1 DEF Interval
  <1>3. [rows EXCEPT ![n].to = to] = [rows EXCEPT ![n] = r]
    OBVIOUS
  <1> QED
    BY <1>1, <1>2, <1>3, EditIInv DEF EndPricing

(* ScanKeys keeps the inductive invariant. *)
LEMMA ScanKeysIInv ==
    ASSUME IInv, NEW a \in Admins, ScanKeys(a)
    PROVE  IInv'
  <1> USE DEF IInv, ScanKeys, table, batch
  <1>1. TypeOK'
    BY DEF TypeOK
  <1>2. BatchInv' /\ DraftInv' /\ PriceWasListed' /\ SettledPriceIsRight'
    BY DEF TypeOK, BatchInv, DraftInv, PriceWasListed, SettledPriceIsRight
  <1>3. ListedInv'
    BY DEF ListedInv, Sound
  <1>4. StaleInv'
    BY DEF TypeOK, StaleInv, Stale
  <1>5. SettledInv'
    BY DEF TypeOK, SettledInv, Stale, Editing
  <1> QED
    BY <1>1, <1>2, <1>3, <1>4, <1>5

(* DeleteKeys keeps the inductive invariant. *)
LEMMA DeleteKeysIInv ==
    ASSUME IInv, NEW a \in Admins, DeleteKeys(a)
    PROVE  IInv'
  <1> USE DEF IInv, DeleteKeys, table, batch
  <1>1. TypeOK'
    <2>1. cache' \subseteq Interval /\ Cardinality(cache') <= 1
      <3>1. cache' = {} \/ cache' = cache
        OBVIOUS
      <3>2. Cardinality({}) = 0 /\ cache \subseteq Interval /\ Cardinality(cache) <= 1
        BY FS_EmptySet DEF TypeOK
      <3> QED
        BY <3>1, <3>2
    <2> QED
      BY <2>1 DEF TypeOK
  <1>2. BatchInv' /\ DraftInv' /\ PriceWasListed' /\ SettledPriceIsRight'
    BY DEF TypeOK, BatchInv, DraftInv, PriceWasListed, SettledPriceIsRight
  <1>3. ListedInv'
    BY DEF ListedInv, Sound
  <1>4. StaleInv'
    BY DEF TypeOK, StaleInv, Stale
  <1>5. SettledInv'
    BY DEF TypeOK, SettledInv, Stale, Editing
  <1> QED
    BY <1>1, <1>2, <1>3, <1>4, <1>5

(* Expire keeps the inductive invariant. *)
LEMMA ExpireIInv ==
    ASSUME IInv, Expire
    PROVE  IInv'
  <1> USE DEF IInv, Expire, table, batch
  <1>1. TypeOK'
    <2>1. cache' \subseteq Interval /\ Cardinality(cache') <= 1
      BY FS_EmptySet
    <2> QED
      BY <2>1 DEF TypeOK
  <1>2. BatchInv' /\ DraftInv' /\ PriceWasListed' /\ SettledPriceIsRight'
    BY DEF TypeOK, BatchInv, DraftInv, PriceWasListed, SettledPriceIsRight
  <1>3. ListedInv'
    BY DEF ListedInv, Sound
  <1>4. StaleInv' /\ SettledInv'
    BY DEF StaleInv, SettledInv, Stale, Editing
  <1> QED
    BY <1>1, <1>2, <1>3, <1>4

-----------------------------------------------------------------------------
(* BeginBatch keeps the inductive invariant. *)
LEMMA BeginBatchIInv ==
    ASSUME IInv, NEW w \in Workers, BeginBatch(w)
    PROVE  IInv'
  <1> USE DEF IInv, BeginBatch, table
  <1>0. ToSet(<< >>) = {}
    BY DEF ToSet
  <1>1. TypeOK'
    <2>1. batches' \in 0 .. MaxBatches
      BY PricingAssumption DEF TypeOK
    <2> QED
      BY <2>1 DEF TypeOK
  <1>2. BatchInv' /\ DraftInv'
    BY DEF TypeOK, BatchInv, DraftInv
  <1>3. PriceWasListed'
    BY DEF PriceWasListed
  <1>4. SettledPriceIsRight'
    BY DEF TypeOK, BatchInv, SettledPriceIsRight
  <1>5. ListedInv'
    BY DEF TypeOK, ListedInv, Sound
  <1>6. StaleInv'
    BY DEF StaleInv, Stale
  <1>7. SettledInv'
    BY <1>0 DEF TypeOK, BatchInv, SettledInv, Stale, Editing
  <1> QED
    BY <1>1, <1>2, <1>3, <1>4, <1>5, <1>6, <1>7

(* A batch that is over keeps the inductive invariant. *)
LEMMA DropBatchIInv ==
    ASSUME IInv, NEW w \in Workers, DropBatch(w), UNCHANGED <<cache, lateFill>>
    PROVE  IInv'
  <1> USE DEF IInv, DropBatch, table
  <1>0. ToSet(<< >>) = {} /\ << >> \in Seq(Interval)
    BY DEF ToSet
  <1>1. TypeOK'
    <2>1. lookups' \in [Workers -> 0 .. MaxLookups]
      BY PricingAssumption DEF TypeOK
    <2> QED
      BY <1>0, <2>1 DEF TypeOK
  <1>2. BatchInv' /\ DraftInv'
    BY DEF TypeOK, BatchInv, DraftInv
  <1>3. PriceWasListed'
    BY DEF TypeOK, PriceWasListed
  <1>4. SettledPriceIsRight'
    BY DEF TypeOK, SettledPriceIsRight
  <1>5. ListedInv'
    BY <1>0 DEF TypeOK, ListedInv, Sound
  <1>6. StaleInv'
    BY DEF StaleInv, Stale
  <1>7. SettledInv'
    BY DEF TypeOK, SettledInv, Stale, Editing
  <1> QED
    BY <1>1, <1>2, <1>3, <1>4, <1>5, <1>6, <1>7

(* EndBatch keeps the inductive invariant. *)
LEMMA EndBatchIInv ==
    ASSUME IInv, NEW w \in Workers, EndBatch(w)
    PROVE  IInv'
  BY DropBatchIInv DEF EndBatch

(* LookupRaises keeps the inductive invariant: an interval that is stored   *)
(* although the call fails is a row or known to come late.                  *)
LEMMA LookupRaisesIInv ==
    ASSUME IInv, NEW w \in Workers, LookupRaises(w)
    PROVE  IInv'
  <1> DEFINE Stored == /\ wpc[w] = "set"
                       /\ cache' = ToSet(got[w])
                       /\ lateFill' = (got[w][1] \notin ToSet(rows))
  <1>1. DropBatch(w) /\ (UNCHANGED <<cache, lateFill>> \/ Stored)
    BY DEF LookupRaises
  <1>2. CASE UNCHANGED <<cache, lateFill>>
    BY <1>1, <1>2, DropBatchIInv
  <1>3. CASE Stored
    <2> USE <1>1, <1>3 DEF IInv, DropBatch, table
    <2>0. ToSet(<< >>) = {} /\ << >> \in Seq(Interval)
      BY DEF ToSet
    <2>1. PICK i \in Interval : got[w] = <<i>>
      BY DEF BatchInv
    <2>2. got[w][1] = i /\ cache' = {i}
      BY <2>1 DEF ToSet
    <2>3. /\ wpc'[w] = "off" /\ intervals'[w] = << >> /\ charged'[w] = << >> /\ ~settled'[w]
          /\ \A v \in Workers \ {w} :
                /\ wpc'[v] = wpc[v] /\ got'[v] = got[v] /\ at'[v] = at[v]
                /\ charged'[v] = charged[v] /\ intervals'[v] = intervals[v]
                /\ settled'[v] = settled[v]
      BY DEF TypeOK
    <2>4. TypeOK'
      <3>1. cache' \subseteq Interval /\ Cardinality(cache') <= 1
        <4>1. Cardinality({i}) = 1
          BY FS_Singleton
        <4> QED
          BY <2>2, <4>1
      <3>2. lookups' \in [Workers -> 0 .. MaxLookups]
        BY PricingAssumption DEF TypeOK
      <3>3. /\ got' \in [Workers -> Seq(Interval)] /\ intervals' \in [Workers -> Seq(Interval)]
            /\ charged' \in [Workers -> {<< >>} \cup (Times \X (Prices \cup {NoPrice}))]
            /\ wpc' \in [Workers -> {"off", "run", "get", "db", "set"}]
            /\ at' \in [Workers -> Times \cup {0}] /\ settled' \in [Workers -> BOOLEAN]
        BY <2>0 DEF TypeOK
      <3>4. lateFill' \in BOOLEAN
        OBVIOUS
      <3> QED
        BY <3>1, <3>2, <3>3, <3>4 DEF TypeOK
    <2>5. BatchInv'
      BY <2>3 DEF BatchInv
    <2>6. DraftInv' /\ PriceWasListed'
      BY <2>3 DEF DraftInv, PriceWasListed
    <2>7. SettledPriceIsRight'
      BY <2>3 DEF SettledPriceIsRight
    <2>8. ListedInv'
      <3>1. \A j : Sound(j)' <=> Sound(j)
        BY DEF Sound
      <3>2. ~overlapped => Sound(i)
        BY <2>2 DEF ListedInv
      <3> QED
        BY <2>0, <2>2, <2>3, <3>1, <3>2 DEF ListedInv
    <2>9. StaleInv'
      BY <2>2 DEF StaleInv, Stale
    <2>10. SettledInv'
      <3>1. \A v \in Workers : settled'[v] => settled[v] /\ i \in ToSet(rows)
        BY <2>2, <2>3 DEF SettledInv
      <3> QED
        BY <2>2, <2>3, <3>1 DEF SettledInv, Stale, Editing
    <2> QED
      BY <2>4, <2>5, <2>6, <2>7, <2>8, <2>9, <2>10
  <1> QED
    BY <1>1, <1>2, <1>3

(* A price that a sound interval, or the table, gives may be charged. *)
LEMMA ChargeKeeps ==
    ASSUME IInv, NEW w \in Workers, NEW t \in Times,
           NEW price \in Prices \cup {NoPrice}, Charge(w, t, price),
           UNCHANGED <<rows, listed, overlapped, settled>>,
           ~overlapped => price \in listed[t],
           ~overlapped /\ settled[w] => price = PriceAt(rows, t)
    PROVE  /\ charged' \in [Workers -> {<< >>} \cup (Times \X (Prices \cup {NoPrice}))]
           /\ wpc' \in [Workers -> {"off", "run", "get", "db", "set"}]
           /\ at' \in [Workers -> Times \cup {0}]
           /\ PriceWasListed' /\ SettledPriceIsRight'
  <1> USE DEF IInv, Charge
  <1>1. /\ charged' \in [Workers -> {<< >>} \cup (Times \X (Prices \cup {NoPrice}))]
        /\ charged'[w] = <<t, price>>
        /\ \A v \in Workers \ {w} : charged'[v] = charged[v]
    BY DEF TypeOK
  <1>2. wpc' \in [Workers -> {"off", "run", "get", "db", "set"}]
    BY DEF TypeOK
  <1>3. at' \in [Workers -> Times \cup {0}]
    BY DEF TypeOK
  <1>4. PriceWasListed'
    <2> SUFFICES ASSUME ~overlapped, NEW v \in Workers, charged'[v] # << >>
                 PROVE  charged'[v][2] \in listed[charged'[v][1]]
      BY DEF PriceWasListed
    <2> QED
      BY <1>1 DEF PriceWasListed
  <1>5. SettledPriceIsRight'
    <2> SUFFICES ASSUME ~overlapped, NEW v \in Workers, settled[v], charged'[v] # << >>
                 PROVE  charged'[v][2] = PriceAt(rows, charged'[v][1])
      BY DEF SettledPriceIsRight
    <2> QED
      BY <1>1 DEF SettledPriceIsRight
  <1> QED
    BY <1>1, <1>2, <1>3, <1>4, <1>5

(* Lookup keeps the inductive invariant. *)
LEMMA LookupIInv ==
    ASSUME IInv, NEW w \in Workers, NEW t \in Times, Lookup(w, t)
    PROVE  IInv'
  <1> USE DEF IInv, Lookup, table, history
  <1>0. lookups' \in [Workers -> 0 .. MaxLookups]
    <2>1. lookups[w] + 1 \in 0 .. MaxLookups
      BY PricingAssumption DEF TypeOK
    <2> QED
      BY <2>1 DEF TypeOK
  <1>1. CASE \E i \in FirstCovering(intervals[w], t) : Charge(w, t, i.price)
    <2> PICK i \in FirstCovering(intervals[w], t) : Charge(w, t, i.price)
      BY <1>1
    <2>1. intervals[w] \in Seq(Interval)
      BY DEF TypeOK
    <2>2. i \in ToSet(intervals[w]) /\ Covers(i, t)
      BY <2>1, FirstCoveringCovers
    <2>3. i.price \in Prices
      <3>1. i \in Interval
        BY <2>1, <2>2 DEF ToSet
      <3> QED
        BY <3>1 DEF Interval
    <2>4. ~overlapped => i.price \in listed[t]
      BY <2>2 DEF ListedInv, Sound
    <2>5. ~overlapped /\ settled[w] => i.price = PriceAt(rows, t)
      BY <2>2, RowGivesPrice DEF ListedInv, SettledInv, TypeOK
    <2>6. /\ charged' \in [Workers -> {<< >>} \cup (Times \X (Prices \cup {NoPrice}))]
          /\ wpc' \in [Workers -> {"off", "run", "get", "db", "set"}]
          /\ at' \in [Workers -> Times \cup {0}]
          /\ PriceWasListed' /\ SettledPriceIsRight'
      BY <2>3, <2>4, <2>5, ChargeKeeps
    <2>7. TypeOK'
      BY <1>0, <2>6 DEF TypeOK
    <2>8. BatchInv' /\ DraftInv'
      BY DEF TypeOK, BatchInv, DraftInv, Charge
    <2>9. ListedInv'
      BY DEF TypeOK, ListedInv, Sound, Charge
    <2>10. StaleInv'
      BY DEF StaleInv, Stale
    <2>11. SettledInv'
      BY DEF TypeOK, SettledInv, Stale, Editing, Charge
    <2> QED
      BY <2>6, <2>7, <2>8, <2>9, <2>10, <2>11
  <1>2. CASE /\ at' = [at EXCEPT ![w] = t]
             /\ wpc' = [wpc EXCEPT ![w] = "get"]
             /\ UNCHANGED charged
    <2> USE <1>2
    <2>1. TypeOK'
      BY <1>0 DEF TypeOK
    <2>2. BatchInv' /\ DraftInv'
      BY DEF TypeOK, BatchInv, DraftInv
    <2>3. ListedInv'
      BY DEF TypeOK, ListedInv, Sound
    <2>4. StaleInv'
      BY DEF StaleInv, Stale
    <2>5. SettledInv'
      BY DEF TypeOK, SettledInv, Stale, Editing
    <2>6. PriceWasListed' /\ SettledPriceIsRight'
      BY DEF PriceWasListed, SettledPriceIsRight
    <2> QED
      BY <2>1, <2>2, <2>3, <2>4, <2>5, <2>6
  <1> QED
    BY <1>1, <1>2

(* An interval that a batch keeps beside those it has. *)
LEMMA KeepInterval ==
    ASSUME IInv, NEW w \in Workers, NEW i \in Interval, Keep(w, i)
    PROVE  /\ intervals' \in [Workers -> Seq(Interval)]
           /\ ToSet(intervals'[w]) = ToSet(intervals[w]) \cup {i}
           /\ \A v \in Workers \ {w} : intervals'[v] = intervals[v]
  <1>1. intervals[w] \in Seq(Interval) /\ intervals \in [Workers -> Seq(Interval)]
    BY DEF IInv, TypeOK
  <1>2. /\ intervals'[w] = Append(intervals[w], i)
        /\ \A v \in Workers \ {w} : intervals'[v] = intervals[v]
    BY <1>1 DEF Keep
  <1>3. /\ Append(intervals[w], i) \in Seq(Interval)
        /\ ToSet(Append(intervals[w], i)) = ToSet(intervals[w]) \cup {i}
    BY <1>1, AppendInterval
  <1> QED
    BY <1>1, <1>2, <1>3 DEF Keep

(* CacheGet keeps the inductive invariant. *)
LEMMA CacheGetIInv ==
    ASSUME IInv, NEW w \in Workers, CacheGet(w)
    PROVE  IInv'
  <1> USE DEF IInv, CacheGet, table, history
  <1>0. at[w] \in Times
    BY DEF BatchInv
  <1>1. CASE \E i \in CachedFor(at[w]) : Charge(w, at[w], i.price) /\ Keep(w, i)
    <2> PICK i \in CachedFor(at[w]) : Charge(w, at[w], i.price) /\ Keep(w, i)
      BY <1>1
    <2>1. i \in cache /\ i \in Interval /\ Covers(i, at[w])
      BY DEF CachedFor, TypeOK
    <2>2. i.price \in Prices
      BY <2>1 DEF Interval
    <2>3. ~overlapped => i.price \in listed[at[w]] /\ Sound(i)
      BY <1>0, <2>1 DEF ListedInv, Sound
    <2>4. settled[w] => i \in ToSet(rows)
      BY <2>1 DEF SettledInv, Stale
    <2>5. ~overlapped /\ settled[w] => i.price = PriceAt(rows, at[w])
      BY <1>0, <2>1, <2>4, RowGivesPrice DEF ListedInv, TypeOK
    <2>6. /\ charged' \in [Workers -> {<< >>} \cup (Times \X (Prices \cup {NoPrice}))]
          /\ wpc' \in [Workers -> {"off", "run", "get", "db", "set"}]
          /\ at' \in [Workers -> Times \cup {0}]
          /\ PriceWasListed' /\ SettledPriceIsRight'
      BY <1>0, <2>2, <2>3, <2>5, ChargeKeeps
    <2>7. /\ intervals' \in [Workers -> Seq(Interval)]
          /\ ToSet(intervals'[w]) = ToSet(intervals[w]) \cup {i}
          /\ \A v \in Workers \ {w} : intervals'[v] = intervals[v]
      BY <2>1, KeepInterval
    <2>8. TypeOK'
      BY <2>6, <2>7 DEF TypeOK
    <2>9. BatchInv' /\ DraftInv'
      BY <2>7 DEF TypeOK, BatchInv, DraftInv, Charge
    <2>10. ListedInv'
      <3>1. \A j : Sound(j)' <=> Sound(j)
        BY DEF Sound
      <3>2. \A v \in Workers : wpc'[v] = "set" => wpc[v] = "set"
        BY DEF TypeOK, Charge
      <3>3. ~overlapped => \A v \in Workers : \A j \in ToSet(intervals'[v]) : Sound(j)
        BY <2>3, <2>7 DEF ListedInv
      <3> QED
        BY <3>1, <3>2, <3>3 DEF ListedInv
    <2>11. StaleInv'
      BY DEF StaleInv, Stale
    <2>12. SettledInv'
      <3>1. \A v \in Workers : wpc'[v] = "set" => wpc[v] = "set"
        BY DEF TypeOK, Charge
      <3>2. \A v \in Workers : settled[v] => ToSet(intervals'[v]) \subseteq ToSet(rows)
        BY <2>4, <2>7 DEF SettledInv
      <3> QED
        BY <3>1, <3>2 DEF SettledInv, Stale, Editing
    <2> QED
      BY <2>6, <2>8, <2>9, <2>10, <2>11, <2>12
  <1>2. CASE wpc' = [wpc EXCEPT ![w] = "db"] /\ UNCHANGED <<charged, intervals, at>>
    <2> USE <1>2
    <2>1. TypeOK'
      BY DEF TypeOK
    <2>2. BatchInv' /\ DraftInv'
      BY DEF TypeOK, BatchInv, DraftInv
    <2>3. ListedInv'
      BY DEF TypeOK, ListedInv, Sound
    <2>4. StaleInv'
      BY DEF StaleInv, Stale
    <2>5. SettledInv'
      BY DEF TypeOK, SettledInv, Stale, Editing
    <2>6. PriceWasListed' /\ SettledPriceIsRight'
      BY DEF PriceWasListed, SettledPriceIsRight
    <2> QED
      BY <2>1, <2>2, <2>3, <2>4, <2>5, <2>6
  <1> QED
    BY <1>1, <1>2

(* ReadTable keeps the inductive invariant. *)
LEMMA ReadTableIInv ==
    ASSUME IInv, NEW w \in Workers, ReadTable(w)
    PROVE  IInv'
  <1> USE DEF IInv, ReadTable, table, history
  <1>0. at[w] \in Times /\ rows \in Seq(Interval)
    BY DEF BatchInv, TypeOK
  <1>1. CASE Valid(rows, at[w]) = {} /\ Charge(w, at[w], NoPrice) /\ UNCHANGED got
    <2>1. PriceAt(rows, at[w]) = NoPrice /\ NoPrice \in listed[at[w]]
      BY <1>0, <1>1 DEF PriceAt, ListedInv
    <2>2. /\ charged' \in [Workers -> {<< >>} \cup (Times \X (Prices \cup {NoPrice}))]
          /\ wpc' \in [Workers -> {"off", "run", "get", "db", "set"}]
          /\ at' \in [Workers -> Times \cup {0}]
          /\ PriceWasListed' /\ SettledPriceIsRight'
      BY <1>0, <1>1, <2>1, ChargeKeeps
    <2>3. TypeOK'
      BY <1>1, <2>2 DEF TypeOK
    <2>4. BatchInv' /\ DraftInv'
      BY <1>1 DEF TypeOK, BatchInv, DraftInv, Charge
    <2>5. ListedInv'
      BY <1>1 DEF TypeOK, ListedInv, Sound, Charge
    <2>6. StaleInv'
      BY DEF StaleInv, Stale
    <2>7. SettledInv'
      BY <1>1 DEF TypeOK, SettledInv, Stale, Editing, Charge
    <2> QED
      BY <2>2, <2>3, <2>4, <2>5, <2>6, <2>7
  <1>2. CASE /\ Valid(rows, at[w]) # {}
             /\ got' = [got EXCEPT ![w] = <<Selected(rows, at[w])>>]
             /\ wpc' = [wpc EXCEPT ![w] = "set"] /\ UNCHANGED <<charged, at>>
    <2> DEFINE r == Selected(rows, at[w])
    <2> USE <1>2
    <2>1. r \in Interval /\ r \in ToSet(rows) /\ Covers(r, at[w])
      BY <1>0, SelectedIsValid DEF Valid
    <2> HIDE DEF r
    <2>2. ~overlapped => Sound(r)
      BY <1>0, <2>1, RowGivesPrice DEF ListedInv, Sound
    <2>3. /\ got' \in [Workers -> Seq(Interval)]
          /\ got'[w] = <<r>> /\ got'[w][1] = r
          /\ \A v \in Workers \ {w} : got'[v] = got[v]
      BY <2>1 DEF TypeOK, r
    <2>4. /\ wpc' \in [Workers -> {"off", "run", "get", "db", "set"}] /\ wpc'[w] = "set"
          /\ \A v \in Workers \ {w} : wpc'[v] = wpc[v]
      BY DEF TypeOK
    <2>5. TypeOK'
      BY <2>3, <2>4 DEF TypeOK
    <2>6. BatchInv' /\ DraftInv'
      BY <1>0, <2>1, <2>3, <2>4 DEF TypeOK, BatchInv, DraftInv
    <2>7. ListedInv'
      BY <2>2, <2>3, <2>4 DEF ListedInv, Sound
    <2>8. StaleInv'
      BY DEF StaleInv, Stale
    <2>9. SettledInv'
      BY <2>1, <2>3, <2>4 DEF SettledInv, Stale, Editing
    <2>10. PriceWasListed' /\ SettledPriceIsRight'
      BY DEF PriceWasListed, SettledPriceIsRight
    <2> QED
      BY <2>5, <2>6, <2>7, <2>8, <2>9, <2>10
  <1> QED
    BY <1>1, <1>2

(* CacheSet keeps the inductive invariant: an interval that it caches and   *)
(* that is no row is known to come late.                                    *)
LEMMA CacheSetIInv ==
    ASSUME IInv, NEW w \in Workers, CacheSet(w)
    PROVE  IInv'
  <1> USE DEF IInv, CacheSet, table
  <1>0. at[w] \in Times
    BY DEF BatchInv
  <1>1. PICK i \in Interval : got[w] = <<i>> /\ Covers(i, at[w])
    BY DEF BatchInv
  <1>2. got[w][1] = i /\ ToSet(got[w]) = {i} /\ i.price \in Prices
    BY <1>1 DEF ToSet, Interval
  <1>3. ~overlapped => Sound(i) /\ i.price \in listed[at[w]]
    BY <1>0, <1>1, <1>2 DEF ListedInv, Sound
  <1>4. \A v \in Workers : settled[v] => i \in ToSet(rows)
    BY <1>2 DEF SettledInv
  <1>5. ~overlapped /\ settled[w] => i.price = PriceAt(rows, at[w])
    BY <1>0, <1>1, <1>4, RowGivesPrice DEF ListedInv, TypeOK
  <1>6. /\ charged' \in [Workers -> {<< >>} \cup (Times \X (Prices \cup {NoPrice}))]
        /\ wpc' \in [Workers -> {"off", "run", "get", "db", "set"}]
        /\ at' \in [Workers -> Times \cup {0}]
        /\ PriceWasListed' /\ SettledPriceIsRight'
    BY <1>0, <1>2, <1>3, <1>5, ChargeKeeps
  <1>7. /\ intervals' \in [Workers -> Seq(Interval)]
        /\ ToSet(intervals'[w]) = ToSet(intervals[w]) \cup {i}
        /\ \A v \in Workers \ {w} : intervals'[v] = intervals[v]
    BY <1>2, KeepInterval
  <1>8. /\ wpc'[w] = "run"
        /\ \A v \in Workers \ {w} :
              wpc'[v] = wpc[v] /\ got'[v] = got[v] /\ at'[v] = at[v]
                /\ charged'[v] = charged[v]
    BY DEF TypeOK, Charge
  <1>9. TypeOK'
    <2>1. cache' = {i} /\ Cardinality({i}) = 1
      BY <1>2, FS_Singleton
    <2>2. cache' \subseteq Interval /\ Cardinality(cache') <= 1
      BY <2>1
    <2>3. got' \in [Workers -> Seq(Interval)]
      BY DEF TypeOK
    <2>4. lateFill' \in BOOLEAN
      OBVIOUS
    <2> QED
      BY <1>6, <1>7, <2>2, <2>3, <2>4 DEF TypeOK
  <1>10. BatchInv' /\ DraftInv'
    BY <1>7, <1>8 DEF TypeOK, BatchInv, DraftInv
  <1>11. ListedInv'
    <2>1. \A j : Sound(j)' <=> Sound(j)
      BY DEF Sound
    <2>2. ~overlapped => /\ \A j \in cache' : Sound(j)
                         /\ \A v \in Workers : \A j \in ToSet(intervals'[v]) : Sound(j)
      BY <1>2, <1>3, <1>7 DEF ListedInv
    <2>3. ~overlapped => \A v \in Workers : wpc'[v] = "set" => Sound(got'[v][1])
      BY <1>8 DEF ListedInv
    <2> QED
      BY <2>1, <2>2, <2>3 DEF ListedInv
  <1>12. StaleInv'
    BY <1>2 DEF StaleInv, Stale
  <1>13. SettledInv'
    BY <1>2, <1>4, <1>7, <1>8 DEF SettledInv, Stale, Editing
  <1> QED
    BY <1>6, <1>9, <1>10, <1>11, <1>12, <1>13

-----------------------------------------------------------------------------
(* Every step of an admin call, a batch or the cache keeps the inductive    *)
(* invariant.                                                               *)
LEMMA NextIInv == IInv /\ [Next]_vars => IInv'
  <1> SUFFICES ASSUME IInv, [Next]_vars PROVE IInv'
    OBVIOUS
  <1>1. CASE UNCHANGED vars
    BY <1>1 DEF vars, table, batch, history, IInv, TypeOK, BatchInv, DraftInv, ListedInv,
                Sound, StaleInv, SettledInv, Stale, Editing, PriceWasListed,
                SettledPriceIsRight
  <1>2. CASE Next
    BY <1>2, CreatePricingIInv, InsertPricingIInv, UpdatePricingIInv, EndPricingIInv, ScanKeysIInv,
       DeleteKeysIInv, ExpireIInv, BeginBatchIInv, EndBatchIInv, LookupIInv,
       CacheGetIInv, ReadTableIInv, CacheSetIInv, LookupRaisesIInv
    DEF Next, AdminStep, BatchStep
  <1> QED
    BY <1>1, <1>2

(* The inductive invariant holds in every reachable state. *)
THEOREM Invariance == Spec => []IInv
  BY InitIInv, NextIInv, PTL DEF Spec

(* CostService.calculate charges only prices that the table gave for the    *)
(* span's start at some time, as long as rows never overlapped.             *)
THEOREM ListedPrices == Spec => []PriceWasListed
  BY Invariance, PTL DEF IInv

(* CostService.calculate charges what the table says while the batch is     *)
(* settled, whatever is cached, expires or is looked up by other batches.   *)
THEOREM SettledPrices == Spec => []SettledPriceIsRight
  BY Invariance, PTL DEF IInv

(* invalidate_pricing_cache: a cached interval that is no row has a call    *)
(* that is still to delete it, or came back late, with any number of admin  *)
(* calls at once.                                                           *)
THEOREM StaleExplained == Spec => []StaleIsExplained
  <1>1. IInv => StaleIsExplained
    BY DEF IInv, StaleInv, StaleIsExplained, Editing
  <1> QED
    BY <1>1, Invariance, PTL
=============================================================================
