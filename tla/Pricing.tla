------------------------------ MODULE Pricing -------------------------------
(***************************************************************************)
(* The price of one provider and model: the model_pricing rows that the    *)
(* platform admin creates, edits and ends, the interval that Redis caches, *)
(* and the CostService of each span batch with its own list of intervals.  *)
(* Rows, cache keys and lists of different models never meet, so one model *)
(* is enough.                                                              *)
(*                                                                         *)
(* A price stands for both costs per 1k tokens; the multiplication by the  *)
(* span's tokens is left out.  One action per await.                       *)
(***************************************************************************)
EXTENDS Integers, Sequences, FiniteSets, FiniteSetsExt, SequencesExt

CONSTANTS
    Times,       \* points in time, a set of positive numbers
    Prices,      \* costs per 1k tokens
    NoPrice,     \* the zero cost of a span without a price
    MaxRows,     \* bound: rows that are ever created
    MaxEdits,    \* bound: update and end calls
    Admins,      \* concurrent /v1/pricing calls
    Workers,     \* concurrent process_span_batch executions
    RedisFails,  \* Redis calls, and the lookup's SELECT, may raise
    MaxLookups,  \* bound: lookups of one batch
    MaxBatches   \* bound: batches

ASSUME PricingAssumption ==
    /\ Times \subseteq Nat \ {0} /\ IsFiniteSet(Times) /\ Times # {}
    /\ NoPrice \notin Prices /\ RedisFails \in BOOLEAN
    /\ {MaxRows, MaxEdits, MaxLookups, MaxBatches} \subseteq Nat

VARIABLES
    rows,        \* model_pricing, in the order of their ids
    cache,       \* the key pricing:<provider>:<model>:active: {} or {interval}
    edits,       \* update and end calls so far
    apc,         \* each admin call: "idle", "insert", "scan" or "delete"
    draft,       \* a create call between its two statements: the new row's
                 \* from and price, and the rows its UPDATE has matched
    found,       \* the scan saw the active key
    wpc,         \* each batch: "off", "run", "get", "db" or "set"
    at,          \* started_at of the span it prices
    got,         \* << >> or the row its SELECT returned
    intervals,   \* _batch_pricing_intervals
    charged,     \* << >> or <<time, price>> of its last lookup
    lookups,     \* lookups of the batch so far
    batches,     \* batches so far
    listed,      \* prices the table has ever given for each time (history)
    overlapped,  \* two rows have been valid at one time (history)
    lateFill,    \* the cached interval outlived an invalidation (history)
    settled      \* no edit since the batch began with a true cache (history)

table == <<rows, edits>>
batch == <<wpc, at, got, intervals, charged, lookups, batches>>
history == <<listed, overlapped, lateFill, settled>>
vars == <<table, cache, apc, draft, found, batch, history>>

-----------------------------------------------------------------------------
Never == Max(Times) + 1   \* valid_to IS NULL

Interval == [from : Times, to : Times \cup {Never}, price : Prices]

Covers(i, t) == i.from <= t /\ t < i.to

(* SELECT ... WHERE valid_from <= t AND (valid_to IS NULL OR valid_to > t) *)
(* ORDER BY valid_from DESC LIMIT 1, over a table of rows.                 *)
Valid(R, t) == {r \in ToSet(R) : Covers(r, t)}
Selected(R, t) == CHOOSE r \in Valid(R, t) : \A s \in Valid(R, t) : s.from <= r.from
PriceAt(R, t) == IF Valid(R, t) = {} THEN NoPrice ELSE Selected(R, t).price

Overlap(R) == \E i, j \in DOMAIN R : i # j /\ \E t \in Times : Covers(R[i], t) /\ Covers(R[j], t)

(* The cached interval is not a row (any more). *)
Stale == \E i \in cache : i \notin ToSet(rows)

(* A call has committed its edit and is yet to clear the cache. *)
Editing == \E a \in Admins : apc[a] \in {"scan", "delete"}

TypeOK ==
    /\ rows \in Seq(Interval) /\ Len(rows) <= MaxRows
    /\ cache \subseteq Interval /\ Cardinality(cache) <= 1
    /\ edits \in 0 .. MaxEdits
    /\ apc \in [Admins -> {"idle", "insert", "scan", "delete"}]
    /\ draft \in [Admins -> [from : Times \cup {0}, price : Prices \cup {NoPrice},
                             matched : SUBSET (1 .. MaxRows)]]
    /\ found \in [Admins -> BOOLEAN]
    /\ wpc \in [Workers -> {"off", "run", "get", "db", "set"}]
    /\ at \in [Workers -> Times \cup {0}]
    /\ got \in [Workers -> Seq(Interval)]
    /\ intervals \in [Workers -> Seq(Interval)]
    /\ charged \in [Workers -> {<< >>} \cup (Times \X (Prices \cup {NoPrice}))]
    /\ lookups \in [Workers -> 0 .. MaxLookups]
    /\ batches \in 0 .. MaxBatches
    /\ listed \in [Times -> SUBSET (Prices \cup {NoPrice})]
    /\ overlapped \in BOOLEAN /\ lateFill \in BOOLEAN
    /\ settled \in [Workers -> BOOLEAN]

NoDraft == [from |-> 0, price |-> NoPrice, matched |-> {}]

Init ==
    /\ rows = << >> /\ cache = {} /\ edits = 0
    /\ apc = [a \in Admins |-> "idle"] /\ draft = [a \in Admins |-> NoDraft]
    /\ found = [a \in Admins |-> FALSE]
    /\ wpc = [w \in Workers |-> "off"] /\ at = [w \in Workers |-> 0]
    /\ got = [w \in Workers |-> << >>] /\ intervals = [w \in Workers |-> << >>]
    /\ charged = [w \in Workers |-> << >>]
    /\ lookups = [w \in Workers |-> 0] /\ batches = 0
    /\ listed = [t \in Times |-> {NoPrice}]
    /\ overlapped = FALSE /\ lateFill = FALSE
    /\ settled = [w \in Workers |-> FALSE]

-----------------------------------------------------------------------------
(* The unique constraint on (provider, model, valid_from). *)
Unique(R) == \A i, j \in DOMAIN R : R[i].from = R[j].from => i = j

(* An admin call commits the table R; a call that breaks the constraint is *)
(* rolled back.                                                            *)
CommitTable(a, R) ==
    /\ Unique(R)
    /\ rows' = R
    /\ apc' = [apc EXCEPT ![a] = "scan"]
    /\ listed' = [t \in Times |-> listed[t] \cup {PriceAt(R, t)}]
    /\ overlapped' = (overlapped \/ Overlap(R))
    /\ settled' = [w \in Workers |-> FALSE]
    /\ UNCHANGED <<cache, found, batch, lateFill>>

(* The WHERE of create_pricing's UPDATE: rows that begin before the new one *)
(* and reach past its start.                                                *)
ReachesPast(r, from) == r.from < from /\ r.to > from

(* create_pricing, first statement: the UPDATE matches rows of the table as  *)
(* it was committed when the statement began.                                *)
CreatePricing(a, from, price) ==
    /\ apc[a] = "idle" /\ Len(rows) < MaxRows
    /\ apc' = [apc EXCEPT ![a] = "insert"]
    /\ draft' = [draft EXCEPT ![a] =
                    [from |-> from, price |-> price,
                     matched |-> {i \in DOMAIN rows : ReachesPast(rows[i], from)}]]
    /\ UNCHANGED <<table, cache, found, batch, history>>

(* Under READ COMMITTED a matched row that another call changes first is     *)
(* tested again in its new version, and a row that another call inserts      *)
(* meanwhile is not seen.  Matched rows end where the new one begins.        *)
Closed(R, d) ==
    [i \in DOMAIN R |-> IF i \in d.matched /\ ReachesPast(R[i], d.from)
                          THEN [R[i] EXCEPT !.to = d.from] ELSE R[i]]

(* create_pricing, second statement: INSERT of an open row, and the commit;  *)
(* a row that begins at the same time fails the call.                        *)
InsertPricing(a) ==
    LET d == draft[a]
        R == Append(Closed(rows, d), [from |-> d.from, to |-> Never, price |-> d.price])
    IN
    /\ apc[a] = "insert" /\ Len(rows) < MaxRows
    /\ \/ CommitTable(a, R)
       \/ /\ ~Unique(R)
          /\ apc' = [apc EXCEPT ![a] = "idle"]
          /\ UNCHANGED <<rows, cache, found, batch, history>>
    /\ draft' = [draft EXCEPT ![a] = NoDraft]
    /\ UNCHANGED edits

(* update_pricing: any of price, valid_from and valid_to of one row.  (A NULL *)
(* is no update, so valid_to cannot be cleared.)                              *)
UpdatePricing(a, n, r) ==
    /\ apc[a] = "idle" /\ edits < MaxEdits /\ n \in DOMAIN rows
    /\ r # rows[n] /\ (r.to = rows[n].to \/ r.to # Never)
    /\ CommitTable(a, [rows EXCEPT ![n] = r])
    /\ edits' = edits + 1
    /\ UNCHANGED draft

(* end_pricing: valid_to of one row. *)
EndPricing(a, n, to) ==
    /\ apc[a] = "idle" /\ edits < MaxEdits /\ n \in DOMAIN rows
    /\ CommitTable(a, [rows EXCEPT ![n].to = to])
    /\ edits' = edits + 1
    /\ UNCHANGED draft

(* invalidate_pricing_cache, first half: SCAN for the pair's keys.  A Redis *)
(* error leaves the call with the table committed and the key in place.     *)
ScanKeys(a) ==
    /\ apc[a] = "scan"
    /\ \/ /\ apc' = [apc EXCEPT ![a] = "delete"]
          /\ found' = [found EXCEPT ![a] = cache # {}]
          /\ UNCHANGED lateFill
       \/ /\ RedisFails
          /\ apc' = [apc EXCEPT ![a] = "idle"]
          /\ lateFill' = (lateFill \/ Stale)
          /\ UNCHANGED found
    /\ UNCHANGED <<table, cache, draft, batch, listed, overlapped, settled>>

(* Seeded fault: only the legacy key is deleted. *)
DeleteKeys_Legacy(a) ==
    /\ apc[a] = "delete"
    /\ apc' = [apc EXCEPT ![a] = "idle"]
    /\ UNCHANGED <<table, cache, draft, found, batch, history>>

(* Second half: DEL of the legacy key and the keys the scan returned, which *)
(* may fail too.                                                            *)
DeleteKeys(a) ==
    /\ apc[a] = "delete"
    /\ apc' = [apc EXCEPT ![a] = "idle"]
    /\ \/ /\ cache' = IF found[a] THEN {} ELSE cache
          /\ lateFill' = (lateFill /\ ~found[a])
       \/ /\ RedisFails
          /\ lateFill' = (lateFill \/ Stale)
          /\ UNCHANGED cache
    /\ found' = [found EXCEPT ![a] = FALSE]
    /\ UNCHANGED <<table, draft, batch, listed, overlapped, settled>>

(* The cached interval's CACHE_TTL runs out. *)
Expire ==
    /\ cache # {}
    /\ cache' = {} /\ lateFill' = FALSE
    /\ UNCHANGED <<table, apc, draft, found, batch, listed, overlapped, settled>>

-----------------------------------------------------------------------------
(* A batch starts with a CostService of its own, which ends with it. *)
BeginBatch(w) ==
    /\ wpc[w] = "off" /\ batches < MaxBatches
    /\ wpc' = [wpc EXCEPT ![w] = "run"]
    /\ batches' = batches + 1
    /\ settled' = [settled EXCEPT ![w] = ~Stale /\ ~Editing
                     /\ \A v \in Workers \ {w} : wpc[v] # "set"]
    /\ UNCHANGED <<table, cache, apc, draft, found, at, got, intervals, charged, lookups,
                   listed, overlapped, lateFill>>

(* The first interval of a list that covers t, as a set. *)
FirstCovering(list, t) ==
    LET hits == {i \in DOMAIN list : Covers(list[i], t)} IN
    IF hits = {} THEN {} ELSE {list[Min(hits)]}

Charge(w, t, price) ==
    /\ charged' = [charged EXCEPT ![w] = <<t, price>>]
    /\ wpc' = [wpc EXCEPT ![w] = "run"]
    /\ at' = [at EXCEPT ![w] = 0]

Keep(w, i) == intervals' = [intervals EXCEPT ![w] = Append(@, i)]

(* calculate for a span that started at t: the batch's own intervals first. *)
Lookup(w, t) ==
    LET hit == FirstCovering(intervals[w], t) IN
    /\ wpc[w] = "run" /\ lookups[w] < MaxLookups
    /\ lookups' = [lookups EXCEPT ![w] = @ + 1]
    /\ \/ hit # {} /\ \E i \in hit : Charge(w, t, i.price)
       \/ /\ hit = {}
          /\ at' = [at EXCEPT ![w] = t]
          /\ wpc' = [wpc EXCEPT ![w] = "get"]
          /\ UNCHANGED charged
    /\ UNCHANGED <<table, cache, apc, draft, found, got, intervals, batches, history>>

(* Seeded fault: a cached interval is used whatever time it covers. *)
CachedFor_AnyTime(t) == cache

CachedFor(t) == {i \in cache : Covers(i, t)}

(* _get_pricing: GET, and use the interval if it covers the time. *)
CacheGet(w) ==
    LET hit == CachedFor(at[w]) IN
    /\ wpc[w] = "get"
    /\ \/ \E i \in hit : Charge(w, at[w], i.price) /\ Keep(w, i)
       \/ hit = {} /\ wpc' = [wpc EXCEPT ![w] = "db"] /\ UNCHANGED <<charged, intervals, at>>
    /\ UNCHANGED <<table, cache, apc, draft, found, got, lookups, batches, history>>

(* The SELECT.  A missing price costs nothing and is not cached. *)
ReadTable(w) ==
    /\ wpc[w] = "db"
    /\ \/ /\ Valid(rows, at[w]) = {}
          /\ Charge(w, at[w], NoPrice)
          /\ UNCHANGED got
       \/ /\ Valid(rows, at[w]) # {}
          /\ got' = [got EXCEPT ![w] = <<Selected(rows, at[w])>>]
          /\ wpc' = [wpc EXCEPT ![w] = "set"] /\ UNCHANGED <<charged, at>>
    /\ UNCHANGED <<table, cache, apc, draft, found, intervals, lookups, batches, history>>

(* SETEX replaces the one cached interval, whatever happened since the SELECT. *)
CacheSet(w) ==
    /\ wpc[w] = "set"
    /\ cache' = ToSet(got[w])
    /\ lateFill' = (got[w][1] \notin ToSet(rows))
    /\ Charge(w, at[w], got[w][1].price)
    /\ Keep(w, got[w][1])
    /\ got' = [got EXCEPT ![w] = << >>]
    /\ UNCHANGED <<table, apc, draft, found, lookups, batches, listed, overlapped, settled>>

(* The task is over, and its CostService with it. *)
DropBatch(w) ==
    /\ wpc' = [wpc EXCEPT ![w] = "off"]
    /\ at' = [at EXCEPT ![w] = 0]
    /\ got' = [got EXCEPT ![w] = << >>]
    /\ intervals' = [intervals EXCEPT ![w] = << >>]
    /\ charged' = [charged EXCEPT ![w] = << >>]
    /\ lookups' = [lookups EXCEPT ![w] = 0]
    /\ settled' = [settled EXCEPT ![w] = FALSE]
    /\ UNCHANGED <<table, apc, draft, found, batches, listed, overlapped>>

EndBatch(w) ==
    /\ wpc[w] = "run"
    /\ DropBatch(w)
    /\ UNCHANGED <<cache, lateFill>>

(* An error of GET, SELECT or SETEX is not caught in _get_pricing: it is a   *)
(* transient one and ends the task, to be retried as a new batch.  A SETEX   *)
(* whose answer is lost may have filled the cache.                           *)
LookupRaises(w) ==
    /\ RedisFails /\ wpc[w] \in {"get", "db", "set"}
    /\ \/ UNCHANGED <<cache, lateFill>>
       \/ /\ wpc[w] = "set"
          /\ cache' = ToSet(got[w])
          /\ lateFill' = (got[w][1] \notin ToSet(rows))
    /\ DropBatch(w)

-----------------------------------------------------------------------------
AdminStep(a) ==
    \/ \E from \in Times, price \in Prices : CreatePricing(a, from, price)
    \/ \E n \in 1 .. MaxRows, r \in Interval : UpdatePricing(a, n, r)
    \/ \E n \in 1 .. MaxRows, to \in Times : EndPricing(a, n, to)
    \/ InsertPricing(a) \/ ScanKeys(a) \/ DeleteKeys(a)

BatchStep(w) ==
    \/ BeginBatch(w) \/ EndBatch(w)
    \/ \E t \in Times : Lookup(w, t)
    \/ CacheGet(w) \/ ReadTable(w) \/ CacheSet(w) \/ LookupRaises(w)

Next ==
    \/ \E a \in Admins : AdminStep(a)
    \/ \E w \in Workers : BatchStep(w)
    \/ Expire

Spec == Init /\ [][Next]_vars

-----------------------------------------------------------------------------
(* A span is never charged a price that the table has at no time given for   *)
(* its start: neither the shared key, which holds one interval for all       *)
(* times, nor the intervals a batch collects mix up periods.  This needs     *)
(* rows that never overlapped: an interval alone does not say that a later   *)
(* row takes precedence.                                                     *)
PriceWasListed ==
    ~overlapped => \A w \in Workers : charged[w] # << >> =>
        charged[w][2] \in listed[charged[w][1]]

(* A batch that began while the cache was true, no edit was under way and no *)
(* other batch was about to fill the cache is charged what the table says    *)
(* until a price is edited: the cache and the batch's list change nothing    *)
(* but the number of queries.                                                *)
SettledPriceIsRight ==
    ~overlapped => \A w \in Workers :
        settled[w] /\ charged[w] # << >> => charged[w][2] = PriceAt(rows, charged[w][1])

(* "Pricing edits clear cached entries": an interval in Redis that is no row *)
(* any more is about to be deleted by the call that changed it, or came back *)
(* after the deletion from a lookup that had read the table before, or Redis *)
(* refused the deletion.                                                     *)
StaleIsExplained == Stale => Editing \/ lateFill

(* "Pricing edits clear cached entries for that provider/model": when no     *)
(* edit is under way, what Redis holds is a row.                             *)
EditsClearTheCache == Stale => Editing

(* "Adding a new price for the same provider/model closes the previous       *)
(* active interval at the new valid_from timestamp": of two created rows     *)
(* that no update or end call has touched, the earlier ends where the later  *)
(* begins.                                                                   *)
NewPriceClosesPrevious ==
    edits = 0 => \A i, j \in DOMAIN rows :
        i < j /\ rows[i].from < rows[j].from => rows[i].to <= rows[j].from
=============================================================================
