---------------------------- MODULE SpanQueries ----------------------------
(***************************************************************************)
(* The console's read requests while the span worker writes: the cursor    *)
(* paged trace list, the trace detail and the metrics dashboards.          *)
(*                                                                         *)
(* Every SELECT reads what is committed when it runs (READ COMMITTED), so  *)
(* two statements of one request, and two pages of one listing, see        *)
(* different states.  Requests only read; one reader with one session at a *)
(* time sees all that many readers would.                                  *)
(***************************************************************************)
EXTENDS SpanWorker, Sequences

CONSTANTS
    PageSize,     \* page_size of the trace list
    Windows,      \* from_dt and to_dt filters: pairs of times
    Cutoffs,      \* times at which a period may begin: now - interval
    Interval,     \* PERIOD_TO_INTERVAL
    BucketSize,   \* PERIOD_TO_BUCKET_SIZE, and the unit of date_trunc
    GroupLimit,   \* LIMIT of the grouped dashboard queries
    Errors,       \* spans with status 'error'
    ModelOf,      \* model, "none" for NULL
    ProviderOf,   \* provider, "none" for NULL
    ErrorOf,      \* error text, a sequence of words, << >> for NULL or ''
    Values,       \* words that are a number, a uuid or a secret
    MessageLength,     \* words of a text that fit in 240 characters,
    FingerprintLength  \* and in 160

ASSUME QueriesAssumption ==
    /\ Traces \subseteq Nat    \* ids, by their order
    /\ PageSize \in Nat \ {0} /\ GroupLimit \in Nat \ {0}
    /\ BucketSize \in Nat \ {0} /\ Interval \in Nat
    /\ Cutoffs \subseteq Nat /\ Windows \subseteq Nat \X Nat
    /\ Errors \subseteq Spans
    /\ MessageLength \in Nat /\ FingerprintLength \in Nat

VARIABLES
    mode,     \* what the reader is doing
    window,   \* the filter of its listing
    cursor,   \* the last row of the previous page, or the row it asks for; <<>>: none
    known,    \* what was there when it asked, or what it has been shown
    shown,    \* what it has been given: trace rows, spans
    todo,     \* the queries left of its dashboard request
    panel,    \* the query that was run last, NoQuery before the first
    cutoff    \* start of the dashboard's period

reader == <<mode, window, cursor, known, shown, todo, panel, cutoff>>
qvars == <<vars, reader>>

-----------------------------------------------------------------------------
NoWindow == <<0, 0>>

(* The rows of the traces table, in the order of the list. *)
Rows == UNION {{<<st, t>> : st \in traceRows[t]} : t \in Traces}

(* (started_at, id) < (started_at, id). *)
Precedes(r, q) == r[1] < q[1] \/ (r[1] = q[1] /\ r[2] < q[2])

InWindow(r, win) == win[1] <= r[1] /\ r[1] <= win[2]

(* Seeded fault: the cursor compares the start only. *)
AfterCursor_StartOnly(r) == cursor = <<>> \/ r[1] < cursor[1]

AfterCursor(r) == cursor = <<>> \/ Precedes(r, cursor)

(* The rows the WHERE clause of list_with_cursor selects ... *)
Selected == {r \in Rows : InWindow(r, window) /\ AfterCursor(r)}

(* ... and the first PageSize of them, latest first. *)
Page == {r \in Selected : Cardinality({q \in Selected : Precedes(r, q)}) < PageSize}

(* One row more than the page was read. *)
HasMore == Cardinality(Selected) > PageSize

-----------------------------------------------------------------------------
DateTrunc(time) == (time \div BucketSize) * BucketSize

(* Seeded fault: the series starts at the cutoff itself. *)
TimeBuckets_Unaligned(c) == {c + i * BucketSize : i \in 0 .. (Interval \div BucketSize)}

(* generate_series(date_trunc(cutoff), date_trunc(now), bucket_size). *)
TimeBuckets(c) ==
    {DateTrunc(c) + i * BucketSize :
        i \in 0 .. ((DateTrunc(c + Interval) - DateTrunc(c)) \div BucketSize)}

(* The queries, each by what it groups its rows by, whether it takes failed   *)
(* spans only, whether it is joined to a series of time buckets and whether   *)
(* it is cut off by a LIMIT.                                                  *)
overview ==
    [by |-> "project", failed |-> FALSE, series |-> FALSE, limited |-> FALSE]
timeseries ==
    [by |-> "bucket", failed |-> FALSE, series |-> TRUE, limited |-> FALSE]
cost_by_model ==
    [by |-> "model", failed |-> FALSE, series |-> FALSE, limited |-> TRUE]
cost_by_provider ==
    [by |-> "provider", failed |-> FALSE, series |-> FALSE, limited |-> TRUE]
cost_over_time ==
    [by |-> "bucket", failed |-> FALSE, series |-> FALSE, limited |-> FALSE]
latency_by_model ==
    [by |-> "model", failed |-> FALSE, series |-> FALSE, limited |-> TRUE]
latency_by_provider ==
    [by |-> "provider", failed |-> FALSE, series |-> FALSE, limited |-> TRUE]
top_expensive_traces ==
    [by |-> "trace", failed |-> FALSE, series |-> FALSE, limited |-> TRUE]
slowest_traces ==
    [by |-> "trace", failed |-> FALSE, series |-> FALSE, limited |-> TRUE]
error_rate_trend ==
    [by |-> "bucket", failed |-> FALSE, series |-> TRUE, limited |-> FALSE]
top_error_messages ==
    [by |-> "message", failed |-> TRUE, series |-> FALSE, limited |-> TRUE]
errors_by_model ==
    [by |-> "model", failed |-> FALSE, series |-> FALSE, limited |-> TRUE]
errors_by_provider ==
    [by |-> "provider", failed |-> FALSE, series |-> FALSE, limited |-> TRUE]
recent_failed_traces ==
    [by |-> "trace", failed |-> TRUE, series |-> FALSE, limited |-> TRUE]
error_fingerprints ==
    [by |-> "fingerprint", failed |-> TRUE, series |-> FALSE, limited |-> TRUE]

NoQuery == [by |-> "none", failed |-> FALSE, series |-> FALSE, limited |-> FALSE]

(* What get_analytics runs, in this order, in one session. *)
Analytics == <<cost_by_model, cost_by_provider, cost_over_time, latency_by_model,
               latency_by_provider, top_expensive_traces, slowest_traces,
               error_rate_trend, top_error_messages, errors_by_model,
               errors_by_provider, recent_failed_traces, error_fingerprints>>

(* What one request runs: get_overview, get_timeseries or get_analytics. *)
Dashboards == {<<overview>>, <<timeseries>>, Analytics}

Coalesce(v) == IF v = "none" THEN "unknown" ELSE v

(* COALESCE(NULLIF(error, ''), 'unknown error'). *)
ErrorMessage(s) == IF ErrorOf[s] = << >> THEN <<"unknown error">> ELSE ErrorOf[s]

Left(text, n) == SubSeq(text, 1, Min({n, Len(text)}))

(* The regexp_replace chain: every value becomes its placeholder. *)
Normalized(text) == [i \in DOMAIN text |-> IF text[i] \in Values THEN "<value>" ELSE text[i]]

GroupKey(q, s) ==
    CASE q.by = "model" -> Coalesce(ModelOf[s])
      [] q.by = "provider" -> Coalesce(ProviderOf[s])
      [] q.by = "trace" -> TraceOf[s]
      [] q.by = "bucket" -> DateTrunc(StartOf[s])
      [] q.by = "message" -> Left(ErrorMessage(s), MessageLength)
      [] q.by = "fingerprint" -> Left(Normalized(ErrorMessage(s)), FingerprintLength)
      [] OTHER -> "project"

KeysOf(q, S) == {GroupKey(q, s) : s \in S}

(* The spans a query's WHERE clause selects; for the series, those the LEFT *)
(* JOIN of its buckets finds.                                               *)
RowsOf(q, c) ==
    {s \in spans : /\ StartOf[s] >= c
                   /\ q.failed => s \in Errors
                   /\ q.series => DateTrunc(StartOf[s]) \in TimeBuckets(c)}

(* The sets of spans its result may count: GROUP BY ... ORDER BY ... LIMIT.   *)
(* Cost and latency, by which groups are ranked, are not modelled: any        *)
(* GroupLimit of them may come first.                                         *)
Counts(q, c) ==
    LET rows == RowsOf(q, c)
        keys == KeysOf(q, rows)
        n == IF q.limited THEN Min({Cardinality(keys), GroupLimit})
                          ELSE Cardinality(keys)
    IN {{s \in rows : GroupKey(q, s) \in K} :
            K \in {L \in SUBSET keys : Cardinality(L) = n}}

-----------------------------------------------------------------------------
QueriesInit ==
    /\ Init
    /\ mode = "idle" /\ window = NoWindow /\ cursor = <<>>
    /\ known = {} /\ shown = {}
    /\ todo = << >> /\ panel = NoQuery /\ cutoff = 0

(* The first page of a listing is asked for. *)
OpenList ==
    /\ mode = "idle"
    /\ mode' = "list"
    /\ \E win \in Windows :
          /\ window' = win
          /\ known' = {r[2] : r \in {q \in Rows : InWindow(q, win)}}
    /\ UNCHANGED <<vars, cursor, shown, todo, panel, cutoff>>

(* list_with_cursor: one page, and the cursor of the next. *)
ListPage ==
    /\ mode = "list"
    /\ shown' = shown \cup Page
    /\ IF HasMore
         THEN /\ cursor' = CHOOSE r \in Page : \A q \in Page \ {r} : Precedes(r, q)
              /\ UNCHANGED mode
         ELSE mode' = "listed" /\ UNCHANGED cursor
    /\ UNCHANGED <<vars, window, known, todo, panel, cutoff>>

(* The detail of trace t, by the started_at of a list row or without one. *)
OpenDetail(t) ==
    /\ mode = "idle"
    /\ \/ \E st \in Starts : cursor' = <<st, t>> /\ mode' = "row"
       \/ cursor' = <<-1, t>> /\ mode' = "find"
    /\ known' = SpansOf(t, spans)
    /\ UNCHANGED <<vars, window, shown, todo, panel, cutoff>>

(* get_with_spans: SELECT started_at ... ORDER BY started_at LIMIT 1. *)
FindStart ==
    LET t == cursor[2] IN
    /\ mode = "find"
    /\ IF traceRows[t] = {}
         THEN mode' = "missing" /\ UNCHANGED cursor
         ELSE cursor' = <<Min(traceRows[t]), t>> /\ mode' = "row"
    /\ UNCHANGED <<vars, window, known, shown, todo, panel, cutoff>>

(* ... the row itself, which may have moved since ... *)
ReadRow ==
    /\ mode = "row"
    /\ mode' = IF cursor \in Rows THEN "spans" ELSE "missing"
    /\ UNCHANGED <<vars, window, cursor, known, shown, todo, panel, cutoff>>

(* Seeded fault: the spans after the trace's start. *)
ReadSpans_After ==
    /\ mode = "spans"
    /\ mode' = "detailed"
    /\ shown' = {s \in SpansOf(cursor[2], spans) : StartOf[s] > cursor[1]}
    /\ UNCHANGED <<vars, window, cursor, known, todo, panel, cutoff>>

(* ... and the spans that start at its start or later. *)
ReadSpans ==
    /\ mode = "spans"
    /\ mode' = "detailed"
    /\ shown' = {s \in SpansOf(cursor[2], spans) : StartOf[s] >= cursor[1]}
    /\ UNCHANGED <<vars, window, cursor, known, todo, panel, cutoff>>

(* A dashboard is computed for the period that begins at the cutoff (its     *)
(* endpoint found no response of the last seconds in Redis).                 *)
OpenDashboard ==
    /\ mode = "idle"
    /\ mode' = "board"
    /\ \E d \in Dashboards, c \in Cutoffs : todo' = d /\ cutoff' = c
    /\ known' = spans
    /\ UNCHANGED <<vars, window, cursor, shown, panel>>

(* The next statement of the request, in the same session. *)
QueryPanel ==
    /\ mode = "board" /\ todo # << >>
    /\ panel' = Head(todo) /\ todo' = Tail(todo)
    /\ \E S \in Counts(Head(todo), cutoff) : shown' = S
    /\ known' = known \cup shown
    /\ UNCHANGED <<vars, mode, window, cursor, cutoff>>

(* The reader has its answer. *)
Close ==
    /\ mode \in {"listed", "detailed", "missing"} \/ (mode = "board" /\ todo = << >>)
    /\ mode' = "closed"
    /\ window' = NoWindow /\ cursor' = <<>> /\ known' = {} /\ shown' = {}
    /\ todo' = << >> /\ panel' = NoQuery /\ cutoff' = 0
    /\ UNCHANGED vars

ReaderStep ==
    \/ OpenList \/ ListPage
    \/ \E t \in Traces : OpenDetail(t)
    \/ FindStart \/ ReadRow \/ ReadSpans
    \/ OpenDashboard \/ QueryPanel
    \/ Close

QueriesNext == (Next /\ UNCHANGED reader) \/ ReaderStep

QueriesSpec == QueriesInit /\ [][QueriesNext]_qvars /\ Fairness

-----------------------------------------------------------------------------
(* Following the cursors lists every trace that had a row in the window when  *)
(* the listing began and still has one, although rows are inserted and moved  *)
(* to earlier starts between the pages (a moved row may be listed twice).     *)
(* Only a trace with rows written by a look-up no longer true, which may have *)
(* several, can slip through.                                                 *)
PagingMissesNothing ==
    mode = "listed" =>
        \A t \in known \ raced : (\E r \in Rows : r[2] = t /\ InWindow(r, window)) =>
            \E r \in shown : r[2] = t

(* A detail that is found shows every span the trace had when it was asked    *)
(* for, although the row may move between the statements of the request; with *)
(* the same exception.                                                        *)
DetailShowsWholeTrace ==
    mode = "detailed" /\ cursor[2] \notin raced => known \subseteq shown

(* The panels of a dashboard tell one story: a span that was stored when the   *)
(* request began, or that an earlier query of it counted, is counted by every  *)
(* later query whose conditions it meets (a failed span, one of the period and *)
(* not after the current bucket), unless the query is cut off at its LIMIT and *)
(* shows other groups.                                                         *)
PanelsAgree ==
    panel # NoQuery =>
        LET due == {s \in known : /\ StartOf[s] >= cutoff
                                  /\ panel.failed => s \in Errors
                                  /\ panel.series =>
                                       StartOf[s] < DateTrunc(cutoff + Interval) + BucketSize}
        IN \A s \in due \ shown :
              /\ panel.limited
              /\ Cardinality(KeysOf(panel, shown)) = GroupLimit
              /\ GroupKey(panel, s) \notin KeysOf(panel, shown)
=============================================================================
