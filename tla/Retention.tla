------------------------------ MODULE Retention ------------------------------
(***************************************************************************)
(* run_data_retention: the nightly task that deletes expired payload       *)
(* objects, span rows and stale trace rows project by project, while       *)
(* worker tasks go on delivering spans, old ones included.                 *)
(*                                                                         *)
(* Every database step is a transaction of its own and the S3 call lies    *)
(* between two of them.  The task has no retry label: when it raises or    *)
(* its worker dies, the next night's task starts from the beginning, and   *)
(* nothing keeps two nights' tasks from overlapping.                       *)
(***************************************************************************)
EXTENDS Integers, FiniteSets, FiniteSetsExt

CONSTANTS
    Projects,
    Rows,          \* span identities (id, started_at)
    ProjectOf, TraceOf, StartOf,
    Keys, NoKey,
    KeyOf,         \* payload_s3_key of a row: it depends on the span id only
    HomeOf,        \* the project whose payloads/{project_id}/ prefix a key has
    Old,           \* rows that are stored already
    Arriving,      \* rows that worker tasks still deliver, or deliver again
    Refused,       \* keys whose deletion the object store refuses
    Limit,         \* RETENTION_BATCH_SIZE, and S3_DELETE_BATCH_SIZE
    Runs,          \* executions of run_data_retention that may overlap
    Retentions,    \* values of retention_days
    Today, MaxNow, \* bounds of the clock, in days
    MaxDeliveries, \* bound: deliveries of arriving rows
    MaxOutages     \* bound: S3 outages and aborted runs

ASSUME RetentionAssumption ==
    /\ ProjectOf \in [Rows -> Projects]
    /\ StartOf \in [Rows -> Nat]
    /\ KeyOf \in [Rows -> Keys \cup {NoKey}] /\ NoKey \notin Keys
    /\ HomeOf \in [Keys -> Projects]
    /\ Old \subseteq Rows /\ Arriving \subseteq Rows /\ Refused \subseteq Keys
    /\ \A s \in Arriving : KeyOf[s] # NoKey => HomeOf[KeyOf[s]] = ProjectOf[s]
    /\ \A s, q \in Rows : TraceOf[s] = TraceOf[q] => ProjectOf[s] = ProjectOf[q]
    /\ Limit \in Nat \ {0}
    /\ Retentions \subseteq Nat \ {0}
    /\ {Today, MaxNow, MaxDeliveries, MaxOutages} \subseteq Nat

VARIABLES
    now,         \* the day
    retention,   \* retention_days of each project
    rows,        \* rows of spans
    objects,     \* payload objects in the bucket
    traces,      \* rows of traces: <<trace, started_at>>
    ipc,         \* the delivery of a row: idle, stored (payload) or open (txn)
    sees,        \* trace start its open transaction read; -1: none
    deliveries,  \* deliveries so far
    rpc,         \* where each run stands
    todo,        \* projects still to do with the retention_days read for them
    project, cutoff,
    batch,       \* rows of the current batch
    gone,        \* keys S3 reported deleted for it
    outages,     \* outages so far
    shortest,    \* history: the shortest retention each project has had
    restored,    \* history: keys stored again since the run's last S3 call
    overlapped   \* history: traces removed under an open delivery

store == <<rows, objects, traces>>
ingest == <<ipc, sees, deliveries>>
run == <<rpc, todo, project, cutoff, batch, gone>>
history == <<shortest, restored, overlapped>>
vars == <<now, retention, store, ingest, run, outages, history>>

-----------------------------------------------------------------------------
Traces == {TraceOf[s] : s \in Rows}
Starts == {StartOf[s] : s \in Rows}
AnyProject == CHOOSE p \in Projects : TRUE  \* where no project is being done
RowsOf(p, S) == {s \in S : ProjectOf[s] = p}
RowStarts(t) == {r[2] : r \in {q \in traces : q[1] = t}}

TypeOK ==
    /\ now \in Today .. MaxNow
    /\ retention \in [Projects -> Retentions]
    /\ rows \subseteq Rows /\ objects \subseteq Keys
    /\ traces \subseteq Traces \X Starts
    /\ ipc \in [Arriving -> {"idle", "stored", "open"}]
    /\ sees \in [Arriving -> Starts \cup {-1}]
    /\ deliveries \in 0 .. MaxDeliveries
    /\ rpc \in [Runs -> {"idle", "next", "fetch", "objects", "rows", "traces"}]
    /\ todo \in [Runs -> SUBSET (Projects \X Retentions)]
    /\ project \in [Runs -> Projects] /\ cutoff \in [Runs -> Int]
    /\ batch \in [Runs -> SUBSET Rows] /\ gone \in [Runs -> SUBSET Keys]
    /\ \A r \in Runs : Cardinality(batch[r]) <= Limit
    /\ outages \in 0 .. MaxOutages
    /\ shortest \in [Projects -> Retentions]
    /\ restored \in [Runs -> SUBSET Keys]
    /\ overlapped \subseteq Traces

Init ==
    /\ now = Today
    /\ retention \in [Projects -> Retentions]
    /\ rows = Old
    /\ objects = {KeyOf[s] : s \in Old} \ {NoKey}
    /\ traces = {<<t, Min({StartOf[s] : s \in {q \in Old : TraceOf[q] = t}})>> :
                   t \in {TraceOf[s] : s \in Old}}
    /\ ipc = [s \in Arriving |-> "idle"]
    /\ sees = [s \in Arriving |-> -1]
    /\ deliveries = 0
    /\ rpc = [r \in Runs |-> "idle"]
    /\ todo = [r \in Runs |-> {}]
    /\ project = [r \in Runs |-> AnyProject]
    /\ cutoff = [r \in Runs |-> 0]
    /\ batch = [r \in Runs |-> {}]
    /\ gone = [r \in Runs |-> {}]
    /\ outages = 0
    /\ shortest = retention
    /\ restored = [r \in Runs |-> {}]
    /\ overlapped = {}

-----------------------------------------------------------------------------
(* A day passes. *)
Tick ==
    /\ now < MaxNow
    /\ now' = now + 1
    /\ UNCHANGED <<retention, store, ingest, run, outages, history>>

(* update_settings changes retention_days. *)
UpdateRetention(p, d) ==
    /\ d # retention[p]
    /\ retention' = [retention EXCEPT ![p] = d]
    /\ shortest' = [shortest EXCEPT ![p] = Min({@, d})]
    /\ UNCHANGED <<now, store, ingest, run, outages, restored, overlapped>>

(* A worker task stores the payload of a span before its transaction. *)
StorePayload(s) ==
    /\ ipc[s] = "idle" /\ deliveries < MaxDeliveries
    /\ deliveries' = deliveries + 1
    /\ ipc' = [ipc EXCEPT ![s] = "stored"]
    /\ objects' = objects \cup ({KeyOf[s]} \ {NoKey})
    /\ restored' = [r \in Runs |-> IF rpc[r] = "rows"
                                   THEN restored[r] \cup ({KeyOf[s]} \ {NoKey}) ELSE {}]
    /\ UNCHANGED <<now, retention, rows, traces, sees, run, outages, shortest, overlapped>>

(* Its transaction inserts the span, unless the row is there already, and  *)
(* looks the trace's row up.                                               *)
InsertSpan(s) ==
    /\ ipc[s] = "stored"
    /\ \/ s \in rows /\ ipc' = [ipc EXCEPT ![s] = "idle"] /\ UNCHANGED sees
       \/ /\ s \notin rows
          /\ ipc' = [ipc EXCEPT ![s] = "open"]
          /\ sees' = [sees EXCEPT ![s] = IF RowStarts(TraceOf[s]) = {} THEN -1
                                          ELSE Min(RowStarts(TraceOf[s]))]
    /\ UNCHANGED <<now, retention, store, deliveries, run, outages, history>>

(* ensure_trace_row's INSERT or UPDATE, and the commit. *)
CommitSpan(s) ==
    LET t == TraceOf[s] IN
    /\ ipc[s] = "open"
    /\ rows' = rows \cup {s}
    /\ traces' = IF sees[s] = -1 THEN traces \cup {<<t, StartOf[s]>>}
                 ELSE IF sees[s] > StartOf[s] /\ <<t, sees[s]>> \in traces
                        THEN (traces \ {<<t, sees[s]>>}) \cup {<<t, StartOf[s]>>}
                        ELSE traces
    /\ ipc' = [ipc EXCEPT ![s] = "idle"]
    /\ sees' = [sees EXCEPT ![s] = -1]
    /\ UNCHANGED <<now, retention, objects, deliveries, run, outages, history>>

-----------------------------------------------------------------------------
(* The scheduler starts a task, which reads the active projects. *)
StartRun(r) ==
    /\ rpc[r] = "idle"
    /\ rpc' = [rpc EXCEPT ![r] = "next"]
    /\ todo' = [todo EXCEPT ![r] = {<<p, retention[p]>> : p \in Projects}]
    /\ UNCHANGED <<now, retention, store, ingest, project, cutoff, batch, gone,
                   outages, history>>

(* The loop over the projects, in the order the query returned them; the   *)
(* cutoff is taken from the clock when a project's turn comes.             *)
NextProject(r) ==
    /\ rpc[r] = "next"
    /\ \/ /\ todo[r] = {}
          /\ rpc' = [rpc EXCEPT ![r] = "idle"]
          /\ UNCHANGED <<todo, project, cutoff>>
       \/ \E pd \in todo[r] :
            /\ todo' = [todo EXCEPT ![r] = @ \ {pd}]
            /\ project' = [project EXCEPT ![r] = pd[1]]
            /\ cutoff' = [cutoff EXCEPT ![r] = now - pd[2]]
            /\ rpc' = [rpc EXCEPT ![r] = "fetch"]
    /\ UNCHANGED <<now, retention, store, ingest, batch, gone, outages, history>>

ExpiredAt(p, c) == {s \in RowsOf(p, rows) : StartOf[s] < c}

(* b is a result of _fetch_retention_batch: the oldest expired rows. *)
OldestBatch(p, c, b) ==
    LET expired == ExpiredAt(p, c) IN
    /\ b \subseteq expired
    /\ Cardinality(b) = Min({Limit, Cardinality(expired)})
    /\ \A s \in b, q \in expired \ b : StartOf[s] <= StartOf[q]

FetchBatch(r) ==
    /\ rpc[r] = "fetch"
    /\ \E b \in SUBSET rows :
          /\ OldestBatch(project[r], cutoff[r], b)
          /\ batch' = [batch EXCEPT ![r] = b]
          /\ rpc' = [rpc EXCEPT ![r] = IF b = {} THEN "traces" ELSE "objects"]
    /\ UNCHANGED <<now, retention, store, ingest, todo, project, cutoff, gone,
                   outages, history>>

(* _is_project_payload_key *)
IsProjectPayloadKey(p, k) == HomeOf[k] = p

SafeKeys(r) ==
    {k \in {KeyOf[s] : s \in batch[r]} \ {NoKey} : IsProjectPayloadKey(project[r], k)}

(* _delete_s3_objects: S3 deletes the safe keys it does not refuse and      *)
(* reports the others as errors.                                            *)
DeleteObjects(r) ==
    LET done == SafeKeys(r) \ Refused IN
    /\ rpc[r] = "objects"
    /\ objects' = objects \ done
    /\ gone' = [gone EXCEPT ![r] = done]
    /\ rpc' = [rpc EXCEPT ![r] = "rows"]
    /\ UNCHANGED <<now, retention, rows, traces, ingest, todo, project, cutoff,
                   batch, outages, history>>

(* The call fails for some keys, or raises, in which case none counts as    *)
(* deleted although S3 may have removed some.                               *)
DeleteObjectsFails(r) ==
    /\ rpc[r] = "objects" /\ outages < MaxOutages
    /\ outages' = outages + 1
    /\ \E done \in SUBSET (SafeKeys(r) \ Refused) :
          /\ objects' = objects \ done
          /\ \E told \in {{}, done} : gone' = [gone EXCEPT ![r] = told]
    /\ rpc' = [rpc EXCEPT ![r] = "rows"]
    /\ UNCHANGED <<now, retention, rows, traces, ingest, todo, project, cutoff,
                   batch, history>>

(* Seeded fault: the rows go whether or not their payloads did. *)
Deletable_All(r) == batch[r]

(* Seeded fault: rows with a key of another prefix are kept. *)
Deletable_KeepsUnsafe(r) ==
    {s \in batch[r] : KeyOf[s] = NoKey \/ KeyOf[s] \in gone[r]}

(* The rows without a key, with a deleted key or with a key of another      *)
(* prefix.                                                                  *)
Deletable(r) ==
    {s \in batch[r] : \/ KeyOf[s] = NoKey
                      \/ KeyOf[s] \in gone[r]
                      \/ ~IsProjectPayloadKey(project[r], KeyOf[s])}

(* _delete_span_batch; a pass that deletes no row ends the project's loop. *)
DeleteSpans(r) ==
    /\ rpc[r] = "rows"
    /\ rows' = rows \ Deletable(r)
    /\ rpc' = [rpc EXCEPT ![r] = IF Deletable(r) \cap rows = {} THEN "traces"
                                  ELSE "fetch"]
    /\ batch' = [batch EXCEPT ![r] = {}]
    /\ gone' = [gone EXCEPT ![r] = {}]
    /\ restored' = [restored EXCEPT ![r] = {}]
    /\ UNCHANGED <<now, retention, objects, traces, ingest, todo, project, cutoff,
                   outages, shortest, overlapped>>

(* Seeded fault: only recent spans are looked for. *)
Stale_RecentOnly(p, c) ==
    {r \in traces : /\ r[2] < c
                    /\ r[1] \in {TraceOf[s] : s \in RowsOf(p, Rows)}
                    /\ ~ \E s \in RowsOf(p, rows) : TraceOf[s] = r[1] /\ StartOf[s] < c}

(* Old trace rows of the project none of whose spans is stored. *)
Stale(p, c) ==
    {r \in traces : /\ r[2] < c
                    /\ r[1] \in {TraceOf[s] : s \in RowsOf(p, Rows)}
                    /\ ~ \E s \in RowsOf(p, rows) : TraceOf[s] = r[1]}

(* _delete_stale_traces *)
DeleteStaleTraces(r) ==
    LET stale == Stale(project[r], cutoff[r]) IN
    /\ rpc[r] = "traces"
    /\ traces' = traces \ stale
    /\ overlapped' = overlapped \cup
          {t \in {q[1] : q \in stale} : \E s \in Arriving : TraceOf[s] = t /\ ipc[s] = "open"}
    /\ rpc' = [rpc EXCEPT ![r] = "next"]
    /\ project' = [project EXCEPT ![r] = AnyProject]
    /\ cutoff' = [cutoff EXCEPT ![r] = 0]
    /\ UNCHANGED <<now, retention, rows, objects, ingest, todo, batch, gone, outages,
                   shortest, restored>>

(* A database error or a crash ends the task where it stands. *)
RunAborts(r) ==
    /\ rpc[r] # "idle" /\ outages < MaxOutages
    /\ outages' = outages + 1
    /\ rpc' = [rpc EXCEPT ![r] = "idle"]
    /\ todo' = [todo EXCEPT ![r] = {}]
    /\ batch' = [batch EXCEPT ![r] = {}]
    /\ gone' = [gone EXCEPT ![r] = {}]
    /\ project' = [project EXCEPT ![r] = AnyProject]
    /\ cutoff' = [cutoff EXCEPT ![r] = 0]
    /\ restored' = [restored EXCEPT ![r] = {}]
    /\ UNCHANGED <<now, retention, store, ingest, shortest, overlapped>>

-----------------------------------------------------------------------------
RunStep(r) ==
    \/ StartRun(r) \/ NextProject(r) \/ FetchBatch(r)
    \/ DeleteObjects(r) \/ DeleteSpans(r) \/ DeleteStaleTraces(r)

Next ==
    \/ Tick
    \/ \E p \in Projects, d \in Retentions : UpdateRetention(p, d)
    \/ \E s \in Arriving : StorePayload(s) \/ InsertSpan(s) \/ CommitSpan(s)
    \/ \E r \in Runs : RunStep(r) \/ DeleteObjectsFails(r) \/ RunAborts(r)

(* The scheduler fires every night and a task that was started goes on. *)
Fairness == \A r \in Runs : WF_vars(RunStep(r))

Spec == Init /\ [][Next]_vars /\ Fairness

-----------------------------------------------------------------------------
TooOld(s) == StartOf[s] < now - shortest[ProjectOf[s]]

(* What a step may delete: rows past the shortest retention their project   *)
(* has had, a row only after its own payload unless a delivery stored that  *)
(* again after the run's S3 call; and objects that a run at its S3 call has *)
(* as the payload of such a row of its batch, under its project's prefix.   *)
SafeDeletion ==
    /\ \A s \in rows \ rows' :
          /\ TooOld(s)
          /\ (KeyOf[s] \in objects /\ HomeOf[KeyOf[s]] = ProjectOf[s]) =>
                \E r \in Runs : /\ rpc[r] = "rows" /\ s \in batch[r]
                                /\ KeyOf[s] \in restored[r]
    /\ \A k \in objects \ objects' :
          \E r \in Runs : /\ rpc[r] = "objects" /\ HomeOf[k] = project[r]
                          /\ \E s \in batch[r] : /\ KeyOf[s] = k /\ TooOld(s)
                                                 /\ ProjectOf[s] = project[r]

(* Deletion is safe.  No row younger than the shortest retention its        *)
(* project has had goes.  An object goes only in a run's S3 call, for a row *)
(* of the run's batch that is that old, under the prefix of the project the *)
(* run is doing; a younger row of the same span id shares the object and    *)
(* loses it too (YoungPayloadStays).  And a row goes only after its own     *)
(* payload, unless a delivery stored that again after the run's S3 call     *)
(* (the runbook's "instead of orphaning payload objects").                  *)
DeletionIsSafe == [][SafeDeletion]_vars

(* "Retention deletes old span payload objects": a stored row that no       *)
(* retention its project has had makes old enough keeps its payload.  The   *)
(* key is made from the span id alone while a row is (id, started_at), so   *)
(* an expired row takes the payload of a younger one of the same id along.  *)
YoungPayloadStays ==
    [][\A s \in rows : KeyOf[s] \in objects /\ ~TooOld(s) => KeyOf[s] \in objects']_vars

(* A stored span has a trace row, although retention removes trace rows     *)
(* while late spans of the same traces arrive; the exception is a trace     *)
(* whose row was removed under a transaction that had already found it.     *)
SpansKeepTheirTrace ==
    \A s \in rows : RowStarts(TraceOf[s]) # {} \/ TraceOf[s] \in overlapped

(* Retention "removes trace rows that no longer have spans": a stored span   *)
(* has a trace row, without the exception.  The NOT EXISTS of                *)
(* _delete_stale_traces does not see the span of a transaction that is open. *)
TraceRowsOutliveSpans == \A s \in rows : RowStarts(TraceOf[s]) # {}

Expired(s) == StartOf[s] < now - retention[ProjectOf[s]]

IsRefused(s) == KeyOf[s] \in Refused /\ HomeOf[KeyOf[s]] = ProjectOf[s]

(* A row whose payload cannot be deleted, or that stands behind a whole     *)
(* batch of such rows.                                                      *)
Blocked(s) ==
    \/ IsRefused(s)
    \/ Cardinality({q \in RowsOf(ProjectOf[s], rows) :
                      IsRefused(q) /\ StartOf[q] <= StartOf[s]}) >= Limit

(* Once outages end, an expired row does not stay, however many other rows  *)
(* of its batches cannot be deleted, short of a full batch of older ones.   *)
ExpiredRowsGo ==
    \A s \in Rows : []<>(s \notin rows \/ ~Expired(s) \/ Blocked(s))
=============================================================================
