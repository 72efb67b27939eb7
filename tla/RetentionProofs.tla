--------------------------- MODULE RetentionProofs ---------------------------
(***************************************************************************)
(* Proofs that run_data_retention deletes safely and leaves no stored span *)
(* without its trace row, for any number of projects, rows, runs that      *)
(* overlap and deliveries, any retention periods and every outage.         *)
(***************************************************************************)
EXTENDS Retention, WellFoundedInduction, TLAPS

RunPcs == {"idle", "next", "fetch", "objects", "rows", "traces"}

RunTypes ==
    /\ now \in Int
    /\ retention \in [Projects -> Retentions] /\ shortest \in [Projects -> Retentions]
    /\ rows \subseteq Rows /\ objects \subseteq Keys /\ traces \subseteq Traces \X Nat
    /\ ipc \in [Arriving -> {"idle", "stored", "open"}]
    /\ sees \in [Arriving -> Nat \cup {-1}]
    /\ rpc \in [Runs -> RunPcs]
    /\ todo \in [Runs -> SUBSET (Projects \X Retentions)]
    /\ project \in [Runs -> Projects \cup {AnyProject}] /\ cutoff \in [Runs -> Int]
    /\ batch \in [Runs -> SUBSET Rows] /\ gone \in [Runs -> SUBSET Keys]
    /\ restored \in [Runs -> SUBSET Keys]

(* A project's retention was never shorter than the shortest on record. *)
ShortestInv == \A p \in Projects : shortest[p] <= retention[p]

(* A run works with retention periods its projects have had, its cutoff is   *)
(* no later than the shortest of them allows today, its batch is what was    *)
(* old enough then, and an object whose deletion S3 reported is there only   *)
(* if a delivery has stored it since.                                        *)
RunSafe(r) ==
    /\ \A pd \in todo[r] : shortest[pd[1]] <= pd[2]
    /\ rpc[r] \in {"fetch", "objects", "rows", "traces"} =>
          project[r] \in Projects /\ cutoff[r] <= now - shortest[project[r]]
    /\ rpc[r] \in {"objects", "rows"} =>
          \A s \in batch[r] : ProjectOf[s] = project[r] /\ StartOf[s] < cutoff[r]
    /\ rpc[r] = "rows" => gone[r] \cap objects \subseteq restored[r]

RunInv == \A r \in Runs : RunSafe(r)

HasRow(t) == \E q \in traces : q[1] = t

(* A stored span has its trace row, and so has a delivery that found one, or *)
(* the row was removed while a delivery was open.                            *)
TraceInv ==
    /\ \A s \in rows : HasRow(TraceOf[s]) \/ TraceOf[s] \in overlapped
    /\ \A s \in Arriving : ipc[s] = "open" /\ sees[s] # -1 =>
          HasRow(TraceOf[s]) \/ TraceOf[s] \in overlapped

(* The inductive invariant. *)
IInv == RunTypes /\ ShortestInv /\ RunInv /\ TraceInv

-----------------------------------------------------------------------------
(* A set of numbers has a least element. *)
LEMMA MinIsLeast ==
    ASSUME NEW S \in SUBSET Nat, S # {}
    PROVE  Min(S) \in S /\ \A y \in S : Min(S) <= y
  <1>1. PICK x \in S : \A y \in S : ~(<<y, x>> \in OpToRel(<, Nat))
    BY NatLessThanWellFounded, WFMin
  <1>2. OpToRel(<, Nat) = {ss \in Nat \X Nat : ss[1] < ss[2]}
    BY DEF OpToRel
  <1>3. \A y \in S : x <= y
    <2>1. ASSUME NEW y \in S, y < x PROVE FALSE
      <3>1. <<y, x>> \in {ss \in Nat \X Nat : ss[1] < ss[2]}
        BY <2>1
      <3> QED
        BY <1>1, <1>2, <3>1
    <2> QED
      BY <2>1
  <1> QED BY <1>3 DEF Min

(* A trace has a row or it has none. *)
LEMMA RowStartsOfTrace == \A t : RowStarts(t) # {} <=> HasRow(t)
  BY DEF RowStarts, HasRow

LEMMA InitIInv == Init => IInv
  <1> SUFFICES ASSUME Init PROVE IInv
    OBVIOUS
  <1> USE RetentionAssumption DEF Init
  <1> DEFINE first(t) == {StartOf[s] : s \in {q \in Old : TraceOf[q] = t}}
  <1>1. ASSUME NEW t \in {TraceOf[s] : s \in Old} PROVE Min(first(t)) \in Nat
    <2>1. first(t) \subseteq Nat /\ first(t) # {}
      OBVIOUS
    <2> HIDE DEF first
    <2> QED BY <2>1, MinIsLeast
  <1>2. traces = {<<t, Min(first(t))>> : t \in {TraceOf[s] : s \in Old}}
    OBVIOUS
  <1> HIDE DEF first
  <1>3. traces \subseteq Traces \X Nat
    <2>1. SUFFICES ASSUME NEW x \in traces PROVE x \in Traces \X Nat
      OBVIOUS
    <2>2. PICK t \in {TraceOf[s] : s \in Old} : x = <<t, Min(first(t))>>
      BY <1>2
    <2>3. t \in Traces /\ Min(first(t)) \in Nat
      BY <1>1 DEF Traces
    <2> QED BY <2>2, <2>3
  <1>4. ASSUME NEW s \in Old PROVE HasRow(TraceOf[s])
    <2>0. TraceOf[s] \in {TraceOf[q] : q \in Old}
      OBVIOUS
    <2>1. <<TraceOf[s], Min(first(TraceOf[s]))>> \in traces
      BY <1>2, <2>0, Zenon
    <2>2. <<TraceOf[s], Min(first(TraceOf[s]))>>[1] = TraceOf[s]
      OBVIOUS
    <2> QED BY <2>1, <2>2 DEF HasRow
  <1>5. RunTypes
    <2>1. objects \subseteq Keys
      OBVIOUS
    <2>2. now \in Int /\ rows \subseteq Rows
      OBVIOUS
    <2>3. /\ project \in [Runs -> Projects \cup {AnyProject}]
          /\ cutoff \in [Runs -> Int]
          /\ rpc \in [Runs -> RunPcs]
          /\ todo \in [Runs -> SUBSET (Projects \X Retentions)]
      BY DEF RunPcs
    <2>4. /\ batch \in [Runs -> SUBSET Rows]
          /\ gone \in [Runs -> SUBSET Keys]
          /\ restored \in [Runs -> SUBSET Keys]
      OBVIOUS
    <2>5. /\ retention \in [Projects -> Retentions]
          /\ shortest \in [Projects -> Retentions]
          /\ ipc \in [Arriving -> {"idle", "stored", "open"}]
          /\ sees \in [Arriving -> Nat \cup {-1}]
      OBVIOUS
    <2> QED BY <1>3, <2>1, <2>2, <2>3, <2>4, <2>5 DEF RunTypes
  <1>6. ShortestInv
    <2>1. \A p \in Projects : retention[p] \in Nat /\ shortest[p] = retention[p]
      OBVIOUS
    <2> QED BY <2>1 DEF ShortestInv
  <1>7. RunInv
    BY DEF RunInv, RunSafe
  <1>8. TraceInv
    BY <1>4 DEF TraceInv
  <1> QED BY <1>5, <1>6, <1>7, <1>8 DEF IInv

(* Retention periods are numbers, so that they compare. *)
LEMMA PeriodsAreNat ==
    ASSUME RunTypes
    PROVE  /\ now \in Int /\ Retentions \subseteq Nat
           /\ \A p \in Projects : retention[p] \in Nat /\ shortest[p] \in Nat
  BY RetentionAssumption DEF RunTypes

(* What stays as it is, is no later and no longer. *)
LEMMA SameIsKept ==
    ASSUME RunTypes, UNCHANGED <<now, shortest>>
    PROVE  now' >= now /\ \A p \in Projects : shortest'[p] <= shortest[p]
  <1>1. now \in Int /\ \A p \in Projects : shortest[p] \in Nat
    BY PeriodsAreNat
  <1> QED BY <1>1

(* A run stays safe while others act: the clock only advances, the shortest  *)
(* retention only shrinks, and an object comes back only by being stored.    *)
LEMMA RunSafeKept ==
    ASSUME IInv, RunTypes', NEW v \in Runs, RunSafe(v),
           rpc'[v] = rpc[v], todo'[v] = todo[v], project'[v] = project[v],
           cutoff'[v] = cutoff[v], batch'[v] = batch[v], gone'[v] = gone[v],
           now' >= now, \A p \in Projects : shortest'[p] <= shortest[p],
           rpc[v] = "rows" => gone[v] \cap objects' \subseteq restored'[v]
    PROVE  RunSafe(v)'
  <1> USE RetentionAssumption
  <1>1. /\ todo[v] \subseteq Projects \X Retentions /\ cutoff[v] \in Int
        /\ now \in Int /\ now' \in Int
        /\ \A p \in Projects : shortest[p] \in Nat /\ shortest'[p] \in Nat
    BY DEF IInv, RunTypes
  <1>2. ASSUME NEW pd \in todo[v] PROVE shortest'[pd[1]] <= pd[2]
    <2>1. pd[1] \in Projects /\ pd[2] \in Nat /\ shortest[pd[1]] <= pd[2]
      BY <1>1 DEF RunSafe
    <2> QED BY <1>1, <2>1
  <1>3. rpc[v] \in {"fetch", "objects", "rows", "traces"} =>
          project[v] \in Projects /\ cutoff[v] <= now' - shortest'[project[v]]
    <2>1. SUFFICES ASSUME rpc[v] \in {"fetch", "objects", "rows", "traces"}
                   PROVE  project[v] \in Projects /\ cutoff[v] <= now' - shortest'[project[v]]
      OBVIOUS
    <2>2. project[v] \in Projects /\ cutoff[v] <= now - shortest[project[v]]
      BY <2>1 DEF RunSafe
    <2>3. shortest'[project[v]] <= shortest[project[v]]
      BY <2>2
    <2> QED BY <1>1, <2>2, <2>3
  <1> QED BY <1>2, <1>3 DEF RunSafe

(* Rows and traces stay explained while nothing is removed. *)
LEMMA TraceInvKept ==
    ASSUME TraceInv, rows' \subseteq rows, traces \subseteq traces', overlapped' = overlapped,
           \A s \in Arriving : ipc'[s] = "open" /\ sees'[s] # -1 =>
              \/ ipc[s] = "open" /\ sees[s] # -1
              \/ HasRow(TraceOf[s])
    PROVE  TraceInv'
  BY DEF TraceInv, HasRow

-----------------------------------------------------------------------------
LEMMA TickIInv == ASSUME IInv, Tick PROVE IInv'
  <1> USE RetentionAssumption DEF Tick, store, ingest, run, history
  <1>1. now \in Int /\ now' \in Int /\ now' >= now
    BY DEF IInv, RunTypes
  <1>2. RunTypes'
    BY <1>1 DEF IInv, RunTypes
  <1>3. RunInv'
    <2>1. ASSUME NEW v \in Runs PROVE RunSafe(v)'
      <3>1. RunSafe(v) /\ \A p \in Projects : shortest'[p] <= shortest[p]
        <4>1. \A p \in Projects : shortest[p] \in Nat
          BY PeriodsAreNat DEF IInv
        <4> QED BY <4>1 DEF IInv, RunInv
      <3>2. rpc[v] = "rows" => gone[v] \cap objects' \subseteq restored'[v]
        BY <3>1 DEF RunSafe
      <3> QED BY <1>1, <1>2, <3>1, <3>2, RunSafeKept
    <2> QED BY <2>1 DEF RunInv
  <1>4. ShortestInv'
    BY DEF IInv, ShortestInv
  <1>5. TraceInv'
    BY DEF IInv, TraceInv, HasRow
  <1> QED BY <1>2, <1>3, <1>4, <1>5 DEF IInv

(* update_settings: whatever it sets, the shortest is on record. *)
LEMMA UpdateRetentionIInv ==
    ASSUME IInv, NEW p \in Projects, NEW d \in Retentions, UpdateRetention(p, d) PROVE IInv'
  <1> USE RetentionAssumption DEF store, ingest, run
  <1> DEFINE m == Min({shortest[p], d})
  <1>1. /\ retention' = [retention EXCEPT ![p] = d] /\ shortest' = [shortest EXCEPT ![p] = m]
        /\ UNCHANGED <<now, store, ingest, run, outages, restored, overlapped>>
    BY DEF UpdateRetention
  <1>2. /\ retention \in [Projects -> Retentions] /\ shortest \in [Projects -> Retentions]
        /\ now \in Int
    BY DEF IInv, RunTypes
  <1>3. m \in {shortest[p], d} /\ m <= shortest[p] /\ m <= d
    <2>1. {shortest[p], d} \subseteq Nat /\ {shortest[p], d} # {}
      BY <1>2
    <2>2. m \in {shortest[p], d} /\ \A y \in {shortest[p], d} : m <= y
      BY <2>1, MinIsLeast
    <2> QED BY <2>2
  <1> HIDE DEF m
  <1>4. RunTypes'
    BY <1>1, <1>2, <1>3 DEF IInv, RunTypes
  <1>5. ASSUME NEW q \in Projects
        PROVE  shortest'[q] <= shortest[q] /\ shortest'[q] <= retention'[q]
    <2>1. shortest[q] \in Nat /\ shortest[q] <= retention[q]
      BY PeriodsAreNat DEF IInv, ShortestInv
    <2>2. CASE q = p
      <3>1. shortest'[q] = m /\ retention'[q] = d
        BY <1>1, <1>2, <2>2
      <3> QED BY <1>3, <2>2, <3>1
    <2>3. CASE q # p
      <3>1. shortest'[q] = shortest[q] /\ retention'[q] = retention[q]
        BY <1>1, <1>2, <2>3
      <3> QED BY <2>1, <3>1
    <2> QED BY <2>2, <2>3
  <1>6. RunInv'
    <2>1. ASSUME NEW v \in Runs PROVE RunSafe(v)'
      <3>1. RunSafe(v)
        BY DEF IInv, RunInv
      <3>2. rpc[v] = "rows" => gone[v] \cap objects' \subseteq restored'[v]
        BY <1>1, <3>1 DEF RunSafe
      <3> QED BY <1>1, <1>2, <1>4, <1>5, <3>1, <3>2, RunSafeKept
    <2> QED BY <2>1 DEF RunInv
  <1>7. TraceInv'
    BY <1>1 DEF IInv, TraceInv, HasRow
  <1> QED BY <1>4, <1>5, <1>6, <1>7 DEF IInv, ShortestInv

(* A stored payload is noted by every run that waits to delete rows. *)
LEMMA StorePayloadIInv == ASSUME IInv, NEW s \in Arriving, StorePayload(s) PROVE IInv'
  <1> USE RetentionAssumption DEF run
  <1> DEFINE k == {KeyOf[s]} \ {NoKey}
  <1>1. /\ ipc[s] = "idle" /\ ipc' = [ipc EXCEPT ![s] = "stored"] /\ objects' = objects \cup k
        /\ restored' = [r \in Runs |-> IF rpc[r] = "rows" THEN restored[r] \cup k ELSE {}]
        /\ UNCHANGED <<now, retention, rows, traces, sees, run, outages, shortest, overlapped>>
    BY DEF StorePayload
  <1>2. k \subseteq Keys
    OBVIOUS
  <1> HIDE DEF k
  <1>3. RunTypes'
    BY <1>1, <1>2 DEF IInv, RunTypes
  <1>4. RunInv'
    <2>1. ASSUME NEW v \in Runs PROVE RunSafe(v)'
      <3>1. RunSafe(v)
        BY DEF IInv, RunInv
      <3>2. rpc[v] = "rows" => gone[v] \cap objects' \subseteq restored'[v]
        BY <1>1, <3>1 DEF RunSafe
      <3>3. now' >= now /\ \A p \in Projects : shortest'[p] <= shortest[p]
        BY <1>1, SameIsKept DEF IInv
      <3> QED BY <1>1, <1>3, <3>1, <3>2, <3>3, RunSafeKept
    <2> QED BY <2>1 DEF RunInv
  <1>5. \A q \in Arriving : ipc'[q] = "open" => ipc[q] = "open"
    BY <1>1 DEF IInv, RunTypes
  <1>6. TraceInv'
    BY <1>1, <1>5, TraceInvKept DEF IInv
  <1> QED BY <1>1, <1>3, <1>4, <1>6 DEF IInv, ShortestInv

(* The deliveries' transactions touch nothing of the runs. *)
LEMMA RunsKept ==
    ASSUME IInv, RunTypes', UNCHANGED <<now, retention, objects, run, shortest, restored>>
    PROVE  RunInv' /\ ShortestInv'
  <1>1. ASSUME NEW v \in Runs PROVE RunSafe(v)'
    <2>1. RunSafe(v)
      BY DEF IInv, RunInv
    <2>2. rpc[v] = "rows" => gone[v] \cap objects' \subseteq restored'[v]
      BY <2>1 DEF RunSafe
    <2>3. now' >= now /\ \A p \in Projects : shortest'[p] <= shortest[p]
      BY SameIsKept DEF IInv
    <2> QED BY <2>1, <2>2, <2>3, RunSafeKept DEF run
  <1> QED BY <1>1 DEF RunInv, IInv, ShortestInv

LEMMA InsertSpanIInv == ASSUME IInv, NEW s \in Arriving, InsertSpan(s) PROVE IInv'
  <1> USE RetentionAssumption DEF store, history
  <1> DEFINE starts == RowStarts(TraceOf[s])
             seen == IF starts = {} THEN -1 ELSE Min(starts)
  <1>1. /\ ipc[s] = "stored"
        /\ \/ ipc' = [ipc EXCEPT ![s] = "idle"] /\ sees' = sees
           \/ ipc' = [ipc EXCEPT ![s] = "open"] /\ sees' = [sees EXCEPT ![s] = seen]
        /\ UNCHANGED <<now, retention, store, deliveries, run, outages, history>>
    BY DEF InsertSpan
  <1>2. starts \subseteq Nat
    BY DEF IInv, RunTypes, RowStarts
  <1>3. seen \in Nat \cup {-1} /\ (seen # -1 => starts # {})
    BY <1>2, MinIsLeast
  <1> HIDE DEF seen, starts
  <1>4. RunTypes'
    BY <1>1, <1>3 DEF IInv, RunTypes, run
  <1>5. RunInv' /\ ShortestInv'
    BY <1>1, <1>4, RunsKept
  <1>6. ASSUME NEW q \in Arriving, ipc'[q] = "open", sees'[q] # -1
        PROVE  (ipc[q] = "open" /\ sees[q] # -1) \/ HasRow(TraceOf[q])
    <2>1. CASE q = s
      BY <1>1, <1>3, <1>6, <2>1, RowStartsOfTrace DEF IInv, RunTypes, starts
    <2>2. CASE q # s
      BY <1>1, <1>6, <2>2 DEF IInv, RunTypes
    <2> QED BY <2>1, <2>2
  <1>7. TraceInv'
    BY <1>1, <1>6, TraceInvKept DEF IInv
  <1> QED BY <1>4, <1>5, <1>7 DEF IInv

(* The commit leaves the trace with a row: it inserts or moves one, or the   *)
(* row it found has been removed under it.                                   *)
LEMMA CommitSpanIInv == ASSUME IInv, NEW s \in Arriving, CommitSpan(s) PROVE IInv'
  <1> USE RetentionAssumption DEF history
  <1> DEFINE t == TraceOf[s]
  <1>1. /\ ipc[s] = "open" /\ rows' = rows \cup {s}
        /\ \/ sees[s] = -1 /\ traces' = traces \cup {<<t, StartOf[s]>>}
           \/ sees[s] # -1 /\ traces' = (traces \ {<<t, sees[s]>>}) \cup {<<t, StartOf[s]>>}
           \/ sees[s] # -1 /\ traces' = traces
        /\ ipc' = [ipc EXCEPT ![s] = "idle"] /\ sees' = [sees EXCEPT ![s] = -1]
        /\ UNCHANGED <<now, retention, objects, deliveries, run, outages, history>>
    BY DEF CommitSpan
  <1>2. s \in Rows /\ t \in Traces /\ StartOf[s] \in Nat
    BY DEF Traces
  <1> HIDE DEF t
  <1>3. RunTypes'
    <2>1. traces' \subseteq Traces \X Nat
      BY <1>1, <1>2 DEF IInv, RunTypes
    <2> QED BY <1>1, <1>2, <2>1 DEF IInv, RunTypes, run
  <1>4. RunInv' /\ ShortestInv'
    BY <1>1, <1>3, RunsKept
  <1>5. ASSUME NEW u, HasRow(u) PROVE HasRow(u)'
    <2>1. PICK q \in traces : q[1] = u
      BY <1>5 DEF HasRow
    <2>2. CASE q \in traces'
      BY <2>1, <2>2 DEF HasRow
    <2>3. CASE q \notin traces'
      <3>1. q = <<t, sees[s]>> /\ <<t, StartOf[s]>> \in traces'
        BY <1>1, <2>1, <2>3
      <3>2. q[1] = t /\ <<t, StartOf[s]>>[1] = t
        BY <3>1
      <3> QED BY <2>1, <3>1, <3>2 DEF HasRow
    <2> QED BY <2>2, <2>3
  <1>6. HasRow(t)' \/ t \in overlapped
    <2>1. CASE sees[s] = -1
      <3>1. <<t, StartOf[s]>> \in traces' /\ <<t, StartOf[s]>>[1] = t
        BY <1>1, <2>1
      <3> QED BY <3>1 DEF HasRow
    <2>2. CASE sees[s] # -1
      BY <1>1, <1>5, <2>2 DEF IInv, TraceInv, t
    <2> QED BY <2>1, <2>2
  <1>7. TraceInv'
    <2>1. \A q \in rows' : HasRow(TraceOf[q])' \/ TraceOf[q] \in overlapped
      BY <1>1, <1>5, <1>6 DEF IInv, TraceInv, t
    <2>2. \A q \in Arriving : ipc'[q] = "open" => q # s /\ ipc[q] = "open" /\ sees'[q] = sees[q]
      BY <1>1 DEF IInv, RunTypes
    <2>3. \A q \in Arriving : ipc'[q] = "open" /\ sees'[q] # -1 =>
             HasRow(TraceOf[q])' \/ TraceOf[q] \in overlapped
      BY <1>5, <2>2 DEF IInv, TraceInv
    <2> QED BY <1>1, <2>1, <2>3 DEF TraceInv, HasRow
  <1> QED BY <1>3, <1>4, <1>7 DEF IInv

-----------------------------------------------------------------------------
(* A step of one run leaves the others safe: it stores no object. *)
LEMMA OthersKept ==
    ASSUME IInv, RunTypes', NEW r \in Runs, RunSafe(r)',
           UNCHANGED <<now, retention, shortest>>, objects' \subseteq objects,
           \A v \in Runs \ {r} :
              /\ rpc'[v] = rpc[v] /\ todo'[v] = todo[v] /\ project'[v] = project[v]
              /\ cutoff'[v] = cutoff[v] /\ batch'[v] = batch[v] /\ gone'[v] = gone[v]
              /\ restored'[v] = restored[v]
    PROVE  RunInv' /\ ShortestInv'
  <1>1. ASSUME NEW v \in Runs \ {r} PROVE RunSafe(v)'
    <2>1. RunSafe(v)
      BY DEF IInv, RunInv
    <2>2. rpc[v] = "rows" => gone[v] \cap objects' \subseteq restored'[v]
      BY <2>1 DEF RunSafe
    <2>3. now' >= now /\ \A p \in Projects : shortest'[p] <= shortest[p]
      BY SameIsKept DEF IInv
    <2> QED BY <2>1, <2>2, <2>3, RunSafeKept
  <1> QED BY <1>1 DEF RunInv, IInv, ShortestInv

(* Between transactions no trace is left without its row. *)
LEMMA TracesKept ==
    ASSUME IInv, rows' \subseteq rows, UNCHANGED <<traces, ingest, overlapped>>
    PROVE  TraceInv'
  BY TraceInvKept DEF IInv, ingest

(* The periods a run reads are the projects' present ones. *)
LEMMA StartRunIInv == ASSUME IInv, NEW r \in Runs, StartRun(r) PROVE IInv'
  <1> USE DEF StartRun, store, ingest, history
  <1> DEFINE all == {<<p, retention[p]>> : p \in Projects}
  <1>1. all \subseteq Projects \X Retentions
    BY DEF IInv, RunTypes
  <1>2. \A pd \in all : shortest[pd[1]] <= pd[2]
    BY DEF IInv, ShortestInv
  <1>3. todo' = [todo EXCEPT ![r] = all]
    OBVIOUS
  <1> HIDE DEF all
  <1>4. RunTypes'
    BY <1>1, <1>3 DEF IInv, RunTypes, RunPcs
  <1>5. RunSafe(r)'
    BY <1>2, <1>3 DEF IInv, RunTypes, RunSafe
  <1>6. RunInv' /\ ShortestInv'
    BY <1>3, <1>4, <1>5, OthersKept DEF IInv, RunTypes
  <1> QED BY <1>4, <1>6, TracesKept DEF IInv

(* The cutoff is taken from a period the project has had, and from today. *)
LEMMA NextProjectIInv == ASSUME IInv, NEW r \in Runs, NextProject(r) PROVE IInv'
  <1> USE DEF store, ingest, history
  <1>1. /\ rpc[r] = "next" /\ RunSafe(r) /\ RunTypes
        /\ UNCHANGED <<now, retention, store, ingest, batch, gone, outages, history>>
    BY DEF NextProject, IInv, RunInv
  <1>2. CASE rpc' = [rpc EXCEPT ![r] = "idle"] /\ UNCHANGED <<todo, project, cutoff>>
    <2>1. RunTypes'
      BY <1>1, <1>2 DEF RunTypes, RunPcs
    <2>2. RunSafe(r)'
      BY <1>1, <1>2 DEF RunTypes, RunSafe
    <2>3. RunInv' /\ ShortestInv'
      BY <1>1, <1>2, <2>1, <2>2, OthersKept DEF RunTypes
    <2> QED BY <1>1, <2>1, <2>3, TracesKept DEF IInv
  <1>3. ASSUME NEW pd \in todo[r],
               /\ todo' = [todo EXCEPT ![r] = @ \ {pd}]
               /\ project' = [project EXCEPT ![r] = pd[1]]
               /\ cutoff' = [cutoff EXCEPT ![r] = now - pd[2]]
               /\ rpc' = [rpc EXCEPT ![r] = "fetch"]
        PROVE  IInv'
    <2>1. /\ pd[1] \in Projects /\ pd[2] \in Nat /\ now \in Int
          /\ shortest[pd[1]] \in Nat /\ shortest[pd[1]] <= pd[2]
      <3>1. pd \in Projects \X Retentions /\ shortest[pd[1]] <= pd[2]
        BY <1>1, <1>3 DEF RunTypes, RunSafe
      <3> QED BY <1>1, <3>1, PeriodsAreNat
    <2>2. now - pd[2] \in Int /\ now - pd[2] <= now - shortest[pd[1]]
      BY <2>1
    <2>3. RunTypes'
      BY <1>1, <1>3, <2>1, <2>2 DEF RunTypes, RunPcs
    <2>4. /\ todo'[r] = todo[r] \ {pd} /\ project'[r] = pd[1] /\ cutoff'[r] = now - pd[2]
          /\ rpc'[r] = "fetch"
      BY <1>1, <1>3 DEF RunTypes
    <2>5. RunSafe(r)'
      BY <1>1, <2>1, <2>2, <2>4 DEF RunSafe
    <2>6. RunInv' /\ ShortestInv'
      BY <1>1, <1>3, <2>3, <2>5, OthersKept DEF RunTypes
    <2> QED BY <1>1, <2>3, <2>6, TracesKept DEF IInv
  <1> QED BY <1>2, <1>3 DEF NextProject

(* A batch is made of expired rows of the project. *)
LEMMA FetchBatchIInv == ASSUME IInv, NEW r \in Runs, FetchBatch(r) PROVE IInv'
  <1> USE DEF store, ingest, history
  <1>1. /\ rpc[r] = "fetch" /\ RunSafe(r) /\ RunTypes
        /\ UNCHANGED <<now, retention, store, ingest, todo, project, cutoff, gone,
                       outages, history>>
    BY DEF FetchBatch, IInv, RunInv
  <1>2. PICK b \in SUBSET rows :
          /\ OldestBatch(project[r], cutoff[r], b)
          /\ batch' = [batch EXCEPT ![r] = b]
          /\ rpc' = [rpc EXCEPT ![r] = IF b = {} THEN "traces" ELSE "objects"]
    BY DEF FetchBatch
  <1>3. \A s \in b : ProjectOf[s] = project[r] /\ StartOf[s] < cutoff[r]
    BY <1>2 DEF OldestBatch, ExpiredAt, RowsOf
  <1>4. RunTypes'
    BY <1>1, <1>2 DEF RunTypes, RunPcs
  <1>5. batch'[r] = b /\ rpc'[r] \in {"traces", "objects"}
    BY <1>1, <1>2 DEF RunTypes
  <1>6. RunSafe(r)'
    BY <1>1, <1>3, <1>5 DEF RunSafe
  <1>7. RunInv' /\ ShortestInv'
    BY <1>1, <1>2, <1>4, <1>6, OthersKept DEF RunTypes
  <1> QED BY <1>1, <1>4, <1>7, TracesKept DEF IInv

(* What S3 reports deleted is not there any more; with an outage it may      *)
(* report less than it deleted.                                              *)
LEMMA ObjectsDeletedIInv ==
    ASSUME IInv, NEW r \in Runs, rpc[r] = "objects",
           NEW done \in SUBSET SafeKeys(r), NEW told \in SUBSET done,
           objects' = objects \ done, gone' = [gone EXCEPT ![r] = told],
           rpc' = [rpc EXCEPT ![r] = "rows"],
           UNCHANGED <<now, retention, rows, traces, ingest, todo, project, cutoff,
                       batch, history>>
    PROVE  IInv'
  <1> USE DEF ingest, history
  <1>1. RunSafe(r) /\ RunTypes
    BY DEF IInv, RunInv
  <1>2. told \subseteq Keys
    <2>1. \A s \in batch[r] : KeyOf[s] \in Keys \cup {NoKey}
      BY <1>1, RetentionAssumption DEF RunTypes
    <2> QED BY <2>1 DEF SafeKeys
  <1>3. RunTypes'
    BY <1>1, <1>2 DEF RunTypes, RunPcs
  <1>4. rpc'[r] = "rows" /\ gone'[r] = told
    BY <1>1 DEF RunTypes
  <1>5. RunSafe(r)'
    BY <1>1, <1>4 DEF RunSafe
  <1>6. RunInv' /\ ShortestInv'
    BY <1>1, <1>3, <1>5, OthersKept DEF RunTypes
  <1> QED BY <1>3, <1>6, TracesKept DEF IInv

LEMMA DeleteObjectsIInv == ASSUME IInv, NEW r \in Runs, DeleteObjects(r) PROVE IInv'
  <1>1. SafeKeys(r) \ Refused \in SUBSET SafeKeys(r)
    OBVIOUS
  <1> QED BY <1>1, ObjectsDeletedIInv DEF DeleteObjects

LEMMA DeleteObjectsFailsIInv ==
    ASSUME IInv, NEW r \in Runs, DeleteObjectsFails(r) PROVE IInv'
  <1>1. PICK done \in SUBSET (SafeKeys(r) \ Refused) :
          /\ objects' = objects \ done
          /\ \E told \in {{}, done} : gone' = [gone EXCEPT ![r] = told]
    BY DEF DeleteObjectsFails
  <1>2. PICK told \in {{}, done} : gone' = [gone EXCEPT ![r] = told]
    BY <1>1
  <1>3. done \in SUBSET SafeKeys(r) /\ told \in SUBSET done
    BY <1>2
  <1> QED BY <1>1, <1>2, <1>3, ObjectsDeletedIInv DEF DeleteObjectsFails

LEMMA DeleteSpansIInv == ASSUME IInv, NEW r \in Runs, DeleteSpans(r) PROVE IInv'
  <1> USE DEF DeleteSpans, ingest
  <1>1. RunSafe(r) /\ RunTypes
    BY DEF IInv, RunInv
  <1>2. RunTypes'
    BY <1>1 DEF RunTypes, RunPcs
  <1>3. rpc'[r] \in {"traces", "fetch"}
    BY <1>1 DEF RunTypes
  <1>4. RunSafe(r)'
    BY <1>1, <1>3 DEF RunSafe
  <1>5. RunInv' /\ ShortestInv'
    BY <1>1, <1>2, <1>4, OthersKept DEF RunTypes
  <1> QED BY <1>2, <1>5, TracesKept DEF IInv

(* A trace row goes only when no span of the trace is stored; a delivery     *)
(* that has found the row is the one case that is left.                      *)
LEMMA DeleteStaleTracesIInv == ASSUME IInv, NEW r \in Runs, DeleteStaleTraces(r) PROVE IInv'
  <1> USE DEF ingest
  <1> DEFINE stale == Stale(project[r], cutoff[r])
  <1>1. /\ traces' = traces \ stale
        /\ overlapped' = overlapped \cup
              {t \in {q[1] : q \in stale} : \E s \in Arriving : TraceOf[s] = t /\ ipc[s] = "open"}
        /\ rpc' = [rpc EXCEPT ![r] = "next"]
        /\ project' = [project EXCEPT ![r] = AnyProject]
        /\ cutoff' = [cutoff EXCEPT ![r] = 0]
        /\ UNCHANGED <<now, retention, rows, objects, ingest, todo, batch, gone, outages,
                       shortest, restored>>
    BY DEF DeleteStaleTraces
  <1>2. RunSafe(r) /\ RunTypes /\ TraceInv
    BY DEF IInv, RunInv
  <1>3. ASSUME NEW q \in stale, NEW s \in rows PROVE q[1] # TraceOf[s]
    <2>1. SUFFICES ASSUME q[1] = TraceOf[s] PROVE FALSE
      OBVIOUS
    <2>2. PICK u \in Rows : ProjectOf[u] = project[r] /\ TraceOf[u] = q[1]
      BY DEF Stale, RowsOf
    <2>3. s \in Rows
      BY <1>2 DEF RunTypes
    <2>4. ProjectOf[s] = project[r]
      BY <2>1, <2>2, <2>3, RetentionAssumption
    <2> QED BY <2>1, <2>4 DEF Stale, RowsOf
  <1> HIDE DEF stale
  <1>4. RunTypes'
    BY <1>1, <1>2 DEF RunTypes, RunPcs
  <1>5. RunSafe(r)'
    BY <1>1, <1>2 DEF RunSafe, RunTypes
  <1>6. RunInv' /\ ShortestInv'
    BY <1>1, <1>2, <1>4, <1>5, OthersKept DEF RunTypes
  <1>7. ASSUME NEW t, HasRow(t) PROVE HasRow(t)' \/ \E q \in stale : q[1] = t
    BY <1>1, <1>7 DEF HasRow
  <1>8. ASSUME NEW s \in rows PROVE HasRow(TraceOf[s])' \/ TraceOf[s] \in overlapped'
    BY <1>1, <1>2, <1>3, <1>7 DEF TraceInv
  <1>9. ASSUME NEW s \in Arriving, ipc[s] = "open", sees[s] # -1
        PROVE  HasRow(TraceOf[s])' \/ TraceOf[s] \in overlapped'
    <2>1. CASE TraceOf[s] \in overlapped
      BY <1>1, <2>1
    <2>2. CASE HasRow(TraceOf[s])
      <3>1. CASE \E q \in stale : q[1] = TraceOf[s]
        BY <1>1, <1>9, <3>1
      <3> QED BY <1>7, <2>2, <3>1
    <2> QED BY <1>2, <1>9, <2>1, <2>2 DEF TraceInv
  <1>10. TraceInv'
    BY <1>1, <1>8, <1>9 DEF TraceInv
  <1> QED BY <1>4, <1>6, <1>10 DEF IInv

LEMMA RunAbortsIInv == ASSUME IInv, NEW r \in Runs, RunAborts(r) PROVE IInv'
  <1> USE DEF RunAborts, store, ingest
  <1>1. RunTypes
    BY DEF IInv
  <1>2. RunTypes'
    BY <1>1 DEF RunTypes, RunPcs
  <1>3. RunSafe(r)'
    BY <1>1 DEF RunSafe, RunTypes
  <1>4. RunInv' /\ ShortestInv'
    BY <1>1, <1>2, <1>3, OthersKept DEF RunTypes
  <1> QED BY <1>2, <1>4, TracesKept DEF IInv

LEMMA NextIInv == ASSUME IInv, [Next]_vars PROVE IInv'
  <1>1. CASE UNCHANGED vars
    BY <1>1 DEF IInv, RunTypes, ShortestInv, RunInv, RunSafe, TraceInv, HasRow, vars, store,
                ingest, run, history
  <1>2. CASE Next
    <2>1. ASSUME NEW r \in Runs, RunStep(r) PROVE IInv'
      BY <2>1, StartRunIInv, NextProjectIInv, FetchBatchIInv, DeleteObjectsIInv,
         DeleteSpansIInv, DeleteStaleTracesIInv DEF RunStep
    <2> QED BY <1>2, <2>1, TickIInv, UpdateRetentionIInv, StorePayloadIInv, InsertSpanIInv,
               CommitSpanIInv, DeleteObjectsFailsIInv, RunAbortsIInv DEF Next
  <1> QED BY <1>1, <1>2

(* The invariant holds of run_data_retention beside the span worker, however *)
(* the runs overlap and wherever they are aborted.                           *)
THEOREM Invariance == Spec => []IInv
  BY InitIInv, NextIInv, PTL DEF Spec

(* Every stored span has its trace row, unless _delete_stale_traces removed  *)
(* it under a delivery whose transaction had already found it.               *)
THEOREM SpansHaveTraces == Spec => []SpansKeepTheirTrace
  <1>1. IInv => SpansKeepTheirTrace
    BY RowStartsOfTrace DEF IInv, TraceInv, SpansKeepTheirTrace
  <1> QED BY <1>1, Invariance, PTL

-----------------------------------------------------------------------------
(* What a batch holds is too old for every retention its project has had. *)
LEMMA BatchIsOld ==
    ASSUME IInv, NEW r \in Runs, rpc[r] \in {"objects", "rows"}, NEW s \in batch[r]
    PROVE  s \in Rows /\ ProjectOf[s] = project[r] /\ TooOld(s)
  <1>1. RunSafe(r) /\ RunTypes
    BY DEF IInv, RunInv
  <1>2. s \in Rows /\ StartOf[s] \in Nat /\ cutoff[r] \in Int
    BY <1>1, RetentionAssumption DEF RunTypes
  <1>3. /\ project[r] \in Projects /\ cutoff[r] <= now - shortest[project[r]]
        /\ ProjectOf[s] = project[r] /\ StartOf[s] < cutoff[r]
    BY <1>1 DEF RunSafe
  <1>4. now \in Int /\ shortest[project[r]] \in Nat
    BY <1>1, <1>3, PeriodsAreNat
  <1>5. StartOf[s] < now - shortest[project[r]]
    BY <1>2, <1>3, <1>4
  <1> QED BY <1>2, <1>3, <1>5 DEF TooOld

(* _delete_s3_objects removes payloads of expired rows of the project. *)
LEMMA ObjectsGoSafely ==
    ASSUME IInv, NEW r \in Runs, rpc[r] = "objects",
           NEW done \in SUBSET SafeKeys(r), objects' = objects \ done, rows' = rows
    PROVE  SafeDeletion
  <1>1. ASSUME NEW k \in objects \ objects'
        PROVE  \E v \in Runs : /\ rpc[v] = "objects" /\ HomeOf[k] = project[v]
                               /\ \E s \in batch[v] : /\ KeyOf[s] = k /\ TooOld(s)
                                                      /\ ProjectOf[s] = project[v]
    <2>1. k \in SafeKeys(r)
      OBVIOUS
    <2>2. PICK s \in batch[r] : KeyOf[s] = k
      BY <2>1 DEF SafeKeys
    <2>3. HomeOf[k] = project[r]
      BY <2>1 DEF SafeKeys, IsProjectPayloadKey
    <2> QED BY <2>2, <2>3, BatchIsOld
  <1> QED BY <1>1 DEF SafeDeletion

(* _delete_span_batch removes rows whose payload went before them. *)
LEMMA RowsGoSafely == ASSUME IInv, NEW r \in Runs, DeleteSpans(r) PROVE SafeDeletion
  <1>1. rpc[r] = "rows" /\ rows' = rows \ Deletable(r) /\ objects' = objects
    BY DEF DeleteSpans
  <1>2. RunSafe(r) /\ RunTypes
    BY DEF IInv, RunInv
  <1>3. ASSUME NEW s \in rows \ rows'
        PROVE  /\ TooOld(s)
               /\ (KeyOf[s] \in objects /\ HomeOf[KeyOf[s]] = ProjectOf[s]) =>
                     \E v \in Runs : /\ rpc[v] = "rows" /\ s \in batch[v]
                                     /\ KeyOf[s] \in restored[v]
    <2>1. s \in Deletable(r) /\ s \in batch[r]
      BY <1>1 DEF Deletable
    <2>2. TooOld(s) /\ ProjectOf[s] = project[r]
      BY <1>1, <2>1, BatchIsOld
    <2>3. ASSUME KeyOf[s] \in objects, HomeOf[KeyOf[s]] = ProjectOf[s]
          PROVE  KeyOf[s] \in restored[r]
      <3>1. KeyOf[s] # NoKey
        BY <1>2, <2>3, RetentionAssumption DEF RunTypes
      <3>2. KeyOf[s] \in gone[r]
        BY <2>1, <2>2, <2>3, <3>1 DEF Deletable, IsProjectPayloadKey
      <3> QED BY <1>1, <1>2, <2>3, <3>2 DEF RunSafe
    <2> QED BY <1>1, <2>1, <2>2, <2>3
  <1> QED BY <1>1, <1>3 DEF SafeDeletion

(* Deletion is safe: whatever retention periods a project has had, and       *)
(* whatever overlapping runs, an outage of S3 or a late delivery do in       *)
(* between, run_data_retention removes no row that is not expired, no row    *)
(* before its payload, and no object but the payload of an expired row of    *)
(* its batch under the prefix of that row's project.                         *)
THEOREM DeletesSafely == Spec => DeletionIsSafe
  <1>1. ASSUME IInv, [Next]_vars PROVE [SafeDeletion]_vars
    <2>1. CASE rows \subseteq rows' /\ objects \subseteq objects'
      BY <2>1 DEF SafeDeletion
    <2>2. ASSUME NEW r \in Runs, DeleteObjects(r) PROVE SafeDeletion
      <3>1. SafeKeys(r) \ Refused \in SUBSET SafeKeys(r)
        OBVIOUS
      <3> QED BY <1>1, <2>2, <3>1, ObjectsGoSafely DEF DeleteObjects
    <2>3. ASSUME NEW r \in Runs, DeleteObjectsFails(r) PROVE SafeDeletion
      <3>1. PICK done \in SUBSET (SafeKeys(r) \ Refused) : objects' = objects \ done
        BY <2>3 DEF DeleteObjectsFails
      <3>2. done \in SUBSET SafeKeys(r)
        OBVIOUS
      <3> QED BY <1>1, <2>3, <3>1, <3>2, ObjectsGoSafely DEF DeleteObjectsFails
    <2>4. ASSUME NEW r \in Runs, DeleteSpans(r) PROVE SafeDeletion
      BY <1>1, <2>4, RowsGoSafely
    <2>5. ASSUME NEW s \in Arriving, StorePayload(s) \/ InsertSpan(s) \/ CommitSpan(s)
          PROVE  rows \subseteq rows' /\ objects \subseteq objects'
      BY <2>5 DEF StorePayload, InsertSpan, CommitSpan, store
    <2>6. ASSUME NEW r \in Runs,
                 StartRun(r) \/ NextProject(r) \/ FetchBatch(r) \/ DeleteStaleTraces(r)
                   \/ RunAborts(r)
          PROVE  rows \subseteq rows' /\ objects \subseteq objects'
      BY <2>6 DEF StartRun, NextProject, FetchBatch, DeleteStaleTraces, RunAborts, store
    <2>7. ASSUME Tick \/ \E p \in Projects, d \in Retentions : UpdateRetention(p, d)
          PROVE  rows \subseteq rows' /\ objects \subseteq objects'
      BY <2>7 DEF Tick, UpdateRetention, store
    <2>8. CASE UNCHANGED vars
      BY <2>8
    <2> QED BY <1>1, <2>1, <2>2, <2>3, <2>4, <2>5, <2>6, <2>7, <2>8 DEF Next, RunStep
  <1> QED BY <1>1, Invariance, PTL DEF Spec, DeletionIsSafe
=============================================================================
