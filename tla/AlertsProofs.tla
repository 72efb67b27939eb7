---------------------------- MODULE AlertsProofs ----------------------------
(***************************************************************************)
(* Proofs that the alert tasks keep OneNoticePerTask and                   *)
(* SilenceIsExplained for any rules, conditions, destinations and          *)
(* situations, any number of overlapping tasks, edits and faults.          *)
(***************************************************************************)
EXTENDS Alerts, TLAPS

(* A task notifies one rule at a time, and works on and silences only rules *)
(* that were created: an id that is yet to be given has no past.            *)
KnownInv ==
    /\ \A t \in Tasks : \A r, s \in cur[t] : r = s
    /\ \A r \in cooldown : status[r] # "new"
    /\ \A t \in Tasks : \A r \in cur[t] : status[r] # "new"
    /\ \A t \in Tasks : \A w \in todo[t] : status[w[1]] # "new"

(* Whoever notified a rule did so in the cooldown that has not expired. *)
CooldownInv == \A r \in Rules \ cooldown : tellers[r] = {}

(* The inductive invariant. *)
IInv ==
    /\ TypeOK
    /\ KnownInv
    /\ CooldownInv
    /\ OneNoticePerTask
    /\ SilenceIsExplained

-----------------------------------------------------------------------------
(* Init establishes the inductive invariant. *)
LEMMA InitIInv == Init => IInv
  <1> SUFFICES ASSUME Init PROVE IInv
    OBVIOUS
  <1>1. TypeOK
    BY AlertsAssumption DEF Init, TypeOK, rules, Channels
  <1>2. KnownInv /\ CooldownInv /\ OneNoticePerTask /\ SilenceIsExplained
    BY DEF Init, KnownInv, CooldownInv, OneNoticePerTask, SilenceIsExplained
  <1> QED
    BY <1>1, <1>2 DEF IInv

(* LoadChanges keeps the inductive invariant. *)
LEMMA LoadChangesIInv ==
    ASSUME IInv, NEW l \in Loads, LoadChanges(l)
    PROVE  IInv'
  <1> USE DEF IInv, LoadChanges, Change, tasks, history
  <1>1. changes' \in 0 .. MaxChanges
    BY AlertsAssumption DEF TypeOK
  <1>2. TypeOK'
    BY <1>1 DEF TypeOK, rules
  <1>3. KnownInv' /\ CooldownInv' /\ OneNoticePerTask' /\ SilenceIsExplained'
    BY DEF KnownInv, CooldownInv, OneNoticePerTask, SilenceIsExplained, rules
  <1> QED
    BY <1>2, <1>3

(* CooldownExpires keeps the inductive invariant. *)
LEMMA CooldownExpiresIInv ==
    ASSUME IInv, NEW r \in Rules, CooldownExpires(r)
    PROVE  IInv'
  <1> USE DEF IInv, CooldownExpires, rulesState, tasks
  <1>1. TypeOK'
    BY DEF TypeOK, rules
  <1>2. KnownInv'
    BY DEF TypeOK, KnownInv
  <1>3. CooldownInv'
    BY DEF TypeOK, CooldownInv
  <1>4. OneNoticePerTask'
    BY DEF TypeOK, OneNoticePerTask
  <1>5. SilenceIsExplained'
    BY DEF SilenceIsExplained, rules
  <1> QED
    BY <1>1, <1>2, <1>3, <1>4, <1>5

(* CreateRule keeps the inductive invariant: nothing is known of the id. *)
LEMMA CreateRuleIInv ==
    ASSUME IInv, NEW r \in Rules, NEW th \in Thresholds \cup {NoThreshold},
           CreateRule(r, th)
    PROVE  IInv'
  <1> USE DEF IInv, CreateRule, SetStatus, Change, tasks, history
  <1>1. changes' \in 0 .. MaxChanges
    BY AlertsAssumption DEF TypeOK
  <1>2. TypeOK'
    BY <1>1 DEF TypeOK, rules
  <1>3. KnownInv'
    BY DEF TypeOK, KnownInv
  <1>4. CooldownInv' /\ OneNoticePerTask'
    BY DEF CooldownInv, OneNoticePerTask
  <1>5. SilenceIsExplained'
    BY DEF TypeOK, KnownInv, SilenceIsExplained, rules
  <1> QED
    BY <1>2, <1>3, <1>4, <1>5

(* UpdateRule keeps the inductive invariant. *)
LEMMA UpdateRuleIInv ==
    ASSUME IInv, NEW r \in Rules, UpdateRule(r)
    PROVE  IInv'
  <1> USE DEF IInv, UpdateRule, SetStatus, Change, tasks, history
  <1>1. changes' \in 0 .. MaxChanges
    BY AlertsAssumption DEF TypeOK
  <1>2. status' \in [Rules -> {"new", "active", "inactive", "deleted"}]
    BY DEF TypeOK
  <1>3. /\ \A s \in Rules : status'[s] = "new" <=> status[s] = "new"
        /\ rules' = rules
    BY DEF TypeOK, rules
  <1>4. threshold' \in [Windowed -> Thresholds \cup {NoThreshold}]
    BY DEF TypeOK
  <1>5. TypeOK'
    BY <1>1, <1>2, <1>3, <1>4 DEF TypeOK
  <1>6. KnownInv'
    BY <1>3, AlertsAssumption DEF TypeOK, KnownInv, Work
  <1>7. CooldownInv' /\ OneNoticePerTask' /\ SilenceIsExplained'
    BY <1>3 DEF CooldownInv, OneNoticePerTask, SilenceIsExplained
  <1> QED
    BY <1>5, <1>6, <1>7

(* DeleteRule keeps the inductive invariant. *)
LEMMA DeleteRuleIInv ==
    ASSUME IInv, NEW r \in Rules, DeleteRule(r)
    PROVE  IInv'
  <1> USE DEF IInv, DeleteRule, SetStatus, Change, tasks, history
  <1>1. changes' \in 0 .. MaxChanges
    BY AlertsAssumption DEF TypeOK
  <1>2. TypeOK'
    BY <1>1 DEF TypeOK, rules
  <1>3. KnownInv'
    BY DEF TypeOK, KnownInv
  <1>4. CooldownInv' /\ OneNoticePerTask'
    BY DEF CooldownInv, OneNoticePerTask
  <1>5. SilenceIsExplained'
    BY DEF TypeOK, SilenceIsExplained, rules
  <1> QED
    BY <1>2, <1>3, <1>4, <1>5

-----------------------------------------------------------------------------
(* A task that starts on rules that exist keeps the inductive invariant. *)
LEMMA StartIInv ==
    ASSUME IInv, NEW t \in Tasks, NEW work \in SUBSET Work, Start(t, work),
           \A w \in work : status[w[1]] # "new"
    PROVE  IInv'
  <1> USE DEF IInv, Start, rulesState, history
  <1>1. TypeOK'
    BY DEF TypeOK, rules
  <1>2. KnownInv'
    BY DEF TypeOK, KnownInv
  <1>3. CooldownInv' /\ OneNoticePerTask'
    BY DEF TypeOK, CooldownInv, OneNoticePerTask
  <1>4. SilenceIsExplained'
    BY DEF TypeOK, SilenceIsExplained, rules
  <1> QED
    BY <1>1, <1>2, <1>3, <1>4

(* StartScheduled keeps the inductive invariant. *)
LEMMA StartScheduledIInv ==
    ASSUME IInv, NEW t \in Tasks, StartScheduled(t)
    PROVE  IInv'
  <1> DEFINE work == {<<r, threshold[r], channels[r]>> : r \in active \cap Windowed}
  <1>1. work \in SUBSET Work
    BY DEF IInv, TypeOK, active, Work
  <1>2. \A w \in work : status[w[1]] # "new"
    BY DEF active
  <1> QED
    BY <1>1, <1>2, StartIInv DEF StartScheduled

(* StartBatch keeps the inductive invariant. *)
LEMMA StartBatchIInv ==
    ASSUME IInv, NEW t \in Tasks, StartBatch(t)
    PROVE  IInv'
  <1> DEFINE work == {<<r, s, channels[r]>> : r \in active \ Windowed, s \in Spans}
  <1>1. work \in SUBSET Work
    BY DEF IInv, TypeOK, active, Work
  <1>2. \A w \in work : status[w[1]] # "new"
    BY DEF active
  <1> QED
    BY <1>1, <1>2, StartIInv DEF StartBatch

(* Taking the next rule or span keeps the inductive invariant, whatever is  *)
(* decided about it.                                                        *)
LEMMA TakeIInv ==
    ASSUME IInv, NEW t \in Tasks, NEW w, NEW go \in BOOLEAN, Take(t, w, go)
    PROVE  IInv'
  <1> USE DEF IInv, Take, rulesState, history
  <1>1. w \in Work /\ w[1] \in Rules /\ w[3] \in SUBSET Channels /\ status[w[1]] # "new"
    BY AlertsAssumption DEF TypeOK, KnownInv, Work
  <1>2. TypeOK'
    BY <1>1 DEF TypeOK, rules
  <1>3. KnownInv'
    BY <1>1 DEF TypeOK, KnownInv
  <1>4. CooldownInv' /\ OneNoticePerTask'
    BY DEF TypeOK, CooldownInv, OneNoticePerTask
  <1>5. SilenceIsExplained'
    BY DEF TypeOK, SilenceIsExplained, rules
  <1> QED
    BY <1>2, <1>3, <1>4, <1>5

(* EvaluateRule keeps the inductive invariant. *)
LEMMA EvaluateRuleIInv ==
    ASSUME IInv, NEW t \in Tasks, NEW w \in todo[t], EvaluateRule(t, w)
    PROVE  IInv'
  <1> DEFINE go == w[1] \notin cooldown /\ Triggered(w[1], w[2], WindowAt[load])
  <1>1. go \in BOOLEAN
    OBVIOUS
  <1>2. Take(t, w, go)
    BY DEF EvaluateRule
  <1> QED
    BY <1>1, <1>2, TakeIInv

(* CheckSpan keeps the inductive invariant. *)
LEMMA CheckSpanIInv ==
    ASSUME IInv, NEW t \in Tasks, NEW w \in todo[t], CheckSpan(t, w)
    PROVE  IInv'
  <1> PICK l \in Loads : Take(t, w, Anomalous(w[2], l))
    BY DEF CheckSpan
  <1>1. Anomalous(w[2], l) \in BOOLEAN
    BY DEF Anomalous
  <1> QED
    BY <1>1, TakeIInv

(* A task that ends keeps the inductive invariant if it had nothing to      *)
(* store, or it is recorded that it has not.                                *)
LEMMA LeaveIInv ==
    ASSUME IInv, NEW t \in Tasks, Leave(t), UNCHANGED <<load, rulesState>>,
           UNCHANGED <<events, tellers>>,
           cooldown \subseteq cooldown', cooldown' \subseteq cooldown \cup cur[t],
           faults' \in 0 .. MaxFaults, unrecorded' \in SUBSET Rules,
           unrecorded \subseteq unrecorded',
           apc[t] = "record" \/ cooldown' # cooldown => \A r \in cur[t] : r \in unrecorded' \/ r \notin rules
    PROVE  IInv'
  <1> USE DEF IInv, Leave, Forget, rulesState
  <1>1. TypeOK'
    BY DEF TypeOK, rules
  <1>2. KnownInv'
    BY DEF TypeOK, KnownInv
  <1>3. CooldownInv' /\ OneNoticePerTask'
    BY DEF TypeOK, CooldownInv, OneNoticePerTask
  <1>4. SilenceIsExplained'
    BY DEF TypeOK, SilenceIsExplained, rules
  <1> QED
    BY <1>1, <1>2, <1>3, <1>4

(* EndTask keeps the inductive invariant. *)
LEMMA EndTaskIInv ==
    ASSUME IInv, NEW t \in Tasks, EndTask(t)
    PROVE  IInv'
  <1>1. faults' \in 0 .. MaxFaults /\ unrecorded' \in SUBSET Rules
    BY DEF IInv, TypeOK, EndTask, history
  <1> QED
    BY <1>1, LeaveIInv DEF EndTask, history

(* A task that goes on with its next rule keeps the inductive invariant,    *)
(* unless it was to store an event and has not.                             *)
LEMMA ContinueIInv ==
    ASSUME IInv, NEW t \in Tasks, apc[t] # "idle", Continue(t),
           UNCHANGED <<load, rulesState>>,
           UNCHANGED <<cooldown, tellers, unrecorded>>,
           faults' \in 0 .. MaxFaults,
           events' \subseteq rules, events \subseteq events',
           apc[t] = "record" => cur[t] \subseteq events'
    PROVE  IInv'
  <1> USE DEF IInv, Continue, Forget, rulesState
  <1>1. TypeOK'
    BY DEF TypeOK, rules
  <1>2. KnownInv'
    BY DEF TypeOK, KnownInv
  <1>3. CooldownInv' /\ OneNoticePerTask'
    BY DEF TypeOK, CooldownInv, OneNoticePerTask
  <1>4. SilenceIsExplained'
    BY DEF TypeOK, SilenceIsExplained, rules
  <1> QED
    BY <1>1, <1>2, <1>3, <1>4

(* A task that goes on with the rule it is notifying keeps the inductive    *)
(* invariant, if it has not notified it in this cooldown.                   *)
LEMMA GotoIInv ==
    ASSUME IInv, NEW t \in Tasks, NEW p \in {"slack", "email", "cool"},
           apc[t] \in {"check", "slack", "email"}, Goto(t, p),
           sent' \in [Tasks -> BOOLEAN], faults' \in 0 .. MaxFaults,
           UNCHANGED <<load, rulesState>>, UNCHANGED <<cooldown, events, history>>,
           \A r \in cur[t] : t \notin tellers[r]
    PROVE  IInv'
  <1> USE DEF IInv, Goto, rulesState, history
  <1>1. TypeOK'
    BY DEF TypeOK, rules
  <1>2. KnownInv' /\ CooldownInv'
    BY DEF KnownInv, CooldownInv
  <1>3. OneNoticePerTask'
    BY DEF TypeOK, OneNoticePerTask
  <1>4. SilenceIsExplained'
    BY DEF TypeOK, SilenceIsExplained, rules
  <1> QED
    BY <1>1, <1>2, <1>3, <1>4

(* CheckCooldown keeps the inductive invariant: whoever goes on to deliver  *)
(* has not notified the rule in this cooldown, since there is none.         *)
LEMMA CheckCooldownIInv ==
    ASSUME IInv, NEW t \in Tasks, CheckCooldown(t)
    PROVE  IInv'
  <1> USE DEF CheckCooldown, history
  <1>1. CASE Continue(t)
    BY <1>1, ContinueIInv DEF IInv, TypeOK
  <1>2. CASE cur[t] \cap cooldown = {} /\ Goto(t, "slack") /\ UNCHANGED sent
    <2>1. \A r \in cur[t] : t \notin tellers[r]
      BY <1>2 DEF IInv, TypeOK, CooldownInv
    <2> QED
      BY <1>2, <2>1, GotoIInv DEF IInv, TypeOK
  <1> QED
    BY <1>1, <1>2

(* Send keeps the inductive invariant. *)
LEMMA SendIInv ==
    ASSUME IInv, NEW t \in Tasks, NEW c \in Channels, Send(t, c)
    PROVE  IInv'
  <1>1. sent' \in [Tasks -> BOOLEAN] /\ faults' \in 0 .. MaxFaults
    BY DEF IInv, TypeOK, Send
  <1>2. apc[t] \in {"slack", "email"} /\ After(c) \in {"slack", "email", "cool"}
    BY DEF Send, Channels, After
  <1>3. \A r \in cur[t] : t \notin tellers[r]
    BY <1>2 DEF IInv, OneNoticePerTask
  <1> QED
    BY <1>1, <1>2, <1>3, GotoIInv DEF Send

(* SendFails keeps the inductive invariant. *)
LEMMA SendFailsIInv ==
    ASSUME IInv, NEW t \in Tasks, NEW c \in Channels, SendFails(t, c)
    PROVE  IInv'
  <1>1. sent' \in [Tasks -> BOOLEAN] /\ faults' \in 0 .. MaxFaults
    BY AlertsAssumption DEF IInv, TypeOK, SendFails
  <1>2. apc[t] \in {"slack", "email"} /\ After(c) \in {"slack", "email", "cool"}
    BY DEF SendFails, Channels, After
  <1>3. \A r \in cur[t] : t \notin tellers[r]
    BY <1>2 DEF IInv, OneNoticePerTask
  <1> QED
    BY <1>1, <1>2, <1>3, GotoIInv DEF SendFails

(* SetCooldown keeps the inductive invariant. *)
LEMMA SetCooldownIInv ==
    ASSUME IInv, NEW t \in Tasks, SetCooldown(t)
    PROVE  IInv'
  <1> USE DEF SetCooldown
  <1>1. CASE Continue(t) /\ UNCHANGED <<cooldown, tellers>>
    BY <1>1, ContinueIInv DEF IInv, TypeOK
  <1>2. CASE /\ cooldown' = cooldown \cup cur[t]
             /\ tellers' = [r \in Rules |->
                              IF r \in cur[t] THEN tellers[r] \cup {t} ELSE tellers[r]]
             /\ Goto(t, "record") /\ UNCHANGED sent
    <2> USE <1>2 DEF IInv, Goto, rulesState
    <2>1. TypeOK'
      BY DEF TypeOK, rules
    <2>2. KnownInv'
      BY DEF TypeOK, KnownInv
    <2>3. CooldownInv'
      BY DEF TypeOK, CooldownInv
    <2>4. OneNoticePerTask'
      BY DEF TypeOK, OneNoticePerTask
    <2>5. SilenceIsExplained'
      BY DEF TypeOK, SilenceIsExplained, rules
    <2> QED
      BY <2>1, <2>2, <2>3, <2>4, <2>5
  <1> QED
    BY <1>1, <1>2

(* RecordEvent keeps the inductive invariant. *)
LEMMA RecordEventIInv ==
    ASSUME IInv, NEW t \in Tasks, RecordEvent(t)
    PROVE  IInv'
  <1> USE DEF RecordEvent, history
  <1>0. faults' \in 0 .. MaxFaults /\ unrecorded' \in SUBSET Rules
    BY DEF IInv, TypeOK
  <1> PICK r \in cur[t] : StoreEvent(t, r)
    OBVIOUS
  <1>1. \A s \in cur[t] : s = r
    BY DEF IInv, KnownInv
  <1>2. CASE r \in rules /\ events' = events \cup {r} /\ Continue(t)
    BY <1>0, <1>1, <1>2, ContinueIInv DEF IInv, TypeOK
  <1>3. CASE r \notin rules /\ UNCHANGED events /\ Leave(t)
    BY <1>0, <1>1, <1>3, LeaveIInv
  <1> QED
    BY <1>2, <1>3 DEF StoreEvent

(* TaskAborts keeps the inductive invariant. *)
LEMMA TaskAbortsIInv ==
    ASSUME IInv, NEW t \in Tasks, TaskAborts(t)
    PROVE  IInv'
  <1>1. faults' \in 0 .. MaxFaults
    BY AlertsAssumption DEF IInv, TypeOK, TaskAborts
  <1>2. unrecorded' \in SUBSET Rules
    BY DEF IInv, TypeOK, TaskAborts
  <1> QED
    BY <1>1, <1>2, LeaveIInv DEF TaskAborts

-----------------------------------------------------------------------------
(* Every edit, every step of a task and every fault keeps the inductive     *)
(* invariant.                                                               *)
LEMMA NextIInv == IInv /\ [Next]_vars => IInv'
  <1> SUFFICES ASSUME IInv, [Next]_vars PROVE IInv'
    OBVIOUS
  <1>1. CASE UNCHANGED vars
    BY <1>1 DEF vars, rulesState, tasks, history, rules, IInv, TypeOK, KnownInv,
                CooldownInv, OneNoticePerTask, SilenceIsExplained
  <1>2. CASE Next
    BY <1>2, LoadChangesIInv, CooldownExpiresIInv, CreateRuleIInv, UpdateRuleIInv,
       DeleteRuleIInv, StartScheduledIInv, StartBatchIInv, EvaluateRuleIInv,
       CheckSpanIInv, EndTaskIInv, CheckCooldownIInv, SendIInv,
       SendFailsIInv, SetCooldownIInv, RecordEventIInv, TaskAbortsIInv
    DEF Next, RuleStep, TaskStep, FaultStep
  <1> QED
    BY <1>1, <1>2

(* The inductive invariant holds in every reachable state. *)
THEOREM Invariance == Spec => []IInv
  BY InitIInv, NextIInv, PTL DEF Spec

(* send_alert: no execution of evaluate_scheduled_alert_rules or            *)
(* check_batch_anomalies notifies a rule twice in one cooldown, for however *)
(* many spans and beside however many other executions.                     *)
THEOREM OneNotice == Spec => []OneNoticePerTask
  BY Invariance, PTL DEF IInv

(* record_alert_if_sent: a rule on cooldown has an event, or a task that is *)
(* about to store one, or a fault kept one from doing so.                   *)
THEOREM SilenceExplained == Spec => []SilenceIsExplained
  BY Invariance, PTL DEF IInv
=============================================================================
