------------------------------- MODULE Alerts -------------------------------
(***************************************************************************)
(* User-defined alert rules: the API that edits them, the task that the    *)
(* scheduler starts every minute for windowed rules, the task that each    *)
(* ingested batch starts for anomaly rules, and the notification service   *)
(* with its cooldown keys in Redis.                                        *)
(*                                                                         *)
(* A task reads the rules once, at its start, and works on that copy while *)
(* rules are edited and deleted.  Neither task is retried.                 *)
(***************************************************************************)
EXTENDS Integers, FiniteSets

CONSTANTS
    Rules,           \* ids of the rules that ever exist
    Existing,        \* the rules that exist at the start
    Windowed,        \* those with a windowed metric; the others: anomaly
    ConditionOf,     \* condition of a rule: gt, lt or anomaly
    ChannelsOf,      \* the destinations a rule is created with: slack, email
    Thresholds, NoThreshold,
    Scheduled,       \* the scheduler process has loaded the task's cron label
    Loads,           \* situations of the monitored project
    WindowAt,        \* value and sample_count of the rules' window then
    StatsAt,         \* latency statistics of the model then
    ErrorsAt,        \* total and errors of the last five minutes then
    Spans,           \* spans of a batch that is checked for anomalies
    LatencyOf,
    MinObservations, \* MIN_OBSERVATIONS
    MinErrorTotal,   \* below this total the error rate is not judged
    Tasks,           \* executions of the two tasks that may overlap
    MaxFaults,       \* bound: failed deliveries, errors and crashes
    MaxChanges       \* bound: edits of rules and changes of the situation

ASSUME AlertsAssumption ==
    /\ Windowed \subseteq Rules /\ Existing \subseteq Rules
    /\ ConditionOf \in [Rules -> {"gt", "lt", "anomaly"}]
    /\ ChannelsOf \in [Rules -> (SUBSET {"slack", "email"}) \ {{}}]
    /\ Thresholds \subseteq Nat \ {0} /\ NoThreshold \notin Thresholds
    /\ Scheduled \in BOOLEAN
    /\ WindowAt \in [Loads -> [value : Nat, samples : Nat]]
    /\ StatsAt \in [Loads -> [count : Nat, mean : Nat, stddev : Nat]]
    /\ ErrorsAt \in [Loads -> [total : Nat, errors : Nat]]
    /\ LatencyOf \in [Spans -> Nat]
    /\ MinObservations \in Nat /\ MinErrorTotal \in Nat /\ MaxFaults \in Nat /\ MaxChanges \in Nat

VARIABLES
    load,        \* the situation now
    status,      \* of a rule: new, active, inactive or deleted
    threshold,
    channels,    \* the destinations of a rule now
    cooldown,    \* rules with a cooldown key
    events,      \* rules with alert_events rows
    apc,         \* where each task stands
    todo,        \* its copy of the rules: <<rule, threshold, destinations>> of a
                 \* windowed rule, <<rule, span, destinations>> of an anomaly rule
    cur,         \* rule it is notifying, {} or {r}
    dest,        \* destinations it notifies
    sent,        \* sent of send_alert: a destination took the notice
    faults,      \* faults and changes so far
    changes,
    tellers,     \* history: executions that notified a rule in its cooldown
    unrecorded   \* history: rules whose event could not be stored

rulesState == <<status, threshold, channels, changes>>
tasks == <<apc, todo, cur, dest, sent>>
history == <<tellers, unrecorded>>
vars == <<load, rulesState, cooldown, events, tasks, faults, history>>

-----------------------------------------------------------------------------
Channels == {"slack", "email"}
Work ==
    (Windowed \X (Thresholds \cup {NoThreshold}) \X SUBSET Channels)
        \cup ((Rules \ Windowed) \X Spans \X SUBSET Channels)

(* _validate_threshold_for_metric: a windowed rule has a threshold, unless  *)
(* its condition is anomaly.                                                *)
ThresholdsOf(r) == IF ConditionOf[r] = "anomaly" THEN Thresholds \cup {NoThreshold}
                                                 ELSE Thresholds
rules == {r \in Rules : status[r] \in {"active", "inactive"}}
active == {r \in Rules : status[r] = "active"}

TypeOK ==
    /\ load \in Loads
    /\ status \in [Rules -> {"new", "active", "inactive", "deleted"}]
    /\ threshold \in [Windowed -> Thresholds \cup {NoThreshold}]
    /\ channels \in [Rules -> SUBSET Channels]
    /\ cooldown \subseteq Rules
    /\ events \subseteq rules
    /\ apc \in [Tasks -> {"idle", "loop", "check", "slack", "email", "cool", "record"}]
    /\ todo \in [Tasks -> SUBSET Work]
    /\ cur \in [Tasks -> SUBSET Rules]
    /\ dest \in [Tasks -> SUBSET Channels]
    /\ sent \in [Tasks -> BOOLEAN]
    /\ \A t \in Tasks : cur[t] = {} <=> apc[t] \in {"idle", "loop"}
    /\ faults \in 0 .. MaxFaults /\ changes \in 0 .. MaxChanges
    /\ tellers \in [Rules -> SUBSET Tasks]
    /\ unrecorded \subseteq Rules

Init ==
    /\ load \in Loads
    /\ status = [r \in Rules |-> IF r \in Existing THEN "active" ELSE "new"]
    /\ threshold \in [Windowed -> Thresholds \cup {NoThreshold}]
    /\ \A r \in Windowed : threshold[r] \in ThresholdsOf(r)
    /\ channels = ChannelsOf
    /\ cooldown = {}
    /\ events = {}
    /\ apc = [t \in Tasks |-> "idle"]
    /\ todo = [t \in Tasks |-> {}]
    /\ cur = [t \in Tasks |-> {}]
    /\ dest = [t \in Tasks |-> {}]
    /\ sent = [t \in Tasks |-> FALSE]
    /\ faults = 0 /\ changes = 0
    /\ tellers = [r \in Rules |-> {}]
    /\ unrecorded = {}

-----------------------------------------------------------------------------
Change == changes < MaxChanges /\ changes' = changes + 1

(* Spans arrive and age: the queries over them give other results. *)
LoadChanges(l) ==
    /\ Change
    /\ l # load
    /\ load' = l
    /\ UNCHANGED <<status, threshold, channels, cooldown, events, tasks, faults, history>>

(* The cooldown key expires after cooldown_minutes. *)
CooldownExpires(r) ==
    /\ r \in cooldown
    /\ cooldown' = cooldown \ {r}
    /\ tellers' = [tellers EXCEPT ![r] = {}]
    /\ UNCHANGED <<load, rulesState, events, tasks, faults, unrecorded>>

SetStatus(r, st) == status' = [status EXCEPT ![r] = st]

(* create_rule; ids are never used again. *)
CreateRule(r, th) ==
    /\ Change
    /\ status[r] = "new"
    /\ th \in ThresholdsOf(r)
    /\ SetStatus(r, "active")
    /\ threshold' = [q \in Windowed |-> IF q = r THEN th ELSE threshold[q]]
    /\ UNCHANGED <<load, channels, cooldown, events, tasks, faults, history>>

(* update_rule: fields that are None (or blank, which the schema makes None) *)
(* are not changed, so a threshold or a destination can be set or replaced  *)
(* and never removed.  No task reads the threshold of an anomaly rule.      *)
UpdateRule(r) ==
    /\ Change
    /\ r \in rules
    /\ \/ /\ SetStatus(r, IF r \in active THEN "inactive" ELSE "active")
          /\ UNCHANGED <<threshold, channels>>
       \/ /\ r \in Windowed
          /\ \E th \in Thresholds \ {threshold[r]} :
                threshold' = [threshold EXCEPT ![r] = th]
          /\ UNCHANGED <<status, channels>>
       \/ /\ \E c \in Channels \ channels[r] :
                channels' = [channels EXCEPT ![r] = @ \cup {c}]
          /\ UNCHANGED <<status, threshold>>
    /\ UNCHANGED <<load, cooldown, events, tasks, faults, history>>

(* delete_rule; the events go with the rule. *)
DeleteRule(r) ==
    /\ Change
    /\ r \in rules
    /\ SetStatus(r, "deleted")
    /\ events' = events \ {r}
    /\ UNCHANGED <<load, threshold, channels, cooldown, tasks, faults, history>>

-----------------------------------------------------------------------------
(* evaluate_windowed_alert_rule with _condition_matches. *)
Triggered(r, th, w) ==
    /\ th # NoThreshold
    /\ w.samples > 0
    /\ \/ ConditionOf[r] = "gt" /\ w.value > th
       \/ ConditionOf[r] = "lt" /\ w.value < th

AbsDiff(x, y) == IF x >= y THEN x - y ELSE y - x

(* _latency_anomaly: |z| > 3, with enough observations that differ. *)
LatencyAnomaly(ms, stats) ==
    /\ stats.count > 0 /\ stats.count >= MinObservations
    /\ stats.stddev # 0
    /\ AbsDiff(ms, stats.mean) > 3 * stats.stddev

(* _error_rate_anomaly: more than a tenth of enough spans. *)
ErrorRateAnomaly(e) ==
    e.total # 0 /\ e.total >= MinErrorTotal /\ 10 * e.errors > e.total

(* AnomalyService.check, with the statistics of situation l: those that     *)
(* _get_stats_cached returns may be up to STATS_CACHE_TTL old.              *)
Anomalous(s, l) ==
    LatencyAnomaly(LatencyOf[s], StatsAt[l]) \/ ErrorRateAnomaly(ErrorsAt[load])

(* The task is done with the rule it was notifying. *)
Forget(t) ==
    /\ cur' = [cur EXCEPT ![t] = {}]
    /\ dest' = [dest EXCEPT ![t] = {}]
    /\ sent' = [sent EXCEPT ![t] = FALSE]

Leave(t) ==
    /\ apc' = [apc EXCEPT ![t] = "idle"]
    /\ todo' = [todo EXCEPT ![t] = {}]
    /\ Forget(t)

Continue(t) ==
    /\ apc' = [apc EXCEPT ![t] = "loop"]
    /\ Forget(t)
    /\ UNCHANGED todo

Goto(t, p) == apc' = [apc EXCEPT ![t] = p] /\ UNCHANGED <<todo, cur, dest>>

Start(t, work) ==
    /\ apc[t] = "idle"
    /\ todo' = [todo EXCEPT ![t] = work]
    /\ apc' = [apc EXCEPT ![t] = "loop"]
    /\ UNCHANGED <<load, rulesState, cooldown, events, cur, dest, sent, faults, history>>

(* evaluate_scheduled_alert_rules reads the active windowed rules. *)
StartScheduled(t) ==
    /\ Scheduled
    /\ Start(t, {<<r, threshold[r], channels[r]>> : r \in active \cap Windowed})

(* check_batch_anomalies reads the active anomaly rules. *)
StartBatch(t) ==
    Start(t, {<<r, s, channels[r]>> : r \in active \ Windowed, s \in Spans})

(* The task takes the next rule; go: the rule is to be notified. *)
Take(t, w, go) ==
    /\ apc[t] = "loop" /\ w \in todo[t]
    /\ todo' = [todo EXCEPT ![t] = @ \ {w}]
    /\ apc' = IF go THEN [apc EXCEPT ![t] = "check"] ELSE apc
    /\ cur' = IF go THEN [cur EXCEPT ![t] = {w[1]}] ELSE cur
    /\ dest' = IF go THEN [dest EXCEPT ![t] = w[3]] ELSE dest
    /\ UNCHANGED <<load, rulesState, cooldown, events, sent, faults, history>>

(* evaluate_scheduled_alert_rules, one rule: skip it on cooldown, evaluate  *)
(* it, and go on to send_alert when it is triggered.                        *)
EvaluateRule(t, w) ==
    /\ w[1] \in Windowed
    /\ Take(t, w, w[1] \notin cooldown /\ Triggered(w[1], w[2], WindowAt[load]))

(* check_batch_anomalies, one rule and one span. *)
CheckSpan(t, w) ==
    /\ w[1] \notin Windowed
    /\ \E l \in Loads : Take(t, w, Anomalous(w[2], l))

EndTask(t) ==
    /\ apc[t] = "loop" /\ todo[t] = {}
    /\ Leave(t)
    /\ UNCHANGED <<load, rulesState, cooldown, events, faults, history>>

(* Seeded fault: send_alert does not look at the cooldown again. *)
CheckCooldown_Skipped(t) ==
    /\ apc[t] = "check"
    /\ Goto(t, "slack")
    /\ UNCHANGED <<load, rulesState, cooldown, events, sent, faults, history>>

(* send_alert reads the cooldown key. *)
CheckCooldown(t) ==
    /\ apc[t] = "check"
    /\ \/ cur[t] \subseteq cooldown /\ Continue(t)
       \/ cur[t] \cap cooldown = {} /\ Goto(t, "slack") /\ UNCHANGED sent
    /\ UNCHANGED <<load, rulesState, cooldown, events, faults, history>>

(* What send_alert does after it has tried a destination. *)
After(c) == IF c = "slack" THEN "email" ELSE "cool"

(* Seeded fault: the second destination's result replaces the first's. *)
Send_Overwrites(t, c) ==
    /\ apc[t] = c
    /\ sent' = [sent EXCEPT ![t] = c \in dest[t]]
    /\ Goto(t, After(c))
    /\ UNCHANGED <<load, rulesState, cooldown, events, faults, history>>

(* _slack, then _email: the notice reaches the destination, if the rule has *)
(* it.                                                                      *)
Send(t, c) ==
    /\ apc[t] = c
    /\ sent' = [sent EXCEPT ![t] = @ \/ c \in dest[t]]
    /\ Goto(t, After(c))
    /\ UNCHANGED <<load, rulesState, cooldown, events, faults, history>>

(* The destination refuses, cannot be reached or answers too late: the      *)
(* error is logged and the next destination is tried.                       *)
SendFails(t, c) ==
    /\ apc[t] = c /\ c \in dest[t] /\ faults < MaxFaults
    /\ faults' = faults + 1
    /\ Goto(t, After(c))
    /\ UNCHANGED <<load, rulesState, cooldown, events, sent, history>>

(* Seeded fault: the cooldown starts although nothing was sent. *)
SetCooldown_Always(t) ==
    /\ apc[t] = "cool"
    /\ cooldown' = cooldown \cup cur[t]
    /\ \/ /\ sent[t]
          /\ tellers' = [r \in Rules |-> IF r \in cur[t] THEN tellers[r] \cup {t} ELSE tellers[r]]
          /\ Goto(t, "record") /\ UNCHANGED sent
       \/ ~sent[t] /\ Continue(t) /\ UNCHANGED tellers
    /\ UNCHANGED <<load, rulesState, events, faults, unrecorded>>

(* The cooldown key is set once a destination has taken the notice, and     *)
(* only then; otherwise send_alert returns False.                           *)
SetCooldown(t) ==
    /\ apc[t] = "cool"
    /\ \/ /\ sent[t]
          /\ cooldown' = cooldown \cup cur[t]
          /\ tellers' = [r \in Rules |-> IF r \in cur[t] THEN tellers[r] \cup {t} ELSE tellers[r]]
          /\ Goto(t, "record") /\ UNCHANGED sent
       \/ ~sent[t] /\ Continue(t) /\ UNCHANGED <<cooldown, tellers>>
    /\ UNCHANGED <<load, rulesState, events, faults, unrecorded>>

(* The INSERT.  When the rule was deleted meanwhile the foreign key fails   *)
(* and the task ends with the rest of its rules undone.                     *)
StoreEvent(t, r) ==
    \/ r \in rules /\ events' = events \cup {r} /\ Continue(t)
    \/ r \notin rules /\ UNCHANGED events /\ Leave(t)

(* record_alert_if_sent stores the event. *)
RecordEvent(t) ==
    /\ apc[t] = "record"
    /\ \E r \in cur[t] : StoreEvent(t, r)
    /\ UNCHANGED <<load, rulesState, cooldown, faults, history>>

(* A Redis or database error, or a crash, ends the task where it stands:    *)
(* also between two destinations, between the notice and the cooldown key   *)
(* (which may be set although the reply was lost), and before the event.    *)
TaskAborts(t) ==
    /\ apc[t] # "idle" /\ faults < MaxFaults
    /\ faults' = faults + 1
    /\ Leave(t)
    /\ \/ UNCHANGED cooldown
       \/ apc[t] = "cool" /\ sent[t] /\ cooldown' = cooldown \cup cur[t]
    /\ unrecorded' = IF apc[t] \in {"cool", "record"} THEN unrecorded \cup cur[t] ELSE unrecorded
    /\ UNCHANGED <<load, rulesState, events, tellers>>

-----------------------------------------------------------------------------
TaskStep(t) ==
    \/ StartScheduled(t) \/ StartBatch(t)
    \/ \E w \in todo[t] : EvaluateRule(t, w) \/ CheckSpan(t, w)
    \/ EndTask(t) \/ CheckCooldown(t)
    \/ \E c \in Channels : Send(t, c)
    \/ SetCooldown(t) \/ RecordEvent(t)

FaultStep(t) == TaskAborts(t) \/ \E c \in Channels : SendFails(t, c)

RuleStep(r) ==
    \/ CooldownExpires(r)
    \/ \E th \in Thresholds \cup {NoThreshold} : CreateRule(r, th)
    \/ UpdateRule(r) \/ DeleteRule(r)

Next ==
    \/ \E l \in Loads : LoadChanges(l)
    \/ \E r \in Rules : RuleStep(r)
    \/ \E t \in Tasks : TaskStep(t) \/ FaultStep(t)

(* Tasks go on; and where the scheduler has loaded the check, the message   *)
(* it enqueues every minute is taken in its turn, although batches enqueue  *)
(* theirs too.                                                              *)
Fairness == \A t \in Tasks : WF_vars(TaskStep(t)) /\ SF_vars(StartScheduled(t))

Spec == Init /\ [][Next]_vars /\ Fairness

-----------------------------------------------------------------------------
(* Tasks that pass the cooldown check together can each notify, but no task *)
(* notifies a rule twice in one cooldown, not for two spans of a batch, and *)
(* no task notifies that started after the cooldown did.                    *)
OneNoticePerTask ==
    \A t \in Tasks : apc[t] \in {"slack", "email", "cool"} =>
                        \A r \in cur[t] : t \notin tellers[r]

(* A rule that is silenced by its cooldown has an alert event that explains *)
(* the silence, or a task is about to store it, unless storing it failed.   *)
SilenceIsExplained ==
    \A r \in cooldown \cap rules :
        \/ r \in events
        \/ \E t \in Tasks : apc[t] = "record" /\ r \in cur[t]
        \/ r \in unrecorded

(* Whatever the cached latency statistics say, this span is anomalous: too  *)
(* many of the last spans failed.                                           *)
ManyErrors == ErrorsAt[load].total >= MinErrorTotal /\ ErrorsAt[load].total < 10 * ErrorsAt[load].errors

(* An anomaly rule that a batch's check has read is notified, and goes on   *)
(* cooldown, if the project stays in trouble: not only its last destination *)
(* and not only the batch's last span counts.  What may prevent it is a     *)
(* fault, or the deletion of a rule while its notice is under way, which    *)
(* ends the task with its other rules unchecked.                            *)
AnomalyIsNotified ==
    \A t \in Tasks, r \in Rules \ Windowed :
        (ManyErrors /\ \E w \in todo[t] : w[1] = r) ~>
            \/ r \in cooldown \/ ~ManyErrors
            \/ faults > 0 \/ \E q \in Rules : status[q] = "deleted"

(* What a rule's owner asked for: the value is on the wrong side of the     *)
(* threshold and there are samples.                                         *)
Breached(r) ==
    LET w == WindowAt[load] IN
    /\ threshold[r] \in Thresholds /\ w.samples > 0
    /\ w.value \in (IF ConditionOf[r] = "gt" THEN threshold[r] + 1 .. w.value
                                              ELSE 0 .. threshold[r] - 1)

(* What docs/delivery-guarantees.md says of windowed rules ("Scheduled      *)
(* tasks evaluate windowed alert rules"): an active rule that stays         *)
(* breached does not stay without cooldown for ever.                        *)
TriggeredRuleNotifies ==
    \A r \in Windowed : []<>(r \notin active \/ r \in cooldown \/ ~Breached(r))
=============================================================================
