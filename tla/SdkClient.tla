----------------------------- MODULE SdkClient ------------------------------
(***************************************************************************)
(* The SDK as an application uses it: @trace functions, manual spans and   *)
(* patched OpenAI and Anthropic clients, in the asyncio tasks of one       *)
(* process, over the module-level tracer of llm_obs/__init__.py.  It       *)
(* composes with SdkTracer, which is the first tracer the process makes.   *)
(*                                                                         *)
(* A call is one use of a wrapper; its span id, and the trace id it makes  *)
(* when there is none, are named by the call.  The two context variables   *)
(* are a record per task.  Names, tokens, output, error text and metadata  *)
(* are left out: no control depends on them.                               *)
(***************************************************************************)
EXTENDS SdkTracer

CONSTANTS
    Calls,    \* uses of the wrappers, positive numbers
    KindOf,   \* "trace", "manual", "call" or "stream"
    Tasks,    \* asyncio tasks; the process starts with Main
    Main,
    BadUsage  \* provider responses may have a shape that extraction rejects

ASSUME ClientAssumption ==
    /\ Calls \subseteq Nat \ {0}
    /\ KindOf \in [Calls -> {"trace", "manual", "call", "stream"}]
    /\ Main \in Tasks
    /\ BadUsage \in BOOLEAN

VARIABLES
    env,        \* LLM_OBS_API_KEY is set in the environment
    instance,   \* _tracer_instance: "none", "first" or "next"
    made,       \* the first tracer has been made
    ctx,        \* _current_span_id and _current_trace_id of each task, 0 is None
    frames,     \* the wrappers that are running in each task, innermost last
    tasks,      \* tasks that have been created
    cpc,        \* "idle", "built", "open", "stream", "done" or "strayed"
    span,       \* parent_span_id and trace_id of each call
    saved,      \* its context tokens
    recordedAt, \* a stream's _recorded
    iter,       \* a stream's _iterate: "no", "run" or "over"
    acloses,    \* aclose has been called
    records,    \* how many spans each call recorded (history)
    homes       \* where they went: "first", "next", "nowhere" (history)

client == <<env, instance, made, ctx, frames, tasks, cpc, span, saved, recordedAt,
            iter, acloses, records, homes>>
clientVars == <<vars, client>>

-----------------------------------------------------------------------------
Providers == {c \in Calls : KindOf[c] \in {"call", "stream"}}
Context == [span : Calls \cup {0}, trace : Calls \cup {0}]
NoContext == [span |-> 0, trace |-> 0]

ClientTypeOK ==
    /\ TypeOK
    /\ env \in BOOLEAN
    /\ instance \in {"none", "first", "next"} /\ made \in BOOLEAN
    /\ ctx \in [Tasks -> Context]
    /\ frames \in [Tasks -> Seq(Calls)]
    /\ tasks \subseteq Tasks
    /\ cpc \in [Calls -> {"idle", "built", "open", "stream", "done", "strayed"}]
    /\ span \in [Calls -> Context] /\ saved \in [Calls -> Context]
    /\ recordedAt \in [Calls -> BOOLEAN] /\ acloses \in [Calls -> BOOLEAN]
    /\ iter \in [Calls -> {"no", "run", "over"}]
    /\ records \in [Calls -> Nat]
    /\ homes \in [Calls -> SUBSET {"first", "next", "nowhere"}]

ClientInit ==
    /\ Init
    /\ env \in BOOLEAN
    /\ instance = "none" /\ made = FALSE
    /\ ctx = [t \in Tasks |-> NoContext]
    /\ frames = [t \in Tasks |-> << >>]
    /\ tasks = {Main}
    /\ cpc = [c \in Calls |-> "idle"]
    /\ span = [c \in Calls |-> NoContext] /\ saved = [c \in Calls |-> NoContext]
    /\ recordedAt = [c \in Calls |-> FALSE] /\ acloses = [c \in Calls |-> FALSE]
    /\ iter = [c \in Calls |-> "no"]
    /\ records = [c \in Calls |-> 0] /\ homes = [c \in Calls |-> {}]

-----------------------------------------------------------------------------
AppRuns == phase \notin {"exiting", "exited"}

(* The tracer that the next construction yields. *)
Fresh == IF made THEN "next" ELSE "first"

(* init: refuses a second tracer while one is installed. *)
InitTracer ==
    /\ AppRuns /\ instance = "none"
    /\ instance' = Fresh /\ made' = TRUE
    /\ UNCHANGED <<vars, ctx, frames, tasks, cpc, span, saved, recordedAt, iter,
                   acloses, records, homes>>

(* _get_or_create_tracer: the installed tracer, or a new one from the *)
(* environment, or none.                                              *)
TracerForRecord == IF instance # "none" THEN instance
                   ELSE IF env THEN Fresh ELSE "nowhere"

(* A wrapper records its span with the tracer of the moment; without one the *)
(* error is swallowed and the span is gone.  The second tracer of a process  *)
(* runs the same code and is not followed further.                           *)
RecordSpan(c) ==
    LET home == TracerForRecord IN
    /\ instance' = IF home = "nowhere" THEN "none" ELSE home
    /\ made' = (made \/ home # "nowhere")
    /\ IF home = "first" THEN Record ELSE UNCHANGED vars
    /\ records' = [records EXCEPT ![c] = @ + 1]
    /\ homes' = [homes EXCEPT ![c] = @ \cup {home}]

(* A provider response that extraction or SpanData cannot take: the wrapper, *)
(* or the traced stream, swallows the error and records nothing.             *)
SpanLost(c) ==
    /\ BadUsage /\ c \in Providers
    /\ homes' = [homes EXCEPT ![c] = @ \cup {"nowhere"}]
    /\ records' = [records EXCEPT ![c] = @ + 1]
    /\ UNCHANGED <<vars, instance, made>>

-----------------------------------------------------------------------------
(* Application code runs in the task: its innermost wrapper does not await a *)
(* provider.                                                                 *)
AppCode(t) == t \in tasks /\ (frames[t] # << >> => Last(frames[t]) \notin Providers)

(* ManualSpan.__init__: the trace of the context in which it is built. *)
BuildSpan(c, t) ==
    /\ AppRuns /\ AppCode(t)
    /\ KindOf[c] = "manual" /\ cpc[c] = "idle"
    /\ cpc' = [cpc EXCEPT ![c] = "built"]
    /\ span' = [span EXCEPT ![c] =
                  [span |-> ctx[t].span,
                   trace |-> IF ctx[t].trace # 0 THEN ctx[t].trace ELSE c]]
    /\ UNCHANGED <<vars, instance, made, ctx, frames, tasks, saved, recordedAt,
                   iter, acloses, records, homes>>

(* Seeded fault: __aenter__ keeps the trace of the context it was built in. *)
TraceAtEntry_Built(c, t) ==
    IF KindOf[c] = "manual" THEN span[c].trace
    ELSE IF ctx[t].trace # 0 THEN ctx[t].trace ELSE c

(* The trace a wrapper joins: the one of the context, or its own. *)
TraceAtEntry(c, t) ==
    IF ctx[t].trace # 0 THEN ctx[t].trace
    ELSE IF KindOf[c] = "manual" THEN span[c].trace ELSE c

(* A wrapper is entered: it notes parent and trace, sets both context *)
(* variables and keeps their tokens.                                  *)
EnterCall(c, t) ==
    LET trace == TraceAtEntry(c, t) IN
    /\ AppRuns /\ AppCode(t)
    /\ cpc[c] = IF KindOf[c] = "manual" THEN "built" ELSE "idle"
    /\ cpc' = [cpc EXCEPT ![c] = "open"]
    /\ span' = [span EXCEPT ![c] = [span |-> ctx[t].span, trace |-> trace]]
    /\ saved' = [saved EXCEPT ![c] = ctx[t]]
    /\ ctx' = [ctx EXCEPT ![t] = [span |-> c, trace |-> trace]]
    /\ frames' = [frames EXCEPT ![t] = Append(@, c)]
    /\ UNCHANGED <<vars, instance, made, tasks, recordedAt, iter, acloses, records, homes>>

(* The call runs in the task, and what was entered after it there has been *)
(* left, or has strayed.                                                   *)
Innermost(c, t, i) ==
    /\ cpc[c] = "open" /\ frames[t][i] = c
    /\ \A j \in i + 1 .. Len(frames[t]) : cpc[frames[t][j]] = "strayed"

(* Seeded fault: the span id is left in the context. *)
LeaveCall_KeepsSpan(c, t) ==
    /\ AppRuns
    /\ \E i \in DOMAIN frames[t] :
          Innermost(c, t, i) /\ frames' = [frames EXCEPT ![t] = SubSeq(@, 1, i - 1)]
    /\ ctx' = [ctx EXCEPT ![t].trace = saved[c].trace]

(* A wrapper returns, raises or is cancelled: both tokens are reset. *)
LeaveCall(c, t) ==
    /\ AppRuns
    /\ \E i \in DOMAIN frames[t] :
          Innermost(c, t, i) /\ frames' = [frames EXCEPT ![t] = SubSeq(@, 1, i - 1)]
    /\ ctx' = [ctx EXCEPT ![t] = saved[c]]

(* The finally block of a wrapper that is done with its call. *)
EndCall(c, t) ==
    /\ LeaveCall(c, t)
    /\ cpc' = [cpc EXCEPT ![c] = "done"]
    /\ RecordSpan(c) \/ SpanLost(c)
    /\ UNCHANGED <<tasks, span, saved, recordedAt, iter, acloses>>

(* A manual span is left in another task than it was entered in, as when an  *)
(* async generator is finalised elsewhere: the reset of its token raises, so *)
(* neither variable is restored in the task it was entered in and the span   *)
(* is not recorded.                                                          *)
StrayExit(c, t) ==
    /\ AppRuns /\ AppCode(t)
    /\ KindOf[c] = "manual" /\ cpc[c] = "open" /\ c \notin ToSet(frames[t])
    /\ cpc' = [cpc EXCEPT ![c] = "strayed"]
    /\ records' = [records EXCEPT ![c] = @ + 1]
    /\ homes' = [homes EXCEPT ![c] = @ \cup {"nowhere"}]
    /\ UNCHANGED <<vars, instance, made, ctx, frames, tasks, span, saved, recordedAt,
                   iter, acloses>>

(* stream=True and the provider answered: the wrapper hands out a traced     *)
(* stream, which records in its stead.                                       *)
ReturnStream(c, t) ==
    /\ KindOf[c] = "stream"
    /\ LeaveCall(c, t)
    /\ cpc' = [cpc EXCEPT ![c] = "stream"]
    /\ UNCHANGED <<vars, instance, made, tasks, span, saved, recordedAt, iter,
                   acloses, records, homes>>

(* Seeded fault: _record does not look whether it ran before. *)
RecordStream_Twice(c) ==
    /\ recordedAt' = [recordedAt EXCEPT ![c] = TRUE]
    /\ RecordSpan(c)

(* _record of a traced stream: once. *)
RecordStream(c) ==
    IF recordedAt[c]
      THEN UNCHANGED <<vars, instance, made, recordedAt, records, homes>>
      ELSE /\ recordedAt' = [recordedAt EXCEPT ![c] = TRUE]
           /\ RecordSpan(c) \/ SpanLost(c)

(* The application starts to consume the stream. *)
Iterate(c) ==
    /\ AppRuns /\ cpc[c] = "stream" /\ iter[c] = "no"
    /\ iter' = [iter EXCEPT ![c] = "run"]
    /\ UNCHANGED <<vars, instance, made, ctx, frames, tasks, cpc, span, saved,
                   recordedAt, acloses, records, homes>>

(* The iteration completes, raises, is cancelled, or was left early and is *)
(* finalised by the event loop.                                            *)
EndIteration(c) ==
    /\ AppRuns /\ iter[c] = "run"
    /\ iter' = [iter EXCEPT ![c] = "over"]
    /\ RecordStream(c)
    /\ UNCHANGED <<ctx, frames, tasks, cpc, span, saved, acloses>>

(* aclose: closes the provider's stream, which may raise before the record. *)
CloseStream(c) ==
    /\ AppRuns /\ cpc[c] = "stream" /\ ~acloses[c]
    /\ acloses' = [acloses EXCEPT ![c] = TRUE]
    /\ \/ RecordStream(c)
       \/ UNCHANGED <<vars, instance, made, recordedAt, records, homes>>
    /\ UNCHANGED <<ctx, frames, tasks, cpc, span, saved, iter>>

(* asyncio.create_task copies the context of the task that calls it. *)
Spawn(t, u) ==
    /\ AppRuns /\ AppCode(t) /\ u \notin tasks
    /\ tasks' = tasks \cup {u}
    /\ ctx' = [ctx EXCEPT ![u] = ctx[t]]
    /\ UNCHANGED <<vars, instance, made, frames, cpc, span, saved, recordedAt,
                   iter, acloses, records, homes>>

(* Seeded fault: the tracer is taken out after its shutdown. *)
ShutdownModule_Late(flush) ==
    /\ AppRuns
    /\ instance = "first" /\ Shutdown(flush)
    /\ UNCHANGED <<instance, made, ctx, frames, tasks, cpc, span, saved, recordedAt,
                   iter, acloses, records, homes>>

(* llm_obs.shutdown takes the tracer out of the module before it awaits its *)
(* shutdown; without a tracer it does nothing.                              *)
ShutdownModule(flush) ==
    /\ AppRuns
    /\ \/ instance = "first" /\ Shutdown(flush)
       \/ instance = "next" /\ UNCHANGED vars
    /\ instance' = "none"
    /\ UNCHANGED <<made, ctx, frames, tasks, cpc, span, saved, recordedAt, iter,
                   acloses, records, homes>>

(* The tracer's own steps, once it exists. *)
TracerStep == Start \/ BeginFlush \/ SendStep \/ FlushedAll \/ Exit

-----------------------------------------------------------------------------
ClientStep ==
    \/ InitTracer
    \/ \E c \in Calls, t \in Tasks :
          \/ BuildSpan(c, t) \/ EnterCall(c, t)
          \/ EndCall(c, t) \/ StrayExit(c, t) \/ ReturnStream(c, t)
    \/ \E c \in Calls : Iterate(c) \/ EndIteration(c) \/ CloseStream(c)
    \/ \E t, u \in Tasks : Spawn(t, u)
    \/ \E flush \in BOOLEAN : ShutdownModule(flush)

ClientNext ==
    \/ ClientStep /\ UNCHANGED env
    \/ made /\ TracerStep /\ UNCHANGED client

(* As in SdkTracer: the event loop runs its tasks.  The application promises *)
(* nothing.                                                                  *)
ClientFairness ==
    /\ WF_clientVars(BeginFlush /\ UNCHANGED client)
    /\ WF_clientVars(SendStep /\ UNCHANGED client)
    /\ WF_clientVars(FlushedAll /\ UNCHANGED client)

ClientSpec == ClientInit /\ [][ClientNext]_clientVars /\ ClientFairness

-----------------------------------------------------------------------------
(* The call has come to its end as far as the SDK can see. *)
Over(c) == cpc[c] \in {"done", "strayed"} \/ iter[c] = "over" \/ recordedAt[c]

(* Every call is recorded exactly once when it is over, and not before: a     *)
(* stream that is read to its end, left early, closed, or closed and then     *)
(* finalised leaves one span.  It is lost only where the environment names no *)
(* key, the provider's response was unreadable or a manual span was left in   *)
(* another task, and never goes to a tracer that shutdown is closing.         *)
OneSpanPerCall ==
    /\ \A c \in Calls : records[c] = IF Over(c) THEN 1 ELSE 0
    /\ recorded = Cardinality({c \in Calls : "first" \in homes[c]})
    /\ \A c \in Calls : "nowhere" \in homes[c] =>
          ~env \/ (BadUsage /\ c \in Providers) \/ cpc[c] = "strayed"
    /\ instance = "first" => phase \notin {"flushing", "closed"}

Entered(c) == cpc[c] \in {"open", "stream", "done", "strayed"}

(* The spans of a process form trees: a span has the trace of its parent, its *)
(* parent was entered before it, and within one task it is the wrapper that   *)
(* encloses it, or the strayed span whose context is still set.  The main     *)
(* task, outside every wrapper, is back in the empty context unless a span    *)
(* strayed from it, however calls, cancellations, streams and spans built or  *)
(* left elsewhere nest.                                                       *)
SpanTreeIsSound ==
    /\ \A c \in Calls : Entered(c) /\ span[c].span # 0 =>
          LET p == span[c].span IN
          p # c /\ span[p].trace = span[c].trace /\ Entered(p)
    /\ \A t \in tasks : \A i \in 2 .. Len(frames[t]) :
          span[frames[t][i]].span = frames[t][i - 1]
    /\ \A t \in tasks : frames[t] # << >> => ctx[t].span = Last(frames[t])
    /\ frames[Main] = << >> => ctx[Main] = NoContext
=============================================================================
