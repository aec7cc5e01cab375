-------------------------- MODULE RunSessionProofs --------------------------
(***************************************************************************)
(* Proofs about a session, for every list of tools, every adapter, every   *)
(* set of names, every capacity and any bound.                             *)
(*                                                                         *)
(* Run uses the tracer as one of its clients, so that what TracerProofs    *)
(* shows of every client holds of every session.  What is left to show is  *)
(* about the order of the steps: the queue is empty from the flush on,     *)
(* nothing is emitted after the bundle, and a step that was passed has     *)
(* been done.                                                              *)
(*                                                                         *)
(* Then the order of the calls: being at a step means that every step      *)
(* before it has been done, as far as the session does it at all, and      *)
(* nothing of a later one.  That a stage is bracketed follows from where   *)
(* its steps stand in the line.                                            *)
(*                                                                         *)
(* Last, what a session leaves behind: the hooks each tool was called      *)
(* through, and the trace.  How far the tools and the trace have come is a *)
(* function of the step the session is at, for as long as it has not       *)
(* returned; after that nothing changes.  The lemma StepsOf sums up what a *)
(* step can do to the position, the trace and the hooks, so that each part *)
(* of the invariant is looked at over few cases.                           *)
(***************************************************************************)
EXTENDS RunSession, SequenceTheorems, FiniteSetTheorems, TLAPS

\* The events Run gives Emit: metrics go through EmitMetrics.
SessionCalls == [kind : EventKind \ {"kMetric"}, event : Name]

T == INSTANCE TracerProofs WITH Calls <- SessionCalls, Batches <- Seq(Name)

-----------------------------------------------------------------------------
(* The line of steps. *)

\* The line has 39 steps.
LEMMA StepsLength == Len(Steps) = 39 /\ DOMAIN Steps = 1 .. 39
  BY DEF Steps, SetupSteps, CompileSteps, LoadSteps, RunSteps, EndSteps,
         Step, Adapter, Hook, Event, Metrics

\* What the steps do, by position.
LEMMA StepsDo ==
  ASSUME NEW i \in 1 .. 39
  PROVE  /\ Steps[i].do = "open" <=> i = 1
         /\ Steps[i].do = "tools" <=> i = 3
         /\ Steps[i].do = "metrics" <=> i \in {13, 23, 30}
         /\ Steps[i].do = "operators" <=> i = 15
         /\ Steps[i].do = "subgraph_metrics" <=> i = 31
         /\ Steps[i].do = "flush" <=> i = 36
         /\ Steps[i].do = "bundle" <=> i = 37
         /\ Steps[i].do = "close" <=> i = 39
         /\ Steps[i].do = "adapter" <=> i \in {4, 8, 11, 12, 17, 21, 22, 28, 29, 38}
         /\ Steps[i].do = "hook" <=> i \in {6, 7, 10, 16, 20, 25, 27, 33, 34}
         /\ Steps[i].do = "emit" <=> i \in {2, 5, 9, 14, 18, 19, 24, 26, 32, 35}
  BY DEF Steps, SetupSteps, CompileSteps, LoadSteps, RunSteps, EndSteps,
         Step, Adapter, Hook, Event, Metrics

\* Run gives Emit every kind of event but metrics.
LEMMA StepsKinds ==
  ASSUME NEW i \in 1 .. 39, Steps[i].do = "emit"
  PROVE  Steps[i].kind \in EventKind \ {"kMetric"}
  BY DEF Steps, SetupSteps, CompileSteps, LoadSteps, RunSteps, EndSteps,
         Step, Adapter, Hook, Event, Metrics, EventKind

\* What the steps are called are names of events.
LEMMA StepsNames ==
  ASSUME NEW i \in 1 .. 39
  PROVE  Steps[i].what \in Name
  BY RunSessionAssumption, StepsLength

-----------------------------------------------------------------------------
(* The tracer of a session and the tracer of the lemmas. *)

\* What is assumed of the constants covers what the tracer assumes of its client.
LEMMA ClientAssumption == T!TracerAssumption /\ T!TracerClientAssumption
  BY TracerAssumption
     DEF T!TracerAssumption, T!TracerClientAssumption, SessionCalls, EventKind, T!EventKind

\* Open is that of the lemmas.
LEMMA SameOpen ==
  ASSUME NEW level
  PROVE  Open(level) <=> T!Open(level)
  BY DEF Open, NewWriter, Idle, Buf!ZeroStats,
         T!Open, T!NewWriter, T!Idle, T!Buf!ZeroStats

\* So is what Emit does to the writer.
LEMMA SameQueue ==
  ASSUME NEW kind, NEW event
  PROVE  Queue(kind, event) <=> T!Queue(kind, event)
  BY DEF Queue, Traced, bufferVars,
         Buf!Write, Buf!FlushPending, Buf!Accepted, Buf!Drain, Buf!StreamAfter, Buf!Spill,
         Buf!Counted, Buf!Deeper, Buf!Full, Buf!capacity_,
         T!Queue, T!Traced, T!bufferVars,
         T!Buf!Write, T!Buf!FlushPending, T!Buf!Accepted, T!Buf!Drain, T!Buf!StreamAfter,
         T!Buf!Spill, T!Buf!Counted, T!Buf!Deeper, T!Buf!Full, T!Buf!capacity_

\* So are Emit, EmitMetrics and a turn of its loop.
LEMMA SameEmit ==
  ASSUME NEW kind, NEW event, NEW ms
  PROVE  /\ Emit(kind, event) <=> T!Emit(kind, event)
         /\ EmitMetrics(ms) <=> T!EmitMetrics(ms)
         /\ EmitSample <=> T!EmitSample
<1>1. Queue(kind, event) <=> T!Queue(kind, event)
  BY SameQueue
<1>2. Queue("kMetric", "metrics_summary") <=> T!Queue("kMetric", "metrics_summary")
  BY SameQueue
<1>3. Queue("kMetric", Head(samples)) <=> T!Queue("kMetric", Head(samples))
  BY SameQueue
<1>4. Emit(kind, event) <=> T!Emit(kind, event)
  BY <1>1 DEF Emit, Idle, T!Emit, T!Idle
<1>5. EmitMetrics(ms) <=> T!EmitMetrics(ms)
  BY <1>2 DEF EmitMetrics, Idle, bufferVars, T!EmitMetrics, T!Idle, T!bufferVars
<1>6. EmitSample <=> T!EmitSample
  BY <1>3 DEF EmitSample, T!EmitSample
<1>7. QED
  BY <1>4, <1>5, <1>6

\* So are Flush, Close and the end of the tracer's scope.
LEMMA SameEnd ==
  /\ Flush <=> T!Flush
  /\ Close <=> T!Close
  /\ Destroy <=> T!Destroy
  /\ DeviceFails <=> T!DeviceFails
<1>1. Flush <=> T!Flush
  BY DEF Flush, Idle, bufferVars, Buf!Flush, Buf!FlushPending, Buf!Accepted, Buf!Drain,
         Buf!StreamAfter, Buf!Spill, Buf!Counted,
         T!Flush, T!Idle, T!bufferVars, T!Buf!Flush, T!Buf!FlushPending, T!Buf!Accepted,
         T!Buf!Drain, T!Buf!StreamAfter, T!Buf!Spill, T!Buf!Counted
<1>2. Close <=> T!Close
  BY DEF Close, Idle, bufferVars, Buf!Close, Buf!Accepted, Buf!Drain, Buf!Counted,
         Buf!StreamCloses,
         T!Close, T!Idle, T!bufferVars, T!Buf!Close, T!Buf!Accepted, T!Buf!Drain,
         T!Buf!Counted, T!Buf!StreamCloses
<1>3. Destroy <=> T!Destroy
  BY DEF Destroy, bufferVars, Buf!StreamCloses, T!Destroy, T!bufferVars, T!Buf!StreamCloses
<1>4. DeviceFails <=> T!DeviceFails
  BY DEF DeviceFails, Buf!DeviceFails, T!DeviceFails, T!Buf!DeviceFails
<1>5. QED
  BY <1>1, <1>2, <1>3, <1>4

-----------------------------------------------------------------------------
(* The invariant. *)

\* Who was called, a tool or the adapter, and how.
CallOf == (0 .. Len(ToolNames)) \X {Steps[i].what : i \in 1 .. 39}

SessionTypes ==
  /\ pc \in 0 .. 40
  /\ turn \in Nat
  /\ turn = 0 \/ (pc \in 1 .. 39 /\ turn < Turns)
  /\ trace_enabled \in BOOLEAN /\ detail \in DetailLevel
  /\ tools = << >> \/ (tools = ToolNames /\ trace_enabled)
  /\ op_count \in 0 .. MaxOps /\ manifest \in BOOLEAN
  /\ compile_metrics \in Seq(Name) /\ runtime_metrics \in Seq(Name)
  /\ opens \in 0 .. MaxOpens
  /\ writer_ \in {"null", "open", "gone"}
  /\ called \in Seq(CallOf)
  /\ seen \in [Positions -> Seq(Name)]

\* The writer is there from the first step to the last, if it is wanted at
\* all, and the queue is empty while there is none.
WriterInScope ==
  /\ pc # 0 => writer_ # "gone"
  /\ trace_enabled /\ pc \in 2 .. 39 => writer_ = "open"
  /\ ~trace_enabled => writer_ # "open"
  /\ writer_ = "null" => pending = << >>
  /\ samples # << >> => pc \in 14 .. 31 /\ trace_enabled

\* The queue is empty from the flush on; the bundle is written after it.
NothingAfterBundle ==
  /\ pc >= 37 => pending = << >>
  /\ pc \in 1 .. 37 => trace_stats_csv = << >>
  /\ trace_stats_csv # << >> => trace_stats_csv = <<stats>> /\ pending = << >>

SessionInv ==
  /\ T!TracerInv
  /\ SessionTypes
  /\ WriterInScope
  /\ NothingAfterBundle

\* A session that has not started satisfies the invariant.
LEMMA InitInv == Init => SessionInv
<1> SUFFICES ASSUME Init
             PROVE  SessionInv
  OBVIOUS
<1>1. T!TracerInit
  BY DEF Init, TracerInit, Buf!Fresh, Buf!ZeroStats, T!TracerInit, T!Buf!Fresh, T!Buf!ZeroStats
<1>2. T!TracerInv
  BY <1>1, ClientAssumption, T!InitInv
<1>3. SessionTypes
  <2>1. << >> \in Seq(Name) /\ << >> \in Seq(CallOf)
    BY EmptySeq
  <2>a. [t \in Positions |-> << >>] \in [Positions -> Seq(Name)]
    BY <2>1
  <2>2. 0 \in 0 .. MaxOps /\ 0 \in 0 .. MaxOpens /\ 1 \in 0 .. 40
    BY RunSessionAssumption, TracerAssumption
  <2>3. QED
    BY <2>1, <2>a, <2>2 DEF Init, TracerInit, SessionTypes
<1>4. WriterInScope /\ NothingAfterBundle
  BY DEF Init, TracerInit, Buf!Fresh, WriterInScope, NothingAfterBundle
<1>5. QED
  BY <1>2, <1>3, <1>4 DEF SessionInv

-----------------------------------------------------------------------------
(* Steps. *)

\* A session that has not returned is at a step.
LEMMA NotReturned ==
  ASSUME SessionTypes
  PROVE  ~Returned <=> pc \in 1 .. 39
  BY StepsLength DEF Returned, SessionTypes

\* Where a turn leads.
LEMMA AdvanceStep ==
  ASSUME SessionTypes, ~Returned, Advance
  PROVE  /\ pc \in 1 .. 39
         /\ \/ pc' = pc /\ turn' = turn + 1 /\ turn' < Turns
            \/ pc' = pc + 1 /\ turn' = 0
         /\ pc' \in 1 .. 40 /\ turn' \in Nat
<1>1. pc \in 1 .. 39 /\ turn \in Nat
  BY NotReturned DEF SessionTypes
<1>2. CASE turn + 1 < Turns
  <2>1. turn' = turn + 1 /\ pc' = pc
    BY <1>2 DEF Advance
  <2>2. QED
    BY <1>1, <1>2, <2>1
<1>3. CASE ~(turn + 1 < Turns)
  <2>1. turn' = 0 /\ pc' = pc + 1
    BY <1>3 DEF Advance
  <2>2. QED
    BY <1>1, <2>1
<1>4. QED
  BY <1>2, <1>3

\* The turn is one of the step's, before and after.
LEMMA TurnTyped ==
  ASSUME SessionTypes, ~Returned, Advance, pc' = pc => Turns' = Turns
  PROVE  /\ pc' \in 0 .. 40 /\ turn' \in Nat
         /\ turn' = 0 \/ (pc' \in 1 .. 39 /\ turn' < Turns')
<1>1. CASE pc' = pc /\ turn' = turn + 1 /\ turn' < Turns
  <2>1. pc \in 1 .. 39 /\ turn' \in Nat
    BY AdvanceStep
  <2>2. QED
    BY <1>1, <2>1
<1>2. CASE pc' = pc + 1 /\ turn' = 0
  <2>1. pc' \in 1 .. 40
    BY AdvanceStep
  <2>2. QED
    BY <1>2, <2>1
<1>3. QED
  BY <1>1, <1>2, AdvanceStep

\* Steps without a loop take one turn.
LEMMA OneTurn ==
  ASSUME SessionTypes, NEW do \in {"open", "emit", "metrics", "tools", "adapter", "bundle",
                                   "flush", "close"},
         At(do), Advance
  PROVE  /\ pc \in 1 .. 39 /\ Steps[pc].do = do
         /\ pc' = pc + 1 /\ turn' = 0
         /\ do \in {"open", "emit", "metrics", "flush", "close"} => trace_enabled
<1>1. pc \in 1 .. 39 /\ Steps[pc].do = do /\ ~Returned
  BY NotReturned DEF At
<1>2. Turns = 1 /\ (do \in {"open", "emit", "metrics", "flush", "close"} => trace_enabled)
  BY <1>1 DEF At, Turns
<1>3. pc' = pc \/ (pc' = pc + 1 /\ turn' = 0)
  BY <1>1, AdvanceStep
<1>4. pc' # pc
  <2>1. turn \in Nat /\ ~(turn + 1 < 1)
    BY DEF SessionTypes
  <2>2. pc' = pc + 1
    BY <1>2, <2>1 DEF Advance
  <2>3. QED
    BY <1>1, <2>2
<1>5. QED
  BY <1>1, <1>2, <1>3, <1>4

\* A step that leaves everything the number of turns depends on keeps it.
LEMMA TurnsKept ==
  ASSUME UNCHANGED <<pc, manifest, trace_enabled, tools, op_count, runtime_metrics>>
  PROVE  Turns' = Turns
  BY DEF Turns

\* Concatenating batches of metrics gives metrics.
LEMMA BatchAdded ==
  ASSUME NEW ms \in Seq(Name), NEW batch \in Batches
  PROVE  ms \o batch \in Seq(Name)
  BY RunSessionAssumption, ConcatProperties

\* A call of the adapter is recorded, and a call of a tool for that tool too.
LEMMA CallRecorded ==
  ASSUME SessionTypes, pc \in 1 .. 39
  PROVE  /\ CallAdapter(Steps[pc].what)
              => called' \in Seq(CallOf) /\ seen' \in [Positions -> Seq(Name)]
         /\ \A t \in Positions : CallTool(t, Steps[pc].what)
              => called' \in Seq(CallOf) /\ seen' \in [Positions -> Seq(Name)]
<1>1. ASSUME NEW n \in 0 .. Len(ToolNames)
      PROVE  Append(called, <<n, Steps[pc].what>>) \in Seq(CallOf)
  <2>1. <<n, Steps[pc].what>> \in CallOf
    BY DEF CallOf
  <2>2. QED
    BY <2>1, AppendProperties DEF SessionTypes
<1>2. Len(ToolNames) \in Nat
  BY RunSessionAssumption, LenProperties
<1>3. ASSUME NEW t \in Positions
      PROVE  [seen EXCEPT ![t] = Append(@, Steps[pc].what)] \in [Positions -> Seq(Name)]
  <2>1. seen[t] \in Seq(Name) /\ Steps[pc].what \in Name
    BY StepsNames DEF SessionTypes
  <2>2. Append(seen[t], Steps[pc].what) \in Seq(Name)
    BY <2>1, AppendProperties
  <2>3. QED
    BY <2>2 DEF SessionTypes
<1>4. CallAdapter(Steps[pc].what)
        => called' \in Seq(CallOf) /\ seen' \in [Positions -> Seq(Name)]
  BY <1>1, <1>2 DEF CallAdapter, SessionTypes
<1>5. ASSUME NEW t \in Positions, CallTool(t, Steps[pc].what)
      PROVE  called' \in Seq(CallOf) /\ seen' \in [Positions -> Seq(Name)]
  <2>1. t \in 0 .. Len(ToolNames)
    BY <1>2 DEF Positions
  <2>2. QED
    BY <1>1, <1>3, <1>5, <2>1 DEF CallTool
<1>6. QED
  BY <1>4, <1>5

\* The tool a turn of a hook calls.
LEMMA ToolOfTurn ==
  ASSUME SessionTypes, At("hook")
  PROVE  /\ pc \in 1 .. 39 /\ Steps[pc].do = "hook"
         /\ turn + 1 \in 1 .. Len(tools) /\ tools = ToolNames /\ trace_enabled
         /\ turn + 1 \in 0 .. Len(ToolNames) /\ turn + 1 \in Positions
<1>1. pc \in 1 .. 39 /\ Steps[pc].do = "hook" /\ Turns > 0
  BY NotReturned DEF At
<1>2. Turns \in {0, Len(tools)}
  BY <1>1 DEF Turns
<1>3. Len(tools) \in Nat /\ (tools = << >> => Len(tools) = 0)
  BY RunSessionAssumption, EmptySeq, LenProperties DEF SessionTypes
<1>4. turn < Len(tools) /\ turn \in Nat
  BY <1>1, <1>2, <1>3 DEF SessionTypes
<1>5. QED
  BY <1>1, <1>3, <1>4 DEF SessionTypes, Positions

\* Every step of a session is a step of the tracer, as its client.
LEMMA StepOfTracer ==
  ASSUME SessionTypes, [Next]_vars
  PROVE  [T!TracerNext]_T!tracerVars
<1>1. CASE OpenTrace
  <2>1. detail \in DetailLevel /\ Open(detail)
    BY <1>1 DEF OpenTrace, SessionTypes
  <2>2. QED
    BY <2>1, SameOpen DEF T!TracerNext, DetailLevel, T!DetailLevel
<1>2. ASSUME NEW kind \in EventKind \ {"kMetric"}, NEW event \in Name, Emit(kind, event)
      PROVE  T!TracerNext
  <2>1. [kind |-> kind, event |-> event] \in SessionCalls
    BY DEF SessionCalls
  <2>2. T!Emit(kind, event)
    BY <1>2, SameEmit
  <2>3. QED
    BY <2>1, <2>2 DEF T!TracerNext
<1>3. CASE EmitStep
  <2>1. pc \in 1 .. 39 /\ Steps[pc].do = "emit" /\ Emit(Steps[pc].kind, Steps[pc].what)
    BY <1>3, NotReturned DEF EmitStep, TraceStep, At
  <2>2. QED
    BY <1>2, <2>1, StepsKinds, StepsNames
<1>4. CASE OperatorStep \/ SubgraphStep
  <2>1. Emit("kSubgraph", "operator") \/ Emit("kSubgraph", "subgraph_metric")
    BY <1>4 DEF OperatorStep, SubgraphStep
  <2>2. "kSubgraph" \in EventKind \ {"kMetric"}
    BY DEF EventKind
  <2>3. {"operator", "subgraph_metric"} \subseteq Name
    BY RunSessionAssumption
  <2>4. QED
    BY <1>2, <2>1, <2>2, <2>3
<1>5. CASE MetricsStep
  <2>1. PICK ms \in Seq(Name) : EmitMetrics(ms)
    BY <1>5 DEF MetricsStep, SessionTypes
  <2>2. QED
    BY <2>1, SameEmit DEF T!TracerNext
<1>6. CASE MetricsLoop
  BY <1>6, SameEmit DEF MetricsLoop, T!TracerNext
<1>7. CASE FlushStep \/ CloseStep \/ CallFails \/ DeviceFails
  BY <1>7, SameEnd DEF FlushStep, CloseStep, CallFails, T!TracerNext
<1>8. CASE Skip \/ ToolsStep \/ HookStep \/ AdapterStep \/ BundleStep \/ UNCHANGED vars
  <2>1. UNCHANGED tracerVars
    BY <1>8 DEF Skip, ToolsStep, HookStep, AdapterStep, BundleStep, vars
  <2>2. QED
    BY <2>1 DEF tracerVars, bufferVars, T!tracerVars, T!bufferVars
<1>9. QED
  BY <1>1, <1>3, <1>4, <1>5, <1>6, <1>7, <1>8 DEF Next, RunNext

\* Every step keeps the types.
LEMMA TypesStep ==
  ASSUME SessionTypes, WriterInScope, [Next]_vars
  PROVE  SessionTypes'
<1> USE DEF SessionTypes
<1>1. ASSUME NEW do, TraceStep(do), opens' \in 0 .. MaxOpens,
             writer_' \in {"null", "open", "gone"}
      PROVE  SessionTypes'
  <2>1. ~Returned /\ Advance /\ UNCHANGED recordVars
    BY <1>1 DEF TraceStep, At
  <2>2. pc' = pc => Turns' = Turns
    BY <2>1, TurnsKept DEF recordVars, historyVars, configVars, resultVars
  <2>3. /\ pc' \in 0 .. 40 /\ turn' \in Nat
        /\ turn' = 0 \/ (pc' \in 1 .. 39 /\ turn' < Turns')
    BY <2>1, <2>2, TurnTyped
  <2>4. QED
    BY <1>1, <2>1, <2>3 DEF recordVars, historyVars, configVars, resultVars
<1>2. CASE OpenTrace
  <2>1. opens' \in 0 .. MaxOpens /\ writer_' = "open"
    BY <1>2, TracerAssumption DEF OpenTrace, Open
  <2>2. QED
    BY <1>1, <1>2, <2>1 DEF OpenTrace
<1>3. CASE EmitStep \/ MetricsStep \/ OperatorStep \/ SubgraphStep \/ FlushStep
  <2>1. opens' = opens /\ writer_' = writer_
    BY <1>3 DEF EmitStep, MetricsStep, OperatorStep, SubgraphStep, FlushStep,
                Emit, EmitMetrics, Flush
  <2>2. QED
    BY <1>1, <1>3, <2>1 DEF EmitStep, MetricsStep, OperatorStep, SubgraphStep, FlushStep
<1>4. CASE CloseStep
  <2>1. opens' = opens /\ writer_' \in {"null", writer_}
    BY <1>4 DEF CloseStep, Close
  <2>2. QED
    BY <1>1, <1>4, <2>1 DEF CloseStep
<1>5. CASE Skip
  <2>1. pc \in 1 .. 39 /\ pc' = pc + 1 /\ turn = 0
    BY <1>5, NotReturned DEF Skip
  <2>2. QED
    BY <1>5, <2>1 DEF Skip, tracerVars, recordVars, historyVars, configVars, resultVars
<1>6. CASE ToolsStep
  <2>1. pc' \in 1 .. 40 /\ turn' = 0
    <3>1. pc \in 1 .. 39 /\ pc' = pc + 1 /\ turn' = 0
      BY <1>6, OneTurn DEF ToolsStep
    <3>2. QED
      BY <3>1
  <2>2. tools' = << >> \/ (tools' = ToolNames /\ trace_enabled)
    BY <1>6 DEF ToolsStep
  <2>3. QED
    BY <1>6, <2>1, <2>2 DEF ToolsStep, tracerVars, configVars, resultVars, historyVars
<1>7. CASE HookStep
  <2>1. pc \in 1 .. 39 /\ turn + 1 \in Positions /\ ~Returned /\ Advance
    BY <1>7, ToolOfTurn DEF HookStep, At
  <2>2. called' \in Seq(CallOf) /\ seen' \in [Positions -> Seq(Name)]
    BY <1>7, <2>1, CallRecorded DEF HookStep
  <2>3. pc' = pc => Turns' = Turns
    BY <1>7, TurnsKept DEF HookStep, configVars, resultVars
  <2>4. /\ pc' \in 0 .. 40 /\ turn' \in Nat
        /\ turn' = 0 \/ (pc' \in 1 .. 39 /\ turn' < Turns')
    BY <2>1, <2>3, TurnTyped
  <2>5. QED
    BY <1>7, <2>2, <2>4 DEF HookStep, tracerVars, configVars, resultVars
<1>8. CASE AdapterStep
  <2>1. pc \in 1 .. 39 /\ pc' = pc + 1 /\ turn' = 0
    BY <1>8, OneTurn DEF AdapterStep
  <2>2. called' \in Seq(CallOf) /\ seen' \in [Positions -> Seq(Name)]
    BY <1>8, <2>1, CallRecorded DEF AdapterStep
  <2>3. /\ op_count' \in 0 .. MaxOps /\ manifest' \in BOOLEAN
        /\ compile_metrics' \in Seq(Name) /\ runtime_metrics' \in Seq(Name)
    <3>1. Produces(Steps[pc].what)
      BY <1>8 DEF AdapterStep
    <3>2. QED
      BY <3>1, BatchAdded, RunSessionAssumption DEF Produces, resultVars
  <2>4. QED
    BY <1>8, <2>1, <2>2, <2>3 DEF AdapterStep, tracerVars, configVars
<1>9. CASE BundleStep
  <2>1. pc' \in 1 .. 40 /\ turn' = 0
    <3>1. pc \in 1 .. 39 /\ pc' = pc + 1 /\ turn' = 0
      BY <1>9, OneTurn DEF BundleStep
    <3>2. QED
      BY <3>1
  <2>2. QED
    BY <1>9, <2>1 DEF BundleStep, tracerVars, configVars, resultVars, historyVars
<1>10. CASE CallFails
  <2>1. pc' = 0 /\ turn' = 0 /\ writer_' = "gone" /\ opens' = opens
        /\ UNCHANGED <<configVars, resultVars, tools>>
    BY <1>10 DEF CallFails, Destroy
  <2>2. called' \in Seq(CallOf) /\ seen' \in [Positions -> Seq(Name)]
    <3>1. CASE UNCHANGED historyVars
      BY <3>1 DEF historyVars
    <3>2. CASE At("hook") /\ CallTool(turn + 1, Steps[pc].what)
      BY <3>2, ToolOfTurn, CallRecorded
    <3>3. CASE At("adapter") /\ CallAdapter(Steps[pc].what)
      <4>1. pc \in 1 .. 39
        BY <3>3, NotReturned DEF At
      <4>2. QED
        BY <3>3, <4>1, CallRecorded
    <3>4. QED
      BY <1>10, <3>1, <3>2, <3>3 DEF CallFails
  <2>3. QED
    BY <2>1, <2>2 DEF configVars, resultVars
<1>11. CASE MetricsLoop \/ (DeviceFails /\ UNCHANGED <<pc, turn, recordVars>>)
  <2>1. opens' = opens /\ writer_' = writer_ /\ UNCHANGED <<pc, turn, recordVars>>
    BY <1>11 DEF MetricsLoop, EmitSample, DeviceFails
  <2>2. Turns' = Turns
    BY <2>1, TurnsKept DEF recordVars, historyVars, configVars, resultVars
  <2>3. QED
    BY <2>1, <2>2 DEF recordVars, historyVars, configVars, resultVars
<1>12. CASE UNCHANGED vars
  <2>1. Turns' = Turns
    BY <1>12, TurnsKept DEF vars, recordVars, historyVars, configVars, resultVars
  <2>2. QED
    BY <1>12, <2>1 DEF vars, tracerVars, recordVars, historyVars, configVars, resultVars
<1>13. QED
  BY <1>2, <1>3, <1>4, <1>5, <1>6, <1>7, <1>8, <1>9, <1>10, <1>11, <1>12 DEF Next, RunNext

\* What a step that touches the trace does to the queue, the writer and the
\* loop over the metrics.
LEMMA TraceActions ==
  ASSUME T!TracerInv
  PROVE  /\ \A kind, event : Emit(kind, event)
              => writer_' = writer_ /\ samples' = samples /\ (writer_ # "open" => pending' = pending)
         /\ \A ms : EmitMetrics(ms)
              => writer_' = writer_ /\ (writer_ # "open" => pending' = pending)
         /\ EmitSample => /\ writer_' = writer_ /\ samples # << >>
                          /\ writer_ # "open" => pending' = pending
         /\ Flush => /\ writer_' = writer_ /\ samples' = samples
                     /\ IF writer_ = "open" THEN pending' = << >> ELSE pending' = pending
         /\ Close => /\ writer_' # "open" /\ samples' = samples
                     /\ writer_ # "open" => pending' = pending /\ writer_' = writer_
                     /\ writer_ = "open" => pending' = << >> /\ writer_' = "null"
         /\ Destroy => /\ writer_' = "gone" /\ samples' = << >>
                       /\ UNCHANGED <<pending, stats>>
  BY DEF Emit, EmitMetrics, EmitSample, Queue, Flush, Close, Destroy, bufferVars,
         Buf!Flush, Buf!FlushPending, Buf!Drain, Buf!Close

\* Every step keeps the writer in scope.
LEMMA ScopeStep ==
  ASSUME SessionInv, [Next]_vars
  PROVE  WriterInScope'
<1>a. SessionTypes /\ WriterInScope /\ T!TracerInv
  BY DEF SessionInv
<1>b. pc \in 0 .. 40
  BY <1>a DEF SessionTypes
<1> USE DEF WriterInScope
<1>1. CASE OpenTrace
  <2>1. pc = 1 /\ pc' = 2 /\ trace_enabled
    <3>1. pc \in 1 .. 39 /\ Steps[pc].do = "open" /\ pc' = pc + 1 /\ trace_enabled
      BY <1>1, <1>a, OneTurn DEF OpenTrace, TraceStep
    <3>2. QED
      BY <3>1, StepsDo
  <2>2. writer_' = "open" /\ samples' = << >> /\ trace_enabled' = trace_enabled
    BY <1>1 DEF OpenTrace, TraceStep, Open, Idle, recordVars, historyVars, configVars
  <2>3. QED
    BY <2>1, <2>2
<1>2. ASSUME NEW do, TraceStep(do), do # "open", do # "close",
             writer_' = writer_, samples' = samples,
             writer_ # "open" => pending' = pending
      PROVE  WriterInScope'
  <2>1. /\ pc \in 1 .. 39 /\ pc' \in {pc, pc + 1} /\ Steps[pc].do = do /\ samples = << >>
        /\ trace_enabled' = trace_enabled
    BY <1>2, <1>a, NotReturned, AdvanceStep
       DEF TraceStep, At, Idle, recordVars, historyVars, configVars
  <2>2. pc # 1 /\ pc # 39
    BY <1>2, <2>1, StepsDo
  <2>3. QED
    BY <1>2, <1>a, <2>1, <2>2
<1>3. CASE EmitStep \/ OperatorStep \/ SubgraphStep \/ FlushStep
  <2>1. /\ writer_' = writer_ /\ samples' = samples
        /\ writer_ # "open" => pending' = pending
    BY <1>3, <1>a, TraceActions DEF EmitStep, OperatorStep, SubgraphStep, FlushStep
  <2>2. QED
    BY <1>2, <1>3, <2>1 DEF EmitStep, OperatorStep, SubgraphStep, FlushStep
<1>4. CASE MetricsStep
  <2>1. /\ pc \in 1 .. 39 /\ pc' = pc + 1 /\ Steps[pc].do = "metrics"
        /\ trace_enabled' = trace_enabled /\ trace_enabled
    BY <1>4, <1>a, OneTurn DEF MetricsStep, TraceStep, recordVars, historyVars, configVars
  <2>2. pc \in {13, 23, 30}
    BY <2>1, StepsDo
  <2>3. writer_' = writer_ /\ (writer_ # "open" => pending' = pending)
    BY <1>4, <1>a, TraceActions DEF MetricsStep
  <2>4. QED
    BY <1>a, <2>1, <2>2, <2>3
<1>5. CASE MetricsLoop
  <2>1. /\ writer_' = writer_ /\ samples # << >>
        /\ writer_ # "open" => pending' = pending
        /\ pc' = pc /\ trace_enabled' = trace_enabled
    BY <1>5, <1>a, TraceActions DEF MetricsLoop, recordVars, historyVars, configVars
  <2>2. QED
    BY <1>a, <2>1
<1>6. CASE CloseStep
  <2>1. /\ pc \in 1 .. 39 /\ pc' = pc + 1 /\ Steps[pc].do = "close"
        /\ trace_enabled' = trace_enabled /\ writer_ # "gone" /\ samples = << >>
    BY <1>6, <1>a, OneTurn DEF CloseStep, TraceStep, At, Idle, recordVars, historyVars, configVars
  <2>2. pc = 39 /\ pc' = 40
    <3>1. pc = 39
      BY <2>1, StepsDo
    <3>2. QED
      BY <2>1, <3>1
  <2>3. /\ samples' = samples /\ writer_' # "open"
        /\ writer_ # "open" => pending' = pending /\ writer_' = writer_
        /\ writer_ = "open" => pending' = << >> /\ writer_' = "null"
    BY <1>6, <1>a, TraceActions DEF CloseStep
  <2>4. QED
    BY <1>a, <2>1, <2>2, <2>3
<1>7. CASE Skip
  <2>1. /\ pc \in 1 .. 39 /\ pc' = pc + 1 /\ Turns = 0 /\ samples = << >>
        /\ UNCHANGED <<writer_, pending, samples, trace_enabled>>
    BY <1>7, <1>a, NotReturned
       DEF Skip, Idle, tracerVars, bufferVars, recordVars, historyVars, configVars
  <2>2. pc = 1 \/ pc = 39 => ~trace_enabled
    <3>1. pc \in {1, 39} => Steps[pc].do \in {"open", "close"} /\ Steps[pc].what = "-"
      BY DEF Steps, SetupSteps, CompileSteps, LoadSteps, RunSteps, EndSteps,
             Step, Adapter, Hook, Event, Metrics
    <3>2. QED
      BY <2>1, <3>1 DEF Turns
  <2>3. QED
    BY <1>a, <2>1, <2>2
<1>8. CASE ToolsStep \/ HookStep \/ AdapterStep \/ BundleStep
  <2>1. /\ pc \in 1 .. 39 /\ pc' \in {pc, pc + 1} /\ samples = << >>
        /\ Steps[pc].do \in {"tools", "hook", "adapter", "bundle"}
        /\ UNCHANGED <<writer_, pending, samples, trace_enabled>>
    BY <1>8, <1>a, NotReturned, AdvanceStep
       DEF ToolsStep, HookStep, AdapterStep, BundleStep, At, Idle,
           tracerVars, bufferVars, configVars
  <2>2. pc # 1 /\ pc # 39
    BY <2>1, StepsDo
  <2>3. QED
    BY <1>a, <2>1, <2>2
<1>9. CASE CallFails
  <2>1. pc' = 0 /\ writer_' = "gone" /\ samples' = << >>
    BY <1>9, <1>a, TraceActions DEF CallFails
  <2>2. QED
    BY <2>1
<1>10. CASE (DeviceFails /\ UNCHANGED <<pc, turn, recordVars>>) \/ UNCHANGED vars
  <2>1. UNCHANGED <<pc, writer_, pending, samples, trace_enabled>>
    BY <1>10 DEF DeviceFails, Buf!DeviceFails, vars, tracerVars, bufferVars,
                 recordVars, historyVars, configVars
  <2>2. QED
    BY <1>a, <2>1
<1>11. QED
  BY <1>1, <1>3, <1>4, <1>5, <1>6, <1>7, <1>8, <1>9, <1>10 DEF Next, RunNext

\* Closing a writer with an empty queue leaves its counters alone.
LEMMA CloseEmpty ==
  ASSUME pending = << >>, Close
  PROVE  UNCHANGED stats
  BY DEF Close, bufferVars, Buf!Close, Buf!Drain

\* Every step keeps the queue empty from the flush on, and the bundle true.
LEMMA BundleInvStep ==
  ASSUME SessionInv, [Next]_vars
  PROVE  NothingAfterBundle'
<1>a. SessionTypes /\ WriterInScope /\ NothingAfterBundle /\ T!TracerInv /\ pc \in 0 .. 40
      /\ stats_cache = stats
  BY DEF SessionInv, SessionTypes, T!TracerInv
<1> USE DEF NothingAfterBundle
<1>1. ASSUME NEW do \in {"open", "emit", "metrics", "operators", "subgraph_metrics"},
             TraceStep(do)
      PROVE  NothingAfterBundle'
  <2>1. /\ pc \in 1 .. 39 /\ pc' \in {pc, pc + 1} /\ Steps[pc].do = do
        /\ trace_stats_csv' = trace_stats_csv
    BY <1>1, <1>a, NotReturned, AdvanceStep DEF TraceStep, At, recordVars, historyVars
  <2>2. pc \in 1 .. 35
    BY <2>1, StepsDo
  <2>3. QED
    BY <1>a, <2>1, <2>2
<1>2. CASE OpenTrace \/ EmitStep \/ MetricsStep \/ OperatorStep \/ SubgraphStep
  BY <1>1, <1>2 DEF OpenTrace, EmitStep, MetricsStep, OperatorStep, SubgraphStep
<1>3. CASE MetricsLoop
  <2>1. samples # << >> /\ pc' = pc /\ trace_stats_csv' = trace_stats_csv
    BY <1>3, <1>a, TraceActions DEF MetricsLoop, recordVars, historyVars
  <2>2. pc \in 14 .. 31
    BY <1>a, <2>1 DEF WriterInScope
  <2>3. QED
    BY <1>a, <2>1, <2>2
<1>4. CASE FlushStep
  <2>1. /\ pc \in 1 .. 39 /\ pc' = pc + 1 /\ Steps[pc].do = "flush" /\ writer_ # "gone"
        /\ trace_stats_csv' = trace_stats_csv
    BY <1>4, <1>a, OneTurn DEF FlushStep, TraceStep, At, Idle, recordVars, historyVars
  <2>2. pc = 36 /\ pc' = 37
    <3>1. pc = 36
      BY <2>1, StepsDo
    <3>2. QED
      BY <2>1, <3>1
  <2>3. pending' = << >>
    <3>1. IF writer_ = "open" THEN pending' = << >> ELSE pending' = pending
      BY <1>4, <1>a, TraceActions DEF FlushStep
    <3>2. writer_ # "open" => pending = << >>
      BY <1>a, <2>1 DEF SessionTypes, WriterInScope
    <3>3. QED
      BY <3>1, <3>2
  <2>4. QED
    BY <1>a, <2>1, <2>2, <2>3
<1>5. CASE CloseStep
  <2>1. /\ pc \in 1 .. 39 /\ pc' = pc + 1 /\ Steps[pc].do = "close" /\ Close
        /\ trace_stats_csv' = trace_stats_csv
    BY <1>5, <1>a, OneTurn DEF CloseStep, TraceStep, recordVars, historyVars
  <2>2. pc = 39 /\ pc' = 40
    <3>1. pc = 39
      BY <2>1, StepsDo
    <3>2. QED
      BY <2>1, <3>1
  <2>3. pending = << >>
    BY <1>a, <2>2
  <2>4. pending' = << >>
    BY <1>a, <2>1, <2>3, TraceActions
  <2>5. UNCHANGED stats
    BY <2>1, <2>3, CloseEmpty
  <2>6. QED
    BY <1>a, <2>1, <2>2, <2>4, <2>5
<1>6. CASE Skip
  <2>1. /\ pc \in 1 .. 39 /\ pc' = pc + 1 /\ Turns = 0 /\ writer_ # "gone"
        /\ UNCHANGED <<pending, stats, trace_stats_csv>>
    BY <1>6, <1>a, NotReturned DEF Skip, Idle, tracerVars, bufferVars, recordVars, historyVars
  <2>2. pc = 36 => pending = << >>
    <3>1. pc = 36 => Steps[pc].do = "flush" /\ Steps[pc].what = "-"
      BY DEF Steps, SetupSteps, CompileSteps, LoadSteps, RunSteps, EndSteps,
             Step, Adapter, Hook, Event, Metrics
    <3>2. pc = 36 => ~trace_enabled
      BY <2>1, <3>1 DEF Turns
    <3>3. ~trace_enabled => pending = << >>
      BY <1>a, <2>1 DEF SessionTypes, WriterInScope
    <3>4. QED
      BY <3>2, <3>3
  <2>3. pc # 37
    <3>1. pc = 37 => Steps[pc].do = "bundle" /\ Steps[pc].what = "-"
      BY DEF Steps, SetupSteps, CompileSteps, LoadSteps, RunSteps, EndSteps,
             Step, Adapter, Hook, Event, Metrics
    <3>2. QED
      BY <2>1, <3>1 DEF Turns
  <2>4. QED
    BY <1>a, <2>1, <2>2, <2>3
<1>7. CASE ToolsStep \/ HookStep \/ AdapterStep
  <2>1. /\ pc \in 1 .. 39 /\ pc' \in {pc, pc + 1}
        /\ Steps[pc].do \in {"tools", "hook", "adapter"}
        /\ UNCHANGED <<pending, stats, trace_stats_csv>>
    BY <1>7, <1>a, NotReturned, AdvanceStep
       DEF ToolsStep, HookStep, AdapterStep, At, tracerVars, bufferVars
  <2>2. pc \in 1 .. 35 \/ pc = 38
    BY <2>1, StepsDo
  <2>3. QED
    BY <1>a, <2>1, <2>2
<1>8. CASE BundleStep
  <2>1. /\ pc \in 1 .. 39 /\ pc' = pc + 1 /\ Steps[pc].do = "bundle"
        /\ trace_stats_csv' = <<stats_cache>> /\ UNCHANGED <<pending, stats>>
    BY <1>8, <1>a, OneTurn DEF BundleStep, tracerVars, bufferVars
  <2>2. pc = 37 /\ pc' = 38
    <3>1. pc = 37
      BY <2>1, StepsDo
    <3>2. QED
      BY <2>1, <3>1
  <2>3. QED
    BY <1>a, <2>1, <2>2
<1>9. CASE CallFails
  <2>1. pc' = 0 /\ UNCHANGED <<pending, stats>>
    BY <1>9, <1>a, TraceActions DEF CallFails
  <2>2. \/ trace_stats_csv' = trace_stats_csv
        \/ At("bundle") /\ trace_stats_csv' \in {<< >>, <<stats_cache>>}
    BY <1>9 DEF CallFails
  <2>3. CASE trace_stats_csv' = trace_stats_csv
    BY <1>a, <2>1, <2>3
  <2>4. CASE At("bundle") /\ trace_stats_csv' \in {<< >>, <<stats_cache>>}
    <3>1. pc \in 1 .. 39 /\ Steps[pc].do = "bundle"
      BY <1>a, <2>4, NotReturned DEF At
    <3>2. pc = 37
      BY <3>1, StepsDo
    <3>3. QED
      BY <1>a, <2>1, <2>4, <3>2
  <2>5. QED
    BY <2>2, <2>3, <2>4
<1>10. CASE (DeviceFails /\ UNCHANGED <<pc, turn, recordVars>>) \/ UNCHANGED vars
  <2>1. UNCHANGED <<pc, pending, stats, trace_stats_csv>>
    BY <1>10 DEF DeviceFails, Buf!DeviceFails, vars, tracerVars, bufferVars, recordVars, historyVars
  <2>2. QED
    BY <1>a, <2>1
<1>11. QED
  BY <1>2, <1>3, <1>4, <1>5, <1>6, <1>7, <1>8, <1>9, <1>10 DEF Next, RunNext

\* The invariant holds in every reachable state of a session.
THEOREM SessionInvariant == Spec => []SessionInv
<1>1. Init => SessionInv
  BY InitInv
<1>2. SessionInv /\ [Next]_vars => SessionInv'
  <2> SUFFICES ASSUME SessionInv, [Next]_vars
               PROVE  SessionInv'
    OBVIOUS
  <2>1. SessionTypes /\ WriterInScope /\ T!TracerInv
    BY DEF SessionInv
  <2>2. T!TracerInv'
    BY <2>1, StepOfTracer, ClientAssumption, T!TracerStep
  <2>3. QED
    BY <2>1, <2>2, TypesStep, ScopeStep, BundleInvStep DEF SessionInv
<1>3. QED
  BY <1>1, <1>2, PTL DEF Spec

-----------------------------------------------------------------------------
(* What the invariant gives. *)

\* A session is a client of the tracer: every promise of the tracer to its
\* clients is kept in every session.
THEOREM SessionIsClient == Spec => T!TracerSpec
<1>1. Init => T!TracerInit
  BY DEF Init, TracerInit, Buf!Fresh, Buf!ZeroStats, T!TracerInit, T!Buf!Fresh, T!Buf!ZeroStats
<1>2. SessionInv /\ [Next]_vars => [T!TracerNext]_T!tracerVars
  BY StepOfTracer DEF SessionInv
<1>3. QED
  BY <1>1, <1>2, SessionInvariant, PTL DEF Spec, T!TracerSpec

\* The counters in the bundle are those of the finished trace, in every
\* session that gets as far as writing them, whether it succeeds or not.
THEOREM BundleCounts == Spec => []BundleIsFinal
<1>1. SessionInv => BundleIsFinal
  <2> SUFFICES ASSUME SessionInv, NEW i \in DOMAIN trace_stats_csv
               PROVE  LET row == trace_stats_csv[i]
                      IN /\ row = stats
                         /\ row.event_count = Len(file)
                         /\ row.event_count + row.dropped_event_count = Len(issued)
    BY DEF BundleIsFinal
  <2>1. trace_stats_csv = <<stats>> /\ pending = << >>
    BY DEF SessionInv, NothingAfterBundle
  <2>2. trace_stats_csv[i] = stats
    BY <2>1
  <2>3. /\ stats.event_count = Len(file) /\ stats.dropped_event_count \in Nat
        /\ Len(issued) = Len(file) + stats.dropped_event_count + Len(pending)
        /\ Len(file) \in Nat
    BY ClientAssumption, T!WriterFacts DEF SessionInv, T!TracerInv
  <2>4. Len(pending) = 0
    BY <2>1
  <2>5. QED
    BY <2>2, <2>3, <2>4
<1>2. QED
  BY <1>1, SessionInvariant, PTL

\* A session keeps its state well typed.
THEOREM SessionTypeCorrect == Spec => []SessionTypeOK
<1>1. SessionInv => SessionTypeOK
  <2> SUFFICES ASSUME SessionInv
               PROVE  SessionTypeOK
    OBVIOUS
  <2>1. SessionTypes /\ T!TracerInv /\ T!P!IInv
    BY DEF SessionInv, T!TracerInv
  <2>2. Buf!TypeOK /\ stats \in Buf!TraceStats
    BY <2>1
       DEF T!P!IInv, T!P!TypeOK, T!P!TraceStats, T!P!StreamState, T!TracedEvent, T!EventKind,
           Buf!TypeOK, Buf!TraceStats, Buf!StreamState, TracedEvent, EventKind
  <2>3. TracerTypeOK
    BY <2>1, <2>2
       DEF SessionTypes, T!TracerInv, T!TracerTypes, T!DetailLevel, TracerTypeOK, DetailLevel
  <2>4. \A i \in DOMAIN called : called[i][1] \in {0} \cup Positions
    <3>1. called \in Seq(CallOf)
      BY <2>1 DEF SessionTypes
    <3>2. \A i \in DOMAIN called : called[i] \in CallOf
      BY <3>1, ElementOfSeq, LenProperties
    <3>3. Len(ToolNames) \in Nat
      BY RunSessionAssumption, LenProperties
    <3>4. QED
      BY <3>2, <3>3 DEF CallOf, Positions
  <2>5. trace_stats_csv \in Seq(Buf!TraceStats)
    <3>1. trace_stats_csv = << >> \/ trace_stats_csv = <<stats>>
      BY DEF SessionInv, NothingAfterBundle
    <3>2. \A S : \A row \in S : << >> \in Seq(S) /\ <<row>> \in Seq(S)
      OBVIOUS
    <3>3. << >> \in Seq(Buf!TraceStats) /\ <<stats>> \in Seq(Buf!TraceStats)
      BY <2>2, <3>2, Zenon
    <3>4. QED
      BY <3>1, <3>3, Zenon
  <2>6. pc \in 0 .. Len(Steps) + 1 /\ turn \in Nat
    BY <2>1, StepsLength DEF SessionTypes
  <2>7. /\ trace_enabled \in BOOLEAN /\ detail \in DetailLevel /\ tools \in {<< >>, ToolNames}
        /\ op_count \in 0 .. MaxOps /\ manifest \in BOOLEAN
        /\ compile_metrics \in Seq(Name) /\ runtime_metrics \in Seq(Name)
        /\ seen \in [Positions -> Seq(Name)]
    BY <2>1, Zenon DEF SessionTypes
  <2>8. QED
    BY <2>3, <2>4, <2>5, <2>6, <2>7 DEF SessionTypeOK
<1>2. QED
  BY <1>1, SessionInvariant, PTL

-----------------------------------------------------------------------------
(* The stages in the line of steps. *)

\* Stage s is announced by step o and by hook b, ended by the adapter two steps
\* after b, closed by step e and told to the tools by hook n.
Place(s, o, b, e, n) ==
  /\ o \in 1 .. 39 /\ b \in 1 .. 37 /\ e \in 1 .. 39 /\ n \in 1 .. 39
  /\ o < b /\ b + 2 < e /\ e < n
  /\ Steps[o].do = "emit" /\ Steps[o].what = s.opened /\ o # 18
  /\ Steps[b].do = "hook" /\ Steps[b].what = s.onBegin
  /\ Steps[b + 1].do = "adapter" /\ Steps[b + 1].what = s.begin /\ b + 1 # 17
  /\ Steps[b + 2].do = "adapter" /\ Steps[b + 2].what = s.end /\ b + 2 # 17
  /\ Steps[e].do = "emit" /\ Steps[e].what = s.closed /\ e # 18
  /\ Steps[n].do = "hook" /\ Steps[n].what = s.onEnd
  /\ \A i \in 1 .. 39 : /\ Steps[i].what = s.begin => i = b + 1
                        /\ Steps[i].what = s.onBegin => i = b
                        /\ Steps[i].what = s.onEnd => i = n

\* Every stage has its place.
LEMMA StagePlaces ==
  ASSUME NEW s \in Stages
  PROVE  \E o, b, e, n : Place(s, o, b, e, n)
<1>1. CASE s = [opened |-> "compile_begin", onBegin |-> "OnCompileBegin",
                begin |-> "CompileBegin", end |-> "CompileEnd",
                closed |-> "compile_end", onEnd |-> "OnCompileEnd"]
  <2>1. Place(s, 9, 10, 14, 16)
    BY <1>1 DEF Place, Steps, SetupSteps, CompileSteps, LoadSteps, RunSteps, EndSteps,
               Step, Adapter, Hook, Event, Metrics
  <2>2. QED
    BY <2>1
<1>2. CASE s = [opened |-> "load_begin", onBegin |-> "OnLoadBegin",
                begin |-> "LoadBegin", end |-> "LoadEnd",
                closed |-> "load_end", onEnd |-> "OnLoadEnd"]
  <2>1. Place(s, 19, 20, 24, 25)
    BY <1>2 DEF Place, Steps, SetupSteps, CompileSteps, LoadSteps, RunSteps, EndSteps,
               Step, Adapter, Hook, Event, Metrics
  <2>2. QED
    BY <2>1
<1>3. CASE s = [opened |-> "run_begin", onBegin |-> "OnRunBegin",
                begin |-> "RunBegin", end |-> "RunEnd",
                closed |-> "run_end", onEnd |-> "OnRunEnd"]
  <2>1. Place(s, 26, 27, 32, 33)
    BY <1>3 DEF Place, Steps, SetupSteps, CompileSteps, LoadSteps, RunSteps, EndSteps,
               Step, Adapter, Hook, Event, Metrics
  <2>2. QED
    BY <2>1
<1>4. QED
  BY <1>1, <1>2, <1>3 DEF Stages

-----------------------------------------------------------------------------
(* The invariant. *)

\* Every step passed has been done; the manifest may be left out.
Passed ==
  pc # 0 => \A i \in 1 .. 39 : i < pc =>
    /\ Steps[i].do = "adapter" /\ i # 17 => <<0, Steps[i].what>> \in Range(called)
    /\ Steps[i].do = "hook" => \A t \in DOMAIN tools : <<t, Steps[i].what>> \in Range(called)
    /\ Steps[i].do = "emit" /\ i # 18 /\ trace_enabled
         => Steps[i].what \in Range(NamesOf(issued))

\* So have the turns of the hook at hand.
TurnsTaken ==
  pc \in 1 .. 39 /\ Steps[pc].do = "hook"
    => \A t \in 1 .. turn : <<t, Steps[pc].what>> \in Range(called)

\* Nothing else has been called.
NothingElse ==
  pc # 0 => \A c \in Range(called) :
    \E i \in 1 .. 39 : c[2] = Steps[i].what /\ (i < pc \/ (i = pc /\ Steps[i].do = "hook"))

HistoryInv ==
  /\ Passed
  /\ TurnsTaken
  /\ NothingElse
  /\ pc \in 1 .. 3 => called = << >>
  /\ StagesBracketed

-----------------------------------------------------------------------------
(* Histories only grow. *)

\* One more call.
LEMMA CalledGrows ==
  ASSUME NEW S, NEW s \in Seq(S), NEW c \in S
  PROVE  /\ Range(Append(s, c)) = Range(s) \cup {c}
         /\ Append(s, c) # << >>
         /\ Last(Append(s, c)) = c
<1>1. /\ Append(s, c) \in Seq(S) /\ Len(Append(s, c)) = Len(s) + 1
      /\ \A i \in 1 .. Len(s) : Append(s, c)[i] = s[i]
      /\ Append(s, c)[Len(s) + 1] = c
  BY AppendProperties
<1>2. DOMAIN s = 1 .. Len(s) /\ DOMAIN Append(s, c) = 1 .. Len(s) + 1 /\ Len(s) \in Nat
  BY <1>1, LenProperties
<1>3. Range(Append(s, c)) = Range(s) \cup {c}
  BY <1>1, <1>2 DEF Range
<1>4. Len(Append(s, c)) # 0 /\ Append(s, c)[Len(Append(s, c))] = c
  BY <1>1, <1>2
<1>5. Last(Append(s, c)) = c
  BY <1>4 DEF Last
<1>6. Append(s, c) # << >>
  BY <1>4, EmptySeq
<1>7. QED
  BY <1>3, <1>5, <1>6

\* One more event.
LEMMA NamesGrow ==
  ASSUME NEW S, NEW s \in Seq(S), NEW e
  PROVE  Range(NamesOf(Append(s, e))) = Range(NamesOf(s)) \cup {e.event}
<1> DEFINE A == S \cup {e}
<1>1. s \in Seq(A)
  <2>1. Len(s) \in Nat /\ DOMAIN s = 1 .. Len(s) /\ \A i \in 1 .. Len(s) : s[i] \in S
    BY LenProperties, ElementOfSeq
  <2>2. QED
    BY <2>1, IsASeq
<1> HIDE DEF A
<1>2. e \in A
  BY DEF A
<1>3. /\ Append(s, e) \in Seq(A) /\ Len(Append(s, e)) = Len(s) + 1
      /\ \A i \in 1 .. Len(s) : Append(s, e)[i] = s[i]
      /\ Append(s, e)[Len(s) + 1] = e
  BY <1>1, <1>2, AppendProperties
<1>4. DOMAIN s = 1 .. Len(s) /\ DOMAIN Append(s, e) = 1 .. Len(s) + 1 /\ Len(s) \in Nat
  BY <1>1, <1>3, LenProperties
<1>5. QED
  BY <1>3, <1>4 DEF Range, NamesOf

\* What a trace action does to the names in the trace.
LEMMA TraceNames ==
  ASSUME T!TracerInv
  PROVE  /\ \A kind, event : Emit(kind, event)
              => /\ Range(NamesOf(issued)) \subseteq Range(NamesOf(issued'))
                 /\ writer_ = "open" => event \in Range(NamesOf(issued'))
         /\ \A ms : EmitMetrics(ms) => Range(NamesOf(issued)) \subseteq Range(NamesOf(issued'))
         /\ EmitSample => Range(NamesOf(issued)) \subseteq Range(NamesOf(issued'))
         /\ Flush \/ Close \/ Destroy \/ DeviceFails => issued' = issued
<1>1. issued \in Seq(T!TracedEvent)
  BY ClientAssumption, T!WriterFacts DEF T!TracerInv
<1>2. ASSUME NEW kind, NEW event, Queue(kind, event)
      PROVE  /\ Range(NamesOf(issued)) \subseteq Range(NamesOf(issued'))
             /\ writer_ = "open" => event \in Range(NamesOf(issued'))
  <2>1. CASE writer_ = "open"
    <3> DEFINE e == Traced(kind, event)
    <3>1. issued' = Append(issued, e)
      BY <1>2, <2>1 DEF Queue, Buf!Write
    <3>2. e.event = event
      BY DEF Traced
    <3> HIDE DEF e
    <3>3. QED
      BY <1>1, <3>1, <3>2, NamesGrow
  <2>2. CASE writer_ # "open"
    BY <1>2, <2>2 DEF Queue, bufferVars
  <2>3. QED
    BY <2>1, <2>2
<1>3. ASSUME NEW kind, NEW event, Emit(kind, event)
      PROVE  /\ Range(NamesOf(issued)) \subseteq Range(NamesOf(issued'))
             /\ writer_ = "open" => event \in Range(NamesOf(issued'))
  BY <1>2, <1>3 DEF Emit
<1>4. ASSUME NEW ms, EmitMetrics(ms)
      PROVE  Range(NamesOf(issued)) \subseteq Range(NamesOf(issued'))
  <2>1. Queue("kMetric", "metrics_summary") \/ issued' = issued
    BY <1>4 DEF EmitMetrics, bufferVars
  <2>2. QED
    BY <1>2, <2>1
<1>5. ASSUME EmitSample
      PROVE  Range(NamesOf(issued)) \subseteq Range(NamesOf(issued'))
  BY <1>2, <1>5 DEF EmitSample
<1>6. Flush \/ Close \/ Destroy \/ DeviceFails => issued' = issued
  BY DEF Flush, Close, Destroy, DeviceFails, bufferVars, Buf!Flush, Buf!Close, Buf!DeviceFails
<1>7. QED
  BY <1>3, <1>4, <1>5, <1>6

-----------------------------------------------------------------------------
(* Steps. *)

\* A tool or the adapter is called: what the stages ask of the calls so far.
LEMMA CallBracketed ==
  ASSUME HistoryInv, SessionTypes, pc \in 1 .. 39, NEW m \in 0 .. Len(ToolNames),
         \/ Steps[pc].do = "hook" /\ m # 0 /\ trace_enabled
         \/ Steps[pc].do = "adapter" /\ m = 0,
         called' = Append(called, <<m, Steps[pc].what>>),
         issued' = issued, tools' = tools
  PROVE  StagesBracketed'
<1> DEFINE c == <<m, Steps[pc].what>>
<1>1. /\ Range(called') = Range(called) \cup {c}
      /\ Last(called') = c
  <2>1. c \in CallOf /\ called \in Seq(CallOf)
    BY DEF CallOf, SessionTypes
  <2>2. QED
    BY <2>1, CalledGrows
<1>2. c[1] = m /\ c[2] = Steps[pc].what
  OBVIOUS
<1> HIDE DEF c
<1>a. Passed /\ NothingElse /\ pc # 0
  <2>1. Passed /\ NothingElse
    BY DEF HistoryInv
  <2>2. pc # 0
    OBVIOUS
  <2>3. QED
    BY <2>1, <2>2
<1>b. ASSUME NEW i \in 1 .. 39, i < pc
      PROVE  /\ Steps[i].do = "adapter" /\ i # 17 => <<0, Steps[i].what>> \in Range(called)
             /\ Steps[i].do = "hook" => \A t \in DOMAIN tools : <<t, Steps[i].what>> \in Range(called)
             /\ Steps[i].do = "emit" /\ i # 18 /\ trace_enabled
                  => Steps[i].what \in Range(NamesOf(issued))
  BY <1>a, <1>b DEF Passed
<1>3. ASSUME NEW s \in Stages
      PROVE  /\ c = <<0, s.begin>> => \A t \in DOMAIN tools : <<t, s.onBegin>> \in Range(called')
             /\ c[2] = s.onBegin => /\ s.opened \in Range(NamesOf(issued))
                                    /\ <<0, s.begin>> \notin Range(called')
             /\ c[2] = s.onEnd => /\ s.closed \in Range(NamesOf(issued))
                                  /\ <<0, s.end>> \in Range(called')
  <2>1. PICK o, b, e, n : Place(s, o, b, e, n)
    BY StagePlaces
  <2>2. ASSUME c = <<0, s.begin>>, NEW t \in DOMAIN tools
        PROVE  <<t, s.onBegin>> \in Range(called')
    <3>1. Steps[pc].what = s.begin
      BY <1>2, <2>2
    <3>2. b \in 1 .. 39 /\ b < pc /\ pc = b + 1 /\ Steps[b].do = "hook" 
          /\ Steps[b].what = s.onBegin
      <4>1. pc = b + 1
        BY <2>1, <3>1 DEF Place
      <4>2. b \in 1 .. 37 /\ Steps[b].do = "hook" /\ Steps[b].what = s.onBegin
        BY <2>1 DEF Place
      <4>3. QED
        BY <4>1, <4>2
    <3>3. <<t, Steps[b].what>> \in Range(called)
      BY <1>b, <2>2, <3>2
    <3>4. QED
      BY <1>1, <3>2, <3>3
  <2>3. ASSUME c[2] = s.onBegin
        PROVE  s.opened \in Range(NamesOf(issued)) /\ <<0, s.begin>> \notin Range(called')
    <3>1. pc = b /\ Steps[pc].do = "hook" /\ m # 0 /\ trace_enabled
      BY <1>2, <2>1, <2>3 DEF Place
    <3>2. /\ o \in 1 .. 39 /\ o < pc /\ o # 18 /\ Steps[o].do = "emit"
          /\ Steps[o].what = s.opened
      BY <2>1, <3>1 DEF Place
    <3>3. s.opened \in Range(NamesOf(issued))
      BY <1>b, <3>1, <3>2
    <3>4. <<0, s.begin>> \notin Range(called)
      <4> SUFFICES ASSUME <<0, s.begin>> \in Range(called)
                   PROVE  FALSE
        OBVIOUS
      <4>1. PICK i \in 1 .. 39 : /\ <<0, s.begin>>[2] = Steps[i].what
                                 /\ i < pc \/ (i = pc /\ Steps[i].do = "hook")
        BY <1>a DEF NothingElse
      <4>2. i = b + 1
        BY <2>1, <4>1 DEF Place
      <4>3. QED
        BY <3>1, <4>1, <4>2
    <3>5. c # <<0, s.begin>>
      BY <1>2, <3>1
    <3>6. QED
      BY <1>1, <3>3, <3>4, <3>5
  <2>4. ASSUME c[2] = s.onEnd
        PROVE  s.closed \in Range(NamesOf(issued)) /\ <<0, s.end>> \in Range(called')
    <3>1. pc = n /\ Steps[pc].do = "hook" /\ trace_enabled
      BY <1>2, <2>1, <2>4 DEF Place
    <3>2. /\ e \in 1 .. 39 /\ e < pc /\ e # 18 /\ Steps[e].do = "emit"
          /\ Steps[e].what = s.closed
      BY <2>1, <3>1 DEF Place
    <3>3. /\ b + 2 \in 1 .. 39 /\ b + 2 < pc /\ b + 2 # 17 /\ Steps[b + 2].do = "adapter"
          /\ Steps[b + 2].what = s.end
      BY <2>1, <3>1 DEF Place
    <3>4. s.closed \in Range(NamesOf(issued))
      BY <1>b, <3>1, <3>2
    <3>5. <<0, s.end>> \in Range(called)
      BY <1>b, <3>3
    <3>6. QED
      BY <1>1, <3>4, <3>5
  <2>5. QED
    BY <2>2, <2>3, <2>4
<1>4. QED
  BY <1>1, <1>3 DEF StagesBracketed

\* Nobody is called; if the step is done with, so is what it was there for.
Quiet ==
  /\ pc \in 1 .. 39
  /\ pc' = pc \/ pc' = pc + 1
  /\ pc' = pc => Steps[pc].do # "hook"
  /\ called' = called /\ trace_enabled' = trace_enabled
  /\ tools' = tools \/ (pc = 3 /\ pc' = 4)
  /\ Range(NamesOf(issued)) \subseteq Range(NamesOf(issued'))
  /\ pc' = pc + 1 =>
       /\ Steps[pc].do = "adapter" => pc = 17
       /\ Steps[pc].do = "hook" => DOMAIN tools = {}
       /\ Steps[pc].do = "emit" /\ pc # 18 /\ trace_enabled
            => Steps[pc].what \in Range(NamesOf(issued'))
       /\ turn' = 0

\* Such a step keeps the invariant.
LEMMA QuietStep ==
  ASSUME HistoryInv, Quiet
  PROVE  HistoryInv'
<1>a. Passed /\ TurnsTaken /\ NothingElse /\ StagesBracketed /\ (pc \in 1 .. 3 => called = << >>)
  BY DEF HistoryInv
<1>b. pc \in 1 .. 39 /\ pc' \in {pc, pc + 1} /\ called' = called /\ pc # 0 /\ pc' # 0
  <2>1. pc \in 1 .. 39 /\ (pc' = pc \/ pc' = pc + 1) /\ called' = called
    BY DEF Quiet
  <2>2. QED
    BY <2>1
<1>1. Passed'
  <2> SUFFICES ASSUME NEW i \in 1 .. 39, i < pc'
               PROVE
    /\ Steps[i].do = "adapter" /\ i # 17 => <<0, Steps[i].what>> \in Range(called)
    /\ Steps[i].do = "hook" => \A t \in DOMAIN tools' : <<t, Steps[i].what>> \in Range(called)
    /\ Steps[i].do = "emit" /\ i # 18 /\ trace_enabled
         => Steps[i].what \in Range(NamesOf(issued'))
    BY DEF Passed, Quiet
  <2>1. CASE i < pc
    <3>1. /\ Steps[i].do = "adapter" /\ i # 17 => <<0, Steps[i].what>> \in Range(called)
          /\ Steps[i].do = "hook" => \A t \in DOMAIN tools : <<t, Steps[i].what>> \in Range(called)
          /\ Steps[i].do = "emit" /\ i # 18 /\ trace_enabled
               => Steps[i].what \in Range(NamesOf(issued))
      BY <1>a, <1>b, <2>1 DEF Passed
    <3>2. tools' = tools \/ i \in 1 .. 2
      <4>1. tools' = tools \/ pc = 3
        BY DEF Quiet
      <4>2. pc = 3 => i \in 1 .. 2
        BY <2>1
      <4>3. QED
        BY <4>1, <4>2
    <3>3. i \in 1 .. 2 => Steps[i].do # "hook"
      BY StepsDo
    <3>4. Range(NamesOf(issued)) \subseteq Range(NamesOf(issued'))
      BY DEF Quiet
    <3>5. QED
      BY <3>1, <3>2, <3>3, <3>4
  <2>2. CASE i = pc
    <3>1. pc' = pc + 1
      BY <1>b, <2>2
    <3>2. tools' = tools \/ pc = 3
      BY DEF Quiet
    <3>3. pc = 3 => Steps[pc].do # "hook"
      BY StepsDo
    <3>4. /\ Steps[pc].do = "adapter" => pc = 17
          /\ Steps[pc].do = "hook" => DOMAIN tools = {}
          /\ Steps[pc].do = "emit" /\ pc # 18 /\ trace_enabled
               => Steps[pc].what \in Range(NamesOf(issued'))
      BY <3>1 DEF Quiet
    <3>5. QED
      BY <2>2, <3>2, <3>3, <3>4
  <2>3. QED
    BY <1>b, <2>1, <2>2
<1>2. TurnsTaken'
  <2>1. CASE pc' = pc
    <3>1. Steps[pc].do # "hook"
      BY <2>1 DEF Quiet
    <3>2. QED
      BY <2>1, <3>1 DEF TurnsTaken
  <2>2. CASE pc' = pc + 1
    <3>1. turn' = 0
      BY <2>2 DEF Quiet
    <3>2. QED
      BY <3>1 DEF TurnsTaken
  <2>3. QED
    BY <1>b, <2>1, <2>2
<1>3. NothingElse'
  <2> SUFFICES ASSUME NEW c \in Range(called)
               PROVE  \E i \in 1 .. 39 : /\ c[2] = Steps[i].what
                                         /\ i < pc' \/ (i = pc' /\ Steps[i].do = "hook")
    BY <1>b DEF NothingElse
  <2>1. PICK i \in 1 .. 39 : /\ c[2] = Steps[i].what
                             /\ i < pc \/ (i = pc /\ Steps[i].do = "hook")
    BY <1>a, <1>b DEF NothingElse
  <2>2. i = pc /\ Steps[i].do = "hook" => pc' # pc
    BY DEF Quiet
  <2>3. i < pc'
    BY <1>b, <2>1, <2>2
  <2>4. QED
    BY <2>1, <2>3
<1>4. pc' \in 1 .. 3 => called' = << >>
  <2>1. pc' \in 1 .. 3 => pc \in 1 .. 3
    BY <1>b
  <2>2. QED
    BY <1>a, <1>b, <2>1
<1>5. StagesBracketed'
  <2>1. CASE called = << >>
    BY <1>b, <2>1 DEF StagesBracketed
  <2>2. CASE called # << >>
    <3>1. tools' = tools
      <4>1. pc = 3 => called = << >>
        BY <1>a
      <4>2. QED
        BY <2>2, <4>1 DEF Quiet
    <3>2. Range(NamesOf(issued)) \subseteq Range(NamesOf(issued'))
      BY DEF Quiet
    <3>3. QED
      BY <1>a, <1>b, <2>2, <3>1, <3>2 DEF StagesBracketed
  <2>3. QED
    BY <2>1, <2>2
<1>6. QED
  BY <1>1, <1>2, <1>3, <1>4, <1>5 DEF HistoryInv

\* A tool (by position) or the adapter (0) is called.
Calling(m) ==
  /\ pc \in 1 .. 39 /\ m \in 0 .. Len(ToolNames)
  /\ \/ Steps[pc].do = "hook" /\ m = turn + 1 /\ trace_enabled
     \/ Steps[pc].do = "adapter" /\ m = 0
  /\ called' = Append(called, <<m, Steps[pc].what>>)
  /\ issued' = issued /\ tools' = tools /\ trace_enabled' = trace_enabled
  /\ \/ pc' = pc /\ turn' = turn + 1 /\ Steps[pc].do = "hook"
     \/ pc' = pc + 1 /\ turn' = 0 /\ (Steps[pc].do = "hook" => DOMAIN tools \subseteq 1 .. m)

\* Such a step keeps the invariant.
LEMMA CallStep ==
  ASSUME HistoryInv, SessionTypes, NEW m, Calling(m)
  PROVE  HistoryInv'
<1>a. Passed /\ TurnsTaken /\ NothingElse
  BY DEF HistoryInv
<1>b. /\ pc \in 1 .. 39 /\ pc' \in {pc, pc + 1} /\ pc # 0 /\ pc' # 0 /\ turn \in Nat
      /\ tools' = tools /\ trace_enabled' = trace_enabled /\ issued' = issued
  <2>1. pc \in 1 .. 39 /\ (pc' = pc \/ pc' = pc + 1)
    BY DEF Calling
  <2>2. turn \in Nat /\ tools' = tools /\ trace_enabled' = trace_enabled /\ issued' = issued
    BY DEF Calling, SessionTypes
  <2>3. QED
    BY <2>1, <2>2
<1> DEFINE c == <<m, Steps[pc].what>>
<1>c. Range(called') = Range(called) \cup {c}
  <2>1. c \in CallOf /\ called \in Seq(CallOf) /\ called' = Append(called, c)
    BY DEF CallOf, SessionTypes, Calling
  <2>2. QED
    BY <2>1, CalledGrows
<1>1. Passed'
  <2> SUFFICES ASSUME NEW i \in 1 .. 39, i < pc'
               PROVE
    /\ Steps[i].do = "adapter" /\ i # 17 => <<0, Steps[i].what>> \in Range(called')
    /\ Steps[i].do = "hook" => \A t \in DOMAIN tools : <<t, Steps[i].what>> \in Range(called')
    /\ Steps[i].do = "emit" /\ i # 18 /\ trace_enabled
         => Steps[i].what \in Range(NamesOf(issued))
    BY <1>b DEF Passed
  <2>1. CASE i < pc
    BY <1>a, <1>b, <1>c, <2>1 DEF Passed
  <2>2. CASE i = pc
    <3>1. pc' = pc + 1
      BY <1>b, <2>2
    <3>2. pc' # pc
      BY <1>b, <3>1
    <3>3. CASE Steps[pc].do = "adapter"
      <4>1. m = 0
        BY <3>3 DEF Calling
      <4>2. QED
        BY <1>c, <2>2, <3>3, <4>1
    <3>4. CASE Steps[pc].do = "hook"
      <4>1. DOMAIN tools \subseteq 1 .. m /\ m = turn + 1
        BY <3>2, <3>4 DEF Calling
      <4>2. \A t \in DOMAIN tools : t \in 1 .. turn \/ t = m
        BY <1>b, <4>1
      <4>3. \A t \in 1 .. turn : <<t, Steps[pc].what>> \in Range(called)
        BY <1>a, <1>b, <3>4 DEF TurnsTaken
      <4>4. QED
        BY <1>c, <2>2, <3>4, <4>2, <4>3
    <3>5. QED
      BY <3>3, <3>4 DEF Calling
  <2>3. QED
    BY <1>b, <2>1, <2>2
<1>2. TurnsTaken'
  <2>1. CASE pc' = pc
    <3>1. turn' = turn + 1 /\ m = turn + 1 /\ Steps[pc].do = "hook"
      <4>1. pc' # pc + 1
        BY <1>b, <2>1
      <4>2. QED
        BY <4>1 DEF Calling
    <3>2. \A t \in 1 .. turn : <<t, Steps[pc].what>> \in Range(called)
      BY <1>a, <1>b, <3>1 DEF TurnsTaken
    <3>3. \A t \in 1 .. turn' : t \in 1 .. turn \/ t = m
      BY <1>b, <3>1
    <3>4. \A t \in 1 .. turn' : <<t, Steps[pc].what>> \in Range(called')
      BY <1>c, <3>2, <3>3
    <3>5. QED
      BY <2>1, <3>4 DEF TurnsTaken
  <2>2. CASE pc' # pc
    <3>1. turn' = 0
      BY <2>2 DEF Calling
    <3>2. QED
      BY <3>1 DEF TurnsTaken
  <2>3. QED
    BY <2>1, <2>2
<1>3. NothingElse'
  <2> SUFFICES ASSUME NEW d \in Range(called')
               PROVE  \E i \in 1 .. 39 : /\ d[2] = Steps[i].what
                                         /\ i < pc' \/ (i = pc' /\ Steps[i].do = "hook")
    BY DEF NothingElse
  <2>1. PICK i \in 1 .. 39 : /\ d[2] = Steps[i].what
                             /\ \/ i < pc \/ (i = pc /\ Steps[i].do = "hook")
                                \/ i = pc
    <3>1. CASE d \in Range(called)
      BY <1>a, <1>b, <3>1 DEF NothingElse
    <3>2. CASE d = c
      BY <1>b, <3>2
    <3>3. QED
      BY <1>c, <3>1, <3>2
  <2>2. pc' = pc => Steps[pc].do = "hook"
    <3>1. pc' = pc => pc' # pc + 1
      BY <1>b
    <3>2. QED
      BY <3>1 DEF Calling
  <2>3. i < pc' \/ (i = pc' /\ Steps[i].do = "hook")
    <3>1. CASE pc' = pc
      BY <2>1, <2>2, <3>1
    <3>2. CASE pc' = pc + 1
      BY <1>b, <2>1, <3>2
    <3>3. QED
      BY <1>b, <3>1, <3>2
  <2>4. QED
    BY <2>1, <2>3
<1>4. pc' \in 1 .. 3 => called' = << >>
  <2>1. Steps[pc].do \in {"hook", "adapter"}
    BY DEF Calling
  <2>2. pc \notin 1 .. 3
    BY <1>b, <2>1, StepsDo
  <2>3. QED
    BY <1>b, <2>2
<1>5. StagesBracketed'
  <2>1. \/ Steps[pc].do = "hook" /\ m # 0 /\ trace_enabled
        \/ Steps[pc].do = "adapter" /\ m = 0
    <3>1. turn + 1 # 0
      BY <1>b
    <3>2. QED
      BY <3>1 DEF Calling
  <2>2. m \in 0 .. Len(ToolNames) /\ called' = Append(called, <<m, Steps[pc].what>>)
    BY DEF Calling
  <2>3. QED
    BY <1>b, <2>1, <2>2, CallBracketed
<1>6. QED
  BY <1>1, <1>2, <1>3, <1>4, <1>5 DEF HistoryInv

\* Only the trace may have grown.
LEMMA TraceGrows ==
  ASSUME HistoryInv, UNCHANGED <<pc, turn, tools, trace_enabled, called>>,
         Range(NamesOf(issued)) \subseteq Range(NamesOf(issued'))
  PROVE  HistoryInv'
<1>a. /\ Passed /\ TurnsTaken /\ NothingElse /\ StagesBracketed
      /\ pc \in 1 .. 3 => called = << >>
  BY DEF HistoryInv
<1>1. Passed'
  BY <1>a DEF Passed
<1>2. TurnsTaken' /\ NothingElse'
  BY <1>a DEF TurnsTaken, NothingElse
<1>3. StagesBracketed'
  BY <1>a DEF StagesBracketed
<1>4. QED
  BY <1>a, <1>1, <1>2, <1>3 DEF HistoryInv

\* A turn that calls nobody and keeps what the trace says.
LEMMA OtherTurn ==
  ASSUME HistoryInv, SessionTypes,
         NEW do \in {"tools", "metrics", "operators", "subgraph_metrics", "flush", "bundle",
                     "close", "emit"},
         At(do), Advance, called' = called, trace_enabled' = trace_enabled,
         tools' = tools \/ do = "tools",
         Range(NamesOf(issued)) \subseteq Range(NamesOf(issued')),
         do = "emit" /\ trace_enabled => Steps[pc].what \in Range(NamesOf(issued'))
  PROVE  HistoryInv'
<1>1. pc \in 1 .. 39 /\ Steps[pc].do = do /\ ~Returned
  BY NotReturned DEF At
<1>2. do # "hook" /\ do # "adapter"
  OBVIOUS
<1>3. pc' = pc \/ (pc' = pc + 1 /\ turn' = 0)
  BY <1>1, AdvanceStep
<1>4. do = "tools" => pc = 3 /\ pc' = 4
  <2>1. do = "tools" => pc' = pc + 1
    BY OneTurn
  <2>2. do = "tools" => pc = 3
    BY <1>1, StepsDo
  <2>3. QED
    BY <2>1, <2>2
<1>5. pc' = pc + 1 => turn' = 0
  <2>1. pc # pc + 1
    BY <1>1
  <2>2. QED
    BY <1>3, <2>1
<1>6. Quiet
  BY <1>1, <1>2, <1>3, <1>4, <1>5 DEF Quiet
<1>7. QED
  BY <1>6, QuietStep

\* Turns of the trace.
LEMMA TraceTurns ==
  ASSUME HistoryInv, SessionInv,
         EmitStep \/ MetricsStep \/ OperatorStep \/ SubgraphStep \/ FlushStep \/ CloseStep
  PROVE  HistoryInv'
<1>a. SessionTypes /\ WriterInScope /\ T!TracerInv
  BY DEF SessionInv
<1>1. CASE EmitStep
  <2>1. /\ At("emit") /\ Advance /\ Emit(Steps[pc].kind, Steps[pc].what)
        /\ UNCHANGED <<called, trace_enabled, tools>>
    BY <1>1 DEF EmitStep, TraceStep, recordVars, historyVars, configVars
  <2>2. pc \in 1 .. 39 /\ Steps[pc].do = "emit"
    BY <1>a, <2>1, OneTurn
  <2>3. pc # 1
    BY <2>2, StepsDo
  <2>4. trace_enabled => writer_ = "open"
    BY <1>a, <2>2, <2>3 DEF WriterInScope
  <2>5. /\ Range(NamesOf(issued)) \subseteq Range(NamesOf(issued'))
        /\ trace_enabled => Steps[pc].what \in Range(NamesOf(issued'))
    BY <1>a, <2>1, <2>4, TraceNames
  <2>6. QED
    BY <1>a, <2>1, <2>5, OtherTurn
<1>2. ASSUME NEW do \in {"metrics", "operators", "subgraph_metrics", "flush", "close"},
             TraceStep(do), Range(NamesOf(issued)) \subseteq Range(NamesOf(issued'))
      PROVE  HistoryInv'
  <2>1. At(do) /\ Advance /\ UNCHANGED <<called, trace_enabled, tools>>
    BY <1>2 DEF TraceStep, recordVars, historyVars, configVars
  <2>2. QED
    BY <1>a, <1>2, <2>1, OtherTurn
<1>3. CASE MetricsStep
  <2>1. Range(NamesOf(issued)) \subseteq Range(NamesOf(issued'))
    BY <1>3, <1>a, TraceNames DEF MetricsStep
  <2>2. QED
    BY <1>2, <1>3, <2>1 DEF MetricsStep
<1>4. CASE OperatorStep \/ SubgraphStep
  <2>1. Range(NamesOf(issued)) \subseteq Range(NamesOf(issued'))
    BY <1>4, <1>a, TraceNames DEF OperatorStep, SubgraphStep
  <2>2. QED
    BY <1>2, <1>4, <2>1 DEF OperatorStep, SubgraphStep
<1>5. CASE FlushStep \/ CloseStep
  <2>1. issued' = issued
    BY <1>5, <1>a, TraceNames DEF FlushStep, CloseStep
  <2>2. QED
    BY <1>2, <1>5, <2>1 DEF FlushStep, CloseStep
<1>6. QED
  BY <1>1, <1>3, <1>4, <1>5

\* A session calls nobody before its trace is open.
LEMMA OpenTurn ==
  ASSUME HistoryInv, SessionTypes, OpenTrace
  PROVE  HistoryInv'
<1>1. /\ pc \in 1 .. 39 /\ Steps[pc].do = "open" /\ pc' = pc + 1 /\ turn' = 0
      /\ called' = called
  BY OneTurn DEF OpenTrace, TraceStep, recordVars, historyVars
<1>2. pc = 1
  BY <1>1, StepsDo
<1>3. called' = << >> /\ pc' = 2
  <2>1. pc \in 1 .. 3 => called = << >>
    BY DEF HistoryInv
  <2>2. called = << >>
    BY <1>2, <2>1
  <2>3. pc' = 2
    BY <1>1, <1>2
  <2>4. QED
    BY <1>1, <2>2, <2>3
<1>4. Passed'
  <2>1. ASSUME NEW i \in 1 .. 39, i < pc'
        PROVE  Steps[i].do = "open"
    <3>1. i = pc
      BY <1>2, <1>3, <2>1
    <3>2. QED
      BY <1>1, <3>1
  <2>2. QED
    BY <2>1 DEF Passed
<1>5. TurnsTaken'
  BY <1>1 DEF TurnsTaken
<1>6. NothingElse' /\ StagesBracketed'
  <2>1. Range(called') = {}
    BY <1>3 DEF Range
  <2>2. QED
    BY <1>3, <2>1 DEF NothingElse, StagesBracketed
<1>7. QED
  BY <1>3, <1>4, <1>5, <1>6 DEF HistoryInv

\* A step is passed over when there is nothing to do in it.
LEMMA SkipTurn ==
  ASSUME HistoryInv, SessionTypes, Skip
  PROVE  HistoryInv'
<1>1. /\ pc \in 1 .. 39 /\ pc' = pc + 1 /\ Turns = 0 /\ turn' = turn
      /\ UNCHANGED <<called, trace_enabled, tools, issued>>
  BY NotReturned DEF Skip, tracerVars, bufferVars, recordVars, historyVars, configVars
<1>2. turn = 0
  BY <1>1 DEF SessionTypes
<1>3. Steps[pc].what \in {"LoadManifest", "manifest_loaded"} => pc \in {17, 18}
  BY <1>1 DEF Steps, SetupSteps, CompileSteps, LoadSteps, RunSteps, EndSteps,
              Step, Adapter, Hook, Event, Metrics
<1>4. Steps[pc].do = "adapter" => pc = 17
  <2>1. Steps[pc].do = "adapter" => Steps[pc].what \in {"LoadManifest", "manifest_loaded"}
    BY <1>1 DEF Turns
  <2>2. Steps[18].do # "adapter"
    BY StepsDo
  <2>3. QED
    BY <1>3, <2>1, <2>2
<1>5. Steps[pc].do = "hook" => DOMAIN tools = {}
  <2>1. \A i \in {17, 18} : Steps[i].do # "hook"
    BY StepsDo
  <2>2. Steps[pc].do = "hook" => Len(tools) = 0
    BY <1>1, <1>3, <2>1 DEF Turns
  <2>3. DOMAIN tools = 1 .. Len(tools)
    BY RunSessionAssumption, EmptySeq, LenProperties DEF SessionTypes
  <2>4. Len(tools) = 0 => DOMAIN tools = {}
    BY <2>3
  <2>5. QED
    BY <2>2, <2>4
<1>6. ~(Steps[pc].do = "emit" /\ pc # 18 /\ trace_enabled)
  <2>1. Steps[17].do # "emit"
    BY StepsDo
  <2>2. QED
    BY <1>1, <1>3, <2>1 DEF Turns
<1>7. pc' # pc
  BY <1>1
<1>8. Quiet
  BY <1>1, <1>2, <1>4, <1>5, <1>6, <1>7 DEF Quiet
<1>9. QED
  BY <1>8, QuietStep

\* Calls that succeed.
LEMMA CallTurns ==
  ASSUME HistoryInv, SessionTypes, HookStep \/ AdapterStep
  PROVE  HistoryInv'
<1>1. CASE HookStep
  <2>1. /\ At("hook") /\ Advance /\ called' = Append(called, <<turn + 1, Steps[pc].what>>)
        /\ UNCHANGED <<issued, tools, trace_enabled>>
    BY <1>1 DEF HookStep, CallTool, tracerVars, bufferVars, configVars
  <2>2. /\ pc \in 1 .. 39 /\ Steps[pc].do = "hook" /\ trace_enabled
        /\ turn + 1 \in 0 .. Len(ToolNames) /\ turn \in Nat
    BY <2>1, ToolOfTurn DEF SessionTypes
  <2>3. Turns \in {0, Len(tools)} /\ Turns > 0
    BY <2>1, <2>2 DEF At, Turns
  <2>4. DOMAIN tools = 1 .. Len(tools) /\ Len(tools) \in Nat
    BY RunSessionAssumption, EmptySeq, LenProperties DEF SessionTypes
  <2>5. Turns = Len(tools)
    BY <2>3
  <2>6. \/ pc' = pc /\ turn' = turn + 1
        \/ pc' = pc + 1 /\ turn' = 0 /\ DOMAIN tools \subseteq 1 .. turn + 1
    <3>1. CASE turn + 1 < Len(tools)
      BY <2>1, <2>5, <3>1 DEF Advance
    <3>2. CASE ~(turn + 1 < Len(tools))
      <4>1. DOMAIN tools \subseteq 1 .. turn + 1
        BY <2>2, <2>4, <3>2
      <4>2. QED
        BY <2>1, <2>5, <3>2, <4>1 DEF Advance
    <3>3. QED
      BY <3>1, <3>2
  <2>7. Calling(turn + 1)
    BY <2>1, <2>2, <2>6 DEF Calling
  <2>8. QED
    BY <2>7, CallStep
<1>2. CASE AdapterStep
  <2>1. /\ At("adapter") /\ Advance /\ called' = Append(called, <<0, Steps[pc].what>>)
        /\ UNCHANGED <<issued, tools, trace_enabled>>
    BY <1>2 DEF AdapterStep, CallAdapter, tracerVars, bufferVars, configVars
  <2>2. pc \in 1 .. 39 /\ Steps[pc].do = "adapter" /\ pc' = pc + 1 /\ turn' = 0
    BY <2>1, OneTurn
  <2>3. 0 \in 0 .. Len(ToolNames)
    BY RunSessionAssumption, LenProperties
  <2>4. Calling(0)
    BY <2>1, <2>2, <2>3 DEF Calling
  <2>5. QED
    BY <2>4, CallStep
<1>3. QED
  BY <1>1, <1>2

\* Calls that fail.
LEMMA FailedCall ==
  ASSUME HistoryInv, SessionInv, CallFails
  PROVE  HistoryInv'
<1>a. SessionTypes /\ T!TracerInv
  BY DEF SessionInv
<1>1. pc' = 0 /\ issued' = issued /\ tools' = tools
  BY <1>a, TraceNames DEF CallFails
<1>2. StagesBracketed'
  <2>1. CASE called' = called
    BY <1>1, <2>1 DEF HistoryInv, StagesBracketed
  <2>2. CASE At("hook") /\ called' = Append(called, <<turn + 1, Steps[pc].what>>)
    <3>1. /\ pc \in 1 .. 39 /\ Steps[pc].do = "hook" /\ trace_enabled
          /\ turn + 1 \in 0 .. Len(ToolNames) /\ turn \in Nat
      BY <1>a, <2>2, ToolOfTurn DEF SessionTypes
    <3>2. turn + 1 # 0
      BY <3>1
    <3>3. QED
      BY <1>a, <1>1, <2>2, <3>1, <3>2, CallBracketed
  <2>3. CASE At("adapter") /\ called' = Append(called, <<0, Steps[pc].what>>)
    <3>1. pc \in 1 .. 39 /\ Steps[pc].do = "adapter"
      BY <1>a, <2>3, NotReturned DEF At
    <3>2. 0 \in 0 .. Len(ToolNames)
      BY RunSessionAssumption, LenProperties
    <3>3. QED
      BY <1>a, <1>1, <2>3, <3>1, <3>2, CallBracketed
  <2>4. QED
    BY <2>1, <2>2, <2>3 DEF CallFails, CallTool, CallAdapter, historyVars
<1>3. QED
  BY <1>1, <1>2 DEF HistoryInv, Passed, TurnsTaken, NothingElse

\* Every step keeps the invariant.
LEMMA HistoryStep ==
  ASSUME HistoryInv, SessionInv, [Next]_vars
  PROVE  HistoryInv'
<1>a. SessionTypes /\ T!TracerInv
  BY DEF SessionInv
<1>1. CASE MetricsLoop
  <2>1. Range(NamesOf(issued)) \subseteq Range(NamesOf(issued'))
    BY <1>1, <1>a, TraceNames DEF MetricsLoop
  <2>2. QED
    BY <1>1, <2>1, TraceGrows DEF MetricsLoop, recordVars, historyVars, configVars
<1>2. CASE ToolsStep \/ BundleStep
  <2>1. /\ At("tools") \/ (At("bundle") /\ tools' = tools)
        /\ Advance /\ UNCHANGED <<called, trace_enabled, issued>>
    BY <1>2 DEF ToolsStep, BundleStep, tracerVars, bufferVars, configVars, historyVars
  <2>2. CASE At("tools")
    BY <1>a, <2>1, <2>2, OtherTurn
  <2>3. CASE At("bundle") /\ tools' = tools
    BY <1>a, <2>1, <2>3, OtherTurn
  <2>4. QED
    BY <2>1, <2>2, <2>3
<1>3. CASE (DeviceFails /\ UNCHANGED <<pc, turn, recordVars>>) \/ UNCHANGED vars
  <2>1. UNCHANGED <<pc, turn, tools, trace_enabled, called, issued>>
    BY <1>3 DEF DeviceFails, Buf!DeviceFails, vars, tracerVars, bufferVars,
                recordVars, historyVars, configVars
  <2>2. QED
    BY <2>1, TraceGrows
<1>4. QED
  BY <1>a, <1>1, <1>2, <1>3, OpenTurn, TraceTurns, SkipTurn, CallTurns, FailedCall
     DEF Next, RunNext

\* A stage begins for the adapter when every tool has been told, and ends for
\* the tools when the adapter and the trace are through with it, in every
\* session, whichever calls fail.
THEOREM StagesInOrder == Spec => []StagesBracketed
<1>1. Init => HistoryInv
  <2> SUFFICES ASSUME Init
               PROVE  HistoryInv
    OBVIOUS
  <2>1. pc = 1 /\ turn = 0 /\ called = << >> /\ Range(called) = {}
    BY DEF Init, Range
  <2>2. Passed /\ TurnsTaken
    BY <2>1 DEF Passed, TurnsTaken
  <2>3. NothingElse /\ StagesBracketed
    BY <2>1 DEF NothingElse, StagesBracketed
  <2>4. QED
    BY <2>1, <2>2, <2>3 DEF HistoryInv
<1>2. HistoryInv /\ SessionInv /\ [Next]_vars => HistoryInv'
  BY HistoryStep
<1>3. HistoryInv => StagesBracketed
  BY DEF HistoryInv
<1>4. QED
  BY <1>1, <1>2, <1>3, SessionInvariant, PTL DEF Spec

-----------------------------------------------------------------------------
(* Where the hooks and the boundaries stand in the line of steps. *)

\* How many hooks, and how many boundaries, come before step p.
HooksBefore(p) ==
  IF p <= 6 THEN 0 ELSE IF p <= 7 THEN 1 ELSE IF p <= 10 THEN 2 ELSE
  IF p <= 16 THEN 3 ELSE IF p <= 20 THEN 4 ELSE IF p <= 25 THEN 5 ELSE
  IF p <= 27 THEN 6 ELSE IF p <= 33 THEN 7 ELSE IF p <= 34 THEN 8 ELSE 9

ToldBefore(p) ==
  IF p <= 2 THEN 0 ELSE IF p <= 9 THEN 1 ELSE IF p <= 14 THEN 2 ELSE
  IF p <= 19 THEN 3 ELSE IF p <= 24 THEN 4 ELSE IF p <= 26 THEN 5 ELSE
  IF p <= 32 THEN 6 ELSE IF p <= 35 THEN 7 ELSE 8

\* The steps that call the tools go through the hooks in order.
LEMMA HookPlaces ==
  ASSUME NEW i \in 1 .. 39
  PROVE  /\ Len(Hooks) = 9
         /\ Steps[i].do = "hook" =>
              /\ HooksBefore(i) \in 0 .. 8 /\ HooksBefore(i + 1) = HooksBefore(i) + 1
              /\ Steps[i].what = Hooks[HooksBefore(i) + 1]
         /\ Steps[i].do # "hook" => HooksBefore(i + 1) = HooksBefore(i)
         /\ HooksBefore(i) \in 0 .. 9 /\ HooksBefore(i + 1) \in 0 .. 9
<1>1. Len(Hooks) = 9
  BY DEF Hooks
<1>2. Steps[i].do = "hook" <=> i \in {6, 7, 10, 16, 20, 25, 27, 33, 34}
  BY StepsDo
<1>3. Steps[i].do = "hook" => Steps[i].what = Hooks[HooksBefore(i) + 1]
  <2>1. /\ Steps[6].what = Hooks[1] /\ HooksBefore(6) = 0
        /\ Steps[7].what = Hooks[2] /\ HooksBefore(7) = 1
        /\ Steps[10].what = Hooks[3] /\ HooksBefore(10) = 2
        /\ Steps[16].what = Hooks[4] /\ HooksBefore(16) = 3
        /\ Steps[20].what = Hooks[5] /\ HooksBefore(20) = 4
        /\ Steps[25].what = Hooks[6] /\ HooksBefore(25) = 5
        /\ Steps[27].what = Hooks[7] /\ HooksBefore(27) = 6
        /\ Steps[33].what = Hooks[8] /\ HooksBefore(33) = 7
        /\ Steps[34].what = Hooks[9] /\ HooksBefore(34) = 8
    BY DEF Steps, SetupSteps, CompileSteps, LoadSteps, RunSteps, EndSteps,
           Step, Adapter, Hook, Event, Metrics, Hooks, HooksBefore
  <2>2. QED
    BY <1>2, <2>1
<1>4. Steps[i].do = "hook"
        => HooksBefore(i) \in 0 .. 8 /\ HooksBefore(i + 1) = HooksBefore(i) + 1
  BY <1>2 DEF HooksBefore
<1>5. Steps[i].do # "hook" => HooksBefore(i + 1) = HooksBefore(i)
  BY <1>2 DEF HooksBefore
<1>6. HooksBefore(i) \in 0 .. 9 /\ HooksBefore(i + 1) \in 0 .. 9
  BY DEF HooksBefore
<1>7. QED
  BY <1>1, <1>3, <1>4, <1>5, <1>6

\* The steps that emit a boundary go through the boundaries in order.
LEMMA BoundaryPlaces ==
  ASSUME NEW i \in 1 .. 39
  PROVE  /\ Len(Boundaries) = 8
         /\ Steps[i].do = "emit" /\ i \notin {5, 18} =>
              /\ Steps[i].kind \in BoundaryKind
              /\ ToldBefore(i) \in 0 .. 7 /\ ToldBefore(i + 1) = ToldBefore(i) + 1
              /\ Steps[i].what = Boundaries[ToldBefore(i) + 1]
              /\ Steps[i].what = "session_end" <=> i = 35
         /\ i \in {5, 18} => Steps[i].kind = "kDiagnostic"
         /\ Steps[i].do # "emit" \/ i \in {5, 18} => ToldBefore(i + 1) = ToldBefore(i)
         /\ ToldBefore(i) \in 0 .. 8 /\ ToldBefore(i + 1) \in 0 .. 8
<1>1. Len(Boundaries) = 8
  BY DEF Boundaries
<1>2. Steps[i].do = "emit" <=> i \in {2, 5, 9, 14, 18, 19, 24, 26, 32, 35}
  BY StepsDo
<1>3. Steps[i].do = "emit" /\ i \notin {5, 18} =>
        /\ Steps[i].kind \in BoundaryKind
        /\ Steps[i].what = Boundaries[ToldBefore(i) + 1]
        /\ Steps[i].what = "session_end" <=> i = 35
  <2>1. /\ Steps[2].what = Boundaries[1] /\ ToldBefore(2) = 0 /\ Steps[2].kind = "kSession"
        /\ Steps[9].what = Boundaries[2] /\ ToldBefore(9) = 1 /\ Steps[9].kind = "kCompile"
        /\ Steps[14].what = Boundaries[3] /\ ToldBefore(14) = 2 /\ Steps[14].kind = "kCompile"
        /\ Steps[19].what = Boundaries[4] /\ ToldBefore(19) = 3 /\ Steps[19].kind = "kLoad"
        /\ Steps[24].what = Boundaries[5] /\ ToldBefore(24) = 4 /\ Steps[24].kind = "kLoad"
        /\ Steps[26].what = Boundaries[6] /\ ToldBefore(26) = 5 /\ Steps[26].kind = "kRun"
        /\ Steps[32].what = Boundaries[7] /\ ToldBefore(32) = 6 /\ Steps[32].kind = "kRun"
        /\ Steps[35].what = Boundaries[8] /\ ToldBefore(35) = 7 /\ Steps[35].kind = "kSession"
    BY DEF Steps, SetupSteps, CompileSteps, LoadSteps, RunSteps, EndSteps,
           Step, Adapter, Hook, Event, Metrics, Boundaries, ToldBefore
  <2>2. /\ \A k \in 1 .. 7 : Boundaries[k] # "session_end"
        /\ Boundaries[8] = "session_end"
    BY DEF Boundaries
  <2>3. QED
    BY <1>2, <2>1, <2>2 DEF BoundaryKind
<1>4. i \in {5, 18} => Steps[i].kind = "kDiagnostic"
  BY DEF Steps, SetupSteps, CompileSteps, LoadSteps, RunSteps, EndSteps,
         Step, Adapter, Hook, Event, Metrics
<1>5. QED
  BY <1>1, <1>2, <1>3, <1>4 DEF ToldBefore

-----------------------------------------------------------------------------
(* What a step does. *)

\* The results of the adapter's calls, the hooks and the tools stay.
Still == UNCHANGED <<op_count, compile_metrics, runtime_metrics, seen, tools>>

\* The trace is opened.
Opens ==
  /\ pc = 1 /\ pc' = 2 /\ turn' = 0
  /\ issued' = << >> /\ samples' = << >> /\ detail_level' = detail
  /\ Still

\* Event e goes into the trace: a step of its own, an operator, a metric of the
\* subgraphs, the summary of a batch of metrics.
Emits(e) ==
  /\ pc \in 1 .. 39 /\ trace_enabled
  /\ e \in TracedEvent /\ issued' = Append(issued, e)
  /\ samples = << >> /\ samples' = << >> /\ detail_level' = detail_level
  /\ Still
  /\ \/ /\ Steps[pc].do = "emit" /\ pc' = pc + 1 /\ turn' = 0
        /\ e.kind = Steps[pc].kind /\ e.event = Steps[pc].what
     \/ /\ pc = 15 /\ e.kind = "kSubgraph" /\ e.event = "operator"
        /\ \/ pc' = 15 /\ turn' = turn + 1
           \/ pc' = 16 /\ turn' = 0 /\ op_count = turn + 1
     \/ /\ pc = 31 /\ e.kind = "kSubgraph" /\ e.event = "subgraph_metric"
        /\ \/ pc' = 31 /\ turn' = turn + 1
           \/ pc' = 32 /\ turn' = 0
     \/ /\ pc \in {13, 23, 30} /\ pc' = pc + 1 /\ turn' = 0
        /\ detail_level = "kLite" /\ e.kind = "kMetric"

\* A loop over a batch of metrics is entered, or the batch is suppressed.
Samples ==
  /\ pc \in {13, 23, 30} /\ pc' = pc + 1 /\ turn' = 0 /\ trace_enabled
  /\ issued' = issued /\ samples = << >> /\ detail_level' = detail_level
  /\ detail_level = "kFull"
       => samples' = IF Steps[pc].what = "compile" THEN compile_metrics ELSE runtime_metrics
  /\ Still

\* A turn of that loop.
Sampled(e) ==
  /\ pc' = pc /\ turn' = turn /\ pc \in 14 .. 31 /\ trace_enabled
  /\ samples # << >> /\ samples' = Tail(samples)
  /\ e \in TracedEvent /\ e.kind = "kMetric" /\ e.event = Head(samples)
  /\ issued' = Append(issued, e) /\ detail_level' = detail_level
  /\ Still

\* The hook at hand of a tool.
Called(t) ==
  /\ pc \in 1 .. 39 /\ Steps[pc].do = "hook" /\ t = turn + 1 /\ t \in Positions
  /\ trace_enabled /\ tools = ToolNames
  /\ \/ pc' = pc /\ turn' = turn + 1
     \/ pc' = pc + 1 /\ turn' = 0 /\ t = Len(ToolNames)
     \/ pc' = 0
  /\ seen' = [seen EXCEPT ![t] = Append(@, Steps[pc].what)]
  /\ issued' = issued /\ samples = << >> /\ samples' = << >> /\ detail_level' = detail_level
  /\ UNCHANGED <<op_count, compile_metrics, runtime_metrics, tools>>

\* The tools are there, from the third step on.
Fetches ==
  /\ pc = 3 /\ pc' = 4 /\ turn' = 0
  /\ tools' = IF trace_enabled THEN ToolNames ELSE << >>
  /\ issued' = issued /\ samples = << >> /\ samples' = << >> /\ detail_level' = detail_level
  /\ UNCHANGED <<op_count, compile_metrics, runtime_metrics, seen>>

\* Any other step passes on without a trace: there was nothing to do in it, the
\* adapter was called, or the trace was flushed or closed.
Passes ==
  /\ pc \in 1 .. 39 /\ pc' = pc + 1 /\ turn' = 0
  /\ issued' = issued /\ samples = << >> /\ samples' = << >> /\ detail_level' = detail_level
  /\ tools' = tools /\ seen' = seen
  /\ Steps[pc].do = "hook" => tools = << >>
  /\ trace_enabled => Steps[pc].do # "metrics" /\ Steps[pc].do # "open"
  /\ trace_enabled /\ Steps[pc].do = "emit" => pc = 18
  /\ trace_enabled /\ pc = 15 => op_count = 0 /\ turn = 0
  /\ trace_enabled /\ pc = 39 => stream' \in {"closed", "unopened"}
  /\ pc # 3
  /\ pc # 12 => UNCHANGED <<op_count, compile_metrics>>
  /\ pc \notin {22, 29} => UNCHANGED runtime_metrics

\* Run returns an error, or nothing happens but on the device.
Returns == pc' = 0 /\ issued' = issued /\ seen' = seen

Rests ==
  /\ UNCHANGED <<pc, turn, samples, issued, stream, detail_level>>
  /\ Still

Does ==
  /\ trace_enabled' = trace_enabled /\ detail' = detail
  /\ \/ Opens \/ (\E e : Emits(e)) \/ Samples \/ (\E e : Sampled(e))
     \/ (\E t : Called(t)) \/ Fetches \/ Passes \/ Returns \/ Rests
-----------------------------------------------------------------------------
(* Every step of a session is one of these. *)

\* An event given to the writer of an open trace goes into the trace.
LEMMA QueueAppends ==
  ASSUME NEW kind \in EventKind, NEW event \in Name \cup {"metrics_summary"},
         Queue(kind, event), writer_ = "open"
  PROVE  \E e \in TracedEvent :
            issued' = Append(issued, e) /\ e.kind = kind /\ e.event = event
<1>1. issued' = Append(issued, Traced(kind, event))
  BY DEF Queue, Buf!Write
<1>2. /\ Traced(kind, event) \in TracedEvent
      /\ Traced(kind, event).kind = kind /\ Traced(kind, event).event = event
  BY DEF Traced, TracedEvent
<1>3. QED
  BY <1>1, <1>2

\* The steps that touch the trace.
LEMMA TraceDoes ==
  ASSUME SessionInv,
         OpenTrace \/ EmitStep \/ MetricsStep \/ OperatorStep \/ SubgraphStep \/ MetricsLoop
  PROVE  Does
<1>a. SessionTypes /\ WriterInScope /\ T!TracerInv
  BY DEF SessionInv
<1>b. pc \in 0 .. 40 /\ turn \in Nat
  BY <1>a DEF SessionTypes
<1>c. trace_enabled /\ pc \in 2 .. 39 => writer_ = "open"
  BY <1>a DEF WriterInScope
<1>d. ASSUME NEW do, TraceStep(do)
      PROVE  /\ Still /\ UNCHANGED <<trace_enabled, detail>>
             /\ pc \in 1 .. 39 /\ Steps[pc].do = do /\ samples = << >> /\ Advance
             /\ At(do)
  BY <1>a, <1>d, NotReturned
     DEF TraceStep, At, Idle, recordVars, configVars, resultVars, historyVars, Still
<1>1. CASE OpenTrace
  <2>1. Still /\ UNCHANGED <<trace_enabled, detail>> /\ samples = << >>
    BY <1>1, <1>d DEF OpenTrace
  <2>2. pc = 1 /\ pc' = 2 /\ turn' = 0
    <3>1. pc \in 1 .. 39 /\ Steps[pc].do = "open" /\ pc' = pc + 1 /\ turn' = 0
      BY <1>1, <1>a, OneTurn DEF OpenTrace, TraceStep
    <3>2. pc = 1
      BY <3>1, StepsDo
    <3>3. QED
      BY <3>1, <3>2
  <2>3. issued' = << >> /\ samples' = << >> /\ detail_level' = detail
    BY <1>1, <2>1 DEF OpenTrace, Open, NewWriter
  <2>4. QED
    BY <2>1, <2>2, <2>3 DEF Does, Opens
<1>2. CASE EmitStep
  <2>1. /\ Still /\ UNCHANGED <<trace_enabled, detail>> /\ samples = << >>
        /\ pc \in 1 .. 39 /\ Steps[pc].do = "emit" /\ At("emit") /\ Advance
    BY <1>2, <1>d DEF EmitStep
  <2>2. pc' = pc + 1 /\ turn' = 0 /\ trace_enabled
    BY <1>a, <2>1, OneTurn
  <2>3. pc # 1 /\ pc \in 2 .. 39
    <3>1. pc # 1
      BY <2>1, StepsDo
    <3>2. QED
      BY <2>1, <3>1
  <2>4. /\ Queue(Steps[pc].kind, Steps[pc].what)
        /\ samples' = samples /\ detail_level' = detail_level
    BY <1>2 DEF EmitStep, Emit
  <2>5. PICK e \in TracedEvent :
          issued' = Append(issued, e) /\ e.kind = Steps[pc].kind /\ e.event = Steps[pc].what
    <3>1. Steps[pc].kind \in EventKind /\ Steps[pc].what \in Name /\ writer_ = "open"
      BY <1>c, <2>1, <2>2, <2>3, StepsKinds, StepsNames
    <3>2. QED
      BY <2>4, <3>1, QueueAppends
  <2>6. Emits(e)
    BY <2>1, <2>2, <2>4, <2>5 DEF Emits
  <2>7. QED
    BY <2>1, <2>6 DEF Does
<1>3. CASE OperatorStep
  <2>1. /\ Still /\ UNCHANGED <<trace_enabled, detail>> /\ samples = << >>
        /\ pc \in 1 .. 39 /\ Steps[pc].do = "operators" /\ At("operators") /\ Advance
    BY <1>3, <1>d DEF OperatorStep
  <2>2. pc = 15
    BY <2>1, StepsDo
  <2>3. Steps[15].what = "-"
    BY DEF Steps, SetupSteps, CompileSteps, LoadSteps, RunSteps, EndSteps,
           Step, Adapter, Hook, Event, Metrics
  <2>4. Turns = op_count /\ trace_enabled /\ Turns > 0
    <3>1. Steps[pc].what = "-" /\ Steps[pc].do = "operators" /\ Turns > 0
      BY <2>1, <2>2, <2>3 DEF At
    <3>2. QED
      BY <3>1 DEF Turns
  <2>5. \/ pc' = 15 /\ turn' = turn + 1
        \/ pc' = 16 /\ turn' = 0 /\ op_count = turn + 1
    <3>1. turn < op_count /\ op_count \in Nat
      BY <1>a, <2>4, RunSessionAssumption DEF SessionTypes
    <3>2. CASE turn + 1 < op_count
      BY <2>1, <2>2, <2>4, <3>2 DEF Advance
    <3>3. CASE ~(turn + 1 < op_count)
      <4>1. op_count = turn + 1
        BY <1>b, <3>1, <3>3
      <4>2. pc' = pc + 1 /\ turn' = 0
        BY <2>1, <2>4, <3>3 DEF Advance
      <4>3. QED
        BY <2>2, <4>1, <4>2
    <3>4. QED
      BY <3>2, <3>3
  <2>6. /\ Queue("kSubgraph", "operator")
        /\ samples' = samples /\ detail_level' = detail_level
    BY <1>3 DEF OperatorStep, Emit
  <2>7. PICK e \in TracedEvent :
          issued' = Append(issued, e) /\ e.kind = "kSubgraph" /\ e.event = "operator"
    <3>1. "kSubgraph" \in EventKind /\ "operator" \in Name /\ writer_ = "open"
      BY <1>c, <2>2, <2>4, RunSessionAssumption DEF EventKind
    <3>2. QED
      BY <2>6, <3>1, QueueAppends
  <2>8. Emits(e)
    BY <2>1, <2>2, <2>4, <2>5, <2>6, <2>7 DEF Emits
  <2>9. QED
    BY <2>1, <2>8 DEF Does
<1>4. CASE SubgraphStep
  <2>1. /\ Still /\ UNCHANGED <<trace_enabled, detail>> /\ samples = << >>
        /\ pc \in 1 .. 39 /\ Steps[pc].do = "subgraph_metrics" /\ Advance
        /\ At("subgraph_metrics")
    BY <1>4, <1>d DEF SubgraphStep
  <2>2. pc = 31
    BY <2>1, StepsDo
  <2>4. trace_enabled
    <3>1. Turns > 0
      BY <2>1 DEF At
    <3>2. QED
      BY <2>1, <3>1 DEF Turns
  <2>5. (pc' = 31 /\ turn' = turn + 1) \/ (pc' = 32 /\ turn' = 0)
    BY <2>1, <2>2 DEF Advance
  <2>6. /\ Queue("kSubgraph", "subgraph_metric")
        /\ samples' = samples /\ detail_level' = detail_level
    BY <1>4 DEF SubgraphStep, Emit
  <2>7. PICK e \in TracedEvent :
          issued' = Append(issued, e) /\ e.kind = "kSubgraph" /\ e.event = "subgraph_metric"
    <3>1. "kSubgraph" \in EventKind /\ "subgraph_metric" \in Name /\ writer_ = "open"
      BY <1>c, <2>2, <2>4, RunSessionAssumption DEF EventKind
    <3>2. QED
      BY <2>6, <3>1, QueueAppends
  <2>8. Emits(e)
    BY <2>1, <2>2, <2>4, <2>5, <2>6, <2>7 DEF Emits
  <2>9. QED
    BY <2>1, <2>8 DEF Does
<1>5. CASE MetricsStep
  <2>1. /\ Still /\ UNCHANGED <<trace_enabled, detail>> /\ samples = << >>
        /\ pc \in 1 .. 39 /\ Steps[pc].do = "metrics" /\ At("metrics") /\ Advance
    BY <1>5, <1>d DEF MetricsStep
  <2>2. pc' = pc + 1 /\ turn' = 0 /\ trace_enabled
    BY <1>a, <2>1, OneTurn
  <2>3. pc \in {13, 23, 30} /\ pc \in 2 .. 39
    <3>1. pc \in {13, 23, 30}
      BY <2>1, StepsDo
    <3>2. QED
      BY <3>1
  <2>4. CASE detail_level = "kLite"
    <3>1. /\ Queue("kMetric", "metrics_summary")
          /\ samples' = samples /\ detail_level' = detail_level
      BY <1>5, <2>4 DEF MetricsStep, EmitMetrics
    <3>2. PICK e \in TracedEvent :
            issued' = Append(issued, e) /\ e.kind = "kMetric" /\ e.event = "metrics_summary"
      <4>1. "kMetric" \in EventKind /\ writer_ = "open"
        BY <1>c, <2>2, <2>3 DEF EventKind
      <4>2. QED
        BY <3>1, <4>1, QueueAppends
    <3>3. Emits(e)
      BY <2>1, <2>2, <2>3, <2>4, <3>1, <3>2 DEF Emits
    <3>4. QED
      BY <2>1, <3>3 DEF Does
  <2>5. CASE detail_level # "kLite"
    <3>1. /\ issued' = issued /\ detail_level' = detail_level
          /\ detail_level = "kFull" =>
               samples' = IF Steps[pc].what = "compile" THEN compile_metrics ELSE runtime_metrics
      BY <1>5, <2>5 DEF MetricsStep, EmitMetrics, bufferVars
    <3>2. Samples
      BY <2>1, <2>2, <2>3, <3>1 DEF Samples
    <3>3. QED
      BY <2>1, <3>2 DEF Does
  <2>6. QED
    BY <2>4, <2>5
<1>6. CASE MetricsLoop
  <2>1. /\ samples # << >> /\ samples' = Tail(samples) /\ Queue("kMetric", Head(samples))
        /\ detail_level' = detail_level /\ UNCHANGED <<pc, turn, recordVars>>
    BY <1>6 DEF MetricsLoop, EmitSample
  <2>2. Still /\ UNCHANGED <<trace_enabled, detail>>
    BY <2>1 DEF recordVars, configVars, resultVars, historyVars, Still
  <2>3. pc \in 14 .. 31 /\ trace_enabled /\ samples \in Seq(Name)
    BY <1>a, <2>1 DEF WriterInScope, T!TracerInv, T!TracerTypes
  <2>4. writer_ = "open" /\ "kMetric" \in EventKind
    BY <1>c, <2>3 DEF EventKind
  <2>5. Head(samples) \in Name
    BY <2>1, <2>3, HeadTailProperties
  <2>6. PICK e \in TracedEvent :
          issued' = Append(issued, e) /\ e.kind = "kMetric" /\ e.event = Head(samples)
    BY <2>1, <2>4, <2>5, QueueAppends
  <2>7. Sampled(e)
    BY <2>1, <2>2, <2>3, <2>6 DEF Sampled
  <2>8. QED
    BY <2>2, <2>7 DEF Does
<1>7. QED
  BY <1>1, <1>2, <1>3, <1>4, <1>5, <1>6

\* The steps that call a tool.
LEMMA HookDoes ==
  ASSUME SessionInv, At("hook"), CallTool(turn + 1, Steps[pc].what),
         UNCHANGED <<trace_enabled, detail, resultVars, tools, issued>>,
         \/ Advance /\ UNCHANGED <<samples, detail_level>>
         \/ pc' = 0 /\ samples' = << >> /\ UNCHANGED detail_level
  PROVE  Does
<1>a. SessionTypes
  BY DEF SessionInv
<1>1. /\ pc \in 1 .. 39 /\ Steps[pc].do = "hook" /\ turn + 1 \in Positions
      /\ tools = ToolNames /\ trace_enabled
  BY <1>a, ToolOfTurn
<1>2. samples = << >> /\ turn \in Nat /\ Turns > 0 /\ (turn = 0 \/ turn < Turns)
  BY <1>a DEF At, Idle, SessionTypes
<1>3. Turns = Len(ToolNames) /\ Len(ToolNames) \in Nat
  <2>1. Turns \in {0, Len(tools)}
    BY <1>1 DEF Turns
  <2>2. QED
    BY <1>1, <1>2, <2>1, RunSessionAssumption, LenProperties
<1>4. \/ pc' = pc /\ turn' = turn + 1
      \/ pc' = pc + 1 /\ turn' = 0 /\ turn + 1 = Len(ToolNames)
      \/ pc' = 0
  <2>1. CASE Advance /\ turn + 1 < Turns
    BY <2>1 DEF Advance
  <2>2. CASE Advance /\ ~(turn + 1 < Turns)
    <3>1. turn + 1 = Len(ToolNames)
      BY <1>2, <1>3, <2>2
    <3>2. QED
      BY <2>2, <3>1 DEF Advance
  <2>3. QED
    BY <2>1, <2>2
<1>5. samples' = << >> /\ detail_level' = detail_level
  BY <1>2
<1>6. seen' = [seen EXCEPT ![turn + 1] = Append(@, Steps[pc].what)]
  BY DEF CallTool
<1>7. Called(turn + 1)
  BY <1>1, <1>2, <1>4, <1>5, <1>6 DEF Called, resultVars
<1>8. QED
  BY <1>7 DEF Does

\* The calls of the adapter, by position.
LEMMA AdapterPlaces ==
  ASSUME NEW i \in 1 .. 39, Steps[i].do = "adapter"
  PROVE  /\ Steps[i].what = "CompileEnd" => i = 12
         /\ Steps[i].what \in {"LoadEnd", "RunEnd"} => i \in {22, 29}
  BY DEF Steps, SetupSteps, CompileSteps, LoadSteps, RunSteps, EndSteps,
         Step, Adapter, Hook, Event, Metrics

\* The steps that pass on.
LEMMA PassDoes ==
  ASSUME SessionInv, Skip \/ AdapterStep \/ BundleStep \/ FlushStep \/ CloseStep
  PROVE  Does
<1>a. SessionTypes /\ WriterInScope /\ T!TracerInv
  BY DEF SessionInv
<1>b. pc \in 0 .. 40 /\ turn \in Nat
  BY <1>a DEF SessionTypes
<1>1. CASE Skip
  <2>1. /\ pc \in 1 .. 39 /\ pc' = pc + 1 /\ Turns = 0 /\ turn' = turn /\ samples = << >>
        /\ UNCHANGED <<issued, samples, detail_level, tools, seen, resultVars,
                       trace_enabled, detail>>
    BY <1>1, <1>a, NotReturned
       DEF Skip, Idle, tracerVars, bufferVars, recordVars, configVars, historyVars
  <2>2. turn' = 0
    BY <1>a, <2>1 DEF SessionTypes
  <2>3. Steps[pc].what \in {"LoadManifest", "manifest_loaded"} => pc \in {17, 18}
    BY <2>1 DEF Steps, SetupSteps, CompileSteps, LoadSteps, RunSteps, EndSteps,
                Step, Adapter, Hook, Event, Metrics
  <2>4. /\ Steps[17].do = "adapter" /\ Steps[18].do = "emit"
        /\ Steps[3].do = "tools" /\ Steps[15].do = "operators" /\ Steps[39].do = "close"
    BY StepsDo
  <2>5. pc # 3
    BY <2>1, <2>3, <2>4 DEF Turns
  <2>6. Steps[pc].do = "hook" => tools = << >>
    <3>1. Steps[pc].do = "hook" => Len(tools) = 0
      BY <2>1, <2>3, <2>4 DEF Turns
    <3>2. tools \in Seq(STRING)
      BY <1>a, RunSessionAssumption, EmptySeq DEF SessionTypes
    <3>3. QED
      BY <3>1, <3>2, EmptySeq
  <2>7. trace_enabled => Steps[pc].do # "metrics" /\ Steps[pc].do # "open"
    BY <2>1, <2>3, <2>4 DEF Turns
  <2>8. trace_enabled /\ Steps[pc].do = "emit" => pc = 18
    BY <2>1, <2>3, <2>4 DEF Turns
  <2>9. trace_enabled /\ pc = 15 => op_count = 0 /\ turn = 0
    BY <2>1, <2>2, <2>3, <2>4 DEF Turns
  <2>10. ~(trace_enabled /\ pc = 39)
    BY <2>1, <2>3, <2>4 DEF Turns
  <2>11. Passes
    BY <2>1, <2>2, <2>5, <2>6, <2>7, <2>8, <2>9, <2>10 DEF Passes, resultVars
  <2>12. QED
    BY <2>1, <2>11 DEF Does
<1>2. ASSUME NEW do \in {"adapter", "bundle", "flush", "close"}, At(do), Advance,
             UNCHANGED <<issued, samples, detail_level, tools, seen, trace_enabled, detail>>,
             do = "close" => stream' \in {"closed", "unopened"},
             pc # 12 => UNCHANGED <<op_count, compile_metrics>>,
             pc \notin {22, 29} => UNCHANGED runtime_metrics
      PROVE  Does
  <2>1. pc \in 1 .. 39 /\ Steps[pc].do = do /\ pc' = pc + 1 /\ turn' = 0
    BY <1>2, <1>a, OneTurn
  <2>2. samples = << >>
    BY <1>2 DEF At, Idle
  <2>3. pc # 3 /\ pc # 15 /\ (pc = 39 => do = "close")
    BY <1>2, <2>1, StepsDo
  <2>4. do \notin {"hook", "metrics", "open", "emit"}
    BY <1>2
  <2>5. Passes
    BY <1>2, <2>1, <2>2, <2>3, <2>4 DEF Passes
  <2>6. QED
    BY <1>2, <2>5 DEF Does
<1>3. CASE AdapterStep
  <2>1. /\ At("adapter") /\ Advance /\ Produces(Steps[pc].what)
        /\ UNCHANGED <<issued, samples, detail_level, tools, seen, trace_enabled, detail>>
    BY <1>3 DEF AdapterStep, CallAdapter, tracerVars, bufferVars, configVars
  <2>2. pc \in 1 .. 39 /\ Steps[pc].do = "adapter"
    BY <1>a, <2>1, OneTurn
  <2>3. /\ pc # 12 => UNCHANGED <<op_count, compile_metrics>>
        /\ pc \notin {22, 29} => UNCHANGED runtime_metrics
    BY <2>1, <2>2, AdapterPlaces DEF Produces, resultVars
  <2>4. QED
    BY <1>2, <2>1, <2>3
<1>4. CASE BundleStep
  <2>1. /\ At("bundle") /\ Advance
        /\ UNCHANGED <<issued, samples, detail_level, tools, seen, trace_enabled, detail>>
        /\ UNCHANGED <<op_count, compile_metrics, runtime_metrics>>
    BY <1>4 DEF BundleStep, historyVars, tracerVars, bufferVars, configVars, resultVars
  <2>2. QED
    BY <1>2, <2>1
<1>5. CASE FlushStep
  <2>1. /\ At("flush") /\ Advance
        /\ UNCHANGED <<issued, samples, detail_level, tools, seen, trace_enabled, detail>>
        /\ UNCHANGED <<op_count, compile_metrics, runtime_metrics>>
    BY <1>5 DEF FlushStep, TraceStep, Flush, Buf!Flush, bufferVars,
                recordVars, historyVars, configVars, resultVars
  <2>2. QED
    BY <1>2, <2>1
<1>6. CASE CloseStep
  <2>1. /\ At("close") /\ Advance
        /\ UNCHANGED <<issued, samples, detail_level, tools, seen, trace_enabled, detail>>
        /\ UNCHANGED <<op_count, compile_metrics, runtime_metrics>>
    BY <1>6 DEF CloseStep, TraceStep, Close, Buf!Close, bufferVars,
                recordVars, historyVars, configVars, resultVars
  <2>2. pc \in 1 .. 39 /\ Steps[pc].do = "close" /\ trace_enabled
    BY <1>a, <2>1, OneTurn
  <2>3. pc = 39
    BY <2>2, StepsDo
  <2>4. writer_ = "open"
    BY <1>a, <2>2, <2>3 DEF WriterInScope
  <2>5. stream' \in {"closed", "unopened"}
    BY <1>6, <2>4 DEF CloseStep, Close, Buf!Close, Buf!StreamCloses
  <2>6. QED
    BY <1>2, <2>1, <2>5
<1>7. QED
  BY <1>1, <1>3, <1>4, <1>5, <1>6

\* Every step of a session.
LEMMA StepsOf ==
  ASSUME SessionInv, [Next]_vars
  PROVE  Does
<1>a. SessionTypes /\ T!TracerInv
  BY DEF SessionInv
<1>1. CASE HookStep
  <2>1. /\ At("hook") /\ Advance /\ CallTool(turn + 1, Steps[pc].what)
        /\ UNCHANGED <<trace_enabled, detail, resultVars, tools, issued, samples, detail_level>>
    BY <1>1 DEF HookStep, tracerVars, bufferVars, configVars
  <2>2. QED
    BY <2>1, HookDoes
<1>2. CASE ToolsStep
  <2>1. /\ At("tools") /\ Advance /\ UNCHANGED <<trace_enabled, detail>>
        /\ tools' = IF trace_enabled THEN ToolNames ELSE << >>
        /\ UNCHANGED <<issued, samples, detail_level, seen>>
        /\ UNCHANGED <<op_count, compile_metrics, runtime_metrics>>
    BY <1>2 DEF ToolsStep, historyVars, tracerVars, bufferVars, configVars, resultVars
  <2>2. pc \in 1 .. 39 /\ Steps[pc].do = "tools" /\ pc' = pc + 1 /\ turn' = 0
    BY <1>a, <2>1, OneTurn
  <2>3. pc = 3 /\ pc' = 4
    <3>1. pc = 3
      BY <2>2, StepsDo
    <3>2. QED
      BY <2>2, <3>1
  <2>4. samples = << >>
    BY <2>1 DEF At, Idle
  <2>5. Fetches
    BY <2>1, <2>2, <2>3, <2>4 DEF Fetches
  <2>6. QED
    BY <2>1, <2>5 DEF Does
<1>3. CASE CallFails
  <2>1. /\ pc' = 0 /\ samples' = << >> /\ detail_level' = detail_level
        /\ UNCHANGED <<trace_enabled, detail, resultVars, tools>>
    BY <1>3 DEF CallFails, Destroy, configVars
  <2>2. issued' = issued
    BY <1>3 DEF CallFails, Destroy, bufferVars
  <2>3. CASE At("hook") /\ CallTool(turn + 1, Steps[pc].what)
    BY <2>1, <2>2, <2>3, HookDoes
  <2>4. CASE seen' = seen
    <3>1. Returns
      BY <2>1, <2>2, <2>4 DEF Returns
    <3>2. QED
      BY <2>1, <3>1 DEF Does
  <2>5. QED
    BY <1>3, <2>3, <2>4 DEF CallFails, CallAdapter, historyVars
<1>4. CASE (DeviceFails /\ UNCHANGED <<pc, turn, recordVars>>) \/ UNCHANGED vars
  <2>1. Rests /\ UNCHANGED <<trace_enabled, detail>>
    BY <1>4 DEF DeviceFails, Buf!DeviceFails, vars, tracerVars, bufferVars, recordVars,
                historyVars, configVars, resultVars, Rests, Still
  <2>2. QED
    BY <2>1 DEF Does
<1>5. QED
  BY <1>1, <1>2, <1>3, <1>4, TraceDoes, PassDoes DEF Next, RunNext

-----------------------------------------------------------------------------
(* The hooks. *)

\* Whatever became of the session, a tool has been called through the hooks in
\* order; while it goes on, every tool through all the hooks before this step,
\* and through the one at hand if its turn has been.
HooksInOrder ==
  \A t \in Positions :
    /\ Len(seen[t]) \in 0 .. 9
    /\ \A k \in 1 .. Len(seen[t]) : seen[t][k] = Hooks[k]

HooksDone ==
  pc # 0 /\ tools = ToolNames =>
    \A t \in Positions :
      Len(seen[t]) = IF pc \in 1 .. 39 /\ Steps[pc].do = "hook" /\ t <= turn
                     THEN HooksBefore(pc) + 1 ELSE HooksBefore(pc)

NoHooksYet == pc # 0 /\ tools = << >> => \A t \in Positions : Len(seen[t]) = 0

ToolsThere == pc \in 4 .. 40 /\ trace_enabled => tools = ToolNames

SeenInv == HooksInOrder /\ HooksDone /\ NoHooksYet /\ ToolsThere

\* One more hook.
LEMMA HookAdded ==
  ASSUME SessionTypes, NEW t \in Positions, NEW what \in Name,
         seen' = [seen EXCEPT ![t] = Append(@, what)]
  PROVE  /\ \A u \in Positions \ {t} : seen'[u] = seen[u]
         /\ Len(seen[t]) \in Nat /\ Len(seen'[t]) = Len(seen[t]) + 1
         /\ \A k \in 1 .. Len(seen[t]) : seen'[t][k] = seen[t][k]
         /\ seen'[t][Len(seen[t]) + 1] = what
<1>1. seen \in [Positions -> Seq(Name)] /\ seen[t] \in Seq(Name)
  BY DEF SessionTypes
<1>2. seen'[t] = Append(seen[t], what) /\ \A u \in Positions \ {t} : seen'[u] = seen[u]
  BY <1>1
<1>3. /\ Len(Append(seen[t], what)) = Len(seen[t]) + 1 /\ Len(seen[t]) \in Nat
      /\ \A k \in 1 .. Len(seen[t]) : Append(seen[t], what)[k] = seen[t][k]
      /\ Append(seen[t], what)[Len(seen[t]) + 1] = what
  BY <1>1, AppendProperties, LenProperties
<1>4. QED
  BY <1>2, <1>3

\* The hook of one tool keeps the account of the hooks.
LEMMA CalledKeepsHooks ==
  ASSUME SeenInv, SessionTypes, trace_enabled' = trace_enabled, NEW t, Called(t)
  PROVE  SeenInv'
<1>1. /\ pc \in 1 .. 39 /\ Steps[pc].do = "hook" /\ t = turn + 1 /\ t \in Positions
      /\ tools = ToolNames /\ tools' = tools /\ turn \in Nat /\ pc # 0
      /\ seen' = [seen EXCEPT ![t] = Append(@, Steps[pc].what)]
      /\ Len(ToolNames) \in Nat
  <2>1. /\ pc \in 1 .. 39 /\ Steps[pc].do = "hook" /\ t = turn + 1 /\ t \in Positions
        /\ tools = ToolNames /\ tools' = tools
        /\ seen' = [seen EXCEPT ![t] = Append(@, Steps[pc].what)]
    BY DEF Called
  <2>2. turn \in Nat /\ Len(ToolNames) \in Nat
    BY RunSessionAssumption, LenProperties DEF SessionTypes
  <2>3. pc # 0
    BY <2>1
  <2>4. QED
    BY <2>1, <2>2, <2>3
<1>a. \A u \in Positions : u \in Nat /\ u <= Len(ToolNames)
  BY <1>1 DEF Positions
<1>2. HooksInOrder /\ HooksDone /\ ToolsThere
  BY DEF SeenInv
<1> DEFINE h == HooksBefore(pc)
<1>3. /\ h \in 0 .. 8 /\ HooksBefore(pc + 1) = h + 1 /\ Steps[pc].what = Hooks[h + 1]
      /\ Steps[pc].what \in Name
  BY <1>1, HookPlaces, StepsNames
<1>4. \A u \in Positions : Len(seen[u]) = IF u <= turn THEN h + 1 ELSE h
  BY <1>1, <1>2 DEF HooksDone
<1> HIDE DEF h
<1>5. Len(seen[t]) = h
  <2>1. ~(t <= turn)
    BY <1>1
  <2>2. QED
    BY <1>1, <1>4, <2>1
<1>6. /\ \A u \in Positions \ {t} : seen'[u] = seen[u]
      /\ Len(seen'[t]) = h + 1
      /\ \A k \in 1 .. h : seen'[t][k] = seen[t][k]
      /\ seen'[t][h + 1] = Hooks[h + 1]
  <2>1. PICK what \in Name : what = Steps[pc].what
    BY <1>3
  <2>2. seen' = [seen EXCEPT ![t] = Append(@, what)] /\ what = Hooks[h + 1]
    BY <1>1, <1>3, <2>1
  <2>3. /\ \A u \in Positions \ {t} : seen'[u] = seen[u]
        /\ Len(seen'[t]) = Len(seen[t]) + 1
        /\ \A k \in 1 .. Len(seen[t]) : seen'[t][k] = seen[t][k]
        /\ seen'[t][Len(seen[t]) + 1] = what
    BY <1>1, <2>1, <2>2, HookAdded
  <2>4. QED
    BY <1>5, <2>2, <2>3
<1>7. HooksInOrder'
  <2> SUFFICES ASSUME NEW u \in Positions
               PROVE  /\ Len(seen'[u]) \in 0 .. 9
                      /\ \A k \in 1 .. Len(seen'[u]) : seen'[u][k] = Hooks[k]
    BY DEF HooksInOrder, Hooks, Positions
  <2>1. CASE u = t
    <3>1. \A k \in 1 .. h : seen[t][k] = Hooks[k]
      BY <1>1, <1>2, <1>5 DEF HooksInOrder
    <3>2. \A k \in 1 .. h + 1 : k \in 1 .. h \/ k = h + 1
      BY <1>3
    <3>3. \A k \in 1 .. h + 1 : seen'[t][k] = Hooks[k]
      BY <1>6, <3>1, <3>2
    <3>4. h + 1 \in 0 .. 9
      BY <1>3
    <3>5. QED
      BY <1>6, <2>1, <3>3, <3>4
  <2>2. CASE u # t
    BY <1>2, <1>6, <2>2 DEF HooksInOrder
  <2>3. QED
    BY <2>1, <2>2
<1>8. \A u \in Positions : Len(seen'[u]) = IF u <= turn + 1 THEN h + 1 ELSE h
  <2> SUFFICES ASSUME NEW u \in Positions
               PROVE  Len(seen'[u]) = IF u <= turn + 1 THEN h + 1 ELSE h
    OBVIOUS
  <2>1. CASE u = t
    BY <1>1, <1>6, <2>1
  <2>2. CASE u # t
    <3>1. u <= turn <=> u <= turn + 1
      BY <1>1, <1>a, <2>2
    <3>2. QED
      BY <1>4, <1>6, <2>2, <3>1
  <2>3. QED
    BY <2>1, <2>2
<1>9. HooksDone'
  <2>1. CASE pc' = pc /\ turn' = turn + 1
    BY <1>1, <1>8, <2>1 DEF HooksDone, h, Positions
  <2>2. CASE pc' = pc + 1 /\ turn' = 0 /\ t = Len(ToolNames)
    <3>1. \A u \in Positions : Len(seen'[u]) = h + 1 /\ ~(u <= turn')
      <4>1. \A u \in Positions : u <= turn + 1 /\ u >= 1
        BY <1>1, <1>a, <2>2 DEF Positions
      <4>2. QED
        BY <1>8, <1>a, <2>2, <4>1
    <3>2. \A u \in Positions : Len(seen'[u]) = HooksBefore(pc')
      BY <1>3, <2>2, <3>1
    <3>3. QED
      BY <3>1, <3>2 DEF HooksDone, Positions
  <2>3. CASE pc' = 0
    BY <2>3 DEF HooksDone
  <2>4. QED
    BY <2>1, <2>2, <2>3 DEF Called
<1>10. NoHooksYet'
  <2>1. tools' # << >>
    <3>1. Len(ToolNames) # 0
      BY <1>1 DEF Positions
    <3>2. QED
      BY <1>1, <3>1, RunSessionAssumption, EmptySeq
  <2>2. QED
    BY <2>1 DEF NoHooksYet
<1>11. ToolsThere'
  BY <1>1 DEF ToolsThere
<1>12. QED
  BY <1>7, <1>9, <1>10, <1>11 DEF SeenInv

\* A step that calls no tool keeps the account of the hooks.
LEMMA OthersKeepHooks ==
  ASSUME SeenInv, SessionTypes, trace_enabled' = trace_enabled, seen' = seen,
         \/ pc' = 0
         \/ pc' = pc /\ tools' = tools /\ (turn' = turn \/ Steps[pc].do # "hook")
         \/ /\ pc \in 1 .. 39 /\ pc' = pc + 1 /\ turn' = 0
            /\ tools' = tools /\ pc # 3
            /\ Steps[pc].do = "hook" => tools = << >>
         \/ pc = 3 /\ pc' = 4 /\ turn' = 0 /\ tools' = IF trace_enabled THEN ToolNames ELSE << >>
  PROVE  SeenInv'
<1>1. HooksInOrder /\ HooksDone /\ NoHooksYet /\ ToolsThere
  BY DEF SeenInv
<1>2. HooksInOrder'
  BY <1>1 DEF HooksInOrder, Hooks, Positions
<1>3. CASE pc' = 0
  BY <1>2, <1>3 DEF SeenInv, HooksDone, NoHooksYet, ToolsThere
<1>4. CASE pc' = pc /\ tools' = tools /\ (turn' = turn \/ Steps[pc].do # "hook")
  <2>1. HooksDone'
    BY <1>1, <1>4 DEF HooksDone, Positions
  <2>2. NoHooksYet' /\ ToolsThere'
    BY <1>1, <1>4 DEF NoHooksYet, ToolsThere, Positions
  <2>3. QED
    BY <1>2, <2>1, <2>2 DEF SeenInv
<1>5. CASE /\ pc \in 1 .. 39 /\ pc' = pc + 1 /\ turn' = 0
           /\ tools' = tools /\ pc # 3
           /\ Steps[pc].do = "hook" => tools = << >>
  <2>1. \A t \in Positions : ~(t <= 0)
    BY DEF Positions
  <2>2. HooksDone'
    <3> SUFFICES ASSUME tools = ToolNames, NEW t \in Positions
                 PROVE  Len(seen[t]) = HooksBefore(pc')
      BY <1>5, <2>1 DEF HooksDone, Positions
    <3>1. Steps[pc].do # "hook"
      <4>1. Len(ToolNames) # 0
        BY RunSessionAssumption, LenProperties DEF Positions
      <4>2. tools # << >>
        BY <4>1, EmptySeq, RunSessionAssumption
      <4>3. QED
        BY <1>5, <4>2
    <3>2. pc # 0
      BY <1>5
    <3>3. Len(seen[t]) = HooksBefore(pc)
      BY <1>1, <3>1, <3>2 DEF HooksDone
    <3>4. QED
      BY <1>5, <3>1, <3>3, HookPlaces
  <2>3. NoHooksYet'
    <3>1. pc # 0
      BY <1>5
    <3>2. QED
      BY <1>1, <1>5, <3>1 DEF NoHooksYet, Positions
  <2>4. ToolsThere'
    <3>1. pc' \in 4 .. 40 => pc \in 4 .. 40
      BY <1>5
    <3>2. QED
      BY <1>1, <1>5, <3>1 DEF ToolsThere
  <2>5. QED
    BY <1>2, <2>2, <2>3, <2>4 DEF SeenInv
<1>6. CASE /\ pc = 3 /\ pc' = 4 /\ turn' = 0
           /\ tools' = IF trace_enabled THEN ToolNames ELSE << >>
  <2>1. \A t \in Positions : Len(seen[t]) = 0
    <3>1. CASE tools = << >>
      BY <1>1, <1>6, <3>1 DEF NoHooksYet
    <3>2. CASE tools = ToolNames
      <4>1. Steps[3].do # "hook" /\ HooksBefore(3) = 0
        BY StepsDo DEF HooksBefore
      <4>2. QED
        BY <1>1, <1>6, <3>2, <4>1 DEF HooksDone
    <3>3. QED
      BY <3>1, <3>2 DEF SessionTypes
  <2>2. HooksBefore(4) = 0 /\ Steps[4].do # "hook"
    BY StepsDo DEF HooksBefore
  <2>3. HooksDone' /\ NoHooksYet'
    BY <1>6, <2>1, <2>2 DEF HooksDone, NoHooksYet, Positions
  <2>4. ToolsThere'
    BY <1>6 DEF ToolsThere
  <2>5. QED
    BY <1>2, <2>3, <2>4 DEF SeenInv
<1>7. QED
  BY <1>3, <1>4, <1>5, <1>6

\* Every step keeps the account of the hooks.
LEMMA SeenStep ==
  ASSUME SeenInv, SessionInv, [Next]_vars
  PROVE  SeenInv'
<1>a. SessionTypes /\ Does /\ trace_enabled' = trace_enabled
  BY StepsOf DEF SessionInv, Does
<1>b. /\ Steps[1].do = "open" /\ Steps[15].do = "operators"
      /\ Steps[31].do = "subgraph_metrics" /\ Steps[3].do = "tools"
      /\ \A i \in {13, 23, 30} : Steps[i].do = "metrics"
  BY StepsDo
<1>1. CASE Opens
  <2>1. pc \in 1 .. 39 /\ pc' = pc + 1 /\ turn' = 0 /\ pc # 3 /\ Steps[pc].do # "hook"
    BY <1>1, <1>b DEF Opens
  <2>2. tools' = tools /\ seen' = seen
    BY <1>1 DEF Opens, Still
  <2>3. QED
    BY <1>a, <2>1, <2>2, OthersKeepHooks
<1>2. ASSUME NEW e, Emits(e)
      PROVE  SeenInv'
  <2>1. tools' = tools /\ seen' = seen /\ pc \in 1 .. 39
    BY <1>2 DEF Emits, Still
  <2>2. CASE Steps[pc].do = "emit" /\ pc' = pc + 1 /\ turn' = 0
    <3>1. pc # 3 /\ Steps[pc].do # "hook"
      BY <1>b, <2>2
    <3>2. QED
      BY <1>a, <2>1, <2>2, <3>1, OthersKeepHooks
  <2>3. CASE pc = 15 /\ (pc' = 15 \/ (pc' = 16 /\ turn' = 0))
    <3>1. Steps[pc].do # "hook" /\ pc # 3 /\ (pc' = pc \/ (pc' = pc + 1 /\ turn' = 0))
      BY <1>b, <2>3
    <3>2. QED
      BY <1>a, <2>1, <3>1, OthersKeepHooks
  <2>4. CASE pc = 31 /\ (pc' = 31 \/ (pc' = 32 /\ turn' = 0))
    <3>1. Steps[pc].do # "hook" /\ pc # 3 /\ (pc' = pc \/ (pc' = pc + 1 /\ turn' = 0))
      BY <1>b, <2>4
    <3>2. QED
      BY <1>a, <2>1, <3>1, OthersKeepHooks
  <2>5. CASE pc \in {13, 23, 30} /\ pc' = pc + 1 /\ turn' = 0
    <3>1. Steps[pc].do # "hook" /\ pc # 3
      BY <1>b, <2>5
    <3>2. QED
      BY <1>a, <2>1, <2>5, <3>1, OthersKeepHooks
  <2>6. \/ Steps[pc].do = "emit" /\ pc' = pc + 1 /\ turn' = 0
        \/ pc = 15 /\ (pc' = 15 \/ (pc' = 16 /\ turn' = 0))
        \/ pc = 31 /\ (pc' = 31 \/ (pc' = 32 /\ turn' = 0))
        \/ pc \in {13, 23, 30} /\ pc' = pc + 1 /\ turn' = 0
    BY <1>2 DEF Emits
  <2>7. QED
    BY <2>2, <2>3, <2>4, <2>5, <2>6
<1>3. CASE Samples
  <2>1. /\ pc \in {13, 23, 30} /\ pc' = pc + 1 /\ turn' = 0 /\ pc # 3
        /\ tools' = tools /\ seen' = seen
    BY <1>3 DEF Samples, Still
  <2>2. Steps[pc].do # "hook" /\ pc \in 1 .. 39
    BY <1>b, <2>1
  <2>3. QED
    BY <1>a, <2>1, <2>2, OthersKeepHooks
<1>4. ASSUME NEW e, Sampled(e)
      PROVE  SeenInv'
  <2>1. pc' = pc /\ turn' = turn /\ tools' = tools /\ seen' = seen
    BY <1>4 DEF Sampled, Still
  <2>2. QED
    BY <1>a, <2>1, OthersKeepHooks
<1>5. ASSUME NEW t, Called(t)
      PROVE  SeenInv'
  BY <1>5, <1>a, CalledKeepsHooks
<1>6. CASE Fetches
  <2>1. /\ pc = 3 /\ pc' = 4 /\ turn' = 0 /\ seen' = seen
        /\ tools' = IF trace_enabled THEN ToolNames ELSE << >>
    BY <1>6 DEF Fetches
  <2>2. QED
    BY <1>a, <2>1, OthersKeepHooks
<1>7. CASE Passes
  <2>1. /\ pc \in 1 .. 39 /\ pc' = pc + 1 /\ turn' = 0 /\ tools' = tools /\ seen' = seen
        /\ pc # 3 /\ (Steps[pc].do = "hook" => tools = << >>)
    BY <1>7 DEF Passes
  <2>2. QED
    BY <1>a, <2>1, OthersKeepHooks
<1>8. CASE Returns
  <2>1. pc' = 0 /\ seen' = seen
    BY <1>8 DEF Returns
  <2>2. QED
    BY <1>a, <2>1, OthersKeepHooks
<1>9. CASE Rests
  <2>1. pc' = pc /\ turn' = turn /\ tools' = tools /\ seen' = seen
    BY <1>9 DEF Rests, Still
  <2>2. QED
    BY <1>a, <2>1, OthersKeepHooks
<1>10. QED
  BY <1>a, <1>1, <1>2, <1>3, <1>4, <1>5, <1>6, <1>7, <1>8, <1>9 DEF Does

\* The tools of every session are called through the hooks in order.
LEMMA SeenInvariant == Spec => []SeenInv
<1>1. Init => SeenInv
  <2> SUFFICES ASSUME Init
               PROVE  SeenInv
    OBVIOUS
  <2>1. pc = 1 /\ tools = << >> /\ seen = [t \in Positions |-> << >>]
    BY DEF Init
  <2>2. \A t \in Positions : seen[t] = << >> /\ Len(seen[t]) = 0
    BY <2>1, EmptySeq
  <2>3. HooksInOrder
    BY <2>2 DEF HooksInOrder
  <2>4. HooksBefore(1) = 0 /\ Steps[1].do # "hook"
    BY StepsDo DEF HooksBefore
  <2>5. HooksDone /\ NoHooksYet /\ ToolsThere
    BY <2>1, <2>2, <2>4 DEF HooksDone, NoHooksYet, ToolsThere
  <2>6. QED
    BY <2>3, <2>5 DEF SeenInv
<1>2. SeenInv /\ SessionInv /\ [Next]_vars => SeenInv'
  BY SeenStep
<1>3. QED
  BY <1>1, <1>2, SessionInvariant, PTL DEF Spec

\* The call of a tool is a call of the lifecycle: it is the tool's next hook,
\* and no tool is behind it.
LEMMA CalledIsCall ==
  ASSUME SeenInv, SessionTypes, NEW t, Called(t)
  PROVE  Lifecycle!Call(t)
<1>1. /\ pc \in 1 .. 39 /\ Steps[pc].do = "hook" /\ t = turn + 1 /\ t \in Positions
      /\ tools = ToolNames
      /\ seen' = [seen EXCEPT ![t] = Append(@, Steps[pc].what)]
  BY DEF Called
<1>2. turn \in Nat /\ pc # 0
  <2>1. turn \in Nat
    BY DEF SessionTypes
  <2>2. pc \in 1 .. 39
    BY <1>1
  <2>3. QED
    BY <2>1, <2>2
<1>3. \A u \in Positions : /\ u <= turn => Len(seen[u]) = HooksBefore(pc) + 1
                           /\ ~(u <= turn) => Len(seen[u]) = HooksBefore(pc)
  BY <1>1, <1>2 DEF SeenInv, HooksDone
<1>4. /\ HooksBefore(pc) \in 0 .. 8 /\ Len(Hooks) = 9
      /\ Steps[pc].what = Hooks[HooksBefore(pc) + 1]
  BY <1>1, HookPlaces
<1>5. Len(seen[t]) = HooksBefore(pc)
  BY <1>1, <1>2, <1>3
<1>6. \A u \in Positions : Len(seen[t]) <= Len(seen[u])
  BY <1>3, <1>4, <1>5
<1>7. Len(seen[t]) < Len(Hooks)
  BY <1>4, <1>5
<1>8. seen' = [seen EXCEPT ![t] = Append(@, Hooks[Len(@) + 1])]
  BY <1>1, <1>4, <1>5
<1>9. ~Returned
  BY <1>1, NotReturned
<1>10. Returned' \in BOOLEAN
  BY DEF Returned
<1>11. QED
  BY <1>6, <1>7, <1>8, <1>9, <1>10 DEF Lifecycle!Call, Lifecycle!Due

\* Run implements the lifecycle promised to the tools, whatever the adapter and
\* the tools do: every tool goes through the same hooks in the same order, in
\* step with the others, and hears nothing once the session is over.
THEOREM SessionImplementsLifecycle == Spec => ImplementsLifecycle
<1>1. Init => Lifecycle!LifecycleInit
  BY StepsLength DEF Init, Returned, Lifecycle!LifecycleInit
<1>2. SeenInv /\ SessionInv /\ [Next]_vars
        => [(\E t \in Positions : Lifecycle!Call(t)) \/ Lifecycle!End]_Lifecycle!lifecycleVars
  <2> SUFFICES ASSUME SeenInv, SessionInv, [Next]_vars
               PROVE  [(\E t \in Positions : Lifecycle!Call(t)) \/ Lifecycle!End]_Lifecycle!lifecycleVars
    OBVIOUS
  <2>1. SessionTypes /\ Does
    BY StepsOf DEF SessionInv
  <2>2. CASE \E t : Called(t)
    <3>1. PICK t : Called(t)
      BY <2>2
    <3>2. t \in Positions /\ Lifecycle!Call(t)
      BY <2>1, <3>1, CalledIsCall DEF Called
    <3>3. QED
      BY <3>2
  <2>3. CASE ~(\E t : Called(t))
    <3>1. seen' = seen
      BY <2>1, <2>3 DEF Does, Opens, Emits, Samples, Sampled, Fetches, Passes, Returns,
                        Rests, Still
    <3>2. pc \in 1 .. 39 \/ pc' = pc \/ pc' = 0
      BY <2>1, <2>3 DEF Does, Opens, Emits, Samples, Sampled, Fetches, Passes, Returns,
                        Rests, Still
    <3>3. CASE pc \in 1 .. 39
      <4>1. ~Returned /\ (Returned' = TRUE \/ Returned' = FALSE)
        BY <2>1, <3>3, NotReturned DEF Returned
      <4>2. CASE Returned' = TRUE
        BY <3>1, <4>1, <4>2 DEF Lifecycle!End
      <4>3. CASE Returned' = FALSE
        <5>1. Returned = FALSE
          BY <4>1 DEF Returned
        <5>2. QED
          BY <3>1, <4>3, <5>1 DEF Lifecycle!lifecycleVars
      <4>4. QED
        BY <4>1, <4>2, <4>3
    <3>4. CASE pc \notin 1 .. 39
      <4>1. Returned /\ Returned'
        BY <2>1, <3>2, <3>4, NotReturned DEF Returned
      <4>2. Returned = TRUE /\ Returned' = TRUE
        BY <4>1 DEF Returned
      <4>3. QED
        BY <3>1, <4>2 DEF Lifecycle!lifecycleVars
    <3>5. QED
      BY <3>3, <3>4
  <2>4. QED
    BY <2>2, <2>3
<1>3. QED
  BY <1>1, <1>2, SessionInvariant, SeenInvariant, PTL
     DEF Spec, ImplementsLifecycle, Lifecycle!LifecycleSpec

-----------------------------------------------------------------------------
(* Counting the events of a trace. *)

\* One more event, at the end.
LEMMA OneMoreEvent ==
  ASSUME NEW trace \in Seq(TracedEvent), NEW e \in TracedEvent, NEW longer,
         longer = Append(trace, e)
  PROVE  /\ longer \in Seq(TracedEvent)
         /\ Len(trace) \in Nat /\ DOMAIN trace = 1 .. Len(trace)
         /\ Len(longer) = Len(trace) + 1 /\ DOMAIN longer = 1 .. Len(trace) + 1
         /\ \A i \in 1 .. Len(trace) : longer[i] = trace[i]
         /\ longer[Len(trace) + 1] = e
<1>1. /\ longer \in Seq(TracedEvent) /\ Len(longer) = Len(trace) + 1
      /\ \A i \in 1 .. Len(trace) : longer[i] = trace[i]
      /\ longer[Len(trace) + 1] = e
  BY AppendProperties
<1>2. Len(trace) \in Nat /\ DOMAIN trace = 1 .. Len(trace) /\ DOMAIN longer = 1 .. Len(longer)
  BY <1>1, LenProperties
<1>3. QED
  BY <1>1, <1>2

\* The boundaries up to a place are finitely many.
LEMMA BoundariesFinite ==
  ASSUME NEW trace \in Seq(TracedEvent), NEW n
  PROVE  /\ IsFiniteSet(BoundariesIn(trace, n))
         /\ Cardinality(BoundariesIn(trace, n)) \in Nat
<1>1. Len(trace) \in Nat /\ DOMAIN trace = 1 .. Len(trace)
  BY LenProperties
<1>2. IsFiniteSet(1 .. Len(trace))
  BY <1>1, FS_Interval
<1>3. BoundariesIn(trace, n) \subseteq 1 .. Len(trace)
  BY <1>1 DEF BoundariesIn
<1>4. IsFiniteSet(BoundariesIn(trace, n))
  BY <1>2, <1>3, FS_Subset
<1>5. QED
  BY <1>4, FS_CardinalityType

\* The earlier boundaries keep their numbers; an event of another kind is none.
LEMMA BoundariesKept ==
  ASSUME NEW trace \in Seq(TracedEvent), NEW e \in TracedEvent, NEW longer,
         longer = Append(trace, e)
  PROVE  /\ \A i \in 1 .. Len(trace) : BoundariesIn(longer, i) = BoundariesIn(trace, i)
         /\ (e.kind \notin BoundaryKind
               => BoundariesIn(longer, Len(longer)) = BoundariesIn(trace, Len(trace)))
<1> DEFINE n == Len(trace)
<1>1. /\ n \in Nat /\ DOMAIN trace = 1 .. n /\ DOMAIN longer = 1 .. n + 1 /\ Len(longer) = n + 1
      /\ \A i \in 1 .. n : longer[i] = trace[i]
      /\ longer[n + 1] = e
  BY OneMoreEvent
<1> HIDE DEF n
<1>2. \A i \in 1 .. n : BoundariesIn(longer, i) = BoundariesIn(trace, i)
  <2> SUFFICES ASSUME NEW i \in 1 .. n
               PROVE  BoundariesIn(longer, i) = BoundariesIn(trace, i)
    OBVIOUS
  <2>1. \A j \in 1 .. n + 1 : j <= i => j \in 1 .. n
    BY <1>1
  <2>2. \A j \in 1 .. n : j \in 1 .. n + 1
    BY <1>1
  <2>3. QED
    BY <1>1, <2>1, <2>2 DEF BoundariesIn
<1>3. /\ BoundariesIn(longer, Len(longer))
           = {j \in 1 .. n + 1 : longer[j].kind \in BoundaryKind}
      /\ BoundariesIn(trace, n) = {j \in 1 .. n : trace[j].kind \in BoundaryKind}
  <2>1. \A j \in 1 .. n + 1 : j <= n + 1
    BY <1>1
  <2>2. \A j \in 1 .. n : j <= n
    BY <1>1
  <2>3. QED
    BY <1>1, <2>1, <2>2 DEF BoundariesIn
<1>4. \A j \in 1 .. n + 1 : (j \in 1 .. n /\ longer[j] = trace[j]) \/ (j = n + 1 /\ longer[j] = e)
  <2>1. \A j \in 1 .. n + 1 : j \in 1 .. n \/ j = n + 1
    BY <1>1
  <2>2. QED
    BY <1>1, <2>1
<1>5. \A j \in 1 .. n : j \in 1 .. n + 1 /\ j # n + 1
  BY <1>1
<1>6. n + 1 \in 1 .. n + 1
  BY <1>1
<1>7. e.kind \notin BoundaryKind => BoundariesIn(longer, Len(longer)) = BoundariesIn(trace, n)
  BY <1>1, <1>3, <1>4, <1>5
<1>8. QED
  BY <1>1, <1>2, <1>7 DEF n

\* One more event of a boundary's kind is one more boundary.
LEMMA BoundaryAdded ==
  ASSUME NEW trace \in Seq(TracedEvent), NEW e \in TracedEvent, NEW longer,
         longer = Append(trace, e), e.kind \in BoundaryKind
  PROVE  /\ BoundariesIn(longer, Len(longer))
              = BoundariesIn(trace, Len(trace)) \cup {Len(longer)}
         /\ Cardinality(BoundariesIn(longer, Len(longer)))
              = Cardinality(BoundariesIn(trace, Len(trace))) + 1
<1> DEFINE n == Len(trace)
<1>1. /\ n \in Nat /\ DOMAIN trace = 1 .. n /\ DOMAIN longer = 1 .. n + 1 /\ Len(longer) = n + 1
      /\ \A i \in 1 .. n : longer[i] = trace[i]
      /\ longer[n + 1] = e
  BY OneMoreEvent
<1> HIDE DEF n
<1>2. /\ BoundariesIn(longer, Len(longer))
           = {j \in 1 .. n + 1 : longer[j].kind \in BoundaryKind}
      /\ BoundariesIn(trace, n) = {j \in 1 .. n : trace[j].kind \in BoundaryKind}
  <2>1. \A j \in 1 .. n + 1 : j <= n + 1
    BY <1>1
  <2>2. \A j \in 1 .. n : j <= n
    BY <1>1
  <2>3. QED
    BY <1>1, <2>1, <2>2 DEF BoundariesIn
<1>3. \A j \in 1 .. n + 1 : (j \in 1 .. n /\ longer[j] = trace[j]) \/ (j = n + 1 /\ longer[j] = e)
  <2>1. \A j \in 1 .. n + 1 : j \in 1 .. n \/ j = n + 1
    BY <1>1
  <2>2. QED
    BY <1>1, <2>1
<1>4. \A j \in 1 .. n : j \in 1 .. n + 1 /\ j # n + 1
  BY <1>1
<1>5. n + 1 \in 1 .. n + 1
  BY <1>1
<1>6. /\ BoundariesIn(longer, Len(longer)) = BoundariesIn(trace, n) \cup {n + 1}
      /\ n + 1 \notin BoundariesIn(trace, n)
  BY <1>1, <1>2, <1>3, <1>4, <1>5
<1>7. Cardinality(BoundariesIn(longer, Len(longer))) = Cardinality(BoundariesIn(trace, n)) + 1
  <2>1. IsFiniteSet(BoundariesIn(trace, n))
    BY BoundariesFinite
  <2>2. QED
    BY <1>6, <2>1, FS_AddElement
<1>8. QED
  BY <1>1, <1>6, <1>7 DEF n

\* An event that is there counts.
LEMMA CountedOnce ==
  ASSUME NEW trace \in Seq(TracedEvent), NEW i \in 1 .. Len(trace)
  PROVE  Count(trace[i].kind, trace[i].event, trace) > 0
<1> DEFINE counted == {j \in DOMAIN trace : /\ trace[j].kind = trace[i].kind
                                            /\ trace[j].event = trace[i].event}
<1>1. DOMAIN trace = 1 .. Len(trace) /\ Len(trace) \in Nat
  BY LenProperties
<1>2. counted # {} /\ counted \subseteq 1 .. Len(trace)
  BY <1>1
<1> HIDE DEF counted
<1>3. IsFiniteSet(counted)
  <2>1. IsFiniteSet(1 .. Len(trace))
    BY <1>1, FS_Interval
  <2>2. QED
    BY <1>2, <2>1, FS_Subset
<1>4. Cardinality(counted) \in Nat /\ Cardinality(counted) # 0
  BY <1>2, <1>3, FS_CardinalityType, FS_EmptySet
<1>5. Cardinality(counted) > 0
  BY <1>4
<1>6. QED
  BY <1>5 DEF Count, counted

\* What is true of the trace up to a place is true of a file that ends there.
LEMMA FileFirst ==
  ASSUME T!P!IInv
  PROVE  /\ Len(file) \in Nat /\ Len(issued) \in Nat /\ Len(file) <= Len(issued)
         /\ \A i \in 1 .. Len(file) :
              file[i] = issued[i] /\ BoundariesIn(file, i) = BoundariesIn(issued, i)
<1>1. /\ file \in Seq(TracedEvent) /\ issued \in Seq(TracedEvent)
      /\ Len(file) \in Nat /\ Len(issued) \in Nat
  BY ClientAssumption, T!WriterFacts
     DEF T!TracedEvent, TracedEvent, T!EventKind, EventKind
<1>2. Len(file) <= Len(issued) /\ file = SubSeq(issued, 1, Len(file))
  BY DEF T!P!IInv, T!P!FileIsPrefix, T!P!FirstOf
<1>3. \A i \in 1 .. Len(file) : file[i] = issued[i]
  <2>1. PICK n \in Nat : n = Len(file)
    BY <1>1
  <2>2. \A i \in 1 .. n : SubSeq(issued, 1, n)[i] = issued[i]
    BY <1>1, <1>2, <2>1, SubSeqProperties
  <2>3. QED
    BY <1>2, <2>1, <2>2
<1>4. DOMAIN file = 1 .. Len(file) /\ DOMAIN issued = 1 .. Len(issued)
  BY <1>1, LenProperties
<1>5. ASSUME NEW i \in 1 .. Len(file)
      PROVE  BoundariesIn(file, i) = BoundariesIn(issued, i)
  <2>1. \A j \in 1 .. Len(issued) : j <= i => j \in 1 .. Len(file)
    BY <1>1
  <2>2. \A j \in 1 .. Len(file) : j \in 1 .. Len(issued)
    BY <1>1, <1>2
  <2>3. QED
    BY <1>3, <1>4, <2>1, <2>2 DEF BoundariesIn
<1>6. QED
  BY <1>1, <1>2, <1>3, <1>5

-----------------------------------------------------------------------------
(* The boundaries. *)

\* The boundaries of the trace are the first of a session, as many as come
\* before this step; session_end comes after the last hook.
BoundariesInOrder ==
  \A i \in BoundariesIn(issued, Len(issued)) :
    LET n == Cardinality(BoundariesIn(issued, i))
    IN n <= 8 /\ issued[i].event = Boundaries[n]

BoundariesTold ==
  pc # 0 /\ trace_enabled
    => Cardinality(BoundariesIn(issued, Len(issued))) = ToldBefore(pc)

EndAfterHooks ==
  \A i \in BoundariesIn(issued, Len(issued)) :
    issued[i].event = "session_end" =>
      /\ pc = 0 \/ pc \in 36 .. 40
      /\ \A t \in Positions : seen[t] = Hooks

BoundaryInv == BoundariesInOrder /\ BoundariesTold /\ EndAfterHooks

\* A tool that went through as many hooks as there are went through them all.
LEMMA AllHooks ==
  ASSUME SeenInv, SessionTypes, pc \in 35 .. 40, trace_enabled, NEW t \in Positions
  PROVE  seen[t] = Hooks
<1>1. tools = ToolNames /\ HooksDone /\ HooksInOrder /\ pc # 0
  <2>1. pc \in 4 .. 40 /\ pc # 0
    OBVIOUS
  <2>2. QED
    BY <2>1 DEF SeenInv, ToolsThere
<1>2. Len(seen[t]) = HooksBefore(pc)
  <2>1. pc \in 1 .. 39 => Steps[pc].do # "hook"
    BY StepsDo
  <2>2. QED
    BY <1>1, <2>1 DEF HooksDone
<1>3. Len(seen[t]) = 9
  BY <1>2 DEF HooksBefore
<1>4. \A k \in 1 .. 9 : seen[t][k] = Hooks[k]
  BY <1>1, <1>3 DEF HooksInOrder
<1>5. seen[t] \in Seq(Name) /\ DOMAIN seen[t] = 1 .. 9
  BY <1>3, LenProperties DEF SessionTypes
<1>6. DOMAIN Hooks = 1 .. 9
  BY DEF Hooks
<1>7. seen[t] = [k \in 1 .. 9 |-> seen[t][k]] /\ Hooks = [k \in 1 .. 9 |-> Hooks[k]]
  <2>1. seen[t] = [k \in 1 .. 9 |-> seen[t][k]]
    BY <1>5, LenProperties
  <2>2. Hooks = [k \in 1 .. 9 |-> Hooks[k]]
    BY <1>6 DEF Hooks
  <2>3. QED
    BY <2>1, <2>2
<1>8. QED
  BY <1>4, <1>7

\* An event that is no boundary changes nothing about them.
LEMMA OtherEvent ==
  ASSUME BoundaryInv, issued \in Seq(TracedEvent), seen' = seen,
         trace_enabled' = trace_enabled,
         NEW e \in TracedEvent, issued' = Append(issued, e), e.kind \notin BoundaryKind,
         pc \in 1 .. 39, pc' = pc \/ (pc' = pc + 1 /\ ToldBefore(pc') = ToldBefore(pc))
  PROVE  BoundaryInv'
<1>1. /\ BoundariesIn(issued', Len(issued')) = BoundariesIn(issued, Len(issued))
      /\ \A i \in 1 .. Len(issued) : BoundariesIn(issued', i) = BoundariesIn(issued, i)
      /\ \A i \in 1 .. Len(issued) : issued'[i] = issued[i]
      /\ DOMAIN issued = 1 .. Len(issued)
  <2>0. \E longer : longer = Append(issued, e)
    OBVIOUS
  <2>1. PICK longer : longer = issued' /\ longer = Append(issued, e)
    BY <2>0
  <2>2. /\ BoundariesIn(longer, Len(longer)) = BoundariesIn(issued, Len(issued))
        /\ \A i \in 1 .. Len(issued) : BoundariesIn(longer, i) = BoundariesIn(issued, i)
    BY <2>1, BoundariesKept
  <2>3. /\ \A i \in 1 .. Len(issued) : longer[i] = issued[i]
        /\ DOMAIN issued = 1 .. Len(issued)
    BY <2>1, OneMoreEvent
  <2>4. QED
    BY <2>1, <2>2, <2>3
<1>2. \A i \in BoundariesIn(issued, Len(issued)) : i \in 1 .. Len(issued)
  BY <1>1 DEF BoundariesIn
<1>3. BoundariesInOrder'
  <2> SUFFICES ASSUME NEW i \in BoundariesIn(issued, Len(issued))
               PROVE  LET n == Cardinality(BoundariesIn(issued', i))
                      IN n <= 8 /\ issued'[i].event = Boundaries[n]
    BY <1>1 DEF BoundariesInOrder, Boundaries
  <2>1. issued'[i] = issued[i] /\ BoundariesIn(issued', i) = BoundariesIn(issued, i)
    BY <1>1, <1>2
  <2>2. LET n == Cardinality(BoundariesIn(issued, i))
        IN n <= 8 /\ issued[i].event = Boundaries[n]
    BY DEF BoundaryInv, BoundariesInOrder
  <2>3. QED
    BY <2>1, <2>2
<1>4. BoundariesTold'
  <2>1. pc # 0
    OBVIOUS
  <2>2. trace_enabled => Cardinality(BoundariesIn(issued, Len(issued))) = ToldBefore(pc)
    BY <2>1 DEF BoundaryInv, BoundariesTold
  <2>3. ToldBefore(pc') = ToldBefore(pc)
    OBVIOUS
  <2>4. QED
    BY <1>1, <2>2, <2>3 DEF BoundariesTold, ToldBefore
<1>5. EndAfterHooks'
  <2> SUFFICES ASSUME NEW i \in BoundariesIn(issued, Len(issued)),
                      issued'[i].event = "session_end"
               PROVE  pc' \in 36 .. 40 /\ \A t \in Positions : seen[t] = Hooks
    BY <1>1 DEF EndAfterHooks, Hooks, Positions
  <2>1. issued[i].event = "session_end"
    BY <1>1, <1>2
  <2>2. (pc = 0 \/ pc \in 36 .. 40) /\ \A t \in Positions : seen[t] = Hooks
    BY <2>1 DEF BoundaryInv, EndAfterHooks
  <2>3. pc' \in 36 .. 40
    BY <2>2
  <2>4. QED
    BY <2>2, <2>3
<1>6. QED
  BY <1>3, <1>4, <1>5 DEF BoundaryInv

\* Nor does a step without an event, unless it leads past a boundary.
LEMMA NoEvent ==
  ASSUME BoundaryInv, issued' = issued, trace_enabled' = trace_enabled, pc \in 0 .. 40,
         seen' = seen \/ pc \in 1 .. 35,
         \/ pc' = 0
         \/ pc' = pc
         \/ pc \in 1 .. 39 /\ pc' = pc + 1 /\ (trace_enabled => ToldBefore(pc') = ToldBefore(pc))
  PROVE  BoundaryInv'
<1>1. BoundariesInOrder'
  BY DEF BoundaryInv, BoundariesInOrder, BoundariesIn, Boundaries, BoundaryKind
<1>2. BoundariesTold'
  <2>1. CASE pc' = 0
    BY <2>1 DEF BoundariesTold
  <2>2. CASE pc' = pc
    BY <2>2 DEF BoundaryInv, BoundariesTold, BoundariesIn, BoundaryKind, ToldBefore
  <2>3. CASE pc \in 1 .. 39 /\ pc' = pc + 1 /\ (trace_enabled => ToldBefore(pc') = ToldBefore(pc))
    <3>1. pc # 0
      BY <2>3
    <3>2. trace_enabled => Cardinality(BoundariesIn(issued, Len(issued))) = ToldBefore(pc)
      BY <3>1 DEF BoundaryInv, BoundariesTold
    <3>3. BoundariesIn(issued', Len(issued')) = BoundariesIn(issued, Len(issued))
      OBVIOUS
    <3>4. trace_enabled => Cardinality(BoundariesIn(issued', Len(issued'))) = ToldBefore(pc')
      BY <2>3, <3>2, <3>3
    <3>5. QED
      BY <3>4 DEF BoundariesTold, ToldBefore
  <2>4. QED
    BY <2>1, <2>2, <2>3
<1>3. EndAfterHooks'
  <2> SUFFICES ASSUME NEW i \in BoundariesIn(issued, Len(issued)),
                      issued[i].event = "session_end"
               PROVE  (pc' = 0 \/ pc' \in 36 .. 40) /\ \A t \in Positions : seen'[t] = Hooks
    BY DEF EndAfterHooks, Hooks, Positions, BoundariesIn, BoundaryKind
  <2>1. (pc = 0 \/ pc \in 36 .. 40) /\ \A t \in Positions : seen[t] = Hooks
    BY DEF BoundaryInv, EndAfterHooks
  <2>2. seen' = seen
    <3>1. pc \notin 1 .. 35
      BY <2>1
    <3>2. QED
      BY <3>1
  <2>3. pc' = 0 \/ pc' \in 36 .. 40
    BY <2>1
  <2>4. QED
    BY <2>1, <2>2, <2>3
<1>4. QED
  BY <1>1, <1>2, <1>3 DEF BoundaryInv

\* The next boundary, where it belongs.
LEMMA NextBoundary ==
  ASSUME BoundaryInv, SeenInv, SessionTypes, issued \in Seq(TracedEvent), seen' = seen,
         trace_enabled' = trace_enabled, trace_enabled,
         NEW e \in TracedEvent, issued' = Append(issued, e),
         pc \in 1 .. 39, pc' = pc + 1, Steps[pc].do = "emit", pc \notin {5, 18},
         e.kind = Steps[pc].kind, e.event = Steps[pc].what
  PROVE  BoundaryInv'
<1> DEFINE n == Len(issued)
           told == ToldBefore(pc)
<1>1. /\ told \in 0 .. 7 /\ ToldBefore(pc + 1) = told + 1 /\ e.kind \in BoundaryKind
      /\ e.event = Boundaries[told + 1] /\ (e.event = "session_end" <=> pc = 35)
  BY BoundaryPlaces
<1>2. /\ Cardinality(BoundariesIn(issued, n)) = told
      /\ BoundariesInOrder /\ EndAfterHooks
  <2>1. pc # 0
    BY ONLY pc \in 1 .. 39
  <2>2. QED
    BY <2>1 DEF BoundaryInv, BoundariesTold
<1>3. /\ BoundariesIn(issued', Len(issued')) = BoundariesIn(issued, n) \cup {n + 1}
      /\ Cardinality(BoundariesIn(issued', Len(issued'))) = Cardinality(BoundariesIn(issued, n)) + 1
      /\ \A i \in 1 .. n : BoundariesIn(issued', i) = BoundariesIn(issued, i)
      /\ \A i \in 1 .. n : issued'[i] = issued[i]
      /\ issued'[n + 1] = e
      /\ DOMAIN issued = 1 .. n /\ n \in Nat /\ Len(issued') = n + 1
  <2>0. \E longer : longer = Append(issued, e)
    OBVIOUS
  <2>1. PICK longer : longer = issued' /\ longer = Append(issued, e)
    BY <2>0
  <2>2. /\ BoundariesIn(longer, Len(longer)) = BoundariesIn(issued, n) \cup {Len(longer)}
        /\ Cardinality(BoundariesIn(longer, Len(longer))) = Cardinality(BoundariesIn(issued, n)) + 1
    BY <1>1, <2>1, BoundaryAdded
  <2>3. \A i \in 1 .. n : BoundariesIn(longer, i) = BoundariesIn(issued, i)
    BY <2>1, BoundariesKept
  <2>4. /\ \A i \in 1 .. n : longer[i] = issued[i]
        /\ longer[n + 1] = e
        /\ DOMAIN issued = 1 .. n /\ n \in Nat /\ Len(longer) = n + 1
    BY <2>1, OneMoreEvent
  <2>5. QED
    BY <2>1, <2>2, <2>3, <2>4
<1> HIDE DEF n, told
<1>4. \A i \in BoundariesIn(issued, n) : i \in 1 .. n
  BY <1>3 DEF BoundariesIn
<1>5. Cardinality(BoundariesIn(issued', n + 1)) = told + 1
  BY <1>2, <1>3
<1>6. ASSUME NEW i \in BoundariesIn(issued', Len(issued'))
      PROVE  LET k == Cardinality(BoundariesIn(issued', i))
             IN k <= 8 /\ issued'[i].event = Boundaries[k]
  <2>1. CASE i = n + 1
    <3>1. told + 1 <= 8
      BY <1>1
    <3>2. QED
      BY <1>1, <1>3, <1>5, <2>1, <3>1
  <2>2. CASE i \in BoundariesIn(issued, n)
    <3>1. LET k == Cardinality(BoundariesIn(issued, i))
          IN k <= 8 /\ issued[i].event = Boundaries[k]
      BY <1>2, <2>2 DEF BoundariesInOrder, n
    <3>2. QED
      BY <1>3, <1>4, <2>2, <3>1
  <2>3. QED
    BY <1>3, <2>1, <2>2
<1>7. BoundariesInOrder'
  BY <1>6 DEF BoundariesInOrder, Boundaries
<1>8. BoundariesTold'
  <2>1. ToldBefore(pc') = told + 1
    BY <1>1
  <2>2. Cardinality(BoundariesIn(issued', Len(issued'))) = ToldBefore(pc')
    BY <1>2, <1>3, <2>1
  <2>3. QED
    BY <2>2 DEF BoundariesTold, ToldBefore
<1>9. ASSUME NEW i \in BoundariesIn(issued', Len(issued')), issued'[i].event = "session_end"
      PROVE  pc' \in 36 .. 40 /\ \A t \in Positions : seen[t] = Hooks
  <2>1. CASE i = n + 1
    <3>1. pc = 35
      BY <1>1, <1>3, <1>9, <2>1
    <3>2. pc \in 35 .. 40 /\ pc' \in 36 .. 40
      BY <3>1
    <3>3. QED
      BY <3>2, AllHooks
  <2>2. CASE i \in BoundariesIn(issued, n)
    <3>1. issued[i].event = "session_end"
      BY <1>3, <1>4, <1>9, <2>2
    <3>2. (pc = 0 \/ pc \in 36 .. 40) /\ \A t \in Positions : seen[t] = Hooks
      BY <1>2, <2>2, <3>1 DEF EndAfterHooks, n
    <3>3. pc' \in 36 .. 40
      BY <3>2
    <3>4. QED
      BY <3>2, <3>3
  <2>3. QED
    BY <1>3, <2>1, <2>2
<1>10. EndAfterHooks'
  BY <1>9 DEF EndAfterHooks, Hooks, Positions
<1>11. QED
  BY <1>7, <1>8, <1>10 DEF BoundaryInv

\* Every step keeps the boundaries in order.
LEMMA BoundaryStep ==
  ASSUME BoundaryInv, SeenInv, SessionInv, [Next]_vars
  PROVE  BoundaryInv'
<1>a. /\ SessionTypes /\ Does /\ trace_enabled' = trace_enabled
      /\ pc \in 0 .. 40 /\ issued \in Seq(TracedEvent)
  <2>1. issued \in Seq(TracedEvent)
    BY ClientAssumption, T!WriterFacts
       DEF SessionInv, T!TracerInv, T!TracedEvent, TracedEvent, T!EventKind, EventKind
  <2>2. QED
    BY <2>1, StepsOf DEF SessionInv, SessionTypes, Does
<1>b. /\ Steps[15].do = "operators" /\ Steps[31].do = "subgraph_metrics"
      /\ \A i \in {13, 23, 30} : Steps[i].do = "metrics"
      /\ Steps[3].do = "tools"
  BY StepsDo
<1>c. \A i \in 1 .. 39 :
        Steps[i].do # "emit" \/ i \in {5, 18} => ToldBefore(i + 1) = ToldBefore(i)
  BY BoundaryPlaces
<1>d. "kMetric" \notin BoundaryKind /\ "kSubgraph" \notin BoundaryKind
      /\ "kDiagnostic" \notin BoundaryKind
  BY DEF BoundaryKind
<1>1. CASE Opens
  <2>1. pc' = 2 /\ issued' = << >>
    BY <1>1 DEF Opens
  <2>2. BoundariesIn(<< >>, Len(<< >>)) = {}
    BY DEF BoundariesIn
  <2>3. Cardinality({}) = 0
    BY FS_EmptySet
  <2>4. ToldBefore(2) = 0
    BY DEF ToldBefore
  <2>5. BoundariesIn(issued', Len(issued')) = {} /\ ToldBefore(pc') = 0
    BY <2>1, <2>2, <2>4
  <2>6. BoundariesInOrder' /\ EndAfterHooks'
    BY <2>5 DEF BoundariesInOrder, EndAfterHooks
  <2>7. BoundariesTold'
    BY <2>3, <2>5 DEF BoundariesTold
  <2>8. QED
    BY <2>6, <2>7 DEF BoundaryInv
<1>2. ASSUME NEW e, Emits(e)
      PROVE  BoundaryInv'
  <2>1. /\ pc \in 1 .. 39 /\ trace_enabled /\ e \in TracedEvent
        /\ issued' = Append(issued, e) /\ seen' = seen
    BY <1>2 DEF Emits, Still
  <2>2. CASE /\ Steps[pc].do = "emit" /\ pc' = pc + 1
             /\ e.kind = Steps[pc].kind /\ e.event = Steps[pc].what
    <3>1. CASE pc \notin {5, 18}
      BY <1>a, <2>1, <2>2, <3>1, NextBoundary
    <3>2. CASE pc \in {5, 18}
      <4>1. e.kind = "kDiagnostic" /\ ToldBefore(pc') = ToldBefore(pc)
        BY <2>1, <2>2, <3>2, BoundaryPlaces
      <4>2. QED
        BY <1>a, <1>d, <2>1, <2>2, <4>1, OtherEvent
    <3>3. QED
      BY <3>1, <3>2
  <2>3. CASE /\ pc \in {13, 15, 23, 30, 31} /\ e.kind \in {"kSubgraph", "kMetric"}
             /\ pc' = pc \/ pc' = pc + 1
    <3>1. e.kind \notin BoundaryKind
      BY <1>d, <2>3
    <3>2. Steps[pc].do # "emit"
      BY <1>b, <2>3
    <3>3. pc' = pc + 1 => ToldBefore(pc') = ToldBefore(pc)
      BY <1>c, <2>1, <3>2
    <3>4. QED
      BY <1>a, <2>1, <2>3, <3>1, <3>3, OtherEvent
  <2>4. \/ /\ Steps[pc].do = "emit" /\ pc' = pc + 1
           /\ e.kind = Steps[pc].kind /\ e.event = Steps[pc].what
        \/ /\ pc \in {13, 15, 23, 30, 31} /\ e.kind \in {"kSubgraph", "kMetric"}
           /\ pc' = pc \/ pc' = pc + 1
    BY <1>2 DEF Emits
  <2>5. QED
    BY <2>2, <2>3, <2>4
<1>3. CASE Samples
  <2>1. pc \in {13, 23, 30} /\ pc' = pc + 1 /\ issued' = issued /\ seen' = seen
    BY <1>3 DEF Samples, Still
  <2>2. pc \in 1 .. 39 /\ Steps[pc].do # "emit"
    BY <1>b, <2>1
  <2>3. ToldBefore(pc') = ToldBefore(pc)
    BY <1>c, <2>1, <2>2
  <2>4. QED
    BY <1>a, <2>1, <2>2, <2>3, NoEvent
<1>4. ASSUME NEW e, Sampled(e)
      PROVE  BoundaryInv'
  <2>1. /\ pc \in 1 .. 39 /\ pc' = pc /\ e \in TracedEvent /\ e.kind = "kMetric"
        /\ issued' = Append(issued, e) /\ seen' = seen
    BY <1>4 DEF Sampled, Still
  <2>2. QED
    BY <1>a, <1>d, <2>1, OtherEvent
<1>5. ASSUME NEW t, Called(t)
      PROVE  BoundaryInv'
  <2>1. /\ pc \in 1 .. 39 /\ Steps[pc].do = "hook" /\ issued' = issued
        /\ pc' = pc \/ pc' = pc + 1 \/ pc' = 0
    BY <1>5 DEF Called
  <2>2. pc \in 1 .. 35 /\ Steps[pc].do # "emit"
    BY <2>1, StepsDo
  <2>3. pc' = pc + 1 => ToldBefore(pc') = ToldBefore(pc)
    BY <1>c, <2>1, <2>2
  <2>4. QED
    BY <1>a, <2>1, <2>2, <2>3, NoEvent
<1>6. CASE Fetches
  <2>1. pc = 3 /\ pc' = pc + 1 /\ issued' = issued /\ seen' = seen
    BY <1>6 DEF Fetches
  <2>2. pc \in 1 .. 39 /\ ToldBefore(pc') = ToldBefore(pc)
    BY <1>b, <1>c, <2>1
  <2>3. QED
    BY <1>a, <2>1, <2>2, NoEvent
<1>7. CASE Passes
  <2>1. /\ pc \in 1 .. 39 /\ pc' = pc + 1 /\ issued' = issued /\ seen' = seen
        /\ trace_enabled /\ Steps[pc].do = "emit" => pc = 18
    BY <1>7 DEF Passes
  <2>2. trace_enabled => ToldBefore(pc') = ToldBefore(pc)
    BY <1>c, <2>1
  <2>3. QED
    BY <1>a, <2>1, <2>2, NoEvent
<1>8. CASE Returns
  <2>1. pc' = 0 /\ issued' = issued /\ seen' = seen
    BY <1>8 DEF Returns
  <2>2. QED
    BY <1>a, <2>1, NoEvent
<1>9. CASE Rests
  <2>1. pc' = pc /\ issued' = issued /\ seen' = seen
    BY <1>9 DEF Rests, Still
  <2>2. QED
    BY <1>a, <2>1, NoEvent
<1>10. QED
  BY <1>a, <1>1, <1>2, <1>3, <1>4, <1>5, <1>6, <1>7, <1>8, <1>9 DEF Does

\* The trace of every session tells its stages in order, and shows its end only
\* when every tool has been through its last hook: what is in the file is the
\* beginning of what was emitted.
THEOREM TraceIsTrue == Spec => []TraceTellsSession
<1>1. Init => BoundaryInv
  <2> SUFFICES ASSUME Init
               PROVE  BoundaryInv
    OBVIOUS
  <2>1. pc = 1 /\ issued = << >>
    BY DEF Init, TracerInit, Buf!Fresh
  <2>2. BoundariesIn(issued, Len(issued)) = {}
    BY <2>1 DEF BoundariesIn
  <2>3. Cardinality({}) = 0 /\ ToldBefore(1) = 0
    BY FS_EmptySet DEF ToldBefore
  <2>4. QED
    BY <2>1, <2>2, <2>3 DEF BoundaryInv, BoundariesInOrder, BoundariesTold, EndAfterHooks
<1>2. BoundaryInv /\ SeenInv /\ SessionInv /\ [Next]_vars => BoundaryInv'
  BY BoundaryStep
<1>3. BoundaryInv /\ SessionInv => TraceTellsSession
  <2> SUFFICES ASSUME BoundaryInv, SessionInv
               PROVE  TraceTellsSession
    OBVIOUS
  <2>1. /\ Len(file) \in Nat /\ Len(issued) \in Nat /\ Len(file) <= Len(issued)
        /\ \A i \in 1 .. Len(file) :
             file[i] = issued[i] /\ BoundariesIn(file, i) = BoundariesIn(issued, i)
    BY FileFirst DEF SessionInv, T!TracerInv
  <2>2. DOMAIN file = 1 .. Len(file) /\ DOMAIN issued = 1 .. Len(issued)
    <3>1. file \in Seq(TracedEvent) /\ issued \in Seq(TracedEvent)
      BY ClientAssumption, T!WriterFacts
         DEF SessionInv, T!TracerInv, T!TracedEvent, TracedEvent, T!EventKind, EventKind
    <3>2. QED
      BY <3>1, LenProperties
  <2>3. ASSUME NEW i \in BoundariesIn(file, Len(file))
        PROVE  /\ i \in 1 .. Len(file) /\ i \in BoundariesIn(issued, Len(issued))
               /\ file[i] = issued[i] /\ BoundariesIn(file, i) = BoundariesIn(issued, i)
    <3>1. i \in 1 .. Len(file) /\ file[i].kind \in BoundaryKind
      BY <2>2 DEF BoundariesIn
    <3>2. i \in 1 .. Len(issued) /\ i <= Len(issued)
      BY <2>1, <3>1
    <3>3. QED
      BY <2>1, <2>2, <3>1, <3>2 DEF BoundariesIn
  <2>4. Len(Boundaries) = 8
    BY DEF Boundaries
  <2>5. ASSUME NEW i \in BoundariesIn(file, Len(file))
        PROVE  LET n == Cardinality(BoundariesIn(file, i))
               IN n <= Len(Boundaries) /\ file[i].event = Boundaries[n]
    <3>1. LET n == Cardinality(BoundariesIn(issued, i))
          IN n <= 8 /\ issued[i].event = Boundaries[n]
      BY <2>3 DEF BoundaryInv, BoundariesInOrder
    <3>2. QED
      BY <2>3, <2>4, <3>1
  <2>6. ASSUME NEW i \in BoundariesIn(file, Len(file)), file[i].event = "session_end"
        PROVE  \A t \in Positions : seen[t] = Hooks
    BY <2>3, <2>6 DEF BoundaryInv, EndAfterHooks
  <2>7. QED
    BY <2>5, <2>6 DEF TraceTellsSession
<1>4. QED
  BY <1>1, <1>2, <1>3, SessionInvariant, SeenInvariant, PTL DEF Spec
-----------------------------------------------------------------------------
(* Completeness: the operators, the metrics and the end are all in the trace. *)

IsOperator(e) == e.kind = "kSubgraph" /\ e.event = "operator"

OperatorsIn(trace) == Count("kSubgraph", "operator", trace)

Operators == OperatorsIn(issued)

\* From the loop over the operators on, those it has been through.
OperatorsTold ==
  pc # 0 /\ trace_enabled =>
    Operators = IF pc <= 14 THEN 0 ELSE IF pc = 15 THEN turn ELSE op_count

\* A metric is in the trace, or its turn in the loop is yet to come.
Told(m) ==
  \/ \E k \in 1 .. Len(samples) : samples[k] = m
  \/ \E i \in 1 .. Len(issued) : issued[i].kind = "kMetric" /\ issued[i].event = m

ToldAll(batch) == \A k \in 1 .. Len(batch) : Told(batch[k])

\* At kFull, those of the compilation from step 14 on; those of the run, which
\* are told twice, from the second time on.
MetricsTold ==
  trace_enabled /\ detail = "kFull" =>
    /\ pc \in 14 .. 40 => ToldAll(compile_metrics)
    /\ pc \in 31 .. 40 => ToldAll(runtime_metrics)

LevelSet == trace_enabled /\ pc \in 2 .. 40 => detail_level = detail

EndTold ==
  trace_enabled /\ pc \in 36 .. 40 =>
    Len(issued) > 0 /\ issued[Len(issued)].event = "session_end"

StreamDone == trace_enabled /\ pc = 40 => stream \in {"closed", "unopened"}

CompleteInv == OperatorsTold /\ MetricsTold /\ LevelSet /\ EndTold /\ StreamDone

\* The trace and the batches are sequences of their kinds; what every step may
\* use about where the session is.
LEMMA StepFacts ==
  ASSUME SessionInv, [Next]_vars
  PROVE  /\ Does /\ trace_enabled' = trace_enabled /\ detail' = detail
         /\ pc \in 0 .. 40 /\ turn \in Nat /\ trace_enabled \in BOOLEAN
         /\ issued \in Seq(TracedEvent) /\ samples \in Seq(Name)
         /\ compile_metrics \in Seq(Name) /\ runtime_metrics \in Seq(Name)
         /\ samples # << >> => pc \in 14 .. 31
<1>1. issued \in Seq(TracedEvent)
  BY ClientAssumption, T!WriterFacts
     DEF SessionInv, T!TracerInv, T!TracedEvent, TracedEvent, T!EventKind, EventKind
<1>2. samples \in Seq(Name)
  BY DEF SessionInv, T!TracerInv, T!TracerTypes
<1>3. Does
  BY StepsOf
<1>4. QED
  BY <1>1, <1>2, <1>3 DEF SessionInv, SessionTypes, WriterInScope, Does

\* One more event is one more operator, or none.
LEMMA OperatorAdded ==
  ASSUME NEW trace \in Seq(TracedEvent), NEW e \in TracedEvent, NEW longer,
         longer = Append(trace, e)
  PROVE  /\ OperatorsIn(trace) \in Nat
         /\ OperatorsIn(longer) = IF IsOperator(e) THEN OperatorsIn(trace) + 1
                                                   ELSE OperatorsIn(trace)
<1> DEFINE n == Len(trace)
           counted(t) == {i \in DOMAIN t : IsOperator(t[i])}
<1>1. /\ n \in Nat /\ DOMAIN trace = 1 .. n /\ DOMAIN longer = 1 .. n + 1
      /\ \A i \in 1 .. n : longer[i] = trace[i]
      /\ longer[n + 1] = e
  BY OneMoreEvent
<1> HIDE DEF n
<1>2. \A j \in 1 .. n + 1 : (j \in 1 .. n /\ longer[j] = trace[j]) \/ (j = n + 1 /\ longer[j] = e)
  <2>1. \A j \in 1 .. n + 1 : j \in 1 .. n \/ j = n + 1
    BY <1>1
  <2>2. QED
    BY <1>1, <2>1
<1>3. \A j \in 1 .. n : j \in 1 .. n + 1 /\ j # n + 1
  BY <1>1
<1>4. n + 1 \in 1 .. n + 1
  BY <1>1
<1>5. /\ (IsOperator(e) => counted(longer) = counted(trace) \cup {n + 1})
      /\ (~IsOperator(e) => counted(longer) = counted(trace))
      /\ n + 1 \notin counted(trace)
  BY <1>1, <1>2, <1>3, <1>4
<1>6. IsFiniteSet(counted(trace)) /\ Cardinality(counted(trace)) \in Nat
  <2>1. IsFiniteSet(1 .. n) /\ counted(trace) \subseteq 1 .. n
    BY <1>1, FS_Interval
  <2>2. QED
    BY <2>1, FS_Subset, FS_CardinalityType
<1> HIDE DEF counted
<1>7. Cardinality(counted(longer)) = IF IsOperator(e) THEN Cardinality(counted(trace)) + 1
                                                      ELSE Cardinality(counted(trace))
  BY <1>5, <1>6, FS_AddElement
<1>8. QED
  BY <1>6, <1>7 DEF OperatorsIn, IsOperator, Count, counted

\* The same of the trace of a session.
LEMMA OperatorCounted ==
  ASSUME issued \in Seq(TracedEvent), NEW e \in TracedEvent, issued' = Append(issued, e)
  PROVE  /\ Operators \in Nat
         /\ Operators' = IF IsOperator(e) THEN Operators + 1 ELSE Operators
<1>1. \E longer : longer = Append(issued, e)
  OBVIOUS
<1>2. PICK longer : longer = issued' /\ longer = Append(issued, e)
  BY <1>1
<1>3. /\ OperatorsIn(issued) \in Nat
      /\ OperatorsIn(longer) = IF IsOperator(e) THEN OperatorsIn(issued) + 1
                                                ELSE OperatorsIn(issued)
  BY <1>2, OperatorAdded
<1>4. QED
  BY <1>2, <1>3 DEF Operators

\* Every step tells of the operators as they come.
LEMMA OperatorsStep ==
  ASSUME OperatorsTold, SessionInv, [Next]_vars
  PROVE  OperatorsTold'
<1>a. /\ Does /\ trace_enabled' = trace_enabled /\ trace_enabled \in BOOLEAN
      /\ pc \in 0 .. 40 /\ turn \in Nat /\ issued \in Seq(TracedEvent)
  BY StepFacts
<1>b. /\ Steps[15].do = "operators" /\ \A i \in {14, 15} : Steps[i].do # "hook"
      /\ Steps[14].do = "emit" /\ \A i \in {13, 23, 30} : Steps[i].do = "metrics"
  BY StepsDo
<1> SUFFICES ASSUME pc' # 0, trace_enabled
             PROVE  Operators' = IF pc' <= 14 THEN 0 ELSE IF pc' = 15 THEN turn' ELSE op_count'
  BY <1>a DEF OperatorsTold
<1>1. CASE Opens
  <2>1. issued' = << >> /\ pc' = 2
    BY <1>1 DEF Opens
  <2>2. Count("kSubgraph", "operator", << >>) = 0
    BY FS_EmptySet DEF Count
  <2>3. Operators' = 0
    BY <2>1, <2>2 DEF Operators, OperatorsIn
  <2>4. QED
    BY <2>1, <2>3
<1>2. ASSUME NEW e, Emits(e)
      PROVE  Operators' = IF pc' <= 14 THEN 0 ELSE IF pc' = 15 THEN turn' ELSE op_count'
  <2>1. /\ pc \in 1 .. 39 /\ e \in TracedEvent /\ issued' = Append(issued, e)
        /\ op_count' = op_count
    BY <1>2 DEF Emits, Still
  <2>2. /\ Operators' = IF IsOperator(e) THEN Operators + 1 ELSE Operators
        /\ Operators = IF pc <= 14 THEN 0 ELSE IF pc = 15 THEN turn ELSE op_count
    <3>1. pc # 0
      BY <2>1
    <3>2. QED
      BY <1>a, <2>1, <3>1, OperatorCounted DEF OperatorsTold
  <2>3. CASE /\ Steps[pc].do = "emit" /\ pc' = pc + 1 /\ turn' = 0
             /\ e.kind = Steps[pc].kind
    <3>1. e.kind # "kSubgraph"
      BY <2>1, <2>3, BoundaryPlaces DEF BoundaryKind
    <3>2. pc # 15
      BY <1>b, <2>3
    <3>3. Operators' = Operators
      BY <2>2, <3>1 DEF IsOperator
    <3>4. QED
      BY <2>1, <2>2, <2>3, <3>2, <3>3
  <2>4. CASE /\ pc = 15 /\ e.kind = "kSubgraph" /\ e.event = "operator"
             /\ \/ pc' = 15 /\ turn' = turn + 1
                \/ pc' = 16 /\ turn' = 0 /\ op_count = turn + 1
    <3>1. Operators' = turn + 1
      BY <2>2, <2>4 DEF IsOperator
    <3>2. QED
      BY <2>1, <2>4, <3>1
  <2>5. CASE /\ pc = 31 /\ e.event = "subgraph_metric"
             /\ pc' = 31 \/ pc' = 32
    BY <2>1, <2>2, <2>5 DEF IsOperator
  <2>6. CASE pc \in {13, 23, 30} /\ pc' = pc + 1 /\ e.kind = "kMetric"
    BY <2>1, <2>2, <2>6 DEF IsOperator
  <2>7. QED
    BY <1>2, <2>3, <2>4, <2>5, <2>6 DEF Emits
<1>3. CASE Samples
  BY <1>a, <1>3 DEF Samples, Still, OperatorsTold, Operators
<1>4. ASSUME NEW e, Sampled(e)
      PROVE  Operators' = IF pc' <= 14 THEN 0 ELSE IF pc' = 15 THEN turn' ELSE op_count'
  <2>1. /\ pc' = pc /\ turn' = turn /\ op_count' = op_count /\ pc # 0
        /\ e \in TracedEvent /\ e.kind = "kMetric" /\ issued' = Append(issued, e)
    BY <1>4 DEF Sampled, Still
  <2>2. Operators' = Operators
    BY <1>a, <2>1, OperatorCounted DEF IsOperator
  <2>3. QED
    BY <2>1, <2>2 DEF OperatorsTold
<1>5. ASSUME NEW t, Called(t)
      PROVE  Operators' = IF pc' <= 14 THEN 0 ELSE IF pc' = 15 THEN turn' ELSE op_count'
  <2>1. /\ pc \in 1 .. 39 /\ Steps[pc].do = "hook" /\ issued' = issued /\ op_count' = op_count
        /\ pc' = pc \/ pc' = pc + 1
    BY <1>5 DEF Called
  <2>2. pc \notin {14, 15} /\ pc # 0
    BY <1>b, <2>1
  <2>3. Operators' = Operators
    BY <2>1 DEF Operators
  <2>4. Operators = IF pc <= 14 THEN 0 ELSE IF pc = 15 THEN turn ELSE op_count
    BY <2>2 DEF OperatorsTold
  <2>5. QED
    BY <2>1, <2>2, <2>3, <2>4
<1>6. CASE Fetches
  BY <1>a, <1>6 DEF Fetches, OperatorsTold, Operators
<1>7. CASE Passes
  <2>1. /\ pc \in 1 .. 39 /\ pc' = pc + 1 /\ turn' = 0 /\ issued' = issued
        /\ pc = 15 => op_count = 0 /\ turn = 0
        /\ pc # 12 => op_count' = op_count
    BY <1>7 DEF Passes
  <2>2. pc # 14
    BY <1>7, <1>b DEF Passes
  <2>3. Operators' = Operators /\ pc # 0
    BY <2>1 DEF Operators
  <2>4. Operators = IF pc <= 14 THEN 0 ELSE IF pc = 15 THEN turn ELSE op_count
    BY <2>3 DEF OperatorsTold
  <2>5. CASE pc \in 1 .. 13
    <3>1. pc' <= 14
      BY <2>1, <2>5
    <3>2. Operators = 0
      BY <2>4, <2>5
    <3>3. QED
      BY <2>3, <3>1, <3>2
  <2>6. CASE pc = 15
    <3>1. op_count' = op_count /\ op_count = 0 /\ turn = 0
      BY <2>1, <2>6
    <3>2. Operators' = turn
      BY <2>3, <2>4, <2>6
    <3>3. pc' = 16
      BY <2>1, <2>6
    <3>4. Operators' = op_count'
      BY <3>1, <3>2
    <3>5. QED
      BY <3>3, <3>4
  <2>7. CASE pc \in 16 .. 39
    <3>1. op_count' = op_count
      BY <2>1, <2>7
    <3>2. Operators' = op_count
      BY <2>3, <2>4, <2>7
    <3>3. pc' \in 17 .. 40
      BY <2>1, <2>7
    <3>4. Operators' = op_count'
      BY <3>1, <3>2
    <3>5. QED
      BY <3>3, <3>4
  <2>8. QED
    BY <2>1, <2>2, <2>5, <2>6, <2>7
<1>8. CASE Returns
  BY <1>8 DEF Returns
<1>9. CASE Rests
  BY <1>9 DEF Rests, Still, OperatorsTold, Operators
<1>10. QED
  BY <1>a, <1>1, <1>2, <1>3, <1>4, <1>5, <1>6, <1>7, <1>8, <1>9 DEF Does

\* What is in the trace stays there.
LEMMA ToldAppended ==
  ASSUME issued \in Seq(TracedEvent), NEW e \in TracedEvent, issued' = Append(issued, e),
         samples' = samples, NEW m, Told(m)
  PROVE  Told(m)'
<1>1. \E longer : longer = Append(issued, e)
  OBVIOUS
<1>2. PICK longer : longer = issued' /\ longer = Append(issued, e)
  BY <1>1
<1>3. /\ Len(issued) \in Nat /\ Len(longer) = Len(issued) + 1
      /\ \A i \in 1 .. Len(issued) : longer[i] = issued[i]
  BY <1>2, OneMoreEvent
<1>4. \A i \in 1 .. Len(issued) : i \in 1 .. Len(longer)
  BY <1>3
<1>5. QED
  BY <1>2, <1>3, <1>4 DEF Told

\* A metric leaves the loop for the trace.
LEMMA ToldSampled ==
  ASSUME issued \in Seq(TracedEvent), NEW e \in TracedEvent, issued' = Append(issued, e),
         samples \in Seq(Name), samples # << >>, samples' = Tail(samples),
         e.kind = "kMetric", e.event = Head(samples), NEW m, Told(m)
  PROVE  Told(m)'
<1>1. \E longer : longer = Append(issued, e)
  OBVIOUS
<1>2. PICK longer : longer = issued' /\ longer = Append(issued, e)
  BY <1>1
<1>3. /\ Len(issued) \in Nat /\ Len(longer) = Len(issued) + 1
      /\ \A i \in 1 .. Len(issued) : longer[i] = issued[i]
      /\ longer[Len(issued) + 1] = e
  BY <1>2, OneMoreEvent
<1>4. \A i \in 1 .. Len(issued) + 1 : i \in 1 .. Len(longer)
  BY <1>3
<1>5. CASE \E i \in 1 .. Len(issued) : issued[i].kind = "kMetric" /\ issued[i].event = m
  <2>1. \A i \in 1 .. Len(issued) : i \in 1 .. Len(longer)
    BY <1>3
  <2>2. QED
    BY <1>2, <1>3, <1>5, <2>1 DEF Told
<1>6. CASE \E k \in 1 .. Len(samples) : samples[k] = m
  <2>1. PICK k \in 1 .. Len(samples) : samples[k] = m
    BY <1>6
  <2>2. CASE k = 1
    <3>1. e.event = m
      BY <2>1, <2>2, HeadTailProperties
    <3>2. Len(issued) + 1 \in 1 .. Len(longer)
      BY <1>3
    <3>3. QED
      BY <1>2, <1>3, <3>1, <3>2 DEF Told
  <2>3. CASE k # 1
    <3>1. PICK rest : rest = Tail(samples)
      OBVIOUS
    <3>2. /\ Len(samples) \in Nat /\ Len(rest) = Len(samples) - 1
          /\ \A i \in 1 .. Len(rest) : rest[i] = samples[i + 1]
      BY <3>1, HeadTailProperties, LenProperties
    <3>3. k - 1 \in 1 .. Len(rest) /\ k - 1 + 1 = k
      BY <2>3, <3>2
    <3>4. rest[k - 1] = m
      BY <2>1, <3>2, <3>3
    <3>5. rest = samples'
      BY <3>1
    <3>6. QED
      BY <3>3, <3>4, <3>5 DEF Told
  <2>4. QED
    BY <2>2, <2>3
<1>7. QED
  BY <1>5, <1>6 DEF Told

\* What was told stays told, unless the trace is opened or given up.
LEMMA ToldStep ==
  ASSUME SessionInv, [Next]_vars, pc' \notin {0, 2}, NEW m, Told(m)
  PROVE  Told(m)'
<1>a. Does /\ issued \in Seq(TracedEvent) /\ samples \in Seq(Name)
  BY StepFacts
<1>1. ASSUME NEW e, Emits(e)
      PROVE  Told(m)'
  <2>1. e \in TracedEvent /\ issued' = Append(issued, e) /\ samples' = samples
    BY <1>1 DEF Emits
  <2>2. QED
    BY <1>a, <2>1, ToldAppended
<1>2. CASE Samples
  <2>1. issued' = issued /\ samples = << >>
    BY <1>2 DEF Samples
  <2>2. QED
    BY <2>1 DEF Told
<1>3. ASSUME NEW e, Sampled(e)
      PROVE  Told(m)'
  BY <1>a, <1>3, ToldSampled DEF Sampled
<1>4. CASE (\E t : Called(t)) \/ Fetches \/ Passes \/ Rests
  <2>1. issued' = issued /\ samples' = samples
    BY <1>4 DEF Called, Fetches, Passes, Rests
  <2>2. QED
    BY <2>1 DEF Told
<1>5. ~Opens /\ ~Returns
  BY DEF Opens, Returns
<1>6. QED
  BY <1>a, <1>1, <1>2, <1>3, <1>4, <1>5 DEF Does

\* The level of the trace is that of the run.
LEMMA LevelStep ==
  ASSUME LevelSet, SessionInv, [Next]_vars
  PROVE  LevelSet'
<1>1. Does /\ trace_enabled' = trace_enabled /\ detail' = detail /\ pc \in 0 .. 40
  BY StepFacts
<1>2. CASE Opens
  BY <1>1, <1>2 DEF Opens, LevelSet
<1>3. CASE \/ (\E e : Emits(e)) \/ Samples \/ (\E e : Sampled(e))
           \/ (\E t : Called(t)) \/ Fetches \/ Passes \/ Rests
  <2>1. detail_level' = detail_level
    BY <1>3 DEF Emits, Samples, Sampled, Called, Fetches, Passes, Rests
  <2>2. trace_enabled /\ pc' \in 2 .. 40 => pc \in 2 .. 40
    <3>1. pc' = pc \/ pc' = pc + 1 \/ pc' = 0
      BY <1>3 DEF Emits, Samples, Sampled, Called, Fetches, Passes, Rests
    <3>2. trace_enabled /\ pc' # pc => pc # 1
      <4>1. Steps[1].do = "open"
        BY StepsDo
      <4>2. CASE (\E e : Emits(e)) \/ (\E t : Called(t))
        <5>1. Steps[pc].do \in {"emit", "hook"} \/ pc \in {13, 15, 23, 30, 31}
          BY <4>2 DEF Emits, Called
        <5>2. QED
          BY <4>1, <5>1
      <4>3. CASE Samples \/ Fetches \/ Rests \/ (\E e : Sampled(e))
        BY <4>3 DEF Samples, Fetches, Rests, Sampled
      <4>4. CASE Passes
        BY <4>1, <4>4 DEF Passes
      <4>5. QED
        BY <1>3, <4>2, <4>3, <4>4
    <3>3. QED
      BY <1>1, <3>1, <3>2
  <2>3. QED
    BY <1>1, <2>1, <2>2 DEF LevelSet
<1>4. CASE Returns
  BY <1>4 DEF Returns, LevelSet
<1>5. QED
  BY <1>1, <1>2, <1>3, <1>4 DEF Does

\* The metrics of the compilation and those of the run are told after they are
\* there, from the steps where the loops over them begin.
LEMMA MetricsStepTold ==
  ASSUME MetricsTold, LevelSet, SessionInv, [Next]_vars
  PROVE  MetricsTold'
<1>a. /\ Does /\ trace_enabled' = trace_enabled /\ detail' = detail /\ pc \in 0 .. 40
      /\ compile_metrics \in Seq(Name) /\ runtime_metrics \in Seq(Name)
  BY StepFacts
<1>b. /\ Steps[13].do = "metrics" /\ Steps[30].do = "metrics"
      /\ Steps[13].what = "compile" /\ Steps[30].what = "runtime"
  BY DEF Steps, SetupSteps, CompileSteps, LoadSteps, RunSteps, EndSteps,
         Step, Adapter, Hook, Event, Metrics
<1>1. SUFFICES ASSUME trace_enabled, detail = "kFull", pc' \in 14 .. 40
               PROVE  /\ ToldAll(compile_metrics)'
                      /\ (pc' \in 31 .. 40 => ToldAll(runtime_metrics)')
  BY <1>a DEF MetricsTold
<1>2. ASSUME NEW batch, ToldAll(batch) \/ samples' = batch
      PROVE  ToldAll(batch)'
  <2>1. CASE ToldAll(batch)
    <3>1. ASSUME NEW k \in 1 .. Len(batch)
          PROVE  Told(batch[k])'
      <4>1. PICK m : m = batch[k]
        OBVIOUS
      <4>2. Told(m)
        BY <2>1, <4>1 DEF ToldAll
      <4>3. Told(m)'
        BY <1>1, <4>2, ToldStep
      <4>4. QED
        BY <4>1, <4>3
    <3>2. QED
      BY <3>1 DEF ToldAll
  <2>2. CASE samples' = batch
    BY <2>2 DEF ToldAll, Told
  <2>3. QED
    BY <1>2, <2>1, <2>2
<1>3. pc \in 13 .. 40 /\ detail_level = detail /\ (pc' = pc \/ pc' = pc + 1)
  <2>1. pc' = pc \/ pc' = pc + 1
    BY <1>a, <1>1 DEF Does, Opens, Emits, Samples, Sampled, Called, Fetches, Passes, Returns, Rests
  <2>2. pc \in 13 .. 40
    BY <1>a, <1>1, <2>1
  <2>3. QED
    BY <1>1, <2>1, <2>2 DEF LevelSet
<1>4. /\ compile_metrics' = compile_metrics
      /\ (pc' \in 31 .. 40 => runtime_metrics' = runtime_metrics)
  <2>1. CASE Passes
    <3>1. pc # 12 /\ (pc' \in 31 .. 40 => pc \notin {22, 29})
      <4>1. pc \in 13 .. 40 /\ pc' = pc + 1
        BY <1>3, <2>1 DEF Passes
      <4>2. QED
        BY <4>1
    <3>2. compile_metrics' = compile_metrics
      BY <2>1, <3>1 DEF Passes
    <3>3. pc' \in 31 .. 40 => runtime_metrics' = runtime_metrics
      BY <2>1, <3>1 DEF Passes
    <3>4. QED
      BY <3>2, <3>3
  <2>2. CASE ~Passes
    BY <1>a, <1>1, <2>2 DEF Does, Opens, Emits, Samples, Sampled, Called, Fetches, Returns, Rests, Still
  <2>3. QED
    BY <2>1, <2>2
<1>5. pc \in {13, 30} /\ pc' = pc + 1
        => Samples /\ samples' = IF Steps[pc].what = "compile" THEN compile_metrics
                                                               ELSE runtime_metrics
  <2> SUFFICES ASSUME pc \in {13, 30}, pc' = pc + 1
               PROVE  Samples /\ samples' = IF Steps[pc].what = "compile" THEN compile_metrics
                                                                          ELSE runtime_metrics
    OBVIOUS
  <2>1. Steps[pc].do = "metrics" /\ detail_level = "kFull"
    BY <1>b, <1>1, <1>3
  <2>2. ~Opens /\ ~Fetches /\ ~Returns /\ ~Rests
    BY <1>a DEF Opens, Fetches, Returns, Rests
  <2>3. ~Passes /\ ~(\E t : Called(t))
    BY <1>1, <2>1 DEF Passes, Called
  <2>4. ~(\E e : Emits(e)) /\ ~(\E e : Sampled(e))
    BY <1>1, <2>1 DEF Emits, Sampled
  <2>5. Samples
    BY <1>a, <2>2, <2>3, <2>4 DEF Does
  <2>6. QED
    BY <2>1, <2>5 DEF Samples
<1>6. ToldAll(compile_metrics)'
  <2>1. PICK batch : batch = compile_metrics
    OBVIOUS
  <2>2. CASE pc = 13
    <3>1. samples' = batch
      BY <1>b, <1>1, <1>3, <1>5, <2>1, <2>2
    <3>2. QED
      BY <1>2, <1>4, <2>1, <3>1 DEF ToldAll
  <2>3. CASE pc \in 14 .. 40
    <3>1. ToldAll(batch)
      BY <1>1, <2>1, <2>3 DEF MetricsTold
    <3>2. QED
      BY <1>2, <1>4, <2>1, <3>1 DEF ToldAll
  <2>4. QED
    BY <1>3, <2>2, <2>3
<1>7. ASSUME pc' \in 31 .. 40
      PROVE  ToldAll(runtime_metrics)'
  <2>1. PICK batch : batch = runtime_metrics
    OBVIOUS
  <2>2. CASE pc = 30
    <3>1. pc' = pc + 1
      BY <1>3, <1>7, <2>2
    <3>2. samples' = batch
      BY <1>b, <1>5, <2>1, <2>2, <3>1
    <3>3. QED
      BY <1>2, <1>4, <1>7, <2>1, <3>2 DEF ToldAll
  <2>3. CASE pc \in 31 .. 40
    <3>1. ToldAll(batch)
      BY <1>1, <2>1, <2>3 DEF MetricsTold
    <3>2. QED
      BY <1>2, <1>4, <1>7, <2>1, <3>1 DEF ToldAll
  <2>4. QED
    BY <1>3, <1>7, <2>2, <2>3
<1>8. QED
  BY <1>6, <1>7

\* Once session_end is in the trace it is the last event.
LEMMA EndStepTold ==
  ASSUME EndTold, SessionInv, [Next]_vars
  PROVE  EndTold'
<1>a. /\ Does /\ trace_enabled' = trace_enabled /\ pc \in 0 .. 40
      /\ issued \in Seq(TracedEvent)
  BY StepFacts
<1>b. /\ \A i \in 36 .. 39 : Steps[i].do # "emit"
      /\ Steps[35].do = "emit" /\ Steps[35].what = "session_end"
  <2>1. Steps[35].what = "session_end"
    BY DEF Steps, SetupSteps, CompileSteps, LoadSteps, RunSteps, EndSteps,
           Step, Adapter, Hook, Event, Metrics
  <2>2. QED
    BY <2>1, StepsDo
<1>1. SUFFICES ASSUME trace_enabled, pc' \in 36 .. 40
               PROVE  Len(issued') > 0 /\ issued'[Len(issued')].event = "session_end"
  BY <1>a DEF EndTold
<1>2. pc \in 35 .. 40 /\ (pc = 35 => pc' = pc + 1)
  <2>1. pc' = pc \/ pc' = pc + 1
    BY <1>a, <1>1 DEF Does, Opens, Emits, Samples, Sampled, Called, Fetches, Passes, Returns, Rests
  <2>2. QED
    BY <1>a, <1>1, <2>1
<1>3. CASE pc = 35
  <2>1. \E e : Emits(e)
    <3>1. ~Opens /\ ~Fetches /\ ~Returns /\ ~Rests /\ ~Samples /\ ~(\E e : Sampled(e))
      BY <1>2, <1>3 DEF Opens, Fetches, Returns, Rests, Samples, Sampled
    <3>2. ~Passes /\ ~(\E t : Called(t))
      BY <1>b, <1>1, <1>3 DEF Passes, Called
    <3>3. QED
      BY <1>a, <3>1, <3>2 DEF Does
  <2>2. PICK e \in TracedEvent : issued' = Append(issued, e) /\ e.event = "session_end"
    BY <1>b, <1>3, <2>1 DEF Emits
  <2>3. PICK longer : longer = Append(issued, e)
    OBVIOUS
  <2>4. Len(longer) > 0 /\ longer[Len(longer)] = e
    BY <1>a, <2>3, OneMoreEvent
  <2>5. longer = issued'
    BY <2>2, <2>3
  <2>6. QED
    BY <2>2, <2>4, <2>5
<1>4. CASE pc \in 36 .. 40
  <2>1. issued' = issued
    <3>1. ~(\E e : Emits(e))
      BY <1>b, <1>4 DEF Emits
    <3>2. ~Opens /\ ~(\E e : Sampled(e))
      BY <1>4 DEF Opens, Sampled
    <3>3. QED
      BY <1>a, <3>1, <3>2 DEF Does, Samples, Called, Fetches, Passes, Returns, Rests
  <2>2. QED
    BY <1>1, <1>4, <2>1 DEF EndTold
<1>5. QED
  BY <1>2, <1>3, <1>4

\* The stream is closed when the session has come to its end.
LEMMA StreamStepDone ==
  ASSUME StreamDone, SessionInv, [Next]_vars
  PROVE  StreamDone'
<1>a. Does /\ trace_enabled' = trace_enabled /\ pc \in 0 .. 40
  BY StepFacts
<1>b. Steps[39].do \notin {"emit", "metrics", "hook"}
  BY StepsDo
<1>1. SUFFICES ASSUME trace_enabled, pc' = 40
               PROVE  stream' \in {"closed", "unopened"}
  BY <1>a DEF StreamDone
<1>2. CASE Passes
  <2>1. pc = 39
    BY <1>1, <1>2 DEF Passes
  <2>2. QED
    BY <1>1, <1>2, <2>1 DEF Passes
<1>3. CASE Rests
  BY <1>1, <1>3 DEF Rests, StreamDone
<1>4. ~(\E e : Emits(e)) /\ ~(\E t : Called(t))
  <2>1. pc' = pc + 1 => pc = 39
    BY <1>a, <1>1
  <2>2. pc \in 1 .. 39 => pc' # pc
    BY <1>1
  <2>3. QED
    BY <1>1, <1>b, <2>1, <2>2 DEF Emits, Called
<1>5. ~Opens /\ ~Samples /\ ~(\E e : Sampled(e)) /\ ~Fetches /\ ~Returns
  <2>1. pc' \notin {0, 2, 4} /\ (pc \in 14 .. 31 => pc' # pc)
    BY <1>1
  <2>2. pc \in {13, 23, 30} => pc' # pc + 1
    BY <1>1
  <2>3. QED
    BY <2>1, <2>2 DEF Opens, Samples, Sampled, Fetches, Returns
<1>6. QED
  BY <1>a, <1>2, <1>3, <1>4, <1>5 DEF Does

\* A file that is as long as the trace is the trace.
LEMMA FileIsTrace ==
  ASSUME T!P!IInv, Len(file) = Len(issued)
  PROVE  file = issued
<1>1. /\ file \in Seq(TracedEvent) /\ issued \in Seq(TracedEvent)
      /\ \A i \in 1 .. Len(file) : file[i] = issued[i]
  BY ClientAssumption, T!WriterFacts, FileFirst
     DEF T!TracedEvent, TracedEvent, T!EventKind, EventKind
<1>2. QED
  BY <1>1, SeqEqual

\* What a session that succeeds leaves behind is complete, if its file opened and
\* the device works: the file is the trace to its end, with every operator and,
\* at kFull, every metric.
THEOREM SuccessIsComplete == Spec => []CompleteOnSuccess
<1>1. Init => CompleteInv
  <2> SUFFICES ASSUME Init
               PROVE  CompleteInv
    OBVIOUS
  <2>1. pc = 1 /\ issued = << >>
    BY DEF Init, TracerInit, Buf!Fresh
  <2>2. Count("kSubgraph", "operator", << >>) = 0
    BY FS_EmptySet DEF Count
  <2>3. Operators = 0
    BY <2>1, <2>2 DEF Operators, OperatorsIn
  <2>4. OperatorsTold
    BY <2>1, <2>3 DEF OperatorsTold
  <2>5. QED
    BY <2>1, <2>4 DEF CompleteInv, MetricsTold, LevelSet, EndTold, StreamDone
<1>2. CompleteInv /\ SessionInv /\ [Next]_vars => CompleteInv'
  BY OperatorsStep, MetricsStepTold, LevelStep, EndStepTold, StreamStepDone DEF CompleteInv
<1>3. CompleteInv /\ SessionInv => CompleteOnSuccess
  <2> SUFFICES ASSUME CompleteInv, SessionInv, Succeeded, trace_enabled,
                      stream # "unopened", device = "ok"
               PROVE  /\ file = issued /\ onDisk = Len(issued)
                      /\ Last(NamesOf(file)) = "session_end"
                      /\ Count("kSubgraph", "operator", file) = op_count
                      /\ \A m \in Range(compile_metrics \o runtime_metrics) :
                           detail = "kFull" => Count("kMetric", m, file) > 0
    BY DEF CompleteOnSuccess
  <2>1. pc = 40
    <3>1. pc \in 0 .. 40 /\ pc > 39
      BY StepsLength DEF Succeeded, SessionInv, SessionTypes
    <3>2. QED
      BY <3>1
  <2>2. stream = "closed"
    BY <2>1 DEF CompleteInv, StreamDone
  <2>3. pending = << >>
    BY <2>1 DEF SessionInv, NothingAfterBundle
  <2>4. T!P!IInv /\ stats.dropped_event_count = 0
    BY <2>2 DEF SessionInv, T!TracerInv, T!RefusedByDevice
  <2>5. /\ file \in Seq(TracedEvent) /\ issued \in Seq(TracedEvent)
        /\ Len(file) \in Nat /\ Len(issued) \in Nat
    BY <2>4, ClientAssumption, T!WriterFacts, FileFirst
       DEF T!TracedEvent, TracedEvent, T!EventKind, EventKind
  <2>6. /\ stats.event_count = Len(file) /\ Len(issued) = Len(file)
        /\ onDisk = Len(file)
    BY <2>2, <2>3, <2>4, <2>5
       DEF T!P!IInv, T!P!Conservation, T!P!ClosedIsComplete
  <2>7. file = issued
    BY <2>4, <2>6, FileIsTrace
  <2>8. Last(NamesOf(file)) = "session_end"
    <3>1. Len(issued) > 0 /\ issued[Len(issued)].event = "session_end"
      BY <2>1 DEF CompleteInv, EndTold
    <3>2. PICK trace \in Seq(TracedEvent) : trace = file
      BY <2>5
    <3>3. DOMAIN trace = 1 .. Len(trace) /\ Len(trace) \in Nat /\ Len(trace) > 0
      BY <2>7, <3>1, <3>2, LenProperties
    <3>4. NamesOf(trace) = [i \in 1 .. Len(trace) |-> trace[i].event]
      BY <3>3 DEF NamesOf
    <3>5. NamesOf(trace)[Len(trace)] = "session_end"
      BY <2>7, <3>1, <3>2, <3>3, <3>4
    <3>6. Len(NamesOf(trace)) = Len(trace)
      BY <3>3, <3>4
    <3>7. QED
      BY <3>2, <3>5, <3>6 DEF Last
  <2>9. Count("kSubgraph", "operator", file) = op_count
    <3>1. pc # 0 /\ ~(pc <= 14) /\ pc # 15
      BY <2>1
    <3>2. QED
      BY <2>7, <3>1 DEF CompleteInv, OperatorsTold, Operators, OperatorsIn
  <2>10. ASSUME NEW m \in Range(compile_metrics \o runtime_metrics), detail = "kFull"
         PROVE  Count("kMetric", m, file) > 0
    <3>1. ToldAll(compile_metrics) /\ ToldAll(runtime_metrics)
      <4>1. pc \in 14 .. 40 /\ pc \in 31 .. 40
        BY <2>1
      <4>2. QED
        BY <2>10, <4>1 DEF CompleteInv, MetricsTold
    <3>2. Told(m)
      <4>1. PICK c \in Seq(Name), r \in Seq(Name) : c = compile_metrics /\ r = runtime_metrics
        BY DEF SessionInv, SessionTypes
      <4>2. PICK k \in DOMAIN (c \o r) : (c \o r)[k] = m
        BY <2>10, <4>1 DEF Range
      <4>3. /\ Len(c) \in Nat /\ Len(r) \in Nat /\ Len(c \o r) = Len(c) + Len(r)
            /\ DOMAIN (c \o r) = 1 .. Len(c) + Len(r)
        BY LenProperties, ConcatProperties
      <4>4. (c \o r)[k] = IF k <= Len(c) THEN c[k] ELSE r[k - Len(c)]
        BY <4>3, ConcatProperties
      <4>5. CASE k <= Len(c)
        BY <3>1, <4>1, <4>2, <4>3, <4>4, <4>5 DEF ToldAll
      <4>6. CASE ~(k <= Len(c))
        <5>1. k - Len(c) \in 1 .. Len(r)
          BY <4>2, <4>3, <4>6
        <5>2. QED
          BY <3>1, <4>1, <4>2, <4>4, <4>6, <5>1 DEF ToldAll
      <4>7. QED
        BY <4>5, <4>6
    <3>3. samples = << >>
      BY <2>1 DEF SessionInv, WriterInScope
    <3>4. PICK i \in 1 .. Len(issued) : issued[i].kind = "kMetric" /\ issued[i].event = m
      BY <3>2, <3>3 DEF Told
    <3>5. Count(issued[i].kind, issued[i].event, issued) > 0
      BY <2>5, CountedOnce
    <3>6. QED
      BY <2>7, <3>4, <3>5
  <2>11. QED
    BY <2>6, <2>7, <2>8, <2>9, <2>10
<1>4. QED
  BY <1>1, <1>2, <1>3, SessionInvariant, PTL DEF Spec
=============================================================================
