----------------------------- MODULE RunSession -----------------------------
(***************************************************************************)
(* cli::Run, the driver of one instrumented session, from the point where  *)
(* it opens the trace to its return.  It calls the backend adapter, fans   *)
(* every lifecycle hook out to the tools (ToolManager), records what       *)
(* happens in the trace (module Tracer), and finally writes the bundle of  *)
(* reports.                                                                *)
(*                                                                         *)
(* Run is a straight line of steps, each returning at once when a call     *)
(* fails; the line is the constant sequence Steps and pc the position in   *)
(* it.  A step that is a loop (over tools, operators or metrics) counts    *)
(* its turns in turn.  An early return destroys the tracer as it is: the   *)
(* queue is not drained, the adapter is not shut down.                     *)
(*                                                                         *)
(* Adapters and tools are their interfaces: a call may fail, and may       *)
(* produce what its signature lets it produce.                             *)
(***************************************************************************)
EXTENDS Tracer, FiniteSets, SequencesExt

CONSTANTS
  ToolNames,   \* the tools to run, by name, in order
  Batches,     \* batches of metrics an adapter call can report
  Identified,  \* the metrics that carry a stable id
  MaxOps       \* bound: operators in the metadata

VARIABLES
  pc,              \* position in Steps; 0 once Run has returned an error
  turn,            \* turns done of the step's loop
  trace_enabled,   \* run_cfg.trace.enabled: every mode but baseline
  detail,          \* run_cfg.policy.detail_level
  tools,           \* tools_ of the ToolManager
  called,          \* history: calls of tools, by position, and of the adapter (0)
  seen,            \* history: seen[t], the hooks the tool at position t was called through
  op_count,        \* size of ctx.metadata_ops()
  manifest,        \* whether the outputs of the compilation hold a manifest
  compile_metrics, \* compile_artifacts.metrics
  runtime_metrics, \* runtime_artifacts.metrics
  trace_stats_csv  \* rows of reports/trace_stats.csv: none, or one

configVars == <<trace_enabled, detail>>
resultVars == <<op_count, manifest, compile_metrics, runtime_metrics>>
historyVars == <<called, seen>>
recordVars == <<configVars, resultVars, tools, historyVars, trace_stats_csv>>
vars == <<tracerVars, pc, turn, recordVars>>

-----------------------------------------------------------------------------
Adapter(what)     == [do |-> "adapter", what |-> what]
Hook(what)        == [do |-> "hook", what |-> what]
Event(kind, what) == [do |-> "emit", what |-> what, kind |-> kind]
Step(do)          == [do |-> do, what |-> "-"]
Metrics(what)     == [do |-> "metrics", what |-> what]

\* The body of Run, in order.
SetupSteps == <<
  Step("open"), Event("kSession", "session_begin"),
  Step("tools"), Adapter("InitializeSession"),
  Event("kDiagnostic", "adapter_initialized"),
  Hook("OnRegister"), Hook("OnInit"),
  Adapter("PrepareArtifacts") >>

\* A faulty variant: the tools hear of the end before the adapter is called.
CompileStepsToldEarly == <<
  Event("kCompile", "compile_begin"),
  Hook("OnCompileBegin"), Adapter("CompileBegin"),
  Hook("OnCompileEnd"), Adapter("CompileEnd"),
  Metrics("compile"), Event("kCompile", "compile_end"), Step("operators") >>

CompileSteps == <<
  Event("kCompile", "compile_begin"),
  Hook("OnCompileBegin"), Adapter("CompileBegin"), Adapter("CompileEnd"),
  Metrics("compile"), Event("kCompile", "compile_end"), Step("operators"),
  Hook("OnCompileEnd") >>

\* A faulty variant: the tools never hear that loading ended.
LoadStepsUntold == <<
  Adapter("LoadManifest"), Event("kDiagnostic", "manifest_loaded"),
  Event("kLoad", "load_begin"),
  Hook("OnLoadBegin"), Adapter("LoadBegin"), Adapter("LoadEnd"),
  Metrics("runtime"), Event("kLoad", "load_end") >>

LoadSteps == <<
  Adapter("LoadManifest"), Event("kDiagnostic", "manifest_loaded"),
  Event("kLoad", "load_begin"),
  Hook("OnLoadBegin"), Adapter("LoadBegin"), Adapter("LoadEnd"),
  Metrics("runtime"), Event("kLoad", "load_end"),
  Hook("OnLoadEnd") >>

RunSteps == <<
  Event("kRun", "run_begin"),
  Hook("OnRunBegin"), Adapter("RunBegin"), Adapter("RunEnd"),
  Metrics("runtime"), Step("subgraph_metrics"), Event("kRun", "run_end"),
  Hook("OnRunEnd") >>

\* Faulty variants: the trace is never closed; the bundle is written before
\* the trace is flushed; session_end precedes the shutdown of the tools.
EndStepsUnclosed == <<
  Hook("OnShutdown"), Event("kSession", "session_end"), Step("flush"),
  Step("bundle"), Adapter("Shutdown") >>

EndStepsBundleFirst == <<
  Hook("OnShutdown"), Event("kSession", "session_end"), Step("bundle"),
  Step("flush"), Adapter("Shutdown"), Step("close") >>

EndStepsEarlyEnd == <<
  Event("kSession", "session_end"), Hook("OnShutdown"), Step("flush"),
  Step("bundle"), Adapter("Shutdown"), Step("close") >>

EndSteps == <<
  Hook("OnShutdown"), Event("kSession", "session_end"), Step("flush"),
  Step("bundle"), Adapter("Shutdown"), Step("close") >>

Steps == SetupSteps \o CompileSteps \o LoadSteps \o RunSteps \o EndSteps

ASSUME RunSessionAssumption ==
  /\ Batches \subseteq Seq(Name)
  /\ {"operator", "subgraph_metric"} \cup {Steps[i].what : i \in DOMAIN Steps} \subseteq Name
  /\ ToolNames \in Seq(STRING)
  /\ MaxOps \in Nat

Hooks == <<"OnRegister", "OnInit", "OnCompileBegin", "OnCompileEnd", "OnLoadBegin",
           "OnLoadEnd", "OnRunBegin", "OnRunEnd", "OnShutdown">>

\* The tools, by position.
Positions == 1 .. Len(ToolNames)

Returned == pc = 0 \/ pc > Len(Steps)
Succeeded == pc > Len(Steps)
Failed == pc = 0

\* How many turns a step takes.  The trace is only touched when it is
\* enabled, and a manifest only loaded when the compilation produced one.
Turns ==
  LET step == Steps[pc]
  IN CASE step.what \in {"LoadManifest", "manifest_loaded"} /\ ~manifest -> 0
       [] step.do \in {"open", "emit", "metrics", "operators", "subgraph_metrics",
                       "flush", "close"} /\ ~trace_enabled -> 0
       [] step.do = "hook" -> Len(tools)
       [] step.do = "operators" /\ trace_enabled -> op_count
       [] step.do = "subgraph_metrics" /\ trace_enabled ->
            Cardinality({i \in DOMAIN runtime_metrics : runtime_metrics[i] \in Identified})
       [] OTHER -> 1

\* A turn of the current step is done.
Advance ==
  IF turn + 1 < Turns
  THEN turn' = turn + 1 /\ UNCHANGED pc
  ELSE turn' = 0 /\ pc' = pc + 1

\* The step at hand is a do, and there is a turn of it to take.
At(do) == ~Returned /\ Idle /\ Steps[pc].do = do /\ Turns > 0

\* A turn of a step that only concerns the trace.
TraceStep(do) == At(do) /\ Advance /\ UNCHANGED recordVars

-----------------------------------------------------------------------------
Init ==
  /\ TracerInit
  /\ pc = 1
  /\ turn = 0
  /\ trace_enabled \in BOOLEAN
  /\ detail \in DetailLevel
  /\ tools = << >>
  /\ called = << >>
  /\ seen = [t \in Positions |-> << >>]
  /\ op_count = 0
  /\ manifest = FALSE
  /\ compile_metrics = << >>
  /\ runtime_metrics = << >>
  /\ trace_stats_csv = << >>

\* A faulty variant: the step after a skipped one is skipped with it.
SkipTwo ==
  /\ ~Returned /\ Idle /\ Turns = 0
  /\ pc' = pc + 2
  /\ UNCHANGED <<tracerVars, turn, recordVars>>

\* A step with no turns is passed over.
Skip ==
  /\ ~Returned /\ Idle /\ Turns = 0
  /\ pc' = pc + 1
  /\ UNCHANGED <<tracerVars, turn, recordVars>>

OpenTrace == TraceStep("open") /\ Open(detail)

EmitStep == TraceStep("emit") /\ Emit(Steps[pc].kind, Steps[pc].what)

MetricsStep ==
  /\ TraceStep("metrics")
  /\ EmitMetrics(IF Steps[pc].what = "compile" THEN compile_metrics ELSE runtime_metrics)

MetricsLoop == EmitSample /\ UNCHANGED <<pc, turn, recordVars>>

\* One event per operator of the metadata.
OperatorStep == TraceStep("operators") /\ Emit("kSubgraph", "operator")

\* One event per runtime metric with a stable id.
SubgraphStep == TraceStep("subgraph_metrics") /\ Emit("kSubgraph", "subgraph_metric")

FlushStep == TraceStep("flush") /\ Flush

CloseStep == TraceStep("close") /\ Close

\* AddBuiltinTools: none in baseline mode.
ToolsStep ==
  /\ At("tools") /\ Advance
  /\ tools' = IF trace_enabled THEN ToolNames ELSE << >>
  /\ UNCHANGED <<tracerVars, configVars, resultVars, historyVars, trace_stats_csv>>

\* The tool whose turn it is, or the adapter, is called; the call is recorded
\* whatever it returns.
CallTool(t, hook) ==
  /\ called' = Append(called, <<t, hook>>)
  /\ seen' = [seen EXCEPT ![t] = Append(@, hook)]

CallAdapter(what) ==
  /\ called' = Append(called, <<0, what>>)
  /\ UNCHANGED seen

\* FanOut: one turn calls one tool.
HookStep ==
  /\ At("hook") /\ Advance
  /\ CallTool(turn + 1, Steps[pc].what)
  /\ UNCHANGED <<tracerVars, configVars, resultVars, tools, trace_stats_csv>>

\* What an adapter call that succeeds leaves in its arguments and the context.
Produces(what) ==
  \/ /\ what = "CompileEnd"
     /\ compile_metrics' \in Batches
     /\ op_count' \in 0 .. MaxOps
     /\ manifest' \in BOOLEAN
     /\ UNCHANGED runtime_metrics
  \/ /\ what \in {"LoadEnd", "RunEnd"}
     /\ \E batch \in Batches : runtime_metrics' = runtime_metrics \o batch
     /\ UNCHANGED <<compile_metrics, op_count, manifest>>
  \/ /\ what \notin {"CompileEnd", "LoadEnd", "RunEnd"}
     /\ UNCHANGED resultVars

AdapterStep ==
  /\ At("adapter") /\ Advance
  /\ CallAdapter(Steps[pc].what)
  /\ Produces(Steps[pc].what)
  /\ UNCHANGED <<tracerVars, configVars, tools, trace_stats_csv>>

\* WriteBundleOutputs, of which only the trace counters matter here.
BundleStep ==
  /\ At("bundle") /\ Advance
  /\ trace_stats_csv' = <<stats_cache>>
  /\ UNCHANGED <<tracerVars, configVars, resultVars, tools, historyVars>>

\* A call fails and Run returns its status: everything on the stack goes.
\* The bundle may fail before or after it wrote the counters.
CallFails ==
  /\ \/ At("tools") /\ UNCHANGED <<historyVars, trace_stats_csv>>
     \/ At("hook") /\ CallTool(turn + 1, Steps[pc].what) /\ UNCHANGED trace_stats_csv
     \/ At("adapter") /\ CallAdapter(Steps[pc].what) /\ UNCHANGED trace_stats_csv
     \/ /\ At("bundle")
        /\ trace_stats_csv' \in {<< >>, <<stats_cache>>}
        /\ UNCHANGED historyVars
  /\ pc' = 0
  /\ turn' = 0
  /\ Destroy
  /\ UNCHANGED <<configVars, resultVars, tools>>

RunNext ==
  \/ Skip \/ OpenTrace \/ EmitStep \/ MetricsStep \/ MetricsLoop
  \/ OperatorStep \/ SubgraphStep \/ FlushStep \/ CloseStep
  \/ ToolsStep \/ HookStep \/ AdapterStep \/ BundleStep
  \/ CallFails

Next ==
  \/ RunNext
  \/ DeviceFails /\ UNCHANGED <<pc, turn, recordVars>>

Spec == Init /\ [][Next]_vars
-----------------------------------------------------------------------------
\* The names of the events of a trace, and how many of a kind bear a name.
NamesOf(trace) == [i \in DOMAIN trace |-> trace[i].event]

Count(kind, name, trace) ==
  Cardinality({i \in DOMAIN trace : trace[i].kind = kind /\ trace[i].event = name})

\* Type invariant.
SessionTypeOK ==
  /\ TracerTypeOK
  /\ pc \in 0 .. Len(Steps) + 1
  /\ turn \in Nat
  /\ trace_enabled \in BOOLEAN /\ detail \in DetailLevel
  /\ tools \in {<< >>, ToolNames}
  /\ \A i \in DOMAIN called : called[i][1] \in {0} \cup Positions
  /\ seen \in [Positions -> Seq(Name)]
  /\ op_count \in 0 .. MaxOps /\ manifest \in BOOLEAN
  /\ compile_metrics \in Seq(Name) /\ runtime_metrics \in Seq(Name)
  /\ trace_stats_csv \in Seq(Buf!TraceStats)

\* What a successful run leaves behind, if its file opened and the device
\* works: every event on disk, up to session_end, with an event for every
\* operator and every metric the adapter reported.
CompleteOnSuccess ==
  Succeeded /\ trace_enabled /\ stream # "unopened" /\ device = "ok" =>
    /\ file = issued /\ onDisk = Len(issued)
    /\ Last(NamesOf(file)) = "session_end"
    /\ Count("kSubgraph", "operator", file) = op_count
    /\ \A m \in Range(compile_metrics \o runtime_metrics) :
         detail = "kFull" => Count("kMetric", m, file) > 0

\* The counters in the bundle are those of the finished trace, although the
\* bundle is written while the trace is still open.
BundleIsFinal ==
  \A i \in DOMAIN trace_stats_csv :
    LET row == trace_stats_csv[i]
    IN /\ row = stats
       /\ row.event_count = Len(file)
       /\ row.event_count + row.dropped_event_count = Len(issued)

\* The stages of a run, in the trace, to the adapter and to the tools.
Stages ==
  { [opened |-> "compile_begin", onBegin |-> "OnCompileBegin", begin |-> "CompileBegin",
     end |-> "CompileEnd", closed |-> "compile_end", onEnd |-> "OnCompileEnd"],
    [opened |-> "load_begin", onBegin |-> "OnLoadBegin", begin |-> "LoadBegin",
     end |-> "LoadEnd", closed |-> "load_end", onEnd |-> "OnLoadEnd"],
    [opened |-> "run_begin", onBegin |-> "OnRunBegin", begin |-> "RunBegin",
     end |-> "RunEnd", closed |-> "run_end", onEnd |-> "OnRunEnd"] }

\* Whenever a call is made: the adapter begins a stage only after every tool
\* was told it would, a tool is told of the end only after the adapter ended
\* it, and the trace has said so before the tool is told.
StagesBracketed ==
  called # << >> =>
    LET latest == Last(called)
        done   == Range(called)
        traced == Range(NamesOf(issued))
    IN \A s \in Stages :
         /\ latest = <<0, s.begin>> => \A t \in DOMAIN tools : <<t, s.onBegin>> \in done
         /\ latest[2] = s.onBegin => s.opened \in traced /\ <<0, s.begin>> \notin done
         /\ latest[2] = s.onEnd => s.closed \in traced /\ <<0, s.end>> \in done

\* What divides a session into stages, in the order they come.
Boundaries == <<"session_begin", "compile_begin", "compile_end", "load_begin",
                "load_end", "run_begin", "run_end", "session_end">>

\* Where a trace has its boundaries, up to i: the events of these kinds.
BoundaryKind == {"kSession", "kCompile", "kLoad", "kRun"}

BoundariesIn(trace, i) == {j \in DOMAIN trace : j <= i /\ trace[j].kind \in BoundaryKind}

\* However the run ends, the boundaries in its trace are those of a session in
\* order, cut short at most: the n-th is the n-th of a session.  A trace that
\* shows session_end is the trace of a session whose tools were all taken
\* through their last hook.
TraceTellsSession ==
  /\ \A i \in BoundariesIn(file, Len(file)) :
       LET n == Cardinality(BoundariesIn(file, i))
       IN n <= Len(Boundaries) /\ file[i].event = Boundaries[n]
  /\ \A i \in BoundariesIn(file, Len(file)) :
       file[i].event = "session_end" => \A t \in Positions : seen[t] = Hooks

\* The level promised in tracer.h: at kIds "per-metric events are suppressed
\* entirely".  Run's subgraph_metric events carry one metric each and are
\* emitted at every level.
NoMetricEventsAtIds ==
  detail = "kIds" => Count("kSubgraph", "subgraph_metric", issued) = 0

\* The driver implements the lifecycle promised to the tools.
Lifecycle == INSTANCE ToolLifecycle
  WITH Tool <- Positions, Order <- Hooks, ended <- Returned

ImplementsLifecycle == Lifecycle!LifecycleSpec
=============================================================================
