---------------------------- MODULE BuiltinTools ----------------------------
(***************************************************************************)
(* The five built-in tools in one session: the memory proxy of module      *)
(* MemoryProxy and four that keep operators or metrics from hook to hook   *)
(* and report when they are shut down.  Each filters by the session's      *)
(* policy on its own, at a hook of its own; the driver writes its bundle   *)
(* of reports, unfiltered, after them.                                     *)
(*                                                                         *)
(* The driver calls a hook on every tool before it calls the next, so that *)
(* a hook is one action, except OnShutdown, in which every tool may fail   *)
(* on a file of its own and end the session.  A tool asked for twice is    *)
(* left out.  A report is a record of its figures.  Names, units, sites    *)
(* and figures without a bearing on others are left out; macs and bytes    *)
(* are integers, and a ratio is compared without being computed.           *)
(***************************************************************************)
EXTENDS MemoryProxy, RunOptions

CONSTANTS
  Workloads,  \* sessions: options, other policies, operators and metrics
  SortedTools \* every tool there is, in the order of the names

\* An operator has no negative number of operations.
ASSUME BuiltinToolsAssumption ==
  /\ IsList(SortedTools)
  /\ \A w \in Workloads :
       /\ WellFormed(w.ops) /\ \A i \in DOMAIN w.ops : w.ops[i].macs \in Nat
       /\ w.peak_macs \in Int /\ w.peak_bw \in Int
       /\ IsList(w.load_metrics) /\ IsList(w.run_metrics)
       /\ IsList(w.options.requested_tools)

VARIABLES
  workload,   \* what the session is about; it never changes
  policy,     \* the policy of the run's configuration
  tools,      \* the tools attached
  hook,       \* the hook the driver calls next, "bundle" or "ended"
  closing,    \* the tool OnShutdown is at
  collected_metrics_,  \* PortabilityReportTool
  samples_,            \* OverheadEngine of OverheadProfilerTool
  analyzer_,           \* ProgramAnalyzerTool: operators, metrics and peaks
  semantic_,           \* SemanticAttributionTool: operators and metrics
  written     \* written[t]: the report of t, as a sequence of at most one

sessionVars == <<workload, policy, tools>>
stateVars == <<collected_metrics_, samples_, analyzer_, semantic_>>
toolVars == <<vars, sessionVars, hook, closing, stateVars, written>>

BuiltinToolNames ==
  <<"portability_report", "overhead_profiler", "semantic_attribution",
    "dataflow_memory_proxy", "program_analyzer">>

Reports == ToSet(BuiltinToolNames) \cup {"bundle"}

Attached(t) == \E i \in DOMAIN tools : tools[i] = t

NoOps == [ops |-> << >>, metrics |-> << >>, peak_macs |-> 0, peak_bw |-> 0]

\* The driver registers the built-in tools and attaches those its options ask
\* for; another caller may have a policy of its own.  A tool that is asked for
\* and not registered ends the session.
ToolsInit ==
  /\ Init
  /\ workload \in Workloads
  /\ policy \in {BuildPolicy(workload.options)} \cup workload.own_policies
  /\ LET listed == List(RegisterBuiltin({}, BuiltinToolNames).names, SortedTools)
     IN /\ tools = AddBuiltinTools(workload.options, listed)
        /\ hook = IF ToSet(tools) \subseteq ToSet(listed) THEN "OnRegister" ELSE "ended"
  /\ closing = 1
  /\ collected_metrics_ = << >> /\ samples_ = << >>
  /\ analyzer_ = NoOps /\ semantic_ = NoOps
  /\ written = [t \in Reports |-> << >>]

-----------------------------------------------------------------------------
(* The hooks up to OnShutdown. *)
Metric(name, value, id) == [name |-> name, value |-> value, stable_id |-> id]

\* Only the portability report collects metrics at every stage.
Collect(metrics) ==
  collected_metrics_' = IF Attached("portability_report")
                        THEN collected_metrics_ \o metrics ELSE collected_metrics_

\* The portability report writes the capabilities of the adapter, or fails.
OnRegister ==
  /\ hook = "OnRegister"
  /\ hook' \in {"OnInit"} \cup (IF Attached("portability_report") THEN {"ended"} ELSE {})
  /\ UNCHANGED <<vars, sessionVars, closing, stateVars, written>>

OnInit ==
  /\ hook = "OnInit" /\ hook' = "OnCompileBegin"
  /\ collected_metrics_' = << >> /\ samples_' = << >>
  /\ analyzer_' = NoOps /\ semantic_' = NoOps
  /\ UNCHANGED <<vars, sessionVars, closing, written>>

OnCompileBegin ==
  /\ hook = "OnCompileBegin" /\ hook' = "OnCompileEnd"
  /\ Collect(<<Metric("compile_input_artifacts", workload.inputs, 0)>>)
  /\ UNCHANGED <<vars, sessionVars, closing, samples_, analyzer_, semantic_, written>>

\* The operators are those the adapter has published.  The profiler keeps the
\* metrics of the compile and never reads them.
OnCompileEndAll ==
  /\ hook = "OnCompileEnd" /\ hook' = "OnLoadBegin"
  /\ LET ops == FilterOps(policy, workload.ops)
     IN /\ IF Attached("dataflow_memory_proxy")
           THEN OnCompileEnd(ops)
           ELSE UNCHANGED vars
        /\ analyzer_' = IF Attached("program_analyzer")
                        THEN [analyzer_ EXCEPT !.ops = ops, !.peak_macs = workload.peak_macs,
                                               !.peak_bw = workload.peak_bw]
                        ELSE analyzer_
        /\ semantic_' = IF Attached("semantic_attribution")
                        THEN [semantic_ EXCEPT !.ops = ops] ELSE semantic_
  /\ Collect(Append(workload.compile_metrics,
                    Metric("compile_output_artifacts", workload.outputs, 0)))
  /\ UNCHANGED <<sessionVars, closing, samples_, written>>

OnLoadBegin ==
  /\ hook = "OnLoadBegin" /\ hook' = "OnLoadEnd"
  /\ Collect(<<Metric("runtime_input_artifacts", workload.runtime_inputs, 0)>>)
  /\ UNCHANGED <<vars, sessionVars, closing, samples_, analyzer_, semantic_, written>>

OnLoadEnd ==
  /\ hook = "OnLoadEnd" /\ hook' = "OnRunBegin"
  /\ Collect(workload.load_metrics)
  /\ UNCHANGED <<vars, sessionVars, closing, samples_, analyzer_, semantic_, written>>

OnRunBegin ==
  /\ hook = "OnRunBegin" /\ hook' = "OnRunEnd"
  /\ UNCHANGED <<vars, sessionVars, closing, stateVars, written>>

\* The runtime metrics as the adapter leaves them: those of the load first.
RuntimeMetrics == workload.load_metrics \o workload.run_metrics

Named(metrics, name) == Among(metrics, {m \in ToSet(metrics) : m.name = name})

\* The first of that name, as a sequence of at most one.
FirstValue(metrics, name) ==
  LET named == Named(metrics, name)
  IN IF named = << >> THEN << >> ELSE <<named[1].value>>

\* Both arms of a paired measurement.
HasPair(metrics) ==
  /\ Named(metrics, "baseline_latency_ms") # << >>
  /\ Named(metrics, "instrumented_latency_ms") # << >>

Sample(metrics) ==
  [baseline |-> FirstValue(metrics, "baseline_latency_ms")[1],
   instrumented |-> FirstValue(metrics, "instrumented_latency_ms")[1]]

OnRunEnd ==
  /\ hook = "OnRunEnd" /\ hook' = "OnShutdown"
  /\ samples_' = IF Attached("overhead_profiler") /\ HasPair(RuntimeMetrics)
                 THEN Append(samples_, Sample(RuntimeMetrics)) ELSE samples_
  /\ Collect(Append(RuntimeMetrics,
                    Metric("observed_runtime_metrics", Len(RuntimeMetrics), 0)))
  /\ LET kept == FilterMetrics(policy, RuntimeMetrics)
     IN /\ analyzer_' = IF Attached("program_analyzer")
                        THEN [analyzer_ EXCEPT !.metrics = kept] ELSE analyzer_
        /\ semantic_' = IF Attached("semantic_attribution")
                        THEN [semantic_ EXCEPT !.metrics = kept] ELSE semantic_
  /\ UNCHANGED <<vars, sessionVars, closing, written>>

-----------------------------------------------------------------------------
(* The figures of the reports. *)
Total(ops, F(_)) == MapThenSumSet(LAMBDA i : F(ops[i]), DOMAIN ops)

Count(ops, Test(_)) == Cardinality({i \in DOMAIN ops : Test(ops[i])})

Macs(op) == op.macs
Bytes(op) == op.estimated_bytes

\* Memory bound below half the ridge point of the peaks, compute bound above
\* twice; without bytes the intensity is 0, without peaks nothing is known.
Classify(macs, bytes) ==
  LET peak_macs == analyzer_.peak_macs
      peak_bw == analyzer_.peak_bw
  IN IF peak_macs <= 0 \/ peak_bw <= 0 THEN "unknown"
     ELSE IF bytes <= 0 \/ 2 * macs * peak_bw < peak_macs * bytes THEN "memory"
     ELSE IF macs * peak_bw > 2 * peak_macs * bytes THEN "compute"
     ELSE "balanced"

Classes == {"unknown", "memory", "balanced", "compute"}

Class(op) == Classify(op.macs, op.estimated_bytes)

\* The table has a row for each operator; the summary adds up on its own.
AnalyzerReport ==
  LET ops == analyzer_.ops
      total_macs == Total(ops, Macs)
      total_bytes == Total(ops, Bytes)
      latency == FirstValue(analyzer_.metrics, "latency_ms")
  IN [table      |-> [i \in DOMAIN ops |-> Class(ops[i])],
      operators  |-> Len(ops),
      total_macs |-> total_macs,
      boundness  |-> Classify(total_macs, total_bytes),
      share      |-> [c \in Classes |->
                        MapThenSumSet(LAMBDA i : ops[i].macs,
                                      {i \in DOMAIN ops : Class(ops[i]) = c})],
      measured   |-> latency # << >> /\ latency[1] > 0 /\ analyzer_.peak_macs > 0]

\* The operators some runtime metric carries the id of.
Observed(metrics) == {metrics[i].stable_id : i \in DOMAIN metrics} \ {0}

\* A site of an operator: its line in the model's code, or else its module.
Site(op) ==
  IF op.src # "" THEN <<"line", op.src>>
  ELSE IF op.module_path # "" THEN <<"module", op.module_path>>
  ELSE <<"unattributed">>

Sites == {Site(semantic_.ops[i]) : i \in DOMAIN semantic_.ops}

\* How many operators a site became, and how many of them of neither phase the
\* summary has a column for.
Expansion(site) ==
  LET here == Among(semantic_.ops, {op \in ToSet(semantic_.ops) : Site(op) = site})
      Phase(p) == Count(here, LAMBDA op : op.stage_tag = p)
  IN [total |-> Len(here),
      forward |-> Phase("forward"), backward |-> Phase("backward"),
      optimizer |-> Phase("optimizer"),
      other |-> Len(here) - Phase("forward") - Phase("backward") - Phase("optimizer")]

\* A faulty variant: an operator without a line counts as its module's only.
ModuleOnlyAll == Count(semantic_.ops, LAMBDA op : op.src = "")

\* Counted as the difference of two counts, not operator by operator.
ModuleOnly ==
  LET with_module == Count(semantic_.ops, LAMBDA op : op.module_path # "")
      with_source == Count(semantic_.ops, LAMBDA op : op.src # "")
  IN IF with_module > with_source THEN with_module - with_source ELSE 0

SemanticReport ==
  LET ops == semantic_.ops
      observed == Observed(semantic_.metrics)
  IN [table         |-> [i \in DOMAIN ops |->
                           [stable_id |-> ops[i].stable_id,
                            runtime_attributed |-> ops[i].stable_id \in observed]],
      operators     |-> Len(ops),
      with_source   |-> Count(ops, LAMBDA op : op.src # ""),
      module_only   |-> ModuleOnly,
      unattributed  |-> Count(ops, LAMBDA op : Site(op) = <<"unattributed">>),
      source_sites  |-> Cardinality({s \in Sites : s[1] = "line"}),
      runtime_attributed |-> Count(ops, LAMBDA op : op.stable_id \in observed),
      expansion     |-> [s \in Sites |-> Expansion(s)]]

\* The portability report filters when it is shut down, not before.
PortabilityReport ==
  [operators |-> Len(FilterOps(policy, workload.ops)),
   metrics   |-> FilterMetrics(policy, collected_metrics_)]

\* Slowdown is nothing when there is no baseline; else in percent, by 100.
Slowdown(s) == IF s.baseline <= 0 THEN 0
               ELSE (10000 * (s.instrumented - s.baseline)) \div s.baseline

OverheadReport == [slowdown |-> Slowdown(samples_[1]), samples |-> Len(samples_)]

-----------------------------------------------------------------------------
(* OnShutdown, tool by tool, and the bundle after it. *)
Closing(t) == hook = "OnShutdown" /\ closing <= Len(tools) /\ tools[closing] = t

NextTool == closing' = closing + 1 /\ hook' = hook

\* A tool reports, or fails on one of its files; the session is over then.
Report(t, report) ==
  \/ NextTool /\ written' = [written EXCEPT ![t] = <<report>>]
  \/ hook' = "ended" /\ UNCHANGED <<closing, written>>

HasNothing == NextTool /\ UNCHANGED written

MemoryProxyWorks ==
  /\ Closing("dataflow_memory_proxy")
  /\ OnShutdown \/ TableRow \/ TableDone \/ PeakTurn \/ SummaryDone
  /\ UNCHANGED <<sessionVars, hook, closing, stateVars, written>>

MemoryProxyReports ==
  /\ Closing("dataflow_memory_proxy") /\ doing = "done"
  /\ IF Ops = << >> THEN HasNothing
     ELSE IF summary = << >> THEN hook' = "ended" /\ UNCHANGED <<closing, written>>
     ELSE NextTool /\ written' = [written EXCEPT !["dataflow_memory_proxy"] = summary]
  /\ UNCHANGED <<vars, sessionVars, stateVars>>

OverheadReports ==
  /\ Closing("overhead_profiler")
  /\ IF samples_ = << >> THEN HasNothing ELSE Report("overhead_profiler", OverheadReport)
  /\ UNCHANGED <<vars, sessionVars, stateVars>>

PortabilityReports ==
  /\ Closing("portability_report")
  /\ Report("portability_report", PortabilityReport)
  /\ UNCHANGED <<vars, sessionVars, stateVars>>

AnalyzerReports ==
  /\ Closing("program_analyzer")
  /\ IF analyzer_.ops = << >> THEN HasNothing
     ELSE Report("program_analyzer", AnalyzerReport)
  /\ UNCHANGED <<vars, sessionVars, stateVars>>

SemanticReports ==
  /\ Closing("semantic_attribution")
  /\ IF semantic_.ops = << >> THEN HasNothing
     ELSE Report("semantic_attribution", SemanticReport)
  /\ UNCHANGED <<vars, sessionVars, stateVars>>

AllClosed ==
  /\ hook = "OnShutdown" /\ closing > Len(tools) /\ hook' = "bundle"
  /\ UNCHANGED <<vars, sessionVars, closing, stateVars, written>>

\* The driver's own reports: all operators, and the overhead if both arms of a
\* measurement are among the runtime metrics.
WriteBundleOutputs ==
  /\ hook = "bundle" /\ hook' = "ended"
  /\ \/ UNCHANGED written
     \/ written' = [written EXCEPT !["bundle"] =
          <<[operators |-> Len(workload.ops),
             runtime_metrics |-> RuntimeMetrics,
             slowdown |-> IF HasPair(RuntimeMetrics)
                          THEN <<Slowdown(Sample(RuntimeMetrics))>> ELSE << >>]>>]
  /\ UNCHANGED <<vars, sessionVars, closing, stateVars>>

ToolsNext ==
  \/ OnRegister \/ OnInit \/ OnCompileBegin \/ OnCompileEndAll \/ OnLoadBegin \/ OnLoadEnd
  \/ OnRunBegin \/ OnRunEnd
  \/ MemoryProxyWorks \/ MemoryProxyReports \/ OverheadReports \/ PortabilityReports
  \/ AnalyzerReports \/ SemanticReports \/ AllClosed \/ WriteBundleOutputs

ToolsSpec == ToolsInit /\ [][ToolsNext]_toolVars

-----------------------------------------------------------------------------
Has(t) == written[t] # << >>
Of(t) == written[t][1]

OpTools == {"dataflow_memory_proxy", "portability_report", "program_analyzer",
            "semantic_attribution"}

\* Type invariant of the tools, with that of the memory proxy.
ToolsTypeOK ==
  /\ MemoryTypeOK
  /\ hook \in {"OnRegister", "OnInit", "OnCompileBegin", "OnCompileEnd", "OnLoadBegin",
               "OnLoadEnd", "OnRunBegin", "OnRunEnd", "OnShutdown", "bundle", "ended"}
  /\ closing \in 1 .. Len(tools) + 1
  /\ Len(samples_) <= 1
  /\ \A t \in Reports : Len(written[t]) <= 1
  /\ doing # "hooks" => Attached("dataflow_memory_proxy")

Rank(c) == CASE c = "memory" -> 1 [] c = "balanced" -> 2 [] c = "compute" -> 3
             [] c = "unknown" -> 0

\* What the tools filter, count and add up on their own makes one picture:
\* every table has the same operators, the driver's own table at least those
\* and in full mode no other; a line, a module only or neither accounts for
\* every operator (if a line never comes without a module) and so do the
\* sites; the shares of the classes make up all macs, and the class of a
\* program is no lower and no higher than those of its operators; and the
\* profiler measured an overhead if and only if the driver did, the same one.
ReportsAgree ==
  /\ \A t, u \in {v \in OpTools : Has(v)} : Of(t).operators = Of(u).operators
  /\ Has("bundle") => \A t \in {v \in OpTools : Has(v)} :
       /\ Of(t).operators <= Of("bundle").operators
       /\ policy = DefaultPolicy => Of(t).operators = Of("bundle").operators
  /\ Has("semantic_attribution") =>
       LET s == Of("semantic_attribution")
           sites == DOMAIN s.expansion
       IN /\ (\A i \in DOMAIN semantic_.ops :
                semantic_.ops[i].src # "" => semantic_.ops[i].module_path # "")
               => s.with_source + s.module_only + s.unattributed = s.operators
          /\ MapThenSumSet(LAMBDA k : s.expansion[k].total, sites) = s.operators
          /\ s.source_sites <= s.with_source
  /\ Has("program_analyzer") =>
       LET a == Of("program_analyzer")
       IN /\ MapThenSumSet(LAMBDA c : a.share[c], Classes) = a.total_macs
          /\ (\A i \in DOMAIN analyzer_.ops : analyzer_.ops[i].estimated_bytes > 0)
               => /\ \E i \in DOMAIN a.table : Rank(a.table[i]) <= Rank(a.boundness)
                  /\ \E i \in DOMAIN a.table : Rank(a.table[i]) >= Rank(a.boundness)
  /\ Has("bundle") /\ Attached("overhead_profiler") =>
       IF Has("overhead_profiler")
       THEN Of("bundle").slowdown = <<Of("overhead_profiler").slowdown>>
       ELSE Of("bundle").slowdown = << >>

\* In a session whose policy the driver made, sampling never separates an
\* operator from what was measured of it: an operator in the table is marked
\* as observed if and only if the adapter reported a metric of it.
AttributionIsNotFiltered ==
  Has("semantic_attribution") /\ policy = BuildPolicy(workload.options) =>
    LET s == Of("semantic_attribution")
    IN \A i \in DOMAIN s.table :
         s.table[i].runtime_attributed <=> s.table[i].stable_id \in Observed(RuntimeMetrics)
=============================================================================
