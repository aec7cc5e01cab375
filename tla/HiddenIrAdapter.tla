-------------------------- MODULE HiddenIrAdapter --------------------------
(***************************************************************************)
(* The adapters of the two back ends whose compiler shows only its graph:  *)
(* CerebrasAdapter and SambaNovaAdapter with their workflows.  The code of *)
(* the two is the same but for one thing: cerebras can be given a model    *)
(* directory, and then takes its model from the cirh.mlir files a compile  *)
(* leaves there, one per executor, instead of from a graph file.           *)
(*                                                                         *)
(* Sessions follow each other over one set of files, each with the calls   *)
(* in the order the driver makes them, and end early when a call fails.    *)
(* An adapter object serves one session; a caller other than the driver    *)
(* may initialise the same object again.  Every call runs to its end: one  *)
(* action each.                                                            *)
(*                                                                         *)
(* A file holds some number of operators or records and remembers the      *)
(* session whose command wrote it, 0 for files that were there before.     *)
(* What a parser makes of the text is left out, and so are names, units    *)
(* and the correlators, which this adapter fills and never reads.          *)
(***************************************************************************)
EXTENDS PartitionTracker, Lists, SequencesExt, FiniteSetsExt

CONSTANTS
  Executors,   \* the executors, as a sequence: the order of their paths
  Settings,    \* sets of inputs a context may name
  LeftBehind,  \* what the files may hold before the first session
  MaxOps,      \* bound: operators in a file
  MaxSessions  \* bound: sessions

VARIABLES
  session,          \* history: the number of the session
  vendor,           \* "cerebras" or "sambanova"
  at,               \* the call the driver makes next, "idle" between sessions
  given,            \* the inputs the context names
  files,            \* files[f]: the content of f, as a sequence of at most one
  inputs, outputs, compile_metrics,    \* CompileArtifactSet
  runtime_inputs, runtime_metrics,     \* RuntimeArtifactSet
  metadata_ops, cirh_path,             \* the context
  model_, cirh_ops_,                   \* the adapter
  kept              \* history: cirh_ops_ as the adapter brings it into the session

contextVars == <<metadata_ops, cirh_path>>
compileVars == <<inputs, outputs, compile_metrics>>
runtimeVars == <<runtime_inputs, runtime_metrics>>
modelVars == <<model_, cirh_ops_>>
settingVars == <<session, vendor, given, kept>>
vars == <<settingVars, at, files, compileVars, runtimeVars, contextVars, modelVars,
          trackerVars>>

Executor == ToSet(Executors)
File == Executor \cup {"graph", "sidecar", "report", "log"}

AnyContent == [ops : 0 .. MaxOps, by : 0 .. MaxSessions, readable : BOOLEAN]

\* A directory walk finds a path once, and no path is one of the other names.
ASSUME HiddenIrAssumption ==
  /\ MaxOps \in Nat /\ MaxSessions \in Nat
  /\ IsList(Executors) /\ IsInjective(Executors)
  /\ Executor \cap {"graph", "sidecar", "report", "log", "none", "empty"} = {}
  /\ LeftBehind \subseteq [File -> {<< >>} \cup {<<c>> : c \in AnyContent}]

Content(s) == [ops : 0 .. MaxOps, by : {s}, readable : {TRUE}]
Unreadable(s) == [ops |-> 0, by |-> s, readable |-> FALSE]

\* A model: its operators, who wrote the file they are from, and whether the
\* sidecar was applied to them.
NoModel == [ops |-> 0, by |-> 0, tagged |-> FALSE]

Metric(name, source, by, value) ==
  [name |-> name, source |-> source, by |-> by, value |-> value]

-----------------------------------------------------------------------------
Init ==
  /\ TrackerInit
  /\ session = 0
  /\ vendor \in {"cerebras", "sambanova"}
  /\ at = "idle"
  /\ given = {}
  /\ files \in LeftBehind
  /\ inputs = << >> /\ outputs = << >> /\ compile_metrics = << >>
  /\ runtime_inputs = << >> /\ runtime_metrics = << >>
  /\ metadata_ops = NoModel /\ cirh_path = "none"
  /\ model_ = NoModel /\ cirh_ops_ = NoModel /\ kept = NoModel

\* The call failed: the session is over.
Fails == at' = "idle"

\* A faulty variant: the partitions of an earlier session stay.
InitializeKeepsPartitions ==
  /\ at = "idle" /\ session < MaxSessions
  /\ session' = session + 1
  /\ given' \in Settings
  /\ at' = "PrepareArtifacts"
  /\ calls' = << >>
  /\ metadata_ops' = NoModel /\ cirh_path' = "none"
  /\ inputs' = << >> /\ outputs' = << >> /\ compile_metrics' = << >>
  /\ runtime_inputs' = << >> /\ runtime_metrics' = << >>
  /\ \/ UNCHANGED <<modelVars, active_, completed_>>
     \/ Reset /\ model_' = NoModel /\ cirh_ops_' = NoModel
  /\ kept' = cirh_ops_'
  /\ UNCHANGED <<vendor, files>>

\* A session with a context and artifact sets of its own, on a new adapter or
\* on the one of the session before.
InitializeSession ==
  /\ at = "idle" /\ session < MaxSessions
  /\ session' = session + 1
  /\ given' \in Settings
  /\ at' = "PrepareArtifacts"
  /\ Reset
  /\ metadata_ops' = NoModel /\ cirh_path' = "none"
  /\ inputs' = << >> /\ outputs' = << >> /\ compile_metrics' = << >>
  /\ runtime_inputs' = << >> /\ runtime_metrics' = << >>
  /\ \/ UNCHANGED modelVars
     \/ model_' = NoModel /\ cirh_ops_' = NoModel
  /\ kept' = cirh_ops_'
  /\ UNCHANGED <<vendor, files>>

FromModelDir == vendor = "cerebras" /\ "model_dir" \in given

\* The graph is an input even when only the model directory is given.
PrepareArtifacts ==
  /\ at = "PrepareArtifacts"
  /\ \/ /\ ~FromModelDir /\ "graph" \notin given
        /\ Fails
        /\ UNCHANGED <<compileVars, runtimeVars>>
     \/ /\ FromModelDir \/ "graph" \in given
        /\ at' = "CompileBegin"
        /\ inputs' = <<"graph">> \o (IF "sidecar" \in given THEN <<"sidecar">> ELSE << >>)
        /\ outputs' = IF "report" \in given THEN <<"report">> ELSE << >>
        /\ compile_metrics' = << >>
        /\ runtime_inputs' = IF "log" \in given THEN <<"log">> ELSE << >>
        /\ runtime_metrics' = << >>
  /\ UNCHANGED <<settingVars, files, contextVars, modelVars, trackerVars>>

CompileBegin ==
  /\ at = "CompileBegin"
  /\ IF inputs = << >> THEN Fails ELSE at' = "CompileEnd"
  /\ UNCHANGED <<settingVars, files, compileVars, runtimeVars, contextVars, modelVars,
                 trackerVars>>

\* A command of the user's writes what it will of the files of its stage and
\* may fail, before it wrote anything or after.
Command(writes) ==
  \E new \in [writes -> {<< >>} \cup {<<c>> : c \in Content(session)}] :
    files' = [f \in File |-> IF f \in writes /\ new[f] # << >> THEN new[f] ELSE files[f]]

\* Without a command nothing happens.
MaybeRun(cmd, writes, rc) ==
  IF cmd \in given THEN Command(writes) ELSE rc = 0 /\ UNCHANGED files

CommandMetrics(cmd, rc) ==
  IF cmd \in given THEN <<Metric("exit_code", cmd, session, rc)>> ELSE << >>

\* The metrics of the compile report, if it can be read; an unreadable report
\* is passed over.
ReportMetrics(fs) ==
  IF "report" \in given /\ fs["report"] # << >>
  THEN <<Metric("report", "report", fs["report"][1].by, fs["report"][1].ops)>>
  ELSE << >>

\* BuildModel: the graph file, with the sidecar applied if it can be read.
BuiltModel(fs) ==
  [ops    |-> fs["graph"][1].ops,
   by     |-> fs["graph"][1].by,
   tagged |-> "sidecar" \in given /\ fs["sidecar"] # << >> /\ fs["graph"][1].ops > 0]

CompileEndFromGraph ==
  /\ at = "CompileEnd" /\ ~FromModelDir
  /\ \E rc \in {0, 1} :
       /\ MaybeRun("compile_cmd", {"graph"}, rc)
       /\ LET ran == compile_metrics \o CommandMetrics("compile_cmd", rc)
          IN \/ /\ rc # 0 \/ files'["graph"] = << >>
                /\ compile_metrics' = ran
                /\ Fails
                /\ UNCHANGED <<model_, metadata_ops>>
             \/ /\ rc = 0 /\ files'["graph"] # << >>
                /\ model_' = BuiltModel(files')
                /\ compile_metrics' = ran \o ReportMetrics(files')
                /\ metadata_ops' = model_'
                /\ at' = "LoadBegin"
  /\ UNCHANGED <<settingVars, inputs, outputs, runtimeVars, cirh_path, cirh_ops_, trackerVars>>

-----------------------------------------------------------------------------
(* The executors of the model directory. *)
Found(fs) == Among(Executors, {e \in Executor : fs[e] # << >>})

\* The executors parsed: all of those found, up to the first that cannot be
\* read.
Parsed(fs) ==
  LET found == Found(fs)
      bad   == {i \in DOMAIN found : ~fs[found[i]][1].readable}
  IN IF bad = {} THEN found ELSE SubSeq(found, 1, Min(bad) - 1)

\* Of these, the ones with operators: each is an output and reports metrics.
Graphs(fs) ==
  Among(Parsed(fs), {e \in Executor : fs[e] # << >> /\ fs[e][1].ops > 0})

\* A faulty variant: the last graph is taken for the largest.
LastGraph(fs) == Last(Graphs(fs))

\* The first of the largest graphs.
Largest(fs) ==
  LET graphs == Graphs(fs)
      i == Min({j \in DOMAIN graphs :
                  \A k \in DOMAIN graphs : fs[graphs[k]][1].ops <= fs[graphs[j]][1].ops})
  IN graphs[i]

ParsedModel(c) == [ops |-> c.ops, by |-> c.by, tagged |-> FALSE]

ExecutorMetrics(fs) ==
  LET graphs == Graphs(fs)
  IN [i \in DOMAIN graphs |->
        Metric("cirh_operators", graphs[i], fs[graphs[i]][1].by, fs[graphs[i]][1].ops)]

\* The error paths leave what was collected until then in the artifacts, and
\* the operators of the largest graph in the adapter.
CompileEndFromDir ==
  /\ at = "CompileEnd" /\ FromModelDir
  /\ \E rc \in {0, 1} :
       /\ MaybeRun("compile_cmd", Executor, rc)
       /\ LET ran    == compile_metrics \o CommandMetrics("compile_cmd", rc)
              graphs == Graphs(files')
              read   == Parsed(files') = Found(files')
          IN \/ /\ rc # 0 \/ Found(files') = << >>
                /\ compile_metrics' = ran
                /\ Fails
                /\ UNCHANGED <<outputs, cirh_ops_, model_, contextVars>>
             \/ /\ rc = 0 /\ Found(files') # << >>
                /\ cirh_ops_' = IF graphs = << >> THEN cirh_ops_
                                ELSE ParsedModel(files'[Largest(files')][1])
                /\ outputs' = outputs \o graphs
                /\ \/ /\ ~read \/ cirh_ops_'.ops = 0
                      /\ compile_metrics' = ran \o ExecutorMetrics(files')
                      /\ Fails
                      /\ UNCHANGED <<model_, contextVars>>
                   \/ /\ read /\ cirh_ops_'.ops > 0
                      /\ model_' = cirh_ops_'
                      /\ compile_metrics' =
                           ran \o ExecutorMetrics(files')
                             \o <<Metric("cirh_executors", "dir", session, Len(Found(files')))>>
                             \o ReportMetrics(files')
                      /\ cirh_path' = IF graphs = << >> THEN "empty" ELSE Largest(files')
                      /\ metadata_ops' = model_'
                      /\ at' = "LoadBegin"
  /\ UNCHANGED <<settingVars, inputs, runtimeVars, trackerVars>>

-----------------------------------------------------------------------------
\* A faulty variant: loading goes ahead without operators.
LoadBeginAnyway ==
  /\ at = "LoadBegin"
  /\ at' = "LoadEnd"
  /\ UNCHANGED <<settingVars, files, compileVars, runtimeVars, contextVars, modelVars,
                 trackerVars>>

LoadBegin ==
  /\ at = "LoadBegin"
  /\ IF model_.ops = 0 THEN Fails ELSE at' = "LoadEnd"
  /\ UNCHANGED <<settingVars, files, compileVars, runtimeVars, contextVars, modelVars,
                 trackerVars>>

LoadEnd ==
  /\ at = "LoadEnd"
  /\ at' = "RunBegin"
  /\ runtime_metrics' = Append(runtime_metrics, Metric("partition_count", "model", session, model_.ops))
  /\ UNCHANGED <<settingVars, files, compileVars, runtime_inputs, contextVars, modelVars,
                 trackerVars>>

RunBegin ==
  /\ at = "RunBegin"
  /\ at' = "RunEnd"
  /\ UNCHANGED <<settingVars, files, compileVars, runtimeVars, contextVars, modelVars,
                 trackerVars>>

\* CollectRuntimeMetrics: a log that cannot be read is passed over.
LogMetrics(fs) ==
  IF "log" \in given /\ fs["log"] # << >>
  THEN <<Metric("log", "log", fs["log"][1].by, fs["log"][1].ops)>>
  ELSE << >>

PartitionMetrics ==
  [i \in DOMAIN completed_ |->
     Metric("partition_ms", completed_[i].name, session,
            completed_[i].end_ts - completed_[i].begin_ts)]

RunEnd ==
  /\ at = "RunEnd"
  /\ \E rc \in {0, 1} :
       /\ MaybeRun("run_cmd", {"log"}, rc)
       /\ LET ran == runtime_metrics \o CommandMetrics("run_cmd", rc)
          IN IF rc # 0
             THEN Fails /\ runtime_metrics' = ran
             ELSE /\ at' = "Shutdown"
                  /\ runtime_metrics' = ran \o LogMetrics(files') \o PartitionMetrics
  /\ UNCHANGED <<settingVars, compileVars, runtime_inputs, contextVars, modelVars, trackerVars>>

\* cirh_ops_ stays.
Shutdown ==
  /\ at = "Shutdown"
  /\ at' = "idle"
  /\ Reset
  /\ model_' = NoModel
  /\ UNCHANGED <<settingVars, files, compileVars, runtimeVars, contextVars, cirh_ops_>>

\* Partitions are marked by a caller of the adapter while the workload is
\* loaded; the driver itself never does.
Loaded == at \in {"RunBegin", "RunEnd"}

SubgraphBegin ==
  /\ Loaded /\ \E n \in Partition : Begin(n)
  /\ UNCHANGED <<settingVars, at, files, compileVars, runtimeVars, contextVars, modelVars>>

SubgraphEnd ==
  /\ Loaded /\ \E n \in Partition : End(n)
  /\ UNCHANGED <<settingVars, at, files, compileVars, runtimeVars, contextVars, modelVars>>

Next ==
  \/ InitializeSession \/ PrepareArtifacts
  \/ CompileBegin \/ CompileEndFromGraph \/ CompileEndFromDir
  \/ LoadBegin \/ LoadEnd \/ RunBegin \/ RunEnd \/ Shutdown
  \/ SubgraphBegin \/ SubgraphEnd

Spec == Init /\ [][Next]_vars

-----------------------------------------------------------------------------
\* CompileEnd has succeeded in this session, which has not failed since.
Compiled == at \in {"LoadBegin", "LoadEnd", "RunBegin", "RunEnd", "Shutdown"}

Calls == {"idle", "PrepareArtifacts", "CompileBegin", "CompileEnd"}
           \cup {"LoadBegin", "LoadEnd", "RunBegin", "RunEnd", "Shutdown"}

\* Type invariant.
AdapterTypeOK ==
  /\ session \in 0 .. MaxSessions /\ at \in Calls
  /\ \A f \in File : Len(files[f]) <= 1
  /\ ToSet(inputs) \subseteq {"graph", "sidecar"}
  /\ ToSet(outputs) \subseteq Executor \cup {"report"}
  /\ ToSet(runtime_inputs) \subseteq {"log"}
  /\ \A m \in {metadata_ops, model_, cirh_ops_, kept} : m.ops \in 0 .. MaxOps /\ m.by \in 0 .. MaxSessions
  /\ cirh_path \in Executor \cup {"none", "empty"}
  /\ \A i \in DOMAIN compile_metrics : compile_metrics[i].value \in Nat
  /\ \A n \in Partition : Len(active_[n]) <= 1

\* The executors with a graph that has operators.
Full == {e \in Executor : files[e] # << >> /\ files[e][1].ops > 0}

\* A compile with a model directory reports every executor whose graph has
\* operators, once and apart from the others, and describes the largest of
\* these graphs.  When no graph has any, what it describes is the model its
\* adapter kept from an earlier session: on a new adapter such a compile fails,
\* on one used again it succeeds, whatever its error message says.
ModelIsLargest ==
  Compiled /\ FromModelDir =>
    LET own == {i \in DOMAIN compile_metrics : compile_metrics[i].name = "cirh_operators"}
    IN /\ IF Full = {}
          THEN cirh_path = "empty" /\ metadata_ops = kept /\ kept.ops > 0
          ELSE /\ cirh_path \in Full /\ metadata_ops = ParsedModel(files[cirh_path][1])
               /\ \A e \in Full : files[e][1].ops <= metadata_ops.ops
       /\ {compile_metrics[i].source : i \in own} = Full
       /\ ToSet(outputs) \cap Executor = Full
       /\ \A i, j \in own : compile_metrics[i].source = compile_metrics[j].source => i = j
       /\ \A i \in own : compile_metrics[i].value = files[compile_metrics[i].source][1].ops

\* A session that gets past loading has a model, and the context, the adapter
\* and the metric reported at the end of loading agree on it.
LoadedModelAgrees ==
  at \in {"LoadEnd", "RunBegin", "RunEnd", "Shutdown"} =>
    /\ metadata_ops.ops > 0
    /\ metadata_ops = model_
    /\ \A i \in DOMAIN runtime_metrics :
         runtime_metrics[i].name = "partition_count" => runtime_metrics[i].value = metadata_ops.ops

\* The completed partitions are the pairs of this session's calls, once each,
\* and nothing of an earlier session; a run that succeeded has reported each
\* of them, in the order they ended.
PartitionsArePairs ==
  /\ PairsCompleted
  /\ at = "Shutdown" =>
       LET before == Len(runtime_metrics) - Len(completed_)
       IN /\ before >= 0
          /\ \A i \in DOMAIN runtime_metrics :
               IF i <= before THEN runtime_metrics[i].name # "partition_ms"
               ELSE LET done == completed_[i - before]
                    IN runtime_metrics[i] = Metric("partition_ms", done.name, session,
                                                   done.end_ts - done.begin_ts)

\* "Observing what that compile produced, not reading files an earlier one
\* left behind": the model of a session that ran a compile is that compile's.
ObservesThisCompile ==
  Compiled /\ FromModelDir /\ "compile_cmd" \in given => metadata_ops.by = session
=============================================================================
