--------------------------- MODULE EdgeTpuAdapter ---------------------------
(***************************************************************************)
(* The adapter of the Edge TPU.  A compile leaves a model and reports: a   *)
(* log with the table of operators, next to the model, and the captured    *)
(* output of the compiler, which has the memory summary as well.  The      *)
(* adapter looks for a log when it is initialised and again after the      *)
(* compile, takes the operators from the model as it was before the        *)
(* compile, and their placement from the log.                              *)
(*                                                                         *)
(* Sessions follow each other over one set of files, on a new adapter or,  *)
(* by a caller other than the driver, on the one of the session before.    *)
(* Between any two calls the session may end because a tool or the trace   *)
(* failed; then nobody shuts the adapter down.                             *)
(*                                                                         *)
(* A file remembers the session whose command wrote it, 0 for files that   *)
(* were there before.  Of the flatbuffer the operators' types are kept, of *)
(* a log its rows and whether it has the summary; names, sizes and units   *)
(* are left out.                                                           *)
(***************************************************************************)
EXTENDS Naturals, Sequences, SequencesExt, FiniteSets, FiniteSetsExt, Lists

CONSTANTS
  Tables,      \* what a log can hold: sequences of rows [type, mapped]
  Settings,    \* sets of inputs a context may name
  LeftBehind,  \* what the files may hold before the first session
  MaxSessions  \* bound: sessions

VARIABLES
  session,       \* history: the number of the session
  at,            \* the call the driver makes next, "idle" between sessions
  given,         \* the inputs the context names
  files,         \* files[f]: the content of f, as a sequence of at most one
  clean,         \* history: no session was cut short on this adapter
  log_resolved, runtime_log_resolved,            \* properties of the context
  outputs, compile_metrics,                      \* CompileArtifactSet
  runtime_inputs, runtime_metrics,               \* RuntimeArtifactSet
  metadata_ops,                                  \* the context
  model_, operators_, compile_summary_           \* the adapter

settingVars == <<session, given, clean>>
resolvedVars == <<log_resolved, runtime_log_resolved>>
compileVars == <<outputs, compile_metrics>>
runtimeVars == <<runtime_inputs, runtime_metrics>>
adapterVars == <<model_, operators_, compile_summary_>>
vars == <<settingVars, at, files, resolvedVars, compileVars, runtimeVars, metadata_ops,
          adapterVars>>

\* "source" is the model as it was before the compile.  "compiled" is only the
\* name the model goes by when the context names the compiled one.
File == {"source", "compiled", "named log", "summary log", "operator log", "runtime log"}
Logs == {"named log", "summary log", "operator log"}

IsTable(rows) == IsList(rows) /\ \A i \in DOMAIN rows : rows[i].mapped \in BOOLEAN

\* What a file can hold: a model, or a log.
IsContent(f, c) ==
  IF f \in {"source", "compiled"} THEN IsList(c.ops)
  ELSE IsTable(c.rows) /\ c.readable \in BOOLEAN /\ c.summary \in BOOLEAN

AreFiles(fs) == \A f \in File : fs[f] # << >> => Len(fs[f]) = 1 /\ IsContent(f, fs[f][1])

ASSUME EdgeTpuAssumption ==
  /\ \A rows \in Tables : IsTable(rows)
  /\ \A fs \in LeftBehind : AreFiles(fs)
  /\ MaxSessions \in Nat

NoSummary == [has_summary |-> FALSE, by |-> 0]

Metric(name, value, by) == [name |-> name, value |-> value, by |-> by]

Exists(fs, f) == fs[f] # << >>

-----------------------------------------------------------------------------
Init ==
  /\ session = 0 /\ at = "idle" /\ given = {} /\ clean = TRUE
  /\ files \in LeftBehind
  /\ log_resolved = "" /\ runtime_log_resolved = ""
  /\ outputs = << >> /\ compile_metrics = << >>
  /\ runtime_inputs = << >> /\ runtime_metrics = << >>
  /\ metadata_ops = << >>
  /\ model_ = << >> /\ operators_ = << >> /\ compile_summary_ = NoSummary

\* DeriveCompilerLogPath: captured output before the log next to the model.
DerivedLog(fs) ==
  IF Exists(fs, "summary log") THEN "summary log"
  ELSE IF Exists(fs, "operator log") THEN "operator log" ELSE ""

\* The log as InitializeSession finds it: the one named, or else the derived.
FoundLog(fs, inputs) ==
  IF "named log" \in inputs
  THEN IF Exists(fs, "named log") THEN "named log" ELSE ""
  ELSE DerivedLog(fs)

ModelName(inputs) == IF "compiled" \in inputs THEN "compiled" ELSE "source"

\* The driver creates an adapter for each session; another caller may keep the
\* one it has.
NewAdapter ==
  /\ clean' = TRUE
  /\ model_' = << >> /\ operators_' = << >> /\ compile_summary_' = NoSummary
SameAdapter == UNCHANGED <<adapterVars, clean>>

\* A session with a context and artifact sets of its own.
InitializeSession(inputs) ==
  /\ at = "idle" /\ session < MaxSessions
  /\ session' = session + 1
  /\ given' = inputs
  /\ at' = "PrepareArtifacts"
  /\ log_resolved' = FoundLog(files, given')
  /\ runtime_log_resolved' =
       IF "runtime log" \in given' /\ Exists(files, "runtime log") THEN "runtime log" ELSE ""
  /\ outputs' = << >> /\ compile_metrics' = << >>
  /\ runtime_inputs' = << >> /\ runtime_metrics' = << >> /\ metadata_ops' = << >>
  /\ UNCHANGED files

\* The model must have been there at initialisation; nothing in between writes
\* it.
PrepareArtifacts ==
  /\ at = "PrepareArtifacts"
  /\ IF ~Exists(files, ModelName(given))
     THEN at' = "idle"
     ELSE at' = "CompileBegin"
  /\ outputs' = IF at' = "idle" \/ log_resolved = "" THEN << >> ELSE <<log_resolved>>
  /\ runtime_inputs' = IF at' = "idle" \/ runtime_log_resolved = "" THEN << >>
                       ELSE <<runtime_log_resolved>>
  /\ compile_metrics' = << >> /\ runtime_metrics' = << >>
  /\ UNCHANGED <<settingVars, files, resolvedVars, metadata_ops, adapterVars>>

\* CompileBegin, LoadBegin and RunBegin check their arguments and do no more.
Begins ==
  /\ \/ at = "CompileBegin" /\ at' = "CompileEnd"
     \/ at = "LoadBegin" /\ at' = "LoadEnd"
     \/ at = "RunBegin" /\ at' = "RunEnd"
  /\ UNCHANGED <<settingVars, files, resolvedVars, compileVars, runtimeVars, metadata_ops,
                 adapterVars>>

\* The compiler writes what it will of a model and the logs of this session.
Command ==
  \E table \in Tables, written \in SUBSET {"compiled", "summary log", "operator log"} :
    files' = [f \in File |->
                IF f \notin written THEN files[f]
                ELSE IF f = "compiled" THEN <<[by |-> session, ops |-> << >>]>>
                ELSE <<[by |-> session, readable |-> TRUE, rows |-> table,
                        summary |-> f = "summary log"]>>]

MaybeCompile(rc) ==
  IF "compile_cmd" \in given THEN Command ELSE rc = 0 /\ UNCHANGED files

CommandMetrics(rc) ==
  IF "compile_cmd" \in given THEN <<Metric("exit_code", rc, session)>> ELSE << >>

\* A faulty variant: the log found later is added to the one found before.
LateLogAdds(fs) == DerivedLog(fs)

\* The log found after the compile, if there was none before.
LateLog(fs) == IF log_resolved = "" THEN DerivedLog(fs) ELSE ""

NotEmpty(f) == IF f = "" THEN << >> ELSE <<f>>

\* The logs that can be read; one that cannot is passed over.
ReadLogs(fs, logs) == Among(logs, {f \in ToSet(logs) : fs[f][1].readable})

\* Rows that name a type more than once leave it mapped if one of them is.
\* A faulty variant: the last row of a type decides.
PlacedByLast(rows, type) ==
  \E i \in DOMAIN rows :
    /\ rows[i].type = type /\ ~rows[i].mapped
    /\ \A j \in DOMAIN rows : rows[j].type = type => j <= i

\* A type is left to the CPU when the table names it and never as mapped.
OnCpu(rows, type) ==
  /\ \E i \in DOMAIN rows : rows[i].type = type
  /\ \A i \in DOMAIN rows : rows[i].type = type => ~rows[i].mapped

Tag(fallback) == IF fallback THEN "cpu_fallback" ELSE "edgetpu"

BuildModelFromGraph(graph, rows) ==
  [i \in DOMAIN graph |-> [type |-> graph[i], stage_tag |-> Tag(OnCpu(rows, graph[i]))]]

BuildModelFromOperators(rows) ==
  [i \in DOMAIN rows |-> [type |-> rows[i].type, stage_tag |-> Tag(~rows[i].mapped)]]

ToMetricSamples(log) ==
  LET mapped == Cardinality({i \in DOMAIN log.rows : log.rows[i].mapped})
  IN (IF log.summary THEN <<Metric("memory_summary", 1, log.by)>> ELSE << >>)
     \o [i \in DOMAIN log.rows |-> Metric("operator_count", 1, log.by)]
     \o IF log.rows = << >> THEN << >>
        ELSE <<Metric("ops_mapped_to_tpu", mapped, log.by),
               Metric("ops_fallback_to_cpu", Len(log.rows) - mapped, log.by)>>

\* Operators can be read from the source model.  When the context names the
\* compiled model, the source is looked for next to it.
HasGraph(fs) == Exists(fs, "source") /\ fs["source"][1].ops # << >>

CompileEnd ==
  /\ at = "CompileEnd"
  /\ \E rc \in {0, 1} :
       /\ MaybeCompile(rc)
       /\ IF rc # 0
          THEN /\ at' = "idle"
               /\ compile_metrics' = compile_metrics \o CommandMetrics(rc)
               /\ UNCHANGED <<log_resolved, outputs, metadata_ops, adapterVars>>
          ELSE LET late == LateLog(files')
                   logs == outputs \o NotEmpty(late)
                   read == ReadLogs(files', logs)
               IN /\ at' = "LoadBegin"
                  /\ log_resolved' = IF late = "" THEN log_resolved ELSE late
                  /\ outputs' = logs \o IF HasGraph(files') THEN <<"source">> ELSE << >>
                  /\ operators_' = IF read = << >> THEN operators_
                                   ELSE files'[Last(read)][1].rows
                  /\ compile_summary_' =
                       IF read = << >> THEN compile_summary_
                       ELSE [has_summary |-> files'[Last(read)][1].summary,
                             by |-> files'[Last(read)][1].by]
                  /\ model_' = IF HasGraph(files')
                               THEN BuildModelFromGraph(files'["source"][1].ops, operators_')
                               ELSE BuildModelFromOperators(operators_')
                  /\ metadata_ops' = model_'
                  /\ compile_metrics' =
                       compile_metrics \o CommandMetrics(rc)
                       \o FlattenSeq([i \in DOMAIN read |-> ToMetricSamples(files'[read[i]][1])])
                       \o IF HasGraph(files')
                          THEN <<Metric("model_parameter_bytes", 1, files'["source"][1].by)>>
                          ELSE << >>
  /\ UNCHANGED <<settingVars, runtime_log_resolved, runtimeVars>>

LoadEnd ==
  /\ at = "LoadEnd"
  /\ at' = "RunBegin"
  /\ runtime_metrics' = Append(runtime_metrics, Metric("graph_nodes", Len(model_), session))
  /\ UNCHANGED <<settingVars, files, resolvedVars, compileVars, runtime_inputs, metadata_ops,
                 adapterVars>>

\* CollectRuntimeMetrics; a log that cannot be read is passed over.
RunEnd ==
  /\ at = "RunEnd"
  /\ at' = "Shutdown"
  /\ LET read == ReadLogs(files, runtime_inputs)
     IN runtime_metrics' =
          runtime_metrics \o [i \in DOMAIN read |-> Metric("latency", 1, files[read[i]][1].by)]
  /\ UNCHANGED <<settingVars, files, resolvedVars, compileVars, runtime_inputs, metadata_ops,
                 adapterVars>>

\* A faulty variant: the operators of the compiler's table stay.
ShutdownKeeps ==
  /\ at = "Shutdown"
  /\ at' = "idle" /\ clean' = TRUE
  /\ model_' = << >> /\ compile_summary_' = NoSummary
  /\ UNCHANGED <<session, given, files, resolvedVars, compileVars, runtimeVars, metadata_ops,
                 operators_>>

Shutdown ==
  /\ at = "Shutdown"
  /\ at' = "idle" /\ clean' = TRUE
  /\ operators_' = << >> /\ model_' = << >> /\ compile_summary_' = NoSummary
  /\ UNCHANGED <<session, given, files, resolvedVars, compileVars, runtimeVars, metadata_ops>>

\* The driver returns without shutting the adapter down: a tool or the trace
\* failed between two calls.
Abandon ==
  /\ at # "idle"
  /\ at' = "idle" /\ clean' = FALSE
  /\ UNCHANGED <<session, given, files, resolvedVars, compileVars, runtimeVars, metadata_ops,
                 adapterVars>>

Next ==
  \/ \E inputs \in Settings : InitializeSession(inputs) /\ (NewAdapter \/ SameAdapter)
  \/ PrepareArtifacts \/ Begins \/ CompileEnd
  \/ LoadEnd \/ RunEnd \/ Shutdown \/ Abandon

Spec == Init /\ [][Next]_vars

-----------------------------------------------------------------------------
\* CompileEnd has succeeded in this session, which has not ended since.
Compiled == at \in {"LoadBegin", "LoadEnd", "RunBegin", "RunEnd", "Shutdown"}

Calls ==
  {"idle", "PrepareArtifacts", "CompileBegin", "CompileEnd"}
    \cup {"LoadBegin", "LoadEnd", "RunBegin", "RunEnd", "Shutdown"}

\* Type invariant.
EdgeTpuTypeOK ==
  /\ session \in 0 .. MaxSessions /\ at \in Calls /\ clean \in BOOLEAN
  /\ \A f \in File : Len(files[f]) <= 1
  /\ log_resolved \in Logs \cup {""} /\ runtime_log_resolved \in {"", "runtime log"}
  /\ Len(outputs) <= 2 /\ ToSet(outputs) \subseteq Logs \cup {"source"}
  /\ ToSet(runtime_inputs) \subseteq {"runtime log"}
  /\ \A i \in DOMAIN model_ : model_[i].stage_tag \in {"edgetpu", "cpu_fallback"}
  /\ \A i \in DOMAIN compile_metrics : compile_metrics[i].value \in Nat

\* The rows of the log this session lists, none if it cannot be read.
ListedRows ==
  LET logs == ToSet(outputs) \cap Logs
  IN IF logs = {} THEN << >>
     ELSE LET log == files[CHOOSE f \in logs : TRUE][1]
          IN IF log.readable THEN log.rows ELSE << >>

TagsOf(type) == {metadata_ops[i].stage_tag : i \in {j \in DOMAIN metadata_ops :
                                                      metadata_ops[j].type = type}}

\* On an adapter none of whose sessions was cut short, every operator reported
\* as left to the CPU is so in the log this session lists, and every type the
\* log leaves to the CPU altogether is reported so, wherever the operators are
\* taken from.
PlacementIsFromListedLog ==
  Compiled /\ clean =>
    /\ \A i \in DOMAIN metadata_ops : metadata_ops[i].stage_tag = "cpu_fallback"
         => \E j \in DOMAIN ListedRows : /\ ListedRows[j].type = metadata_ops[i].type
                                         /\ ~ListedRows[j].mapped
    /\ \A j \in DOMAIN ListedRows :
         (\A k \in DOMAIN ListedRows : ListedRows[k].type = ListedRows[j].type
                                         => ~ListedRows[k].mapped)
           => TagsOf(ListedRows[j].type) \subseteq {"cpu_fallback"}

\* Where a sequence of metrics has those of a name.
Those(name, ms) == {i \in DOMAIN ms : ms[i].name = name}

\* What a session reports of its operators adds up: placed and left ones are
\* the rows, each reported once; without a source model the operators of the
\* context are these rows; and the nodes counted at the end of loading are the
\* operators of the context.
CountsAddUp ==
  Compiled /\ clean =>
    LET rows   == Those("operator_count", compile_metrics)
        placed == {i \in DOMAIN metadata_ops : metadata_ops[i].stage_tag = "edgetpu"}
    IN /\ rows # {} =>
            \E m, l \in DOMAIN compile_metrics :
              /\ Those("ops_mapped_to_tpu", compile_metrics) = {m}
              /\ Those("ops_fallback_to_cpu", compile_metrics) = {l}
              /\ compile_metrics[m].value + compile_metrics[l].value = Cardinality(rows)
              /\ "source" \notin ToSet(outputs) => compile_metrics[m].value = Cardinality(placed)
       /\ "source" \notin ToSet(outputs) => Len(metadata_ops) = Cardinality(rows)
       /\ at \in {"RunBegin", "RunEnd", "Shutdown"} =>
            \E n \in DOMAIN runtime_metrics :
              /\ Those("graph_nodes", runtime_metrics) = {n}
              /\ runtime_metrics[n].value = Len(metadata_ops)

\* A session lists the one log it resolved, before or after the compile, and
\* takes its metrics from that file alone.
LogIsListedOnce ==
  Compiled =>
    LET logs == Among(outputs, Logs)
    IN /\ logs = NotEmpty(log_resolved)
       /\ Cardinality(Those("memory_summary", compile_metrics)) <= 1
       /\ \A i \in DOMAIN compile_metrics :
            compile_metrics[i].name = "operator_count" =>
              logs # << >> /\ compile_metrics[i].by = files[logs[1]][1].by

\* "Any file that looks like captured stdout is preferred" over the log with
\* the operator table only, unless the context names a log.
SummaryIsPreferred ==
  Compiled /\ "named log" \notin given /\ Exists(files, "summary log")
    => log_resolved # "operator log"
=============================================================================
