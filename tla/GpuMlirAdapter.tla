--------------------------- MODULE GpuMlirAdapter ---------------------------
(***************************************************************************)
(* The adapter of GPUs programmed in MLIR.  There is nothing to compile:   *)
(* the module is read, described in a manifest, written out twice, as it   *)
(* was and with the operators' ids in it, and indexed so that the records  *)
(* of a run can be traced to operators.                                    *)
(*                                                                         *)
(* Sessions follow each other as for module EdgeTpuAdapter: each with a    *)
(* module and logs of its own, on a new adapter or, by a caller other than *)
(* the driver, on that of the session before, which may have been left     *)
(* without being shut down.  The driver itself never names a log of        *)
(* events.  The files the adapter writes stay where they are.              *)
(*                                                                         *)
(* A file is a sequence of at most one content: lines for a module,        *)
(* records or events for a log, operators for the manifest, notes for the  *)
(* instrumented module.  An empty log is one that cannot be told from a    *)
(* missing one.  The correlator of artifacts, which is filled and never    *)
(* read, and the reverse index, which gives back the name a record was     *)
(* found by, are left out.                                                 *)
(***************************************************************************)
EXTENDS MlirModule, RuntimeCorrelation

CONSTANTS
  Projects,    \* what the files of a session may be: a module and logs
  Settings,    \* sets of inputs a context may name
  MaxSessions  \* bound: sessions

VARIABLES
  session,         \* history: the number of the session
  at,              \* the call the driver makes next, "idle" between sessions
  given,           \* the inputs the context names
  project,         \* the session's module and logs
  manifest, instrumented,          \* files the adapter writes
  outputs,                         \* CompileArtifactSet
  runtime_inputs, runtime_metrics, \* RuntimeArtifactSet
  metadata_ops,                    \* the context
  model_, symbol_to_id_            \* the adapter and its correlator

\* What a module and logs can be.
IsProject(files) ==
  /\ files.mlir # << >> =>
       IsList(files.mlir[1]) /\ \A i \in DOMAIN files.mlir[1] : files.mlir[1][i].elements \in Nat
  /\ files.records # << >> => IsList(files.records[1])
  /\ files.events # << >> => IsList(files.events[1])

settingVars == <<session, given, project>>
fileVars == <<manifest, instrumented>>
runtimeVars == <<runtime_inputs, runtime_metrics>>
adapterVars == <<model_, symbol_to_id_>>
vars == <<settingVars, at, fileVars, outputs, runtimeVars, metadata_ops, adapterVars>>

Init ==
  /\ session = 0 /\ at = "idle" /\ given = {}
  /\ project = [mlir |-> << >>, records |-> << >>, events |-> << >>]
  /\ manifest = << >> /\ instrumented = << >>
  /\ outputs = << >> /\ runtime_inputs = << >> /\ runtime_metrics = << >>
  /\ metadata_ops = << >>
  /\ model_ = << >> /\ symbol_to_id_ = << >>

Fails == at' = "idle"

\* The driver creates an adapter for each session; another caller may keep the
\* one it has.
NewAdapter == model_' = << >> /\ symbol_to_id_' = << >>
SameAdapter == UNCHANGED adapterVars

\* A session with a context and artifact sets of its own.
InitializeSession(inputs, files) ==
  /\ at = "idle" /\ session < MaxSessions
  /\ session' = session + 1
  /\ given' = inputs /\ project' = files
  /\ at' = "PrepareArtifacts"
  /\ outputs' = << >> /\ runtime_inputs' = << >> /\ runtime_metrics' = << >>
  /\ metadata_ops' = << >>
  /\ UNCHANGED fileVars

\* The module is the one input; that it is there is not checked yet.
PrepareArtifacts ==
  /\ at = "PrepareArtifacts"
  /\ IF "mlir" \notin given
     THEN Fails /\ UNCHANGED <<outputs, runtimeVars>>
     ELSE /\ at' = "CompileBegin"
          /\ outputs' = <<"manifest">>
          /\ runtime_inputs' = Among(<<"runtime_log", "runtime_events">>, given)
          /\ runtime_metrics' = << >>
  /\ UNCHANGED <<settingVars, fileVars, metadata_ops, adapterVars>>

\* CompileBegin and RunBegin check their arguments and do no more.
Begins ==
  /\ \/ at = "CompileBegin" /\ at' = "CompileEnd"
     \/ at = "RunBegin" /\ at' = "RunEnd"
  /\ UNCHANGED <<settingVars, fileVars, outputs, runtimeVars, metadata_ops, adapterVars>>

\* The module as it is read, with ids, and only then with figures.
BuildModel(lines) == PopulateAll(TagStableIds(BuildModelDescription(lines)))

\* The module cannot be opened.
CompileEndNoModule ==
  /\ at = "CompileEnd" /\ project.mlir = << >>
  /\ Fails
  /\ UNCHANGED <<settingVars, fileVars, outputs, runtimeVars, metadata_ops, adapterVars>>

\* The model replaces the one before, then the files are written; the first
\* that cannot be is an error, and the model is neither indexed nor handed to
\* the context.
CompileEndNoFile ==
  /\ at = "CompileEnd" /\ project.mlir # << >>
  /\ model_' = BuildModel(project.mlir[1])
  /\ Fails
  /\ \/ UNCHANGED manifest
     \/ manifest' = <<model_'>>
  /\ UNCHANGED <<settingVars, instrumented, outputs, runtimeVars, metadata_ops, symbol_to_id_>>

CompileEnd ==
  /\ at = "CompileEnd" /\ project.mlir # << >>
  /\ model_' = BuildModel(project.mlir[1])
  /\ manifest' = <<model_'>>
  /\ instrumented' = <<Instrument(project.mlir[1], model_')>>
  /\ outputs' = outputs \o <<"original", "instrumented">>
  /\ symbol_to_id_' = IndexModel(symbol_to_id_, model_')
  /\ metadata_ops' = model_'
  /\ at' = "LoadManifest"
  /\ UNCHANGED <<settingVars, runtimeVars>>

\* The driver has the adapter load the manifest it finds among the outputs.
LoadManifest ==
  /\ at = "LoadManifest"
  /\ IF manifest = << >> THEN Fails ELSE at' = "LoadBegin"
  /\ UNCHANGED <<settingVars, fileVars, outputs, runtimeVars, metadata_ops, adapterVars>>

\* A model without operators is taken for none.
LoadBegin ==
  /\ at = "LoadBegin"
  /\ IF model_ = << >> THEN Fails ELSE at' = "LoadEnd"
  /\ UNCHANGED <<settingVars, fileVars, outputs, runtimeVars, metadata_ops, adapterVars>>

OpCount(n) == [kind |-> "op_count", symbol |-> "", stable_id |-> NoId, value |-> n]

LoadEnd ==
  /\ at = "LoadEnd" /\ at' = "RunBegin"
  /\ runtime_metrics' = Append(runtime_metrics, OpCount(Len(model_)))
  /\ UNCHANGED <<settingVars, fileVars, outputs, runtime_inputs, metadata_ops, adapterVars>>

\* The metrics of a log of records; one that cannot be read has none.
RecordMetrics ==
  IF "runtime_log" \in ToSet(runtime_inputs) /\ project.records # << >>
  THEN CorrelateRecords(symbol_to_id_, project.records[1]) ELSE << >>

\* CollectRuntimeMetrics: the records first; that the log of events cannot be
\* opened is an error, and what the records gave stays.
RunEnd ==
  /\ at = "RunEnd"
  /\ IF "runtime_events" \notin ToSet(runtime_inputs)
     THEN at' = "Shutdown" /\ runtime_metrics' = runtime_metrics \o RecordMetrics
     ELSE IF project.events = << >>
     THEN Fails /\ runtime_metrics' = runtime_metrics \o RecordMetrics
     ELSE /\ at' = "Shutdown"
          /\ runtime_metrics' = runtime_metrics \o RecordMetrics
                                  \o CorrelateEvents(model_, project.events[1])
  /\ UNCHANGED <<settingVars, fileVars, outputs, runtime_inputs, metadata_ops, adapterVars>>

Shutdown ==
  /\ at = "Shutdown" /\ at' = "idle"
  /\ model_' = << >> /\ symbol_to_id_' = << >>
  /\ UNCHANGED <<settingVars, fileVars, outputs, runtimeVars, metadata_ops>>

\* A tool or the trace failed between two calls.
Abandon ==
  /\ at # "idle" /\ at' = "idle"
  /\ UNCHANGED <<settingVars, fileVars, outputs, runtimeVars, metadata_ops, adapterVars>>

Next ==
  \/ \E inputs \in Settings, files \in Projects :
       InitializeSession(inputs, files) /\ (NewAdapter \/ SameAdapter)
  \/ PrepareArtifacts \/ Begins \/ CompileEndNoModule \/ CompileEndNoFile \/ CompileEnd
  \/ LoadManifest \/ LoadBegin \/ LoadEnd \/ RunEnd \/ Shutdown \/ Abandon

Spec == Init /\ [][Next]_vars

-----------------------------------------------------------------------------
\* Type invariant.
GpuTypeOK ==
  /\ session \in 0 .. MaxSessions
  /\ at \in {"idle", "PrepareArtifacts", "CompileBegin", "CompileEnd", "LoadManifest",
             "LoadBegin", "LoadEnd", "RunBegin", "RunEnd", "Shutdown"}
  /\ \A f \in {manifest, instrumented} : Len(f) <= 1
  /\ ToSet(outputs) \subseteq {"manifest", "original", "instrumented"}
  /\ ToSet(runtime_inputs) \subseteq {"runtime_log", "runtime_events"}
  /\ \A k \in DOMAIN model_ : model_[k].estimated_flops \in Nat
  /\ \A n \in DOMAIN symbol_to_id_ : symbol_to_id_[n] # NoId

\* From the end of the compile to the end of the session everyone speaks of the
\* same operators, whatever sessions came before on this adapter: the manifest
\* and the context list the same, loading counts them, and a metric carries the
\* id of an operator of the name its record has if there is one, and none if
\* not, whichever of the two correlators it comes from.
OneModel ==
  at \in {"LoadManifest", "LoadBegin", "LoadEnd", "RunBegin", "RunEnd", "Shutdown"} =>
    /\ manifest = <<metadata_ops>>
    /\ \A i \in DOMAIN runtime_metrics :
         LET m == runtime_metrics[i]
             named == {k \in DOMAIN metadata_ops : metadata_ops[k].op_name = m.symbol}
         IN IF m.kind = "op_count" THEN m.value = Len(metadata_ops)
            ELSE IF named = {} THEN m.stable_id = NoId
            ELSE \E k \in named : m.stable_id = metadata_ops[k].stable_id
    /\ \A i, j \in DOMAIN runtime_metrics :
         runtime_metrics[i].symbol = runtime_metrics[j].symbol
           => runtime_metrics[i].stable_id = runtime_metrics[j].stable_id

\* The begins and ends of a symbol and stage take turns, and the ends are in
\* nanoseconds.
EventsOf(symbol, stage) ==
  Among(project.events[1],
        {e \in ToSet(project.events[1]) :
           e.symbol = symbol /\ e.stage = stage /\ e.type \in {"begin", "end"}})

TakeTurns(events) ==
  \A i \in DOMAIN events :
    /\ events[i].type = IF i % 2 = 1 THEN "begin" ELSE "end"
    /\ events[i].type = "end" => events[i].ns

\* A symbol and stage whose begins and ends take turns has one duration for
\* each launch, in order, from its own begin to its own end, whatever the
\* events of others in between.
LaunchesAreMeasured ==
  at = "Shutdown" /\ "runtime_events" \in given =>
    \A e \in ToSet(project.events[1]) :
      LET events == EventsOf(e.symbol, e.stage)
          launches == Among(runtime_metrics,
                        {m \in ToSet(runtime_metrics) :
                           m.kind = "launch" /\ m.symbol = e.symbol /\ m.stage = e.stage})
      IN TakeTurns(events) =>
           /\ Len(launches) = Len(events) \div 2
           /\ \A i \in DOMAIN launches :
                launches[i].value = events[2 * i].value - events[2 * i - 1].value

\* In the instrumented module every line up to the first that only one of
\* tagger and instrumentor takes for an operator carries the operator read off
\* this very line, or none if it is none; after it the operators are still
\* written in their order, none twice.
AnnotatedInStep ==
  at = "LoadManifest" =>
    LET lines == project.mlir[1]
        notes == instrumented[1]
        odd == {i \in DOMAIN lines : IsTagged(lines[i]) # LooksLikeOpLine(lines[i])}
        in_step == IF odd = {} THEN DOMAIN lines ELSE 1 .. Min(odd) - 1
    IN /\ DOMAIN notes = DOMAIN lines
       /\ \A i \in in_step :
            IF IsTagged(lines[i])
            THEN \E k \in DOMAIN metadata_ops :
                   metadata_ops[k].line = i /\ notes[i] = <<metadata_ops[k]>>
            ELSE notes[i] = << >>
       /\ \A i, j \in DOMAIN notes :
            i < j /\ notes[i] # << >> /\ notes[j] # << >> => notes[i][1].line < notes[j][1].line
=============================================================================
