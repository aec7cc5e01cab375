--------------------------- MODULE BackendSessions ---------------------------
(***************************************************************************)
(* The sessions of one process on one back end, as `dfabitctl` repeats     *)
(* them, and the way from the options to the adapter: the driver checks    *)
(* its options, registers the built-in adapters and tools with registries  *)
(* that outlive the session, creates the adapter by name and hands it the  *)
(* inputs.  A caller other than the driver starts sessions with whatever   *)
(* inputs it likes.                                                        *)
(*                                                                         *)
(* The back ends are those of modules EdgeTpuAdapter and GpuMlirAdapter,   *)
(* each with variables of its own; those of GpuMlirAdapter carry the       *)
(* prefix gpu_.  The other back end's variables stay as they began.        *)
(***************************************************************************)
EXTENDS EdgeTpuAdapter, RunOptions

CONSTANTS
  OptionSet,    \* the options the driver may be given
  GpuSettings,  \* sets of inputs another caller may name to the gpu_mlir adapter
  GpuProjects   \* modules and logs

VARIABLES
  backend,   \* the back end of this process
  adapters, tool_names,   \* the registries
  outcome,   \* who started the last session and how the start went
  gpu_session, gpu_at, gpu_given, gpu_project, gpu_manifest, gpu_instrumented,
  gpu_outputs, gpu_runtime_inputs, gpu_runtime_metrics, gpu_metadata_ops,
  gpu_model_, gpu_symbol_to_id_

gpuVars == <<gpu_session, gpu_at, gpu_given, gpu_project, gpu_manifest, gpu_instrumented,
             gpu_outputs, gpu_runtime_inputs, gpu_runtime_metrics, gpu_metadata_ops,
             gpu_model_, gpu_symbol_to_id_>>
processVars == <<backend, adapters, tool_names>>
sessionsVars == <<vars, gpuVars, processVars, outcome>>

Gpu == INSTANCE GpuMlirAdapter WITH
  Projects <- GpuProjects, Settings <- GpuSettings,
  session <- gpu_session, at <- gpu_at, given <- gpu_given, project <- gpu_project,
  manifest <- gpu_manifest, instrumented <- gpu_instrumented, outputs <- gpu_outputs,
  runtime_inputs <- gpu_runtime_inputs, runtime_metrics <- gpu_runtime_metrics,
  metadata_ops <- gpu_metadata_ops, model_ <- gpu_model_, symbol_to_id_ <- gpu_symbol_to_id_

ASSUME BackendsAssumption == \A contents \in GpuProjects : Gpu!IsProject(contents)

BuiltinAdapters == <<"gpu_mlir", "cerebras", "sambanova", "edgetpu">>
BuiltinTools ==
  <<"portability_report", "overhead_profiler", "semantic_attribution",
    "dataflow_memory_proxy", "program_analyzer">>

Outcome(by, result) == [by |-> by, result |-> result]

SessionsInit ==
  /\ Init /\ Gpu!Init
  /\ backend \in {"edgetpu", "gpu_mlir"}
  /\ backend = "gpu_mlir" => \A f \in File : ~Exists(files, f)
  /\ adapters = {} /\ tool_names = {}
  /\ outcome = Outcome("nobody", "none")

Idle == at = "idle" /\ gpu_at = "idle"

\* The inputs the options become.  At the edgetpu the model is named by its
\* source or, if options.compiled, as compiled.
EdgeTpuInputs(options) ==
  LET handed == ConfigureContext(options)
  IN (IF "model" \in handed /\ options.compiled THEN {"compiled"} ELSE {})
     \cup (IF "compile_report" \in handed THEN {"named log"} ELSE {})
     \cup (IF "runtime_log" \in handed THEN {"runtime log"} ELSE {})
     \cup (handed \cap {"compile_cmd"})

\* The options that name something that is there.
PresentToEdgeTpu(options) ==
  {o \in options.given :
     CASE o = "model" -> Exists(files, IF options.compiled THEN "compiled" ELSE "source")
       [] o = "compile_report" -> Exists(files, "named log")
       [] o = "runtime_log" -> Exists(files, "runtime log")
       [] OTHER -> TRUE}

PresentToGpu(options, project) ==
  {o \in options.given :
     CASE o = "mlir" -> project.mlir # << >>
       [] o = "runtime_log" -> project.records # << >>
       [] OTHER -> TRUE}

Refused(by) ==
  /\ outcome' = Outcome(by, "refused")
  /\ UNCHANGED <<vars, gpuVars, processVars>>

GpuInputs(options) == ConfigureContext(options) \cap {"mlir", "runtime_log"}

\* The files of a session on gpu_mlir; the edgetpu's are there already.
ProjectsHere == IF backend = "gpu_mlir" THEN GpuProjects ELSE {gpu_project}

Present(options, project) ==
  IF backend = "gpu_mlir" THEN PresentToGpu(options, project) ELSE PresentToEdgeTpu(options)

\* The adapter the driver has created is told of the session.
Open(options, project) ==
  \/ /\ backend = "edgetpu"
     /\ InitializeSession(EdgeTpuInputs(options)) /\ NewAdapter
     /\ UNCHANGED gpuVars
  \/ /\ backend = "gpu_mlir"
     /\ Gpu!InitializeSession(GpuInputs(options), project) /\ Gpu!NewAdapter
     /\ UNCHANGED vars

\* From options that are accepted to the adapter.
Serve(options, project) ==
  LET a == RegisterBuiltin(adapters, BuiltinAdapters)
      t == RegisterBuiltin(tool_names, BuiltinTools)
  IN /\ adapters' = a.names
     /\ tool_names' = IF a.ok THEN t.names ELSE tool_names
     /\ IF a.ok /\ t.ok /\ CanCreate(a.names, options.backend)
        THEN Open(options, project) /\ outcome' = Outcome("driver", "started")
        ELSE outcome' = Outcome("driver", "not served") /\ UNCHANGED <<vars, gpuVars>>
     /\ UNCHANGED backend

DriverStarts ==
  /\ Idle /\ session < MaxSessions /\ gpu_session < MaxSessions
  /\ \E options \in OptionSet, project \in ProjectsHere :
       /\ options.backend = backend
       /\ IF ValidateOptions(options, Present(options, project))
          THEN Serve(options, project) ELSE Refused("driver")

CallerStarts ==
  /\ Idle
  /\ outcome' = Outcome("caller", "started")
  /\ \/ /\ backend = "edgetpu"
        /\ \E inputs \in Settings : InitializeSession(inputs)
        /\ NewAdapter \/ SameAdapter
        /\ UNCHANGED gpuVars
     \/ /\ backend = "gpu_mlir"
        /\ \E inputs \in GpuSettings, project \in GpuProjects :
             Gpu!InitializeSession(inputs, project)
        /\ Gpu!NewAdapter \/ Gpu!SameAdapter
        /\ UNCHANGED vars
  /\ UNCHANGED processVars

\* What is left of a session after InitializeSession.  That its files cannot
\* be prepared is told to whoever started it.
Prepared(next) ==
  outcome' = IF next = "idle" THEN [outcome EXCEPT !.result = "unprepared"] ELSE outcome

EdgeTpuStep ==
  /\ \/ PrepareArtifacts /\ Prepared(at')
     \/ /\ Begins \/ CompileEnd \/ LoadEnd \/ RunEnd \/ Shutdown \/ Abandon
        /\ UNCHANGED outcome
  /\ UNCHANGED <<gpuVars, processVars>>

GpuStep ==
  /\ \/ Gpu!PrepareArtifacts /\ Prepared(gpu_at')
     \/ /\ \/ Gpu!Begins \/ Gpu!CompileEndNoModule \/ Gpu!CompileEndNoFile \/ Gpu!CompileEnd
           \/ Gpu!LoadManifest \/ Gpu!LoadBegin \/ Gpu!LoadEnd
           \/ Gpu!RunEnd \/ Gpu!Shutdown \/ Gpu!Abandon
        /\ UNCHANGED outcome
  /\ UNCHANGED <<vars, processVars>>

SessionsNext == DriverStarts \/ CallerStarts \/ EdgeTpuStep \/ GpuStep

SessionsSpec == SessionsInit /\ [][SessionsNext]_sessionsVars

-----------------------------------------------------------------------------
\* Type invariant.
BackendsTypeOK ==
  /\ EdgeTpuTypeOK /\ Gpu!GpuTypeOK
  /\ adapters \subseteq ToSet(BuiltinAdapters) /\ tool_names \subseteq ToSet(BuiltinTools)
  /\ outcome.by \in {"nobody", "driver", "caller"}
  /\ outcome.result \in {"none", "refused", "not served", "unprepared", "started"}

\* Options the driver accepts lead to a session: in the first one of a process
\* and in every later one there is an adapter of that name, and its inputs are
\* all it asks for when it prepares its files.
ValidRunsAreServed ==
  outcome.by = "driver" => outcome.result \notin {"not served", "unprepared"}

\* The gpu_mlir adapter: manifest, context and metrics speak of the same
\* operators, whatever sessions came before; see module GpuMlirAdapter.
OneModel == Gpu!OneModel

\* The gpu_mlir adapter: a launch is measured from its own begin to its own
\* end; see module GpuMlirAdapter.
LaunchesAreMeasured == Gpu!LaunchesAreMeasured

\* The gpu_mlir adapter: a line of the instrumented module carries the operator
\* read off it; see module GpuMlirAdapter.
AnnotatedInStep == Gpu!AnnotatedInStep
=============================================================================
