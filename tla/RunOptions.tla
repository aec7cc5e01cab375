----------------------------- MODULE RunOptions -----------------------------
(***************************************************************************)
(* What the driver makes of its options before a session starts: whether   *)
(* it accepts them, the policy, the properties it hands to the adapter and *)
(* the tools it attaches.                                                  *)
(*                                                                         *)
(* Options are a record: the backend, the mode, the operators to include,  *)
(* the sampling ratio (in buckets), given, the set of options that name a  *)
(* file, a directory or a command, and what was asked of the tools.  The   *)
(* detail level, the number of repetitions and the output directory, which *)
(* are only checked for being possible, are left out.                      *)
(***************************************************************************)
EXTENDS Policy, Registry, FiniteSets

Backends == {"gpu_mlir", "cerebras", "sambanova", "edgetpu"}
Modes == {"baseline", "full", "selective", "sampled"}

\* Options that name a regular file, for any backend.
FileOptions == {"mlir", "graph", "sidecar", "compile_report", "runtime_log"}

\* One of these must be given; the model of the edgetpu must be there as well.
RequiredOptions(backend) ==
  CASE backend = "gpu_mlir"  -> {"mlir"}
    [] backend = "cerebras"  -> {"graph", "model_dir"}
    [] backend = "sambanova" -> {"graph"}
    [] backend = "edgetpu"   -> {"model"}

\* present is the set of options whose file or directory is there.
ValidateOptions(options, present) ==
  /\ options.mode \in Modes
  /\ options.mode = "sampled" => options.sampling_ratio \in 1 .. Buckets
  /\ options.given \cap (FileOptions \cup {"work_dir"}) \subseteq present
  /\ options.backend \in Backends
  /\ options.given \cap RequiredOptions(options.backend) # {}
  /\ options.backend = "edgetpu" => "model" \in present

\* A faulty variant: the sampling ratio is taken whatever the mode.
SampledPolicy(options) ==
  [DefaultPolicy EXCEPT !.sampling_ratio = options.sampling_ratio,
     !.mode = IF options.mode \in {"selective", "sampled"} THEN options.mode ELSE "full",
     !.include_ops = IF options.mode = "selective" THEN options.include_ops ELSE {}]

\* BuildRunConfig: baseline and full differ in the trace only.
BuildPolicy(options) ==
  CASE options.mode = "selective" ->
         [DefaultPolicy EXCEPT !.mode = "selective", !.include_ops = options.include_ops]
    [] options.mode = "sampled" ->
         [DefaultPolicy EXCEPT !.mode = "sampled", !.sampling_ratio = options.sampling_ratio]
    [] OTHER -> DefaultPolicy

\* The options an adapter is told of.
Honoured(backend) ==
  LET hidden == {"graph", "sidecar", "compile_report", "runtime_log", "work_dir",
                 "compile_cmd", "run_cmd"}
  IN CASE backend = "gpu_mlir"  -> {"runtime_log"}
       [] backend = "cerebras"  -> hidden \cup {"model_dir"}
       [] backend = "sambanova" -> hidden
       [] backend = "edgetpu"   ->
            {"model", "compile_report", "runtime_log", "compile_cmd", "work_dir"}

\* A faulty variant: the module is handed over as it was to other adapters only.
ConfigureWithoutModule(options) == options.given \cap Honoured(options.backend)

\* ConfigureContext; the MLIR module is handed to every adapter.
ConfigureContext(options) == options.given \cap (Honoured(options.backend) \cup {"mlir"})

\* AddBuiltinTools: the tools asked for, or all registered ones but those
\* switched off.
AddBuiltinTools(options, listed) ==
  IF options.mode = "baseline" THEN << >>
  ELSE IF options.requested_tools # << >> THEN options.requested_tools
  ELSE Among(listed, ToSet(listed) \ options.disabled_tools)
=============================================================================
