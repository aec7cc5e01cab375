# DFIT (dfabit) in TLA+

DFIT instruments a run of a machine-learning workload on an accelerator: a
driver takes a backend adapter through compile, load and run, records what
happens in a JSONL trace, tells a set of analysis tools about every step, and
writes a bundle of reports.  It is one sequential C++17 program: no threads, no
locks, no network.  What is hard about it is failure in the middle (a tool, an
adapter or a device that stops half way), the order in which trace, tools and
adapter learn of a step, state that survives where it should not (counters,
parsed operators, files of an earlier run), and bookkeeping that several
parties have to agree on.

This directory holds the models, the configurations that check them, and the
proofs.  `src/` below is the repository's own tree.

## 1. The system

| component | code | state it keeps | operations |
|---|---|---|---|
| trace buffer and file writer | `trace/trace_buffer.cc`, `trace/writer_jsonl.cc` | the queue, the counters, the stream | Write, Flush, Close, destruction |
| tracer | `trace/tracer.cc` | the writer, a copy of its counters, the detail level | Open, Emit, EmitMetrics, Flush, Close |
| run driver | `cli/runner.cc` | everything on the stack of `Run` | one straight line from Open to Close |
| tool manager, tools | `tools/tool_manager.cc`, `tools/builtin/*` | the list of tools; each tool's reports | nine lifecycle hooks |
| policy, tool services | `policy/policy_engine.cc`, `tools/tool_context.cc` | mode, sampling ratio and stride, selectors | ShouldInstrument, ShouldEmit, FilterOps, FilterMetrics |
| adapters | `adapters/{cerebras,sambanova,gpu_mlir,edgetpu}` | parsed model, partition tracker, launch observer, correlators | Initialize, Prepare, Compile, LoadManifest, Load, Run, Shutdown |
| hidden IR | `hidden_ir/*` | graph, sidecar, open partitions | import, Begin, End, Reset |
| runtime correlation | `runtime/*` | the launch records | Observe, CorrelateRuntimeRecords |
| MLIR support | `mlir/*` | none: text in, text out | load, tag, instrument, cost, export |
| core, api | `core/*`, `api/context.cc` | run configuration, metadata | merge, set, get |
| experiments, command line | `cli/experiment_*.cc`, `tools/dfabitctl/main.cc` | trial records, resolved paths | batch, experiment, run |
| analysis | `analysis/*` | none: samples in, statistics out | compute, fit, report |
| registries | `adapters/backend_registry.cc`, `tools/tool_registry.cc` | name to factory | Register, Create |
| metadata, platform | `metadata/stable_id.cc`, `platform/process_runner.cc` | none | hash, run a command |
| python | `src/python` | none | benchmark harness, bindings |

**How they interact.**  `Run` owns all of it and calls downwards: the tracer
(which owns a `BufferedTraceWriter`, which owns a `JsonlFileWriter`), the
adapter and the tool manager.  Adapter and tools share only the `Context` that
`Run` passes them, and the artifact records they fill in.  Tools never see the
tracer.  There are no callbacks upwards.  An error is a `Status` that ends
`Run` at once, so that destructors are the only clean-up on that path.

**What makes each correct.**

* Buffer: every event handed over is a line, a counted drop, or queued; lines
  are a gapless prefix of what was handed over; the loss without `Close` is
  smaller than the buffer.
* Tracer: the counters it reports are those of the file; the level it was
  opened with is honoured; `Close` completes the file.
* Driver: tools, adapter and trace are told of a stage in an order on which all
  three agree, however the run ends; a successful run leaves a complete trace
  and the bundle reports its final counters.
* Registries: a session that passes validation finds its adapter and tools,
  the first of a process and every later one.
* Tools: five reports filtered, counted and added up apart from each other are
  of the same operators and metrics.
* Adapters: what a run reports comes from that run; partitions and launches are
  paired; a failed stage leaves nothing behind that a later one takes for its
  own.
* Correlation: a metric carries the id of the operator it is about, and a
  launch lasts from its own begin to its own end.
* Memory proxy, experiments: what they compute is what their reference
  definition says, within stated preconditions.

## 2. Modules

| module | models | uses |
|---|---|---|
| `EventLog` | what a trace file promises (abstract) | |
| `TraceBuffer` | `BufferedTraceWriter` over `JsonlFileWriter` over a stream and a device that may fill up | implements `EventLog` |
| `Tracer` | `Tracer` | instance of `TraceBuffer` |
| `TracerClient` | any single-threaded program that holds a tracer | extends `Tracer` |
| `ToolLifecycle` | what the driver promises a tool (abstract) | |
| `RunSession` | `cli::Run` from `Tracer::Open` to its return, with `ToolManager::FanOut` | extends `Tracer`, implements `ToolLifecycle` and (proved) `TracerClient` |
| `Lists` | sequences and the part of one that satisfies a condition | |
| `Policy` | `PolicyEngine`, the filters of `ToolContext` | extends `Lists` |
| `Registry` | `BackendRegistry`, `ToolRegistry` and the registration of what is built in | extends `Lists` |
| `RunOptions` | what `runner.cc` makes of its options: validation, policy, context, tools | extends `Policy`, `Registry` |
| `MemoryProxy` | the def-use analysis of `DataflowMemoryProxyTool`: per-operator table and summary | extends `Lists` |
| `BuiltinTools` | the five built-in tools in one session, and the driver's own bundle | extends `MemoryProxy`, `RunOptions` |
| `PartitionTracker` | `PartitionTracker` | |
| `HiddenIrAdapter` | `CerebrasAdapter`, `SambaNovaAdapter` and their workflows, over repeated sessions | extends `PartitionTracker`, `Lists` |
| `EdgeTpuAdapter` | `EdgeTpuAdapter`, over repeated sessions | extends `Lists` |
| `MlirModule` | module loader, tagger, cost model and instrumentor, as functions of the lines | extends `Lists` |
| `RuntimeCorrelation` | `RuntimeCorrelator`, `LaunchObserver`, as functions of model and log | |
| `GpuMlirAdapter` | `GpuMlirAdapter`, over repeated sessions | extends `MlirModule`, `RuntimeCorrelation` |
| `BackendSessions` | the sessions of one process: options, registries, adapter | extends `EdgeTpuAdapter`, `RunOptions`; instance of `GpuMlirAdapter` |
| `ExperimentRunner` | `ExperimentConfigLoader`, `ExperimentRunner`, the `main` of `dfabitctl` | |
| `TraceBufferProofs`, `TracerProofs`, `RunSessionProofs` | theorems about buffer, tracer and session | `TraceBuffer`, `TracerClient`, `RunSession`; the second and third an instance of the one before |
| `HiddenIrProofs` | lemmas about the tracker, theorems about the adapters of cerebras and sambanova | `HiddenIrAdapter`, `ListProofs` |
| `BackendProofs` | theorems about both other adapters and the registries | `BackendSessions`, `ListProofs` |
| `ExperimentProofs` | theorems about configurations and batches | `ExperimentRunner` |
| `BuiltinToolsProofs` | theorems about the memory proxy and the reports | `BuiltinTools`, `ListProofs` |
| `ListProofs` | lemmas about lists, parts of lists and sums, nothing about the program | `Lists` |

`MC*` modules give the constants their values for TLC.  Definitions introduced
by "A faulty variant" are never used by a specification; each is a plausible
mistake in the definition below it, and shows that a property can fail.

### TraceBuffer

`pending`, `stats` are `pending_`, `stats_`; `stream` is the state of the
`std::ofstream` (`unopened` when the constructor could not open the path, which
nobody tests; `bad` after the first refused line, for good), `file` the lines
it accepted, `onDisk` how many of these left its own buffer, `issued` a history
of `Write`.  `Write`, `Flush`, `Close` are one action each: `FlushPending` is a
loop over the queue that cannot be interrupted.  `DeviceFails` is the
environment.  An event is an element of a set; the JSON text, `bytes_written`
and the flush latency are left out.

### Tracer

`writer_` says whether there is a writer; its variables are those of
`TraceBuffer`.  `Open` while a writer is open replaces it.  `Destroy` is the
tracer going out of scope on an early return: nothing drains the queue.
`EmitMetrics` at `kFull` is a loop of `EmitSample`, because each sample may
drain the buffer.  Not modelled: `Open` of the very path the open writer holds
(the new stream truncates the file before the old one is destroyed), which no
caller does.

### RunSession

`Run` is a straight line, so the model is a constant sequence `Steps` and a
position `pc`; loops over tools, operators and metrics count their turns.  At
every call that can fail, `CallFails` is the early return.  Adapters and tools
are their interfaces: a call may fail, and `CompileEnd`, `LoadEnd` and `RunEnd`
may leave metrics, operators and a manifest.  Baseline mode has no tools and
does not touch the trace.  The bundle is reduced to the counters it reports.

`called` is a history of the calls of tools and adapter, in order; `seen`, the
hooks each tool has been called through, is another.

### TracerClient

The specification of the tracer's users: any call at any time, with metrics
through `EmitMetrics` and everything else through `Emit`.  It is what `tracer`
checks and what `TracerProofs` is about; `SessionIsClient` shows that a session
is one.

### Policy, Registry, RunOptions

Functions, used by the modules below.  A policy is a record like
`PolicyConfig`; the hash of `MixStableId` is the constant `Mix`, a ratio counts
buckets (`Buckets` of them where the code has 1,000,000).  A registry is the set of its
names.  `ValidateOptions`, `BuildPolicy`, `ConfigureContext` and
`AddBuiltinTools` are the functions of `runner.cc` of these names (the second is
the policy part of `BuildRunConfig`); options name files by what they are for,
and `present` says which of them exist.

### BuiltinTools

Every hook is called on all tools before the next, so that a hook is one
action; only `OnShutdown` goes tool by tool, since each may fail on a file of
its own and end the session.  `collected_metrics_`, `samples_`, `analyzer_`
and `semantic_` are the state of the four tools besides the memory proxy;
`written` holds their reports.  Each filters at the hook the code filters at:
the analyzer and the attribution when they receive operators and metrics, the
portability report when it is shut down, the bundle never.  Figures are
integers; a ratio is compared by cross-multiplication.  The site table, the
expansion ratios and the roofline are reduced to the counts and the class that
relate them to each other.

### MemoryProxy

One turn of the liveness loop is one action; the table and the summary are the
two loops of the code, each with its own copy of the account.  `Definers`,
`Readers` and `Ref` are the maps built before the loops: a value is known by
its name, and a later definition replaces an earlier one.  `Reuse` is unsigned,
as `last_use - def_pos` is.

The tool does not know the size of a value, only a figure for the operator
(`ResultBytes`), and what that figure is depends on the adapter (`published`).
That of cerebras with a model directory publishes the volume of its one result
(`cirh_parser.cc:441`), edgetpu the sum over all outputs (`edgetpu_adapter.cc:949`);
gpu_mlir, sambanova and cerebras with `--graph` publish nothing, and the tool takes
the volume of the whole operator, operands included, if the importer knows it.
A text that is no number counts as none.  The model's outputs carry their real
size besides, which only the properties look at.  Outputs without a name are
passed over.  The graphs are all small graphs in SSA form, with figures of
either kind, and graphs whose names repeat.

### PartitionTracker, HiddenIrAdapter

`active_`, `completed_` are the tracker's; `calls` is a history of the calls
made of it, with the clock of the adapters.  The two adapters are one module: their code is a copy
of each other but for cerebras' model directory, which `FromModelDir` guards.
`at` is the call the driver makes next; a call that fails ends the session.
`files` outlives the sessions, and every file remembers the session whose
command wrote it.  A command of the user's (`Command`) writes any of the files
of its stage, or none, and may fail.  The driver makes a new adapter for every
session; the library does not ask for it, so `InitializeSession` may also keep
the old one, with the `cirh_ops_` that `Shutdown` leaves (`kept` is a history:
what the adapter brings into the session).  `SubgraphBegin` and
`SubgraphEnd` are calls of library users: the driver makes none.

### EdgeTpuAdapter

The same lifecycle, with the logs of the compiler; a session begins on a
`NewAdapter` or the `SameAdapter`.  `InitializeSession`
resolves paths against the files of that moment, `CompileEnd` looks again only
if nothing was found.  The four names of captured output are one file,
"summary log"; the log the compiler writes next to its model is "operator
log".  `Abandon` ends a session between two calls, as a failing tool or trace
does: the adapter is then not shut down, and one used again starts with the
operators of the session before.

### MlirModule, RuntimeCorrelation, GpuMlirAdapter

A line is what tagger and instrumentor look at when they decide, each for
itself, whether it is an operator.  `Assign` is the stable id before hashing:
the figures it hashes are still zero when it is called, so that two operators
of one name share an id.  `CorrelateEvents` is the loop of
`LaunchObserver::Correlate` as a recursive function over the log, `Observe`
its body; a begin stays until the next of its key.
`GpuMlirAdapter` has one action a call; `CompileEnd` fails at the module or at
any of the files it writes, each with what it has changed until then.  The driver never
passes a log of events (`runtime_events`); the library reads one if the
context names it.

### BackendSessions

A process with one back end.  `DriverStarts` is the driver: options are
validated, what is built in is registered (again, in every session but the
first), the adapter created by its name and told its inputs.  `CallerStarts` is
any other user of the library, with inputs of any kind and an adapter that may
have served before.  `outcome` remembers who started the session and how far
it got.  One back end's variables stay as they began while the other is in
use: nothing is shared between them but the registries.

### ExperimentRunner

A configuration is read line by line (`ReadSection`, `ReadKeyValue`,
`ReadComment`), any line being possible at any place.  `Trial` is one turn of
the three loops of `RunSpecs`, `Session` one of the loop of `--repeat-session`.
`disk` is a history: the last run that wrote to each directory.

## 3. Runs

| run | what it shows | bounds |
|---|---|---|
| `trace_buffer` | accounting, order, bounded loss, completeness of a closed file, finality of a drop, refinement of `EventLog` | capacity 3 and 5 events: a full queue, a drain, and a second partial one, with the device failing at any point between |
| `tracer` | counters never stale, level honoured, bounded loss of destruction | capacity 2, 5 events a session, two sessions: the second `Open` comes after a close or over an open writer; 171,108 states |
| `session` | completeness and agreement of trace, bundle, adapter and tools; refinement of `ToolLifecycle` | two tools, so that one is told and the next is not; up to two operators; no or one metric a call; a buffer of 6 against traces of 12 to 19 events, so that a run drains in mid-stage and fails with events queued |
| `session_ids` | a violation: at `kIds`, `subgraph_metric` events are still emitted one per metric, which `trace/tracer.h:35-36` says they are not | as `session` |
| `memory_proxy` | on graphs in SSA form distances and the number of stashed values are exact, volumes are exact if every figure is that of its result, and never too small if every figure is at least that; on all graphs the account comes back to zero, and table and summary agree; the reports of all tools and the bundle agree with each other; sampling never separates an operator from its metrics | the memory proxy alone on SSA graphs of 1 and 4 operators with figures of the results, and of 3 with figures of results, of whole operators or none, operator by operator; two result sizes and any earlier reads; loose graphs of 3 operators with repeated and missing names, reads before the definition and figures that are no number (what it takes for a value to be redefined after its last use, and for two to die at once); all tools on three operators that differ in all a policy or report looks at, in every mode, with tools switched off or asked for and missing, and under a policy the driver would not make; 285,818 states |
| `memory_names` | a violation: on operators named and measured as the gpu_mlir adapter does, the peak is less than what is resident | two operators, each with any of twelve sizes |
| `hidden_ir` | context, adapter and metrics agree on one model: the largest, or the one the adapter kept when no graph has operators; a session past loading has one; partitions are pairs of this session's calls | two executors, the second unreadable perhaps, so that one file has been parsed when the compile fails; files of up to two operators, two partitions, three calls of the tracker a session, two sessions: the second finds files and adapter as the first left them; 2,000,472 states |
| `hidden_ir_stale` | a violation: a compile that writes no graph is reported with an earlier compile's | as `hidden_ir` |
| `edgetpu` | options the driver accepts are served, in the first session of a process and later ones; on the edgetpu placement comes from the log the session lists, the counts add up, one log is listed and parsed once; on gpu_mlir manifest, context and metrics speak of one model, launches are measured, operators are written into their own lines | two sessions of driver or caller on either back end; two types of operators, one split between accelerator and CPU; every combination of logs; five modules, with lines only one of tagger and instrumentor takes and operators of one name; logs with overlapping, repeated, reversed and useless events; 319,917 states |
| `edgetpu_summary` | a violation: the log of an earlier compile is kept although this one wrote the log the adapter prefers | as `edgetpu` |
| `experiments` | experiments are the sections of the configuration; a batch is complete and in order whatever fails; a record's directory holds its run; sessions stop at the first failure | configurations of up to four lines: two sections with a key each, one with several, keys before the first section |
| `experiments_index` | a violation: `dfabitctl` ends a batch by an exception, without its index | as `experiments` |

The five violations are findings, described in `PROJECT.json` with the lines
they quote.  The exception of `experiments_index` was also seen in a build of the program, with the configuration `examples/experiments/phase9.cfg`.

Other disagreements, found by reading while modelling, that no run checks:

* `cli/runner.cc:683-715` emits an event for every operator, whatever the
  policy says; only the tools filter.
* The edgetpu adapter is never handed `--run-cmd` (`ConfigureContext`), though
  the option is accepted.
* `--baseline-run-cmd`, named at `cli/runner.cc:303`, by the report written at
  `:379` and by the repository's README (line 68), is not an option of
  `tools/dfabitctl/main.cc`.
* The summary of the semantic attribution counts operators known by their
  module only as a difference of two counts, which is wrong when an operator has
  a source line but no module.  `ReportsAgree` states its sum for programs
  without such operators.
* `examples/gpu_mlir/runtime_metrics.csv` has not the columns the gpu adapter's
  parser reads.
* `core/framework.cc`'s `MergeRunConfig` treats an explicit
  `trace.enabled = false` and an explicit `kFull` as not given.  No program of
  the repository calls it.
* When every graph of a compile is empty, the cerebras adapter fails with "every
  cirh.mlir parsed to zero operators" (`cerebras_adapter.cc:237-241`) only if it
  is new.  On one that served before, the check looks at the `cirh_ops_` of the
  earlier session; the compile succeeds and describes that session's model, against
  the comment at `:175-178`.  The driver makes a new adapter for every session.
  `ModelIsLargest` states both cases, so that this shows in the property and not
  only in its precondition.
* Operators of the hidden-IR graph importer (`hidden_ir/graph_importer.cc:100-137`)
  have neither a published figure nor an estimate: on sambanova, and on cerebras
  with `--graph`, every volume of the memory report is zero.
* Operators of one name in one module share a stable id on gpu_mlir, because
  ids are hashed from figures the cost model has not filled in yet.

Histories and sequences are compared by positions: `TraceTellsSession` says of
the n-th boundary event of the trace that it is the n-th of a session,
`CompleteOnSuccess` counts the events of a kind, `SpecsMatchConfig` looks up
each section's experiment by the number of sections before it, and
`CountsAddUp`, `LogIsListedOnce` and `ModelIsLargest` speak of the positions at
which a metric of some name stands.  TLC and the prover then check the same
formula.

`RecordPointsToItsRun` has a precondition, `Distinct`: two experiments of one
name and directory, or a mode listed twice, share their trial directories, and
nothing in the code keeps them apart.  `PlacementIsFromListedLog` and
`CountsAddUp` hold on adapters none of whose sessions was cut short, which
includes all that the driver makes; on others a log that cannot be read leaves
the operators of the session before.

Fairness: none is assumed and no liveness is stated.  The code is sequential, and
its loops run over lists that do not grow meanwhile, so that the only way not to
return is a call of an adapter or tool that does not, about which the code says
nothing.  Nothing is assumed of the device either.  Deadlock
checking is off where the program ends or a bound on sessions is reached; it is
on in `trace_buffer`, whose `Flush` and `Close` are always possible.

## 4. Theorems

Each theorem is about the specification a run checks, for every value of the
constants that satisfies the named assumption.  The assumptions only say what
kind of value a constant has; TLC evaluates them on the runs.

**Buffer.**  `TraceBufferProofs` proves, for every set of events, every capacity
(zero included, which the constructor turns into one) and every bound on the
number of events, all that the run `trace_buffer` checks: the type invariant,
the four safety invariants, the action property `DropIsFinal`, and the
refinement of `EventLog`.  `TraceBufferAssumption`: both bounds are natural
numbers.

The inductive invariant `IInv` joins the type invariant and the safety
invariants with two facts that none of them implies.  *A stream still good has
refused nothing* (`GoodRefusedNothing`): without it, a drain could append a
line after a gap, and the order invariant would not be inductive.  *The queue
is short* (`QueueIsShort`): this is the part of `LossIsBounded` that the step
needs before it can bound what a drain leaves.  One lemma per action
shows that the action preserves `IInv`; `DrainPreserves` carries the shared part
of `Write`, `Flush` and `Close`.  The refinement maps `usable` to
`stream = "good"`; each action is shown to be an `Advance`, a `Break`, an
`Ignore` or a stutter of the abstract log.

**Tracer.**  `TracerProofs` proves `StatsAreTrue`, `LevelIsHonoured` and
`DestroyLosesFew` for `TracerSpec`: any program that holds one tracer, with any
set of calls and of batches of metrics.  `TracerInv` carries the buffer's
`IInv`, through `TraceBufferProofs` instantiated with the tracer's capacity,
and adds: while the device takes data no line was refused (`RefusedByDevice`,
which separates a loss from the buffer's own doing), a writer the tracer has is
not closed (`OpenIsNotClosed`; without it a write after `Close` could count a
drop with a healthy device), samples are waiting only at `kFull`
(`TracerTypes`, which the loop of `EmitMetrics` needs because it emits without
looking at the level again), the cached counters are the writer's, and the
level has been honoured.  `TracerAssumption`: capacity and bounds are natural
numbers.  `TracerClientAssumption`: `Emit` is given events of known kinds and names,
metrics excepted, and the batches of metrics are sequences of names.

**Session.**  `RunSessionProofs` shows that a session is such a client
(`SessionIsClient`), so that `TracerInv` holds of every session with no second
proof, and then all that the run `session` checks.
`SessionInv` adds to `TracerInv`: the types of the position and the loops
(`SessionTypes`); that from the step after `Open` to `Close` a session that
traces has a writer, and one that does not has none (`WriterInScope`); and that
the queue is empty from the flush on (`NothingAfterBundle`): the bundle is
written *before* the trace is closed, so its counters are final only because of
the flush before it (`BundleCounts`).

* `StagesInOrder` rests on an invariant about the history: every step passed
  has been done (`Passed`), so have the turns of the loop over tools at hand
  (`TurnsTaken`), and nothing of a later step has (`NothingElse`).  Where the
  steps of a stage stand in the line is computed once (`StagePlaces`).
* `SessionImplementsLifecycle` is the refinement of `ToolLifecycle`, step by
  step.  `SeenInv` says how far each tool has come at each step: through the
  hooks before it, and through the one at hand if its turn has been.
* `TraceIsTrue` rests on `BoundaryInv`: the boundaries in the trace are the
  first ones of a session, as many as the steps before this one emit, and
  `session_end` is there only when every tool went through its last hook.
* `SuccessIsComplete` rests on `CompleteInv`: the operators told so far, the
  metrics told or waiting in the loop, and the end that was told last.

`RunSessionAssumption`: batches of metrics are sequences of names, what the
steps and loops emit are names, the tools are a sequence of strings, and the
bound on operators is a number.

**Adapters of cerebras and sambanova.**  `HiddenIrProofs` proves all that the
run `hidden_ir` checks.  It begins with the tracker: every call preserves
`TrackerInv`.  That the completed partitions are the pairs of the calls is only
inductive with `OpenIsLast`: a partition is open exactly when an accepted begin
is the last accepted call of its name.  For `ModelAgrees` and
`PartitionsReported`, `ModelInv` says what a session knows of its model at each
call, `ReportInv` where the metrics of a run that succeeded come from: its own,
then one per completed partition.  `LargestIsModel` is about any number of
executors and any files: what is found are the executors with a file, once each
(`FoundFacts`); parsing stops at the first unreadable one (`ParsedFacts`), so
that a compile which goes through has parsed them all (`GraphsFacts`); there is a
largest graph and the code takes it, or there is none and it takes what the
adapter kept (`LargestIs`, `LargestDescribed`); and the metrics of the
executors are found among those of the command and the report (`Between`).  It is inductive
because until the compile ends there is nothing but the report's name in the
artifacts and the adapter's operators are those it brought (`FreshInv`), and because the run's command cannot write an
executor's file (`RunKeepsExecutors`).  `Kinds` is the inductive form of the type
invariant.  `HiddenIrAssumption`: bounds are numbers, the files found are
files, and the executors are distinct paths, as a walk of a directory finds
them, different from the model's other names.

**Edge TPU, gpu_mlir, registries.**  `BackendProofs` proves all that the run
`edgetpu` checks, over sessions of the driver and of any other caller, on any
files.  Three invariants that do not depend on each other:

* `EdgeInv`: at every call the log is none or one of the files, and from the end
  of the compile on outputs, metrics and model are what `Report`, `SourcePart`
  and `BuiltModel` make of the session's inputs and files (`EdgeStage`).  On an
  adapter none of whose sessions was cut short, the operators it holds are the
  rows of that log, and none before the compile.  `PlacementHolds`,
  `CountsHold` and `OneLogIsListed` are consequences that look at no step; the
  arithmetic of the counts is about the positions of metrics in a
  concatenation (`ThoseConcat`).
* `ServedInv`: what the registries hold is built in, and a session the driver
  has started has the model it names.  Registering is idempotent, whatever was
  registered before (`AlwaysServed`), from which `RunsAreServed` follows.
* `GpuInv`: from the end of the compile on model, manifest, index, instrumented
  module and context are functions of the session's module (`GpuBuilt`), and
  the metrics of the run are those functions of its log (`GpuReports`).
  `ModelIsOne` follows at once.  `LaunchesHold` is an induction over the log:
  after n events, the begin remembered for a key is the latest of its key, and
  each launch reported so far is measured from the latest begin before its end.
  `AnnotationHolds` compares two loops over the lines: tagger and instrumentor
  count different lines, and the n-th line of a set is the same however it is
  reached (`PlaceOf`, `InPlace`).

`EdgeTpuAssumption` and `BackendsAssumption` give the files their shapes.  A file
holds one content at most; a model is a list of operators, a log a list of rows,
each mapped or not, with or without a summary; a module is a list of lines with
element counts that are numbers; records and events are lists.  The parsers make
nothing else of any text.  The number of sessions is any number.

**Experiments.**  `ExperimentProofs` proves all that the run `experiments`
checks.  `Types` are the types of the three loops, `SessionsGo` says where a
series of sessions stands.  The turns of a batch are a set of triples in
lexicographic order (`AllTurns`, `Before`); `TurnsDone` says that the records are
those of the turns before the one at hand, from which `BatchRunsAll` follows.
`PointsTo` adds the directory each turn names.  `ConfigRead` compares what has
been read with the lines read: the list has one experiment for every section but
the last, and what is current is what the last says so far.
`ExperimentAssumption`: mode lists are sequences of modes, numbers are numbers.

**Memory proxy and reports.**  `BuiltinToolsProofs` proves all that the run
`memory_proxy` checks.  The loops hold a volume they never look at again, so
`MemInv` says what it is: the volume of the names defined so far less that of
the names past their last use, both functions of the graph and the position
(`Balance`), and every row, the peak and the summary are such functions as
well.  `NothingIsHeld` and `SummaryTellsTable` hold on every graph.
`FiguresAreExact` translates from names to values, which correspond on a graph
in SSA form; its part about volumes is conditional, because the tool adds up
figures and not sizes.  `ReportNeverShort` needs no more than that a sum does
not shrink when its terms grow (`SumMonotone`): the operators of the tool's sums
are those of the definitions.  For the session, `KeptInv` says what each tool has kept at each
hook, `WrittenInv` what each report says of what its tool has kept, `ClosedInv`
who has reported the measurement; `OnePicture` follows, since all are figures of
the same operators, and the sums of a report by class, by site and in total
agree (`SumByClass`).  `AttributionIsWhole` holds because the policies the driver
makes never admit an operator whose metrics they drop (`ChosenIsEmitted`): metrics
go by the id of their operator, and sampling, the one mode that drops any, asks
the same question of both.
`MemoryProxyAssumption`, `BuiltinToolsAssumption` and `PolicyAssumption`: operators are lists of the
shapes the importer makes, figures are numbers, the machine's word is not empty,
and there is at least one bucket.

**Induction.**  The library's induction theorems take an operator, which the
provers cannot instantiate.  Where the model loops, the proofs use
well-foundedness instead, which is about sets: a set of numbers that has 0 and
with each number the next has them all (`NatSetInduction`), and the same for
sequences (`SeqSetInduction`) and finite sets (`SubsetInduction`).  A recursive
function is first shown to exist and to be unique (`KeepsExist`, `KeepsAgree`),
which a definition by `CHOOSE` does not give for free.  `SelectSeq` has no
definition in the prover's `Sequences`; `Among` of `Lists` takes its place.
All of this is in `ListProofs`, once for every module.

**Only model-checked.**  The five violations: what a run refutes has no proof.
Every property of a passing run has a theorem.

## 5. Not modelled, and why

* Text: formatting of JSON, CSV and Markdown, and parsing of flatbuffers,
  compiler logs, CIRH and graph files beyond what decides about an operator.
  The shared adapter parsers have no state; what the artifact correlator is
  filled with is never read back.
* Floating-point statistics of `analysis` (means, percentiles, fits), and the
  figures of the MLIR cost model: out of TLC's reach.
* Hashing: a stable id is the tuple it is made of; that two tuples of one hash
  exist is not considered.
* `core/framework.cc` with its merge of run configurations: no program of the
  repository calls it (section 3 says what reading it showed).
* Exceptions of `std::filesystem::create_directories`, which end the process,
  except the one that ends a batch (`ExperimentRunner`).
* `LoadManifest` of edgetpu, cerebras and sambanova, and calls for subgraphs of
  edgetpu and gpu_mlir: nothing reaches them.  `edgetpu_compiler_log.cc` is not
  part of the build.
* The adapters of cerebras and sambanova are modelled, but not composed with the
  registries and options as the two others are in `BackendSessions`.
* Python: a benchmark script and a binding of the C++ types.

## 6. Plan

1. `BackendSessions` with all four back ends, and `RunSession` under it, so that
   a session fails for the reasons its adapter has; the theorems about adapters
   and session then meet in one specification.
2. An abstract specification of an adapter, what the driver relies on, with the
   four adapters shown to implement it.
3. The artifact correlator and the shared parsers, should anything come to read
   what they are filled with.
