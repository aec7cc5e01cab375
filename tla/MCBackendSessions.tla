------------------------- MODULE MCBackendSessions -------------------------
(***************************************************************************)
(* The settings of module MCEdgeTpuAdapter for a caller; options with      *)
(* every way to name a model, a log and a command, those for another back  *)
(* end, and those the driver refuses; modules with lines that only one of  *)
(* tagger and instrumentor takes for an operator, and operators of one     *)
(* name; logs of records for known and unknown names and of events that    *)
(* overlap, repeat, end before they begin or have no use.                  *)
(***************************************************************************)
EXTENDS BackendSessions, MCEdgeTpuAdapter

MCMix(id, salt) == id + salt

Options(name, mode, ratio, named, compiled) ==
  [backend |-> name, mode |-> mode, sampling_ratio |-> ratio, given |-> named,
   compiled |-> compiled]

MCOptionSet ==
  { Options("edgetpu", "full", 8, {"model", "compile_cmd"}, FALSE),
    Options("edgetpu", "baseline", 8, {"model", "compile_cmd", "run_cmd"}, TRUE),
    Options("edgetpu", "full", 8, {"model", "compile_report", "runtime_log"}, TRUE),
    Options("edgetpu", "sampled", 0, {"model"}, FALSE),
    Options("gpu_mlir", "full", 8, {"mlir", "runtime_log"}, FALSE),
    Options("gpu_mlir", "sampled", 3, {"mlir", "compile_cmd"}, FALSE),
    Options("gpu_mlir", "traced", 8, {"mlir"}, FALSE),
    Options("gpu_mlir", "full", 8, {"model", "runtime_log"}, FALSE) }

MCGpuSettings ==
  { {}, {"mlir"}, {"mlir", "runtime_log", "runtime_events"}, {"runtime_log"} }

Line(name, quote, equals, keyword, elements) ==
  [name |-> name, quote |-> quote, equals |-> equals, keyword |-> keyword,
   elements |-> elements]

Conv(n) == Line("mhlo.convolution", TRUE, TRUE, FALSE, n)
Add(n) == Line("mhlo.add", TRUE, TRUE, FALSE, n)
Return == Line("mhlo.return", TRUE, FALSE, FALSE, 0)
Module == Line("", FALSE, FALSE, TRUE, 0)
Attributes == Line("platform", TRUE, TRUE, TRUE, 0)
Brace == Line("", FALSE, FALSE, FALSE, 0)

Modules ==
  { << >>, << <<Module, Brace>> >>,
    << <<Module, Conv(4), Add(2), Brace>> >>,
    << <<Module, Brace, Add(2), Add(3), Return, Conv(1), Brace>> >>,
    << <<Attributes, Conv(4), Brace, Conv(2), Return>> >> }

Record(symbol, value) == [symbol |-> symbol, value |-> value]

Event(type, symbol, stage, value, ns) ==
  [type |-> type, symbol |-> symbol, stage |-> stage, value |-> value, ns |-> ns]

Records == { << >>, << <<Record("mhlo.add", 5), Record("unknown", 6)>> >> }

Begin(symbol, stage, value) == Event("begin", symbol, stage, value, TRUE)
End(symbol, stage, value) == Event("end", symbol, stage, value, TRUE)

Events ==
  { << >>,
    << <<Begin("mhlo.add", "run", 1), Begin("mhlo.add", "load", 2), End("mhlo.add", "run", 5),
         Begin("mhlo.convolution", "run", 6), End("mhlo.add", "load", 9),
         Begin("mhlo.add", "run", 11), End("mhlo.convolution", "run", 12),
         End("mhlo.add", "run", 14), Event("metric", "mhlo.add", "run", 3, FALSE),
         Event("other", "mhlo.add", "run", 4, TRUE)>> >>,
    << <<End("unknown", "run", 1), Begin("mhlo.add", "run", 2), Begin("mhlo.add", "run", 3),
         End("mhlo.add", "run", 4), End("mhlo.add", "run", 6),
         Event("end", "mhlo.add", "run", 7, FALSE)>> >> }

MCGpuProjects == [mlir : Modules, records : Records, events : Events]
=============================================================================
