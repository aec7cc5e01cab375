--------------------------- MODULE MCBuiltinTools ---------------------------
(***************************************************************************)
(* Two kinds of sessions: one with the memory proxy alone, for every graph *)
(* of module MCMemoryProxy; and sessions with every tool, over three       *)
(* operators that differ in all a policy or a report looks at, in every    *)
(* mode, with tools switched off and with a policy the driver would not    *)
(* make.                                                                   *)
(***************************************************************************)
EXTENDS BuiltinTools

M == INSTANCE MCMemoryProxy

MCMix(id, salt) == (id * 3 + salt) % 8

MCSortedTools ==
  <<"dataflow_memory_proxy", "overhead_profiler", "portability_report",
    "program_analyzer", "semantic_attribution">>

Options(mode, ops, ratio, requested, disabled) ==
  [mode |-> mode, include_ops |-> ops, sampling_ratio |-> ratio,
   requested_tools |-> requested, disabled_tools |-> disabled]

Plain(op) ==
  [outs |-> op.outs, ins |-> op.ins, stage_tag |-> op.stage_tag, published |-> op.published,
   result_bytes |-> op.result_bytes, estimated_bytes |-> op.estimated_bytes, stable_id |-> 1,
   op_name |-> "op", dialect |-> "d", module_path |-> "", src |-> "", macs |-> 1]

Session(options, policies, ops, load, run) ==
  [options |-> options, own_policies |-> policies, ops |-> ops, inputs |-> 1, outputs |-> 1,
   runtime_inputs |-> 1, compile_metrics |-> <<Metric("compile_ms", 1, 0)>>,
   load_metrics |-> load, run_metrics |-> run, peak_macs |-> 2, peak_bw |-> 1]

MemoryOnly ==
  { Session(Options("full", {}, Buckets, <<"dataflow_memory_proxy">>, {}), {},
            [p \in DOMAIN g |-> Plain(g[p])], << >>, << >>) : g \in M!MCGraphs }

\* Ids 1, 2 and 3 fall into different buckets.
Op(id, name, dialect, phase, module, src, macs, bytes) ==
  [outs |-> <<[name |-> <<"t1", "t2", "t3">>[id], bytes |-> bytes]>>,
   ins |-> IF id = 1 THEN {} ELSE {<<"t1", "t2">>[id - 1]},
   stage_tag |-> phase, published |-> "nothing", result_bytes |-> 0, estimated_bytes |-> bytes,
   stable_id |-> id, op_name |-> name, dialect |-> dialect, module_path |-> module,
   src |-> src, macs |-> macs]

Programs ==
  { <<Op(1, "conv", "d", "forward", m1, s1, 8, b1),
      Op(2, "grad", "d", "backward", "layer", "", k2, 1),
      Op(3, "conv", "e", "compile", "", "", 1, 2)>>
    : m1 \in {"", "layer"}, s1 \in {"", "model.py:3"}, b1 \in {0, 1}, k2 \in {1, 2, 9} }

Runs ==
  { <<Metric("latency_ms", 3, 0), Metric("launch_duration_ms", 1, 2),
      Metric("launch_duration_ms", 1, 3)>>,
    <<Metric("baseline_latency_ms", 2, 0), Metric("instrumented_latency_ms", 3, 0)>>,
    <<Metric("baseline_latency_ms", 0, 0), Metric("launch_duration_ms", 1, 1)>> }

OptionSet ==
  { Options("full", {}, 3, << >>, {}), Options("full", {}, 3, <<"no_such_tool">>, {}),
    Options("baseline", {}, Buckets, << >>, {}),
    Options("selective", {"conv"}, Buckets, << >>, {}),
    Options("sampled", {"conv"}, 3, << >>, {"portability_report", "overhead_profiler"}),
    Options("sampled", {}, 7, <<"semantic_attribution", "program_analyzer">>, {}) }

OwnPolicy ==
  [DefaultPolicy EXCEPT !.include_stages = {"forward", "compile"}, !.include_dialects = {"d"},
                        !.sampling_ratio = 4, !.sampling_stride = 3, !.sampling_salt = 1]

MCWorkloads ==
  MemoryOnly \cup
  { Session(o, {OwnPolicy}, ops, <<Metric("op_count", 3, 0)>>, run)
    : o \in OptionSet, ops \in Programs, run \in Runs }
=============================================================================
