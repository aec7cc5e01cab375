------------------------------- MODULE Policy -------------------------------
(***************************************************************************)
(* The policy engine and the filters the tools share: which operators a    *)
(* tool looks at, and which metrics.  An operator is chosen by its name,   *)
(* its stage and its dialect, and sampled by its stable id; a metric only  *)
(* by the stable id it carries.                                            *)
(*                                                                         *)
(* A policy is a record like PolicyConfig; its ratio counts buckets.  The  *)
(* bounds on stable ids, which nothing sets, are left out.                 *)
(***************************************************************************)
EXTENDS Integers, Sequences, SequencesExt, Lists

CONSTANTS
  Mix(_, _),  \* the hash of a stable id and a salt
  Buckets     \* how many buckets the sampling ratio is spread over

ASSUME PolicyAssumption == Buckets \in Nat \ {0}

\* What PolicyConfig starts with.
DefaultPolicy ==
  [mode |-> "full", include_ops |-> {}, include_stages |-> {}, include_dialects |-> {},
   sampling_ratio |-> Buckets, sampling_stride |-> 1, sampling_salt |-> 0]

ShouldEmit(policy, id) ==
  LET mixed == Mix(id, policy.sampling_salt)
  IN /\ policy.sampling_stride > 1 => mixed % policy.sampling_stride = 0
     /\ policy.sampling_ratio > 0
     /\ policy.sampling_ratio >= Buckets \/ mixed % Buckets < policy.sampling_ratio

\* An empty filter lets everything pass.
Passes(filter, value) == filter = {} \/ value \in filter

ShouldInstrument(policy, op) ==
  /\ Passes(policy.include_ops, op.op_name)
  /\ Passes(policy.include_stages, op.stage_tag)
  /\ Passes(policy.include_dialects, op.dialect)
  /\ policy.mode = "sampled" => ShouldEmit(policy, op.stable_id)

FilterOps(policy, ops) == Among(ops, {op \in ToSet(ops) : ShouldInstrument(policy, op)})

\* Metrics of no operator, with stable id 0, always stay.
FilterMetrics(policy, metrics) ==
  Among(metrics, {m \in ToSet(metrics) : m.stable_id = 0 \/ ShouldEmit(policy, m.stable_id)})
=============================================================================
