---------------------------- MODULE MCMemoryProxy ----------------------------
(***************************************************************************)
(* Two families of operator lists, each with a forward and a backward      *)
(* part.  Those of the cerebras adapter: every operator has one result     *)
(* under a name of its own, read by any later operators; with the figure   *)
(* of the result, as that adapter publishes it, and with only that of the  *)
(* whole operator or none at all, as others would.  And lists in which     *)
(* names repeat, as the gpu_mlir adapter produces them (every result is    *)
(* called output0), operators have two results and their joint figure      *)
(* (edgetpu) or a first result without a name, and a name is read before   *)
(* it is defined or after its definition was filtered out.                 *)
(***************************************************************************)
EXTENDS MemoryProxy

Phase(p, cut) == IF p <= cut THEN "forward" ELSE "backward"

Result(p) == <<"t1", "t2", "t3", "t4">>[p]

Out(n, bytes) == [name |-> n, bytes |-> bytes]

\* Operator p has result p, of one of two sizes, and reads earlier ones.
SsaGraphs(n, cuts, kinds) ==
  { [p \in 1 .. n |->
      [outs |-> <<Out(Result(p), size[p])>>,
       ins  |-> {Result(q) : q \in reads[p]},
       stage_tag |-> Phase(p, cut),
       published |-> IF kind[p] = "result" THEN "figure" ELSE "nothing",
       result_bytes |-> size[p],
       estimated_bytes |-> IF kind[p] = "none" THEN 0
                           ELSE size[p] + MapThenSumSet(LAMBDA q : size[q], reads[p])]]
    : cut \in cuts, size \in [1 .. n -> {1, 2}], kind \in [1 .. n -> kinds],
      reads \in {r \in [1 .. n -> SUBSET (1 .. n - 1)] : \A p \in 1 .. n : \A q \in r[p] : q < p} }

\* The two names play the same part, so that the first operator need not write
\* b alone.
LooseGraphs(n) ==
  { [p \in 1 .. n |->
      [outs |-> CASE outs[p] = "none"    -> << >>
                  [] outs[p] = "a"       -> <<Out("a", n - p + 1)>>
                  [] outs[p] = "b"       -> <<Out("b", n - p + 1)>>
                  [] outs[p] = "ab"      -> <<Out("a", p), Out("b", 1)>>
                  [] outs[p] = "unnamed" -> <<Out("", 1), Out("a", p)>>,
       ins  |-> reads[p],
       stage_tag |-> Phase(p, 1),
       published |-> IF outs[p] = "unnamed" THEN "text" ELSE "figure",
       result_bytes |-> IF outs[p] = "ab" THEN p + 1 ELSE n - p + 1,
       estimated_bytes |-> n]]
    : outs \in {o \in [1 .. n -> {"none", "a", "b", "ab", "unnamed"}] : o[1] # "b"},
      reads \in [1 .. n -> SUBSET {"a", "b"}] }

MCGraphs ==
  {<< >>} \cup SsaGraphs(1, {1}, {"result"}) \cup SsaGraphs(4, 1 .. 2, {"result"})
    \cup SsaGraphs(3, {1}, {"result", "whole", "none"}) \cup LooseGraphs(3)

\* What the gpu_mlir adapter publishes for two operators: each reads a tensor
\* of the shape it writes, and the cost model adds the two up.
MCGpuGraphs ==
  { [p \in 1 .. 2 |->
      [outs |-> <<Out("output0", size[p])>>, ins |-> {"input0"}, stage_tag |-> "compile",
       published |-> "nothing", result_bytes |-> 0, estimated_bytes |-> 2 * size[p]]]
    : size \in [1 .. 2 -> 1 .. 12] }
=============================================================================
