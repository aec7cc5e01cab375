----------------------------- MODULE MlirModule -----------------------------
(***************************************************************************)
(* What the MLIR support makes of the text of a module: the tagger reads   *)
(* operators off the lines, the cost model gives them figures, and the     *)
(* instrumentor writes the operators back into the lines.  Tagger and      *)
(* instrumentor each decide for themselves which lines are operators.      *)
(*                                                                         *)
(* A line is what either of them looks at: the name between its first two  *)
(* quotes ("" if there is none), whether it has a quote, an equals sign, a *)
(* keyword the tagger skips in front, and the elements of its first tensor *)
(* (0 without one).  Shapes, element types and the text are left out; an   *)
(* operator remembers its line by the position, where the code keeps the   *)
(* text of it.  All sizes are of four bytes.                               *)
(***************************************************************************)
EXTENDS Integers, Sequences, SequencesExt, FiniteSets, Lists

Convolutions == {"linalg.conv_2d_nhwc_hwcf", "mhlo.convolution"}

\* The tagger takes a line with a name in quotes behind no keyword.
IsTagged(line) == ~line.keyword /\ line.quote /\ line.name # ""

\* The instrumentor takes a line with a quote and an equals sign.
LooksLikeOpLine(line) == line.quote /\ line.equals

\* One input and one output, both the line's first tensor, if it has one.
BuildModelDescription(lines) ==
  LET tagged == Among([i \in DOMAIN lines |-> i], {i \in DOMAIN lines : IsTagged(lines[i])})
  IN [k \in DOMAIN tagged |->
        [op_name |-> lines[tagged[k]].name, elements |-> lines[tagged[k]].elements,
         line |-> tagged[k], stable_id |-> << >>,
         estimated_flops |-> 0, estimated_bytes |-> 0]]

\* The id is a hash of the name, the number of tensors and the figures; dialect
\* and stage follow from the name and the adapter.  The figures are still 0 when
\* it is assigned, so that operators of one name share it whatever their shape.
\* It stands for itself here.
Assign(op) == <<op.op_name, op.elements > 0, op.estimated_flops, op.estimated_bytes>>

TagStableIds(ops) == [k \in DOMAIN ops |-> [ops[k] EXCEPT !.stable_id = Assign(ops[k])]]

\* A multiplication would need two inputs to count as one, and has one.
Populate(op) ==
  [op EXCEPT !.estimated_flops = IF op.op_name \in Convolutions THEN 2 * op.elements
                                 ELSE op.elements,
             !.estimated_bytes = 2 * (4 * op.elements)]

PopulateAll(ops) == [k \in DOMAIN ops |-> Populate(ops[k])]

\* A faulty variant: the lines that are no operators are counted too.
InstrumentByLine(lines, ops) ==
  [i \in DOMAIN lines |->
     IF LooksLikeOpLine(lines[i]) /\ i <= Len(ops) THEN <<ops[i]>> ELSE << >>]

\* The lines that look like operators, up to i.
OpLinesTo(lines, i) == {j \in 1 .. i : LooksLikeOpLine(lines[j])}

\* Line by line the next operator is written into a line that looks like one,
\* until there are no more: what is written into each, as a sequence of at most
\* one.
Instrument(lines, ops) ==
  LET index(i) == Cardinality(OpLinesTo(lines, i))
  IN [i \in DOMAIN lines |->
        IF LooksLikeOpLine(lines[i]) /\ index(i) <= Len(ops) THEN <<ops[index(i)]>> ELSE << >>]
=============================================================================
