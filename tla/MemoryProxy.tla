---------------------------- MODULE MemoryProxy ----------------------------
(***************************************************************************)
(* The dataflow_memory_proxy tool: from the operators of the compiled      *)
(* graph it derives which values are resident while the graph executes in  *)
(* order, once for a table with a row per operator and once more for a     *)
(* summary.                                                                *)
(*                                                                         *)
(* Values are known by name only.  The two loops that build the def-use    *)
(* chain give a name the position of its last definition and of its last   *)
(* reader, wherever these are; Ref states their outcome.  Positions count  *)
(* from 1.  An operator keeps its outputs, the names it reads, its stage   *)
(* tag, and what its adapter says of its volume: a figure for the results  *)
(* (published), or only one for the whole operator (estimated_bytes).  The *)
(* size each output really has is there too; the tool never sees it.       *)
(* Footprints, modules, the per-phase totals and the runtime metrics, of   *)
(* which only a count is printed, are left out.  The sizes are integers    *)
(* here and doubles in the code.                                           *)
(***************************************************************************)
EXTENDS Integers, Sequences, FiniteSetsExt, Lists

CONSTANTS
  Graphs,  \* the operator lists the policy may hand to the tool
  Word     \* how many values a std::size_t has

Publishes == {"figure", "text", "nothing"}

\* No list is longer than a std::size_t counts, and no volume is negative.
WellFormed(ops) ==
  /\ IsList(ops) /\ Len(ops) <= Word
  /\ \A p \in DOMAIN ops :
       /\ IsList(ops[p].outs) /\ \A k \in DOMAIN ops[p].outs : ops[p].outs[k].bytes \in Nat
       /\ ops[p].published \in Publishes
       /\ ops[p].result_bytes \in Nat /\ ops[p].estimated_bytes \in Nat

ASSUME MemoryProxyAssumption ==
  /\ Word \in Nat \ {0}
  /\ \A ops \in Graphs : WellFormed(ops)

VARIABLES
  filtered_ops_,  \* the operators kept at OnCompileEnd
  doing,          \* the hook awaited, or the part of OnShutdown in progress
  pos,            \* the operator the current loop is at
  live,           \* the names marked live in the current loop
  live_bytes,     \* the volume held in the current loop
  table,          \* the rows of the table
  peak,           \* peak_live and peak_at of the summary's loop
  summary         \* the summary, once written

vars == <<filtered_ops_, doing, pos, live, live_bytes, table, peak, summary>>

Ops == filtered_ops_

\* An output without a name is passed over.
Outputs(op) == {op.outs[k].name : k \in DOMAIN op.outs} \ {""}

\* The volume of an operator's results as its adapter publishes it; that of the
\* whole operator if nothing is published, none if what is published is not a
\* number.
ResultBytes(op) ==
  CASE op.published = "figure"  -> op.result_bytes
    [] op.published = "text"    -> 0
    [] op.published = "nothing" -> op.estimated_bytes

\* The tool looks up the first output of an operator by its name.
HasResult(op) == op.outs # << >> /\ op.outs[1].name # ""

-----------------------------------------------------------------------------
(* The def-use chain. *)
Definers(n) == {p \in DOMAIN Ops : n \in Outputs(Ops[p])}
Readers(n)  == {p \in DOMAIN Ops : n \in Ops[p].ins}
Defined     == UNION {Outputs(Ops[p]) : p \in DOMAIN Ops}

\* A faulty variant: the first reader ends a value.
RefFirstReader(n) ==
  LET def_pos == Max(Definers(n))
  IN [bytes    |-> ResultBytes(Ops[def_pos]),
      def_pos  |-> def_pos,
      last_use |-> IF Readers(n) = {} THEN def_pos ELSE Min(Readers(n)),
      phase    |-> Ops[def_pos].stage_tag]

\* A TensorRef: a later definition replaces an earlier one, every reader
\* replaces the use before it.
Ref(n) ==
  LET def_pos == Max(Definers(n))
  IN [bytes    |-> ResultBytes(Ops[def_pos]),
      def_pos  |-> def_pos,
      last_use |-> IF Readers(n) = {} THEN def_pos ELSE Max(Readers(n)),
      phase    |-> Ops[def_pos].stage_tag]

\* A faulty variant: values nobody reads are never retired.
DyingIfRead(p) == {n \in Defined : Readers(n) # {} /\ Ref(n).last_use = p}

Dying(p) == {n \in Defined : Ref(n).last_use = p}

Volume(names) == MapThenSumSet(LAMBDA n : Ref(n).bytes, names)

\* A faulty variant: the distance is a signed number.
ReuseSigned(op) ==
  IF ~HasResult(op) THEN 0
  ELSE LET r == Ref(op.outs[1].name) IN r.last_use - r.def_pos

\* The distance an operator's first result is kept, as an unsigned number.
Reuse(op) ==
  IF ~HasResult(op) THEN 0
  ELSE LET r == Ref(op.outs[1].name) IN (r.last_use - r.def_pos) % Word

\* Defined in the forward phase and last read in the backward phase.
Retained(op) ==
  /\ HasResult(op)
  /\ LET r == Ref(op.outs[1].name)
     IN r.phase = "forward" /\ Ops[r.last_use].stage_tag = "backward"

-----------------------------------------------------------------------------
NoPeak == [live |-> 0, at |-> 1]

Init ==
  /\ filtered_ops_ = << >>
  /\ doing = "hooks"
  /\ pos = 1
  /\ live = {}
  /\ live_bytes = 0
  /\ table = << >>
  /\ peak = NoPeak
  /\ summary = << >>

loopVars == <<pos, live, live_bytes>>

StartLoop == pos' = 1 /\ live' = {} /\ live_bytes' = 0

OnCompileEnd(ops) ==
  /\ doing = "hooks"
  /\ doing' = "compiled"
  /\ filtered_ops_' = ops
  /\ UNCHANGED <<loopVars, table, peak, summary>>

\* Without operators there is no report; without its file, an error.
OnShutdown ==
  /\ doing = "compiled"
  /\ doing' \in IF Ops = << >> THEN {"done"} ELSE {"table", "done"}
  /\ UNCHANGED <<filtered_ops_, loopVars, table, peak, summary>>

\* The volume held while the operator at pos executes.
Held == live_bytes + Volume(Outputs(Ops[pos]) \ live)

\* One turn of either loop: the results enter, unless already live, and the
\* values last used here leave.
Turn ==
  /\ live' = live \cup Outputs(Ops[pos])
  /\ live_bytes' = Held - Volume(Dying(pos))
  /\ pos' = pos + 1

TableRow ==
  /\ doing = "table" /\ pos <= Len(Ops)
  /\ Turn
  /\ table' = Append(table,
       [live |-> Held, reuse |-> Reuse(Ops[pos]), retained |-> Retained(Ops[pos])])
  /\ UNCHANGED <<filtered_ops_, doing, peak, summary>>

TableDone ==
  /\ doing = "table" /\ pos > Len(Ops)
  /\ doing' = "summary"
  /\ StartLoop
  /\ UNCHANGED <<filtered_ops_, table, peak, summary>>

\* A faulty variant: the peak is taken after values have left.
PeakTurnLate ==
  /\ doing = "summary" /\ pos <= Len(Ops)
  /\ Turn
  /\ peak' = IF live_bytes' > peak.live THEN [live |-> live_bytes', at |-> pos] ELSE peak
  /\ UNCHANGED <<filtered_ops_, doing, table, summary>>

PeakTurn ==
  /\ doing = "summary" /\ pos <= Len(Ops)
  /\ Turn
  /\ peak' = IF Held > peak.live THEN [live |-> Held, at |-> pos] ELSE peak
  /\ UNCHANGED <<filtered_ops_, doing, table, summary>>

Kept == {p \in DOMAIN Ops : Retained(Ops[p])}
WithResult == {p \in DOMAIN Ops : HasResult(Ops[p])}

\* The file of the summary may fail to open too, once its figures are computed.
SummaryDone ==
  /\ doing = "summary" /\ pos > Len(Ops)
  /\ doing' = "done"
  /\ summary' \in
       { << >>,
         << [operators      |-> Len(Ops),
             peak_live      |-> peak.live,
             peak_at        |-> peak.at,
             retained       |-> MapThenSumSet(LAMBDA p : Ref(Ops[p].outs[1].name).bytes, Kept),
             retained_count |-> Cardinality(Kept),
             reuse_sum      |-> MapThenSumSet(LAMBDA p : Reuse(Ops[p]), WithResult),
             reuse_n        |-> Cardinality(WithResult)] >> }
  /\ UNCHANGED <<filtered_ops_, loopVars, table, peak>>

Next ==
  \/ \E ops \in Graphs : OnCompileEnd(ops)
  \/ OnShutdown \/ TableRow \/ TableDone \/ PeakTurn \/ SummaryDone

Spec == Init /\ [][Next]_vars

-----------------------------------------------------------------------------
(* What the figures stand for: the values of the graph themselves.  The    *)
(* value that output k of operator p produces is read by the operators     *)
(* that read its name before the name is produced again.                   *)
Values == UNION {{p} \X (DOMAIN Ops[p].outs) : p \in DOMAIN Ops}

UsersOf(v) ==
  LET n == Ops[v[1]].outs[v[2]].name
  IN {q \in Readers(n) : v[1] < q /\ ~ \E d \in Definers(n) : v[1] < d /\ d < q}

Until(v) == Max({v[1]} \cup UsersOf(v))

Size(v) == Ops[v[1]].outs[v[2]].bytes

\* What the tool takes for its size.
Figure(v) == ResultBytes(Ops[v[1]])

\* The volume resident while the operator at p executes.
Resident(p) ==
  MapThenSumSet(Size, {v \in Values : v[1] <= p /\ p <= Until(v)})

Stashed ==
  {v \in Values : Ops[v[1]].stage_tag = "forward" /\ Ops[Until(v)].stage_tag = "backward"}

\* One result an operator, with a name of its own, defined before it is read.
Ssa ==
  /\ \A p \in DOMAIN Ops : Ops[p].outs # << >> => Len(Ops[p].outs) = 1 /\ HasResult(Ops[p])
  /\ \A n \in Defined : \E d \in DOMAIN Ops :
       Definers(n) = {d} /\ \A q \in Readers(n) : d < q

-----------------------------------------------------------------------------
\* Type invariant.
MemoryTypeOK ==
  /\ \A p \in DOMAIN Ops : ResultBytes(Ops[p]) \in Nat
  /\ doing \in {"hooks", "compiled", "table", "summary", "done"}
  /\ pos \in 1 .. Len(Ops) + 1
  /\ live \subseteq Defined
  /\ live_bytes \in Int
  /\ \A k \in DOMAIN table : table[k].reuse \in 0 .. Word - 1
  /\ peak.live \in Nat /\ peak.at \in 1 .. Len(Ops) + 1

\* On a graph in SSA form the distances from definition to last use and the
\* number of values stashed for the backward phase are exact; and so are the
\* volume resident at each operator, its peak and that of the stash, if the
\* figure of every operator is the volume of its result.
ReportIsExact ==
  Ssa =>
    /\ \A p \in DOMAIN table :
         \A v \in Values : v[1] = p => table[p].reuse = Until(v) - p
    /\ \A k \in DOMAIN summary : summary[k].retained_count = Cardinality(Stashed)
    /\ (\A v \in Values : Figure(v) = Size(v)) =>
         /\ \A p \in DOMAIN table : table[p].live = Resident(p)
         /\ \A k \in DOMAIN summary :
              /\ summary[k].peak_live = Max({Resident(p) : p \in DOMAIN Ops})
              /\ summary[k].retained = MapThenSumSet(Size, Stashed)

\* If figures are at least those volumes, as those of whole operators are, the
\* report may show too much and never too little.
ReportIsNeverShort ==
  Ssa /\ (\A v \in Values : Figure(v) >= Size(v)) =>
    /\ \A p \in DOMAIN table : table[p].live >= Resident(p)
    /\ \A k \in DOMAIN summary :
         /\ \A p \in DOMAIN Ops : summary[k].peak_live >= Resident(p)
         /\ summary[k].retained >= MapThenSumSet(Size, Stashed)

\* Whatever the graph, what enters the account leaves it: at the end of
\* either loop nothing is held.
BooksBalance ==
  doing \in {"table", "summary"} /\ pos > Len(Ops) => live_bytes = 0

\* Whatever the graph, the summary tells the same story as the table, although
\* each is computed on its own.
SummaryAgreesWithTable ==
  \A k \in DOMAIN summary :
    /\ summary[k].operators = Len(table)
    /\ summary[k].peak_live = Max({0} \cup {table[p].live : p \in DOMAIN table})
    /\ summary[k].retained_count = Cardinality({p \in DOMAIN table : table[p].retained})
    /\ summary[k].reuse_sum = MapThenSumSet(LAMBDA p : table[p].reuse, DOMAIN table)

\* The tool calls its peak "the volume a sequential execution of the graph
\* would hold resident", of any graph: with figures of whole operators it may
\* be more, but never less than what is resident at some operator.
PeakCoversResident ==
  \A k \in DOMAIN summary : \A p \in DOMAIN Ops : summary[k].peak_live >= Resident(p)
=============================================================================
