------------------------- MODULE RuntimeCorrelation -------------------------
(***************************************************************************)
(* How records of a run find the operator they are about: by the name they *)
(* carry.  The correlator indexes a model once; the launch observer reads  *)
(* names off the model anew for every log, and measures launches between   *)
(* the events of their begin and their end.                                *)
(*                                                                         *)
(* An index is a function from names to ids.  A record is [symbol, value], *)
(* an event [type, symbol, stage, value, ns], where ns tells whether its   *)
(* unit is the nanosecond.  The optional symbol of an operator, which no   *)
(* adapter gives, is left out, and so are the names and units of metrics.  *)
(* A metric remembers the record it is from in "symbol".                   *)
(***************************************************************************)
EXTENDS Integers, Sequences, SequencesExt, FiniteSetsExt

NoId == << >>

OpNames(ops) == {ops[k].op_name : k \in DOMAIN ops}

\* The last operator of a name has it.
IdOf(ops, name) ==
  ops[Max({k \in DOMAIN ops : ops[k].op_name = name})].stable_id

SymbolToId(ops) == [name \in OpNames(ops) |-> IdOf(ops, name)]

\* A faulty variant: what an earlier model had stays, unless replaced.
IndexWithoutReset(old, ops) ==
  [name \in (DOMAIN old) \cup OpNames(ops) |->
     IF name \in OpNames(ops) THEN IdOf(ops, name) ELSE old[name]]

\* IndexModel, which forgets the model before.
IndexModel(old, ops) == SymbolToId(ops)

Lookup(index, name) == IF name \in DOMAIN index THEN index[name] ELSE NoId

Sample(kind, record, id, value) ==
  [kind |-> kind, symbol |-> record.symbol, stable_id |-> id, value |-> value]

\* Correlate and ToMetricSamples of the correlator: a metric for each record,
\* with or without an operator.
CorrelateRecords(index, records) ==
  [i \in DOMAIN records |->
     Sample("record", records[i], Lookup(index, records[i].symbol), records[i].value)]

\* A faulty variant: launches are told apart by their symbol only.
KeyBySymbol(event) == <<event.symbol>>

\* Symbol and stage tell launches apart.
Key(event) == <<event.symbol, event.stage>>

Set(map, key, value) ==
  [k \in (DOMAIN map) \cup {key} |-> IF k = key THEN value ELSE map[k]]

\* One event: a begin is remembered until the next of its key; an end is
\* measured from it, if its unit is the nanosecond, and leaves it there; events
\* of any other type but "metric" are passed over.
Observe(done, index, e) ==
  CASE e.type = "begin" ->
         [done EXCEPT !.begin_ns = Set(@, Key(e), e.value)]
    [] e.type = "end" /\ Key(e) \in DOMAIN done.begin_ns /\ e.ns ->
         [done EXCEPT !.out = Append(@,
            [kind |-> "launch", symbol |-> e.symbol, stage |-> e.stage,
             stable_id |-> Lookup(index, e.symbol),
             value |-> e.value - done.begin_ns[Key(e)]])]
    [] e.type = "metric" ->
         [done EXCEPT !.out = Append(@, Sample("event", e, Lookup(index, e.symbol), e.value))]
    [] OTHER -> done

\* LaunchObserver.Correlate: event by event.
CorrelateEvents(ops, events) ==
  LET index == SymbolToId(ops)
      done[n \in 0 .. Len(events)] ==
        IF n = 0 THEN [begin_ns |-> << >>, out |-> << >>]
        ELSE Observe(done[n - 1], index, events[n])
  IN done[Len(events)].out
=============================================================================
