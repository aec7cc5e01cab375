-------------------------- MODULE PartitionTracker --------------------------
(***************************************************************************)
(* hidden_ir::PartitionTracker: open and completed partitions, by name.    *)
(* A name is open at most once at a time; beginning it again, or ending it *)
(* while it is not open, is refused and changes nothing.                   *)
(*                                                                         *)
(* Time is the number of calls made so far.  Stage and stable id, which    *)
(* are stored and handed back, are left out.                               *)
(***************************************************************************)
EXTENDS Naturals, Sequences

CONSTANTS
  Partition,  \* partition names
  MaxCalls    \* bound: calls of Begin and End between two resets

ASSUME PartitionTrackerAssumption == MaxCalls \in Nat

VARIABLES
  active_,    \* active_[n]: the open record of n, as a sequence of at most one
  completed_, \* the completed records, in the order they ended
  calls       \* history since the last reset: the calls accepted or refused

trackerVars == <<active_, completed_, calls>>

Call == [do : {"begin", "end"}, name : Partition, ok : BOOLEAN]

TrackerInit ==
  /\ active_ = [n \in Partition |-> << >>]
  /\ completed_ = << >>
  /\ calls = << >>

Reset ==
  /\ active_' = [n \in Partition |-> << >>]
  /\ completed_' = << >>
  /\ calls' = << >>

Now == Len(calls) + 1

Called(do, n, ok) ==
  /\ Len(calls) < MaxCalls
  /\ calls' = Append(calls, [do |-> do, name |-> n, ok |-> ok])

\* A faulty variant: a second begin is not refused.
BeginStacks(n) ==
  /\ Called("begin", n, TRUE)
  /\ active_' = [active_ EXCEPT ![n] = Append(@, [name |-> n, begin_ts |-> Now])]
  /\ UNCHANGED completed_

Begin(n) ==
  \/ /\ active_[n] = << >>
     /\ Called("begin", n, TRUE)
     /\ active_' = [active_ EXCEPT ![n] = <<[name |-> n, begin_ts |-> Now]>>]
     /\ UNCHANGED completed_
  \/ /\ active_[n] # << >>
     /\ Called("begin", n, FALSE)
     /\ UNCHANGED <<active_, completed_>>

End(n) ==
  \/ /\ active_[n] # << >>
     /\ Called("end", n, TRUE)
     /\ completed_' = Append(completed_,
          [name |-> n, begin_ts |-> active_[n][1].begin_ts, end_ts |-> Now])
     /\ active_' = [active_ EXCEPT ![n] = << >>]
  \/ /\ active_[n] = << >>
     /\ Called("end", n, FALSE)
     /\ UNCHANGED <<active_, completed_>>

-----------------------------------------------------------------------------
(* The pairs a reader of the call history expects: an accepted end belongs *)
(* to the last begin of its name before it.                                *)
Pairs ==
  { p \in [name : Partition, begin_ts : DOMAIN calls, end_ts : DOMAIN calls] :
      /\ p.begin_ts < p.end_ts
      /\ calls[p.begin_ts] = [do |-> "begin", name |-> p.name, ok |-> TRUE]
      /\ calls[p.end_ts] = [do |-> "end", name |-> p.name, ok |-> TRUE]
      /\ \A t \in p.begin_ts + 1 .. p.end_ts - 1 :
           ~ (calls[t].name = p.name /\ calls[t].ok) }

\* Every accepted end has a pair, and no call is in two.
Paired ==
  \A t \in DOMAIN calls :
    calls[t].ok /\ calls[t].do = "end"
      => \E p \in Pairs : p.end_ts = t /\ \A q \in Pairs : q.end_ts = t => q = p

\* The completed partitions are the pairs of the calls, once each.
PairsCompleted ==
  /\ {completed_[i] : i \in DOMAIN completed_} = Pairs
  /\ \A i, j \in DOMAIN completed_ : completed_[i] = completed_[j] => i = j
  /\ Paired
=============================================================================
