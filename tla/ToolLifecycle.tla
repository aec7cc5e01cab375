---------------------------- MODULE ToolLifecycle ----------------------------
(***************************************************************************)
(* What the driver promises an analysis tool, without saying what happens  *)
(* between the hooks: every tool is called through the same hooks in the   *)
(* same order, no tool runs ahead of another by more than one hook, and    *)
(* once the session has ended, for whatever reason, no tool is called.     *)
(*                                                                         *)
(* The driver of module RunSession is shown to implement it.               *)
(***************************************************************************)
EXTENDS Naturals, Sequences

CONSTANTS
  Tool,   \* the tools of the session
  Order   \* the hooks, in the order they are called

VARIABLES
  seen,   \* seen[t]: the hooks t was called through, in order
  ended   \* whether the session is over

lifecycleVars == <<seen, ended>>

LifecycleInit ==
  /\ seen = [t \in Tool |-> << >>]
  /\ ended = FALSE

\* No other tool is behind t.
Due(t) == \A u \in Tool : Len(seen[t]) <= Len(seen[u])

\* The next hook of t; if it fails the session is over.
Call(t) ==
  /\ ~ended
  /\ Len(seen[t]) < Len(Order)
  /\ Due(t)
  /\ seen' = [seen EXCEPT ![t] = Append(@, Order[Len(@) + 1])]
  /\ ended' \in BOOLEAN

End ==
  /\ ~ended
  /\ ended'
  /\ UNCHANGED seen

LifecycleSpec ==
  LifecycleInit /\ [][(\E t \in Tool : Call(t)) \/ End]_lifecycleVars
=============================================================================
