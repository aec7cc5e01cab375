------------------------------ MODULE Registry ------------------------------
(***************************************************************************)
(* The registries of adapters and of tools: names with their factories,    *)
(* which the process keeps for as long as it lives.  Every session         *)
(* registers the built-in ones again.                                      *)
(*                                                                         *)
(* A registry is the set of its names.                                     *)
(***************************************************************************)
EXTENDS Sequences, SequencesExt, Lists

\* Registering a name twice is an error, which leaves the registry as it was.
Register(names, name) ==
  IF name = "" \/ name \in names THEN [ok |-> FALSE, names |-> names]
  ELSE [ok |-> TRUE, names |-> names \cup {name}]

\* A faulty variant: what is there already is registered again.
RegisterUnchecked(names, builtin) ==
  LET done[n \in 0 .. Len(builtin)] ==
        IF n = 0 THEN [ok |-> TRUE, names |-> names]
        ELSE IF ~done[n - 1].ok THEN done[n - 1]
        ELSE Register(done[n - 1].names, builtin[n])
  IN done[Len(builtin)]

\* Registers the built-in names that are not there, in order; the first error
\* ends it.
RegisterBuiltin(names, builtin) ==
  LET done[n \in 0 .. Len(builtin)] ==
        IF n = 0 THEN [ok |-> TRUE, names |-> names]
        ELSE IF ~done[n - 1].ok \/ builtin[n] \in done[n - 1].names THEN done[n - 1]
        ELSE Register(done[n - 1].names, builtin[n])
  IN done[Len(builtin)]

\* Create finds a factory or nothing.
CanCreate(names, name) == name \in names

\* The names in order; sorted lists every name that may be there in order.
List(names, sorted) == Among(sorted, names)
=============================================================================
