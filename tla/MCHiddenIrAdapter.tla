------------------------- MODULE MCHiddenIrAdapter -------------------------
(***************************************************************************)
(* Two sessions over one model directory with two executors, with every    *)
(* combination of inputs that takes another path.                          *)
(***************************************************************************)
EXTENDS HiddenIrAdapter

MCExecutors == <<"eval", "train">>

MCSettings ==
  { {}, {"model_dir"}, {"model_dir", "compile_cmd", "report"},
    {"graph", "sidecar", "report"}, {"graph", "compile_cmd", "log", "run_cmd"} }

\* Any files of the executors, the second of them unreadable perhaps, so that the
\* first may have been parsed when it fails; all of the other files, or none.
MCLeftBehind ==
  LET old == {<< >>} \cup {<<c>> : c \in Content(0)}
  IN { [f \in File |-> IF f = "eval" THEN eval ELSE IF f = "train" THEN train ELSE other]
       : eval \in old, train \in old \cup {<<Unreadable(0)>>},
         other \in {<< >>, <<[ops |-> 1, by |-> 0, readable |-> TRUE]>>} }

MCPartition == {"p", "q"}
=============================================================================
