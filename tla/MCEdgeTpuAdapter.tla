-------------------------- MODULE MCEdgeTpuAdapter --------------------------
(***************************************************************************)
(* Two types of operators, one of them split between accelerator and CPU   *)
(* in some tables, and every combination of logs to begin with.            *)
(***************************************************************************)
EXTENDS EdgeTpuAdapter, TLC

Row(type, mapped) == [type |-> type, mapped |-> mapped]

MCGraphs == {<< >>, <<"conv", "pad", "conv">>}

MCTables ==
  { << >>, <<Row("conv", TRUE), Row("pad", FALSE)>>,
    <<Row("pad", TRUE), Row("pad", FALSE)>> }

MCSettings ==
  { {}, {"compile_cmd"}, {"compiled", "compile_cmd"}, {"compiled", "named log", "runtime log"} }

MCLeftBehind ==
  LET Log(table, summary) == [by |-> 0, readable |-> TRUE, rows |-> table, summary |-> summary]
      Model(ops) == [by |-> 0, ops |-> ops]
      unreadable == [by |-> 0, readable |-> FALSE, rows |-> << >>, summary |-> FALSE]
      Maybe(s) == {<< >>} \cup {<<x>> : x \in s}
  IN { [source |-> source, compiled |-> compiled] @@
       [f \in Logs \cup {"runtime log"} |->
          IF f = "operator log" THEN operator
          ELSE IF f = "summary log" THEN summary ELSE named]
       : source \in Maybe({Model(g) : g \in MCGraphs}),
         compiled \in Maybe({Model(<< >>)}),
         operator \in Maybe({Log(t, FALSE) : t \in MCTables \ {<< >>}}),
         summary \in Maybe({Log(<<Row("pad", FALSE)>>, TRUE)}),
         named \in Maybe({unreadable, Log(<<Row("conv", FALSE)>>, TRUE)}) }
=============================================================================
