---------------------------- MODULE MCRunSession ----------------------------
(***************************************************************************)
(* A session with two tools, an adapter that reports up to one metric per  *)
(* call and at most two operators, and a buffer far smaller than the       *)
(* trace.  MaxEvents is larger than any trace of such a session.           *)
(***************************************************************************)
EXTENDS RunSession

MCToolNames == <<"portability_report", "overhead_profiler">>

MCBatches == {<< >>, <<"latency">>}

MCIdentified == {"latency"}

MCName == {"latency", "operator", "subgraph_metric"}
            \cup {Steps[i].what : i \in DOMAIN Steps}
=============================================================================
