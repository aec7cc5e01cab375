------------------------------ MODULE MCTracer ------------------------------
(***************************************************************************)
(* A client with one event and batches of up to two metrics.               *)
(***************************************************************************)
EXTENDS TracerClient

MCName == {"run_begin", "latency", "flops"}
MCCalls == {[kind |-> "kRun", event |-> "run_begin"]}
MCBatches == {<< >>, <<"latency">>, <<"latency", "flops">>}
=============================================================================
