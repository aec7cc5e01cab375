--------------------------- MODULE MCTraceBuffer ---------------------------
(* TraceBuffer on a small instance. *)
EXTENDS TraceBuffer

CONSTANTS e1, e2

MCEvent == {e1, e2}
=============================================================================
