---------------------------- MODULE TracerClient ----------------------------
(***************************************************************************)
(* The tracer by itself, called in any order a single-threaded program     *)
(* can call it.  A client makes its metrics by EmitMetrics and gives Emit  *)
(* every other kind of event, as the driver does.                          *)
(***************************************************************************)
EXTENDS Tracer

CONSTANTS
  Calls,   \* the events the client gives Emit, as [kind, event]
  Batches  \* the metrics it gives EmitMetrics

ASSUME TracerClientAssumption ==
  /\ Calls \subseteq [kind : EventKind \ {"kMetric"}, event : Name]
  /\ Batches \subseteq Seq(Name)

TracerNext ==
  \/ \E level \in DetailLevel : Open(level)
  \/ \E c \in Calls : Emit(c.kind, c.event)
  \/ \E ms \in Batches : EmitMetrics(ms)
  \/ EmitSample
  \/ Flush
  \/ Close
  \/ Destroy
  \/ DeviceFails

TracerSpec == TracerInit /\ [][TracerNext]_tracerVars

=============================================================================
