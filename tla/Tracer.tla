------------------------------- MODULE Tracer -------------------------------
(***************************************************************************)
(* trace::Tracer: the session's handle on its trace.                       *)
(*                                                                         *)
(* The tracer owns at most one BufferedTraceWriter (writer_), applies the  *)
(* detail level to every event before it is queued, and keeps a copy of    *)
(* the writer's counters that outlives the writer.  The state of the       *)
(* writer is that of module TraceBuffer; once the writer is destroyed its  *)
(* last state stays in the variables, the events it never drained in       *)
(* pending.                                                                *)
(*                                                                         *)
(* An event keeps its kind, its name and whether it carries a payload.     *)
(* Timestamps, run and provider names, the stage and the stable id, which  *)
(* are copied through, are left out.  Open is called with a path of its    *)
(* own each time; an empty path is refused before anything changes.        *)
(***************************************************************************)
EXTENDS Naturals, Sequences

CONSTANTS
  Name,      \* names of events and metrics
  Capacity,  \* buffer_capacity passed to Open
  MaxEvents, \* bound: events queued in one session
  MaxOpens   \* bound: calls of Open

ASSUME TracerAssumption ==
  /\ Capacity \in Nat
  /\ MaxEvents \in Nat
  /\ MaxOpens \in Nat

VARIABLES
  pending, stats, stream, device, file, onDisk, issued, \* *writer_
  writer_,      \* "null", "open", or "gone" when the tracer itself is gone
  stats_cache,  \* stats_cache_
  detail_level, \* detail_level_
  samples,      \* EmitMetrics: the samples its loop has yet to emit
  opens         \* history: calls of Open

bufferVars == <<pending, stats, stream, device, file, onDisk, issued>>
tracerVars == <<bufferVars, writer_, stats_cache, detail_level, samples, opens>>

DetailLevel == {"kIds", "kLite", "kFull"}

EventKind == {"kSession", "kCompile", "kLoad", "kRun", "kSubgraph", "kMetric", "kDiagnostic"}

TracedEvent ==
  [kind : EventKind, event : Name \cup {"metrics_summary"}, payload : BOOLEAN]

Buf == INSTANCE TraceBuffer WITH Event <- TracedEvent

-----------------------------------------------------------------------------
TracerInit ==
  /\ Buf!Fresh
  /\ writer_ = "null"
  /\ stats_cache = Buf!ZeroStats
  /\ detail_level = "kFull"
  /\ samples = << >>
  /\ opens = 0

\* No call of the tracer is in progress.
Idle == writer_ # "gone" /\ samples = << >>

\* A new writer: the initial values of a TraceBuffer, on the device as it is.
NewWriter ==
  /\ pending' = << >>
  /\ stats' = Buf!ZeroStats
  /\ stream' \in {"good", "unopened"}
  /\ file' = << >>
  /\ onDisk' = 0
  /\ issued' = << >>
  /\ UNCHANGED device

\* A faulty variant: the counters of the previous session stay.
OpenKeepsStats(level) ==
  /\ Idle
  /\ opens < MaxOpens
  /\ opens' = opens + 1
  /\ NewWriter
  /\ writer_' = "open"
  /\ detail_level' = level
  /\ UNCHANGED <<samples, stats_cache>>

\* Open replaces the writer: a writer still open is destroyed with whatever
\* it has queued, and the new one starts a file and counters of its own.
Open(level) ==
  /\ Idle
  /\ opens < MaxOpens
  /\ opens' = opens + 1
  /\ NewWriter
  /\ writer_' = "open"
  /\ stats_cache' = Buf!ZeroStats
  /\ detail_level' = level
  /\ UNCHANGED samples

\* A faulty variant: the level is ignored.
TracedInFull(kind, event) == [kind |-> kind, event |-> event, payload |-> TRUE]

\* The event queued for a call of Emit.  At kIds the payload is dropped; at
\* the other levels it holds at least the session id.
Traced(kind, event) ==
  [kind |-> kind, event |-> event, payload |-> detail_level # "kIds"]

\* Emit to the writer, if there is one.  Write never fails, whatever becomes
\* of the event, so callers never see an error.
Queue(kind, event) ==
  IF writer_ = "open"
  THEN /\ Buf!Write(Traced(kind, event))
       /\ stats_cache' = stats'
  ELSE UNCHANGED <<bufferVars, stats_cache>>

Emit(kind, event) ==
  /\ Idle
  /\ Queue(kind, event)
  /\ UNCHANGED <<writer_, detail_level, samples, opens>>

\* EmitMetrics: nothing at kIds, one count at kLite, a loop over the samples
\* at kFull.
EmitMetrics(ms) ==
  /\ Idle
  /\ UNCHANGED <<writer_, detail_level, opens>>
  /\ \/ /\ detail_level = "kIds"
        /\ UNCHANGED <<bufferVars, stats_cache, samples>>
     \/ /\ detail_level = "kLite"
        /\ Queue("kMetric", "metrics_summary")
        /\ UNCHANGED samples
     \/ /\ detail_level = "kFull"
        /\ samples' = ms
        /\ UNCHANGED <<bufferVars, stats_cache>>

\* One turn of the loop of EmitMetrics.
EmitSample ==
  /\ samples # << >>
  /\ samples' = Tail(samples)
  /\ Queue("kMetric", Head(samples))
  /\ UNCHANGED <<writer_, detail_level, opens>>

Flush ==
  /\ Idle
  /\ IF writer_ = "open"
     THEN Buf!Flush /\ stats_cache' = stats'
     ELSE UNCHANGED <<bufferVars, stats_cache>>
  /\ UNCHANGED <<writer_, detail_level, samples, opens>>

\* Close flushes, copies the counters, closes the file and drops the writer.
\* The second drain, inside the writer's own Close, finds an empty queue.
Close ==
  /\ Idle
  /\ IF writer_ = "open"
     THEN Buf!Close /\ stats_cache' = stats' /\ writer_' = "null"
     ELSE UNCHANGED <<bufferVars, stats_cache, writer_>>
  /\ UNCHANGED <<detail_level, samples, opens>>

\* The tracer goes out of scope.  Nothing drains the queue of an open writer;
\* only the lines its stream accepted reach the file.
Destroy ==
  /\ writer_ # "gone"
  /\ writer_' = "gone"
  /\ IF writer_ = "open"
     THEN UNCHANGED <<pending, stats, file, device, issued>> /\ Buf!StreamCloses
     ELSE UNCHANGED bufferVars
  /\ samples' = << >>
  /\ UNCHANGED <<stats_cache, detail_level, opens>>

DeviceFails ==
  /\ Buf!DeviceFails
  /\ UNCHANGED <<writer_, stats_cache, detail_level, samples, opens>>

-----------------------------------------------------------------------------
\* Type invariant.
TracerTypeOK ==
  /\ Buf!TypeOK
  /\ writer_ \in {"null", "open", "gone"}
  /\ stats_cache \in Buf!TraceStats
  /\ detail_level \in DetailLevel
  /\ samples \in Seq(Name)
  /\ opens \in 0 .. MaxOpens

\* Whoever reads stats() reads the truth about the file: the copy is never
\* behind the writer, is not left over from an earlier session, and keeps the
\* final counts after Close.
StatsNeverStale ==
  /\ stats_cache = stats
  /\ stats_cache.event_count = Len(file)

\* The events of a session obey the level it was opened with: identity only
\* at kIds, no stream of metrics at kLite.
LevelHonoured ==
  \A i \in 1 .. Len(issued) :
    /\ detail_level = "kIds" => ~issued[i].payload /\ issued[i].kind # "kMetric"
    /\ detail_level = "kLite" /\ issued[i].kind = "kMetric"
         => issued[i].event = "metrics_summary"
    /\ detail_level # "kIds" => issued[i].payload

\* A tracer destroyed in mid-session, as on every early return of a run, still
\* leaves all but the last few events on disk: fewer than capacity_ are lost.
GoneLosesFew ==
  writer_ = "gone" /\ stream = "closed" /\ device = "ok"
    => /\ Buf!FirstOf(file, issued)
       /\ Len(issued) - onDisk < Buf!capacity_
=============================================================================
