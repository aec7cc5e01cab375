---------------------------- MODULE TracerProofs ----------------------------
(***************************************************************************)
(* Proofs about the tracer, for every client, every set of names, every    *)
(* capacity and any number of sessions.                                    *)
(*                                                                         *)
(* The writer keeps its invariant, by the lemmas of TraceBufferProofs,     *)
(* through every step of the tracer, of which two are none of the writer   *)
(* alone: a new writer takes the place of the old one, and the tracer goes *)
(* out of scope.  What the tracer adds is that a line is only ever refused *)
(* by a device that has failed, as long as nobody writes to a writer that  *)
(* is closed.                                                              *)
(***************************************************************************)
EXTENDS TracerClient, SequenceTheorems, TLAPS

P == INSTANCE TraceBufferProofs WITH Event <- TracedEvent

\* While the device takes data no line was refused, and the stream is in error
\* only if the device has failed.
RefusedByDevice ==
  /\ device = "ok" /\ stream \in {"good", "closed"} => stats.dropped_event_count = 0
  /\ stream = "bad" => device # "ok"

\* A writer the tracer has is not closed.
OpenIsNotClosed == writer_ = "open" => stream # "closed"

TracerTypes ==
  /\ detail_level \in DetailLevel
  /\ samples \in Seq(Name)
  /\ samples # << >> => detail_level = "kFull"

TracerInv ==
  /\ P!IInv
  /\ RefusedByDevice
  /\ OpenIsNotClosed
  /\ TracerTypes
  /\ stats_cache = stats
  /\ LevelHonoured

\* What is assumed of the constants covers what TraceBuffer assumes.
LEMMA BufferAssumption == P!TraceBufferAssumption
  BY TracerAssumption DEF P!TraceBufferAssumption

-----------------------------------------------------------------------------
(* The steps of the writer, as the tracer names them and as the lemmas do. *)

\* Write of the tracer's writer is that of the lemmas.
LEMMA SameWrite ==
  ASSUME NEW e
  PROVE  Buf!Write(e) <=> P!Write(e)
  BY DEF Buf!Write, Buf!FlushPending, Buf!Accepted, Buf!Drain, Buf!StreamAfter, Buf!Spill,
         Buf!Counted, Buf!Deeper, Buf!Full, Buf!capacity_,
         P!Write, P!FlushPending, P!Accepted, P!Drain, P!StreamAfter, P!Spill,
         P!Counted, P!Deeper, P!Full, P!capacity_

\* So is Flush.
LEMMA SameFlush == Buf!Flush <=> P!Flush
  BY DEF Buf!Flush, Buf!FlushPending, Buf!Accepted, Buf!Drain, Buf!StreamAfter, Buf!Spill,
         Buf!Counted, P!Flush, P!FlushPending, P!Accepted, P!Drain, P!StreamAfter, P!Spill,
         P!Counted

\* So is Close.
LEMMA SameClose == Buf!Close <=> P!Close
  BY DEF Buf!Close, Buf!Accepted, Buf!Drain, Buf!Counted, Buf!StreamCloses,
         P!Close, P!Accepted, P!Drain, P!Counted, P!StreamCloses

-----------------------------------------------------------------------------
(* What the tracer adds about its writer. *)

\* The parts of the writer's invariant, spelled out.
LEMMA WriterFacts ==
  ASSUME P!IInv
  PROVE  /\ pending \in Seq(TracedEvent) /\ file \in Seq(TracedEvent)
         /\ issued \in Seq(TracedEvent)
         /\ Len(pending) \in Nat /\ Len(file) \in Nat /\ Len(issued) \in Nat
         /\ stats \in P!TraceStats /\ stats.dropped_event_count \in Nat
         /\ stream \in {"unopened", "good", "bad", "closed"} /\ device \in {"ok", "full"}
         /\ stats.event_count = Len(file)
         /\ Len(issued) = Len(file) + stats.dropped_event_count + Len(pending)
         /\ Len(pending) < P!capacity_
         /\ onDisk \in Nat /\ onDisk <= Len(file)
         /\ stream = "closed" /\ device = "ok" => onDisk = Len(file)
<1>1. P!TypeOK /\ P!Conservation /\ P!QueueIsShort /\ P!ClosedIsComplete
  BY DEF P!IInv
<1>2. stats.dropped_event_count \in Nat
  BY <1>1 DEF P!TypeOK, P!TraceStats
<1>3. QED
  BY <1>1, <1>2, LenProperties
     DEF P!TypeOK, P!Conservation, P!QueueIsShort, P!ClosedIsComplete, P!StreamState

\* Draining a queue drops nothing while the device takes data.
LEMMA DrainRefuses ==
  ASSUME RefusedByDevice, NEW q \in Seq(TracedEvent), NEW s \in P!TraceStats,
         s.dropped_event_count = stats.dropped_event_count,
         NEW k \in P!Accepted(q), P!Drain(q, s, k)
  PROVE  /\ device = "ok" /\ stream = "good" => /\ k = Len(q)
                                                /\ stats'.dropped_event_count = 0
<1> SUFFICES ASSUME device = "ok", stream = "good"
             PROVE  k = Len(q) /\ stats'.dropped_event_count = 0
  OBVIOUS
<1>1. k = Len(q) /\ Len(q) \in Nat
  BY LenProperties DEF P!Accepted
<1>2. s.dropped_event_count = 0
  BY DEF RefusedByDevice
<1>3. CASE q = << >>
  BY <1>1, <1>2, <1>3 DEF P!Drain
<1>4. CASE q # << >>
  <2>1. stats' = P!Counted(s, Len(q), k)
    BY <1>4 DEF P!Drain
  <2>2. stats'.dropped_event_count = s.dropped_event_count + (Len(q) - k)
    BY <2>1 DEF P!Counted
  <2>3. QED
    BY <1>1, <1>2, <2>2
<1>5. QED
  BY <1>1, <1>3, <1>4

\* FlushPending on a writer that is not closed refuses only what the device does.
LEMMA FlushRefuses ==
  ASSUME RefusedByDevice, stream # "closed", device' = device,
         NEW q \in Seq(TracedEvent), NEW s \in P!TraceStats,
         s.dropped_event_count = stats.dropped_event_count, P!FlushPending(q, s)
  PROVE  RefusedByDevice' /\ stream' # "closed"
<1>1. PICK k \in P!Accepted(q) : P!Drain(q, s, k) /\ stream' = P!StreamAfter(q, k)
  BY DEF P!FlushPending
<1>2. stream' # "closed" /\ (stream' = "good" => stream = "good")
  BY <1>1 DEF P!StreamAfter
<1>3. device = "ok" /\ stream = "good" => k = Len(q) /\ stats'.dropped_event_count = 0
  BY <1>1, DrainRefuses
<1>4. Len(q) \in Nat
  BY LenProperties
<1>5. stream' = "bad" => device # "ok"
  BY <1>1, <1>3, <1>4 DEF P!StreamAfter, RefusedByDevice
<1>6. QED
  BY <1>2, <1>3, <1>5 DEF RefusedByDevice

\* So does Write.
LEMMA WriteRefuses ==
  ASSUME P!IInv, RefusedByDevice, stream # "closed", NEW e \in TracedEvent, P!Write(e)
  PROVE  RefusedByDevice' /\ stream' # "closed"
<1> DEFINE q == Append(pending, e)
           s == P!Deeper(stats, Len(q))
<1>1. /\ device' = device
      /\ \/ stats' = s /\ stream' = stream
         \/ P!FlushPending(q, s)
  BY DEF P!Write
<1>2. q \in Seq(TracedEvent) /\ Len(q) \in Nat
  BY WriterFacts, AppendProperties, LenProperties
<1> HIDE DEF q
<1>3. s \in P!TraceStats /\ s.dropped_event_count = stats.dropped_event_count
  BY <1>2, WriterFacts DEF P!Deeper, P!TraceStats
<1> HIDE DEF s
<1>4. CASE stats' = s /\ stream' = stream
  BY <1>1, <1>3, <1>4 DEF RefusedByDevice
<1>5. CASE P!FlushPending(q, s)
  BY <1>1, <1>2, <1>3, <1>5, FlushRefuses
<1>6. QED
  BY <1>1, <1>4, <1>5

\* So does Close.
LEMMA CloseRefuses ==
  ASSUME P!IInv, RefusedByDevice, stream # "closed", P!Close
  PROVE  RefusedByDevice'
<1>1. PICK k \in P!Accepted(pending) : P!Drain(pending, stats, k)
  BY DEF P!Close
<1>2. device' = device /\ stream' = IF stream = "unopened" THEN "unopened" ELSE "closed"
  BY DEF P!Close, P!StreamCloses
<1>3. device = "ok" /\ stream = "good" => stats'.dropped_event_count = 0
  BY <1>1, WriterFacts, DrainRefuses
<1>4. QED
  BY <1>2, <1>3, WriterFacts DEF RefusedByDevice

-----------------------------------------------------------------------------
(* Initial states and steps. *)

\* A tracer that was never opened satisfies the invariant.
LEMMA InitInv == TracerInit => TracerInv
<1> SUFFICES ASSUME TracerInit
             PROVE  TracerInv
  OBVIOUS
<1>1. P!Fresh
  BY DEF TracerInit, Buf!Fresh, Buf!ZeroStats, P!Fresh, P!ZeroStats
<1>2. P!IInv
  BY <1>1, BufferAssumption, P!FreshInv
<1>3. stats_cache = stats /\ RefusedByDevice
  BY <1>1 DEF TracerInit, Buf!ZeroStats, P!Fresh, P!ZeroStats, RefusedByDevice
<1>4. OpenIsNotClosed /\ TracerTypes
  BY EmptySeq DEF TracerInit, OpenIsNotClosed, TracerTypes, DetailLevel
<1>5. LevelHonoured
  <2>1. issued = << >> /\ Len(issued) = 0
    BY <1>1, EmptySeq DEF P!Fresh
  <2>2. QED
    BY <2>1 DEF LevelHonoured
<1>6. QED
  BY <1>2, <1>3, <1>4, <1>5 DEF TracerInv

\* A new writer satisfies the writer's invariant, on a device that failed too.
LEMMA NewWriterStep ==
  ASSUME P!IInv, NewWriter
  PROVE  /\ P!IInv'
         /\ RefusedByDevice'
         /\ stream' # "closed" /\ issued' = << >> /\ stats' = P!ZeroStats
<1>1. << >> \in Seq(TracedEvent) /\ Len(<< >>) = 0
  BY EmptySeq
<1>2. /\ pending' = << >> /\ file' = << >> /\ issued' = << >> /\ onDisk' = 0
      /\ stats' = P!ZeroStats /\ stream' \in {"good", "unopened"} /\ device' = device
  BY DEF NewWriter, Buf!ZeroStats, P!ZeroStats
<1>3. /\ stats' \in P!TraceStats /\ stats'.event_count = 0
      /\ stats'.dropped_event_count = 0 /\ stats'.max_queue_depth = 0
  BY <1>2 DEF P!ZeroStats, P!TraceStats
<1>4. P!TypeOK'
  BY <1>1, <1>2, <1>3, WriterFacts DEF P!TypeOK, P!StreamState
<1>5. P!Conservation'
  BY <1>1, <1>2, <1>3 DEF P!Conservation
<1>6. P!FileIsPrefix'
  <2>1. P!FirstOf(<< >>, << >>) /\ P!LastOf(<< >>, << >>)
    BY <1>1, BufferAssumption, P!NothingIsFirst, P!NothingIsLast
  <2>2. QED
    BY <1>2, <2>1 DEF P!FileIsPrefix
<1>7. P!GoodRefusedNothing' /\ P!ClosedIsComplete'
  BY <1>2, <1>3 DEF P!GoodRefusedNothing, P!ClosedIsComplete
<1>8. P!QueueIsShort'
  <2>1. P!capacity_ \in Nat \ {0}
    BY TracerAssumption DEF P!capacity_
  <2>2. QED
    BY <1>1, <1>2, <1>3, <2>1 DEF P!QueueIsShort, P!capacity_
<1>9. P!IInv'
  BY <1>4, <1>5, <1>6, <1>7, <1>8 DEF P!IInv
<1>10. QED
  BY <1>2, <1>3, <1>9 DEF RefusedByDevice

\* One more event that obeys the level leaves all of them obeying it.
LEMMA AppendHonours ==
  ASSUME P!IInv, LevelHonoured, detail_level' = detail_level,
         NEW e \in TracedEvent, issued' = Append(issued, e),
         detail_level = "kIds" => ~e.payload /\ e.kind # "kMetric",
         detail_level = "kLite" /\ e.kind = "kMetric" => e.event = "metrics_summary",
         detail_level # "kIds" => e.payload
  PROVE  LevelHonoured'
<1>1. issued \in Seq(TracedEvent) /\ Len(issued) \in Nat
  BY WriterFacts
<1>2. /\ Len(issued') = Len(issued) + 1
      /\ \A i \in 1 .. Len(issued) : issued'[i] = issued[i]
      /\ issued'[Len(issued) + 1] = e
  BY <1>1, AppendProperties
<1>3. ASSUME NEW i \in 1 .. Len(issued')
      PROVE  (i \in 1 .. Len(issued) /\ issued'[i] = issued[i]) \/ issued'[i] = e
  BY <1>1, <1>2
<1>4. QED
  BY <1>2, <1>3 DEF LevelHonoured

\* Emitting an event the level allows keeps the invariant.
LEMMA QueueStep ==
  ASSUME TracerInv, NEW kind \in EventKind, NEW event \in Name \cup {"metrics_summary"},
         detail_level = "kIds" => kind # "kMetric",
         detail_level = "kLite" /\ kind = "kMetric" => event = "metrics_summary",
         Queue(kind, event), UNCHANGED <<writer_, detail_level>>, TracerTypes'
  PROVE  TracerInv'
<1>1. CASE writer_ = "open"
  <2> DEFINE e == Traced(kind, event)
  <2>1. e \in TracedEvent /\ e.kind = kind /\ e.event = event
        /\ e.payload = (detail_level # "kIds")
    BY DEF Traced, TracedEvent
  <2>2. P!Write(e) /\ stats_cache' = stats'
    BY <1>1, SameWrite DEF Queue
  <2> HIDE DEF e
  <2>3. P!IInv /\ RefusedByDevice /\ stream # "closed"
    BY <1>1 DEF TracerInv, OpenIsNotClosed
  <2>4. P!IInv'
    BY <2>1, <2>2, <2>3, BufferAssumption, P!WriteStep
  <2>5. RefusedByDevice' /\ stream' # "closed"
    BY <2>1, <2>2, <2>3, WriteRefuses
  <2>6. issued' = Append(issued, e)
    BY <2>2 DEF P!Write
  <2>7. LevelHonoured'
    BY <2>1, <2>3, <2>6, AppendHonours DEF TracerInv
  <2>8. QED
    BY <2>2, <2>4, <2>5, <2>7 DEF TracerInv, OpenIsNotClosed
<1>2. CASE writer_ # "open"
  <2>1. UNCHANGED <<bufferVars, stats_cache>>
    BY <1>2 DEF Queue
  <2>2. P!IInv'
    <3>1. UNCHANGED P!bufferVars
      BY <2>1 DEF bufferVars, P!bufferVars
    <3>2. QED
      BY <3>1, BufferAssumption, P!NextInv DEF TracerInv
  <2>3. RefusedByDevice' /\ OpenIsNotClosed' /\ stats_cache' = stats' /\ LevelHonoured'
    BY <2>1 DEF bufferVars, TracerInv, RefusedByDevice, OpenIsNotClosed, LevelHonoured
  <2>4. QED
    BY <2>2, <2>3 DEF TracerInv
<1>3. QED
  BY <1>1, <1>2

\* What does not touch the trace keeps the invariant.
LEMMA TraceUntouched ==
  ASSUME TracerInv, UNCHANGED <<bufferVars, writer_, stats_cache, detail_level>>, TracerTypes'
  PROVE  TracerInv'
<1>1. UNCHANGED P!bufferVars
  BY DEF bufferVars, P!bufferVars
<1>2. P!IInv'
  BY <1>1, BufferAssumption, P!NextInv DEF TracerInv
<1>3. RefusedByDevice' /\ OpenIsNotClosed' /\ stats_cache' = stats' /\ LevelHonoured'
  BY DEF bufferVars, TracerInv, RefusedByDevice, OpenIsNotClosed, LevelHonoured
<1>4. QED
  BY <1>2, <1>3 DEF TracerInv

\* A tracer that goes out of scope keeps the invariant: its stream is closed
\* over a queue that is lost.
LEMMA DestroyStep ==
  ASSUME TracerInv, Destroy
  PROVE  TracerInv'
<1>1. /\ writer_' = "gone" /\ samples' = << >> /\ stats_cache' = stats_cache
      /\ detail_level' = detail_level
      /\ UNCHANGED <<pending, stats, file, device, issued>>
  BY DEF Destroy, bufferVars
<1>2. TracerTypes' /\ OpenIsNotClosed' /\ LevelHonoured' /\ stats_cache' = stats'
  BY <1>1, EmptySeq DEF TracerInv, TracerTypes, OpenIsNotClosed, LevelHonoured
<1>3. CASE writer_ = "open"
  <2>1. /\ stream' = IF stream = "unopened" THEN "unopened" ELSE "closed"
        /\ onDisk' = IF device = "ok" /\ stream # "closed" THEN Len(file) ELSE onDisk
    BY <1>1, <1>3 DEF Destroy, Buf!StreamCloses
  <2>2. P!IInv
    BY DEF TracerInv
  <2>3. P!TypeOK'
    BY <1>1, <2>1, <2>2, WriterFacts DEF P!IInv, P!TypeOK, P!StreamState
  <2>4. P!Conservation' /\ P!FileIsPrefix' /\ P!QueueIsShort'
    BY <1>1, <2>2
       DEF P!IInv, P!Conservation, P!FileIsPrefix, P!QueueIsShort, P!capacity_
  <2>5. P!GoodRefusedNothing'
    BY <2>1 DEF P!GoodRefusedNothing
  <2>6. P!ClosedIsComplete'
    <3>1. stats'.event_count = Len(file) /\ device' = device
      BY <1>1, <2>2, WriterFacts
    <3>2. onDisk' <= Len(file)
      BY <2>1, <2>2, WriterFacts
    <3>3. stream' = "closed" /\ device = "ok" => onDisk' = Len(file)
      BY <2>1, <2>2, WriterFacts
    <3>4. QED
      BY <3>1, <3>2, <3>3 DEF P!ClosedIsComplete
  <2>7. RefusedByDevice'
    BY <1>1, <2>1, <2>2, WriterFacts DEF TracerInv, RefusedByDevice
  <2>8. P!IInv'
    BY <2>3, <2>4, <2>5, <2>6 DEF P!IInv
  <2>9. QED
    BY <1>2, <2>7, <2>8 DEF TracerInv
<1>4. CASE writer_ # "open"
  <2>1. UNCHANGED P!bufferVars
    BY <1>1, <1>4 DEF Destroy, bufferVars, P!bufferVars
  <2>2. P!IInv'
    BY <2>1, BufferAssumption, P!NextInv DEF TracerInv
  <2>3. RefusedByDevice'
    BY <2>1 DEF P!bufferVars, TracerInv, RefusedByDevice
  <2>4. QED
    BY <1>2, <2>2, <2>3 DEF TracerInv
<1>5. QED
  BY <1>3, <1>4

\* Every step of the tracer keeps the invariant.
LEMMA TracerStep == TracerInv /\ [TracerNext]_tracerVars => TracerInv'
<1> SUFFICES ASSUME TracerInv, [TracerNext]_tracerVars
             PROVE  TracerInv'
  OBVIOUS
<1>a. P!IInv /\ RefusedByDevice /\ OpenIsNotClosed /\ TracerTypes
  BY DEF TracerInv
<1>1. ASSUME NEW level \in DetailLevel, Open(level)
      PROVE  TracerInv'
  <2>1. /\ NewWriter /\ stats_cache' = P!ZeroStats
        /\ detail_level' = level /\ writer_' = "open" /\ samples' = << >>
    BY <1>1 DEF Open, Idle, Buf!ZeroStats, P!ZeroStats
  <2>2. P!IInv' /\ RefusedByDevice' /\ stream' # "closed" /\ issued' = << >>
        /\ stats' = P!ZeroStats
    BY <1>a, <2>1, NewWriterStep
  <2>3. LevelHonoured'
    BY <2>2, EmptySeq DEF LevelHonoured
  <2>4. TracerTypes' /\ OpenIsNotClosed'
    BY <2>1, <2>2, EmptySeq DEF TracerTypes, OpenIsNotClosed
  <2>5. QED
    BY <2>1, <2>2, <2>3, <2>4 DEF TracerInv
<1>2. ASSUME NEW c \in Calls, Emit(c.kind, c.event)
      PROVE  TracerInv'
  <2>1. c.kind \in EventKind /\ c.kind # "kMetric" /\ c.event \in Name
    BY TracerClientAssumption
  <2>2. Queue(c.kind, c.event) /\ UNCHANGED <<writer_, detail_level, samples>>
    BY <1>2 DEF Emit
  <2>3. TracerTypes'
    BY <1>a, <2>2 DEF TracerTypes
  <2>4. QED
    BY <2>1, <2>2, <2>3, QueueStep
<1>3. ASSUME NEW ms \in Batches, EmitMetrics(ms)
      PROVE  TracerInv'
  <2>1. ms \in Seq(Name) /\ UNCHANGED <<writer_, detail_level>>
    BY <1>3, TracerClientAssumption DEF EmitMetrics
  <2>2. CASE UNCHANGED <<bufferVars, stats_cache, samples>>
    <3>1. TracerTypes'
      BY <1>a, <2>1, <2>2 DEF TracerTypes
    <3>2. QED
      BY <2>1, <2>2, <3>1, TraceUntouched
  <2>3. CASE detail_level = "kLite" /\ Queue("kMetric", "metrics_summary") /\ samples' = samples
    <3>1. TracerTypes'
      BY <1>a, <2>1, <2>3 DEF TracerTypes
    <3>2. "kMetric" \in EventKind
      BY DEF EventKind
    <3>3. QED
      BY <2>1, <2>3, <3>1, <3>2, QueueStep
  <2>4. CASE detail_level = "kFull" /\ samples' = ms /\ UNCHANGED <<bufferVars, stats_cache>>
    <3>1. TracerTypes'
      BY <1>a, <2>1, <2>4 DEF TracerTypes
    <3>2. QED
      BY <2>1, <2>4, <3>1, TraceUntouched
  <2>5. QED
    BY <1>3, <2>2, <2>3, <2>4 DEF EmitMetrics
<1>4. CASE EmitSample
  <2>1. /\ samples # << >> /\ samples' = Tail(samples)
        /\ Queue("kMetric", Head(samples)) /\ UNCHANGED <<writer_, detail_level>>
    BY <1>4 DEF EmitSample
  <2>2. detail_level = "kFull" /\ samples \in Seq(Name)
    BY <1>a, <2>1 DEF TracerTypes
  <2>3. Head(samples) \in Name /\ Tail(samples) \in Seq(Name)
    BY <2>1, <2>2, HeadTailProperties
  <2>4. TracerTypes' /\ "kMetric" \in EventKind
    BY <1>a, <2>1, <2>2, <2>3 DEF TracerTypes, EventKind
  <2>5. QED
    BY <2>1, <2>2, <2>3, <2>4, QueueStep
<1>5. CASE Flush
  <2>1. UNCHANGED <<writer_, detail_level, samples>>
    BY <1>5 DEF Flush
  <2>2. TracerTypes'
    BY <1>a, <2>1 DEF TracerTypes
  <2>3. CASE writer_ = "open"
    <3>1. P!Flush /\ stats_cache' = stats'
      BY <1>5, <2>3, SameFlush DEF Flush
    <3>2. P!IInv'
      BY <1>a, <3>1, BufferAssumption, P!NextInv DEF P!Next
    <3>3. RefusedByDevice' /\ stream' # "closed"
      BY <1>a, <2>3, <3>1, WriterFacts, FlushRefuses DEF P!Flush, OpenIsNotClosed
    <3>4. LevelHonoured'
      BY <2>1, <3>1 DEF P!Flush, TracerInv, LevelHonoured
    <3>5. QED
      BY <2>2, <3>1, <3>2, <3>3, <3>4 DEF TracerInv, OpenIsNotClosed
  <2>4. CASE writer_ # "open"
    BY <1>5, <2>1, <2>2, <2>4, TraceUntouched DEF Flush
  <2>5. QED
    BY <2>3, <2>4
<1>6. CASE Close
  <2>1. UNCHANGED <<detail_level, samples>>
    BY <1>6 DEF Close
  <2>2. TracerTypes'
    BY <1>a, <2>1 DEF TracerTypes
  <2>3. CASE writer_ = "open"
    <3>1. P!Close /\ stats_cache' = stats' /\ writer_' = "null"
      BY <1>6, <2>3, SameClose DEF Close
    <3>2. P!IInv'
      BY <1>a, <3>1, BufferAssumption, P!CloseStep
    <3>3. RefusedByDevice'
      BY <1>a, <2>3, <3>1, CloseRefuses DEF OpenIsNotClosed
    <3>4. LevelHonoured'
      BY <2>1, <3>1 DEF P!Close, TracerInv, LevelHonoured
    <3>5. QED
      BY <2>2, <3>1, <3>2, <3>3, <3>4 DEF TracerInv, OpenIsNotClosed
  <2>4. CASE writer_ # "open"
    BY <1>6, <2>1, <2>2, <2>4, TraceUntouched DEF Close
  <2>5. QED
    BY <2>3, <2>4
<1>7. CASE Destroy
  BY <1>7, DestroyStep
<1>8. CASE DeviceFails
  <2>1. /\ UNCHANGED <<writer_, stats_cache, detail_level, samples, stats, stream, issued>>
        /\ device' = "full" /\ P!DeviceFails
    BY <1>8 DEF DeviceFails, Buf!DeviceFails, P!DeviceFails
  <2>2. P!IInv'
    BY <1>a, <2>1, BufferAssumption, P!NextInv DEF P!Next
  <2>3. RefusedByDevice' /\ OpenIsNotClosed' /\ TracerTypes' /\ LevelHonoured'
    BY <1>a, <2>1
       DEF TracerInv, RefusedByDevice, OpenIsNotClosed, TracerTypes, LevelHonoured
  <2>4. QED
    BY <2>1, <2>2, <2>3 DEF TracerInv
<1>9. CASE UNCHANGED tracerVars
  <2>1. UNCHANGED <<bufferVars, writer_, stats_cache, detail_level, samples>>
    BY <1>9 DEF tracerVars
  <2>2. TracerTypes'
    BY <1>a, <2>1 DEF TracerTypes
  <2>3. QED
    BY <2>1, <2>2, TraceUntouched
<1>10. QED
  BY <1>1, <1>2, <1>3, <1>4, <1>5, <1>6, <1>7, <1>8, <1>9 DEF TracerNext

\* The invariant holds in every reachable state of the tracer.
THEOREM TracerInvariant == TracerSpec => []TracerInv
<1>1. TracerInit => TracerInv
  BY InitInv
<1>2. TracerInv /\ [TracerNext]_tracerVars => TracerInv'
  BY TracerStep
<1>3. QED
  BY <1>1, <1>2, PTL DEF TracerSpec

-----------------------------------------------------------------------------
(* What the invariant gives. *)

\* stats() tells the truth about the file, before and after Close and from the
\* start of every session.
THEOREM StatsAreTrue == TracerSpec => []StatsNeverStale
<1>1. TracerInv => StatsNeverStale
  BY WriterFacts DEF TracerInv, StatsNeverStale
<1>2. QED
  BY <1>1, TracerInvariant, PTL

\* Every event of a session obeys the level the session was opened with.
THEOREM LevelIsHonoured == TracerSpec => []LevelHonoured
<1>1. TracerInv => LevelHonoured
  BY DEF TracerInv
<1>2. QED
  BY <1>1, TracerInvariant, PTL

\* A tracer destroyed without Close leaves on disk, in order, all but fewer
\* than capacity_ of the events it was given, unless the file could not be
\* opened or the device failed.
THEOREM DestroyLosesFew == TracerSpec => []GoneLosesFew
<1>1. TracerInv => GoneLosesFew
  <2> SUFFICES ASSUME TracerInv, writer_ = "gone", stream = "closed", device = "ok"
               PROVE  Buf!FirstOf(file, issued) /\ Len(issued) - onDisk < Buf!capacity_
    BY DEF GoneLosesFew
  <2>1. P!IInv /\ stats.dropped_event_count = 0
    BY DEF TracerInv, RefusedByDevice
  <2>2. Buf!FirstOf(file, issued)
    BY <2>1 DEF P!IInv, P!FileIsPrefix, P!FirstOf, Buf!FirstOf
  <2>3. /\ onDisk = Len(file) /\ Len(issued) = Len(file) + 0 + Len(pending)
        /\ Len(pending) < P!capacity_ /\ Len(file) \in Nat /\ Len(pending) \in Nat
    BY <2>1, WriterFacts
  <2>4. P!capacity_ = Buf!capacity_ /\ P!capacity_ \in Nat
    BY TracerAssumption DEF P!capacity_, Buf!capacity_
  <2>5. Len(issued) - onDisk = Len(pending)
    BY <2>3
  <2>6. QED
    BY <2>2, <2>3, <2>4, <2>5
<1>2. QED
  BY <1>1, TracerInvariant, PTL
=============================================================================
