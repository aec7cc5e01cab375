---------------------------- MODULE TraceBuffer ----------------------------
(***************************************************************************)
(* trace::BufferedTraceWriter over trace::JsonlFileWriter.                 *)
(*                                                                         *)
(* Write queues an event and drains the queue once it holds capacity_      *)
(* events; draining hands each queued event to the file writer, counts it  *)
(* as written or dropped, and empties the queue whatever happened.  The    *)
(* file writer is an std::ofstream: it may have failed to open (nobody     *)
(* looks when it is constructed), its error state is sticky, and a line it *)
(* accepted may still sit in its own buffer.                               *)
(*                                                                         *)
(* An event is a member of Event; the JSON text of a line is left out, and *)
(* with it bytes_written and the flush latency.                            *)
(***************************************************************************)
EXTENDS Naturals, Sequences

CONSTANTS
  Event,     \* the events the program can emit
  Capacity,  \* the constructor's capacity argument
  MaxEvents  \* bound: events written in one behaviour

ASSUME TraceBufferAssumption ==
  /\ Capacity \in Nat
  /\ MaxEvents \in Nat

VARIABLES
  pending,  \* pending_: the queued events
  stats,    \* stats_: the counters of TraceStats
  stream,   \* the std::ofstream of the file writer
  device,   \* the device behind the file, which may stop taking data
  file,     \* the lines the stream accepted, in order
  onDisk,   \* how many of those lines have left the stream's own buffer
  issued    \* history: every event passed to Write, in order

bufferVars == <<pending, stats, stream, device, file, onDisk, issued>>

StreamState == {"unopened", "good", "bad", "closed"}

TraceStats == [event_count : Nat, flush_count : Nat,
               dropped_event_count : Nat, max_queue_depth : Nat]

ZeroStats == [event_count |-> 0, flush_count |-> 0,
              dropped_event_count |-> 0, max_queue_depth |-> 0]

\* The constructor never leaves a capacity of zero.
capacity_ == IF Capacity = 0 THEN 1 ELSE Capacity

-----------------------------------------------------------------------------
\* Construction: the stream opened its file, or silently did not.
Fresh ==
  /\ pending = << >>
  /\ stats = ZeroStats
  /\ stream \in {"good", "unopened"}
  /\ device = "ok"
  /\ file = << >>
  /\ onDisk = 0
  /\ issued = << >>

\* JsonlFileWriter::Write over the queue q: how many events are accepted.
\* Only a stream in good state accepts any, it refuses one only when the
\* device does, and after the first refusal its error state refuses the rest.
Accepted(q) ==
  IF stream # "good" THEN {0}
  ELSE IF device = "ok" THEN {Len(q)}
  ELSE 0 .. Len(q)

\* A faulty variant: a refusal is forgotten.
StreamForgets(q, k) == stream

StreamAfter(q, k) ==
  IF stream = "good" /\ k < Len(q) THEN "bad" ELSE stream

\* A faulty variant: written and refused events confused.
CountedBackwards(s, n, k) ==
  [event_count |-> s.event_count + k,
   flush_count |-> s.flush_count + 1,
   dropped_event_count |-> s.dropped_event_count + (k - n),
   max_queue_depth |-> s.max_queue_depth]

\* The counters after a drain that accepts k of n events.
Counted(s, n, k) ==
  [event_count |-> s.event_count + k,
   flush_count |-> s.flush_count + 1,
   dropped_event_count |-> s.dropped_event_count + (n - k),
   max_queue_depth |-> s.max_queue_depth]

\* A faulty variant: the queue is not cleared.
DrainKeepsQueue(q, s, k) ==
  /\ pending' = q
  /\ file' = file \o SubSeq(q, 1, k)
  /\ stats' = IF q = << >> THEN s ELSE Counted(s, Len(q), k)

\* The effect of FlushPending on the queue q with counters s when k events
\* are accepted.  An empty queue is not counted as a flush.
Drain(q, s, k) ==
  /\ pending' = << >>
  /\ file' = file \o SubSeq(q, 1, k)
  /\ stats' = IF q = << >> THEN s ELSE Counted(s, Len(q), k)

\* The stream's own buffer spills as it pleases while the device takes data.
Spill == onDisk' \in IF device = "ok" THEN onDisk .. Len(file') ELSE {onDisk}

FlushPending(q, s) ==
  \E k \in Accepted(q) :
    /\ Drain(q, s, k)
    /\ stream' = StreamAfter(q, k)
    /\ Spill

-----------------------------------------------------------------------------
\* The counters after queueing an event as the n-th of the queue.
Deeper(s, n) == [s EXCEPT !.max_queue_depth = IF n > @ THEN n ELSE @]

\* A faulty variant: the queue may grow one event too deep.
FullLate(q) == Len(q) > capacity_

Full(q) == Len(q) >= capacity_

\* Write: queue the event, note the deepest queue, drain at capacity.
Write(e) ==
  /\ Len(issued) < MaxEvents
  /\ issued' = Append(issued, e)
  /\ LET q == Append(pending, e)
         s == Deeper(stats, Len(q))
     IN \/ /\ ~Full(q)
           /\ pending' = q
           /\ stats' = s
           /\ UNCHANGED <<stream, file, onDisk>>
        \/ /\ Full(q)
           /\ FlushPending(q, s)
  /\ UNCHANGED device

Flush ==
  /\ FlushPending(pending, stats)
  /\ UNCHANGED <<device, issued>>

\* A faulty variant: the stream's own buffer is lost.
StreamAbandoned ==
  /\ stream' = IF stream = "unopened" THEN "unopened" ELSE "closed"
  /\ UNCHANGED onDisk

\* JsonlFileWriter::Close and the stream's destructor push the stream's own
\* buffer to the device and ignore the outcome.
StreamCloses ==
  /\ stream' = IF stream = "unopened" THEN "unopened" ELSE "closed"
  /\ onDisk' = IF device = "ok" /\ stream # "closed" THEN Len(file') ELSE onDisk

Close ==
  /\ \E k \in Accepted(pending) : Drain(pending, stats, k)
  /\ StreamCloses
  /\ UNCHANGED <<device, issued>>

\* The environment: the device fills up, for good.
DeviceFails ==
  /\ device = "ok"
  /\ device' = "full"
  /\ UNCHANGED <<pending, stats, stream, file, onDisk, issued>>

Next ==
  \/ \E e \in Event : Write(e)
  \/ Flush
  \/ Close
  \/ DeviceFails

Spec == Fresh /\ [][Next]_bufferVars

-----------------------------------------------------------------------------
\* Type invariant.
TypeOK ==
  /\ pending \in Seq(Event)
  /\ stats \in TraceStats
  /\ stream \in StreamState
  /\ device \in {"ok", "full"}
  /\ file \in Seq(Event)
  /\ onDisk \in Nat
  /\ issued \in Seq(Event)

\* The counters tell the truth about the file: every event passed to Write
\* is a counted line of the file, a counted drop, or still queued.
Conservation ==
  /\ stats.event_count = Len(file)
  /\ Len(issued) = stats.event_count + stats.dropped_event_count + Len(pending)

FirstOf(s, t) == Len(s) <= Len(t) /\ s = SubSeq(t, 1, Len(s))

LastOf(s, t) ==
  Len(s) <= Len(t) /\ s = SubSeq(t, Len(t) - Len(s) + 1, Len(t))

\* The file is what was written first, the queue what was written last: a
\* line is never reordered, repeated or written after a gap.
FileIsPrefix == FirstOf(file, issued) /\ LastOf(pending, issued)

\* An object destroyed without Close loses fewer than capacity_ events: the
\* queue is never full between calls, and nothing else is outstanding while
\* the stream works.
LossIsBounded ==
  /\ Len(pending) < capacity_
  /\ stats.max_queue_depth <= capacity_
  /\ stream = "good" => Len(issued) - Len(file) < capacity_

\* What Close is for: with a working device, a closed file holds every line
\* that was counted, and the lines on disk never exceed the counted ones.
ClosedIsComplete ==
  /\ onDisk <= stats.event_count
  /\ stream = "closed" /\ device = "ok" => onDisk = stats.event_count

\* A drop is final: after the first one the file never grows again.
DropIsFinal == [][stats.dropped_event_count > 0 => UNCHANGED file]_bufferVars

\* The buffered writer implements the abstract log.
Log == INSTANCE EventLog WITH Window <- capacity_, usable <- (stream = "good")

ImplementsEventLog == Log!LogSpec
=============================================================================
