------------------------------ MODULE EventLog ------------------------------
(***************************************************************************)
(* What a trace file promises, without saying how: the lines of the file   *)
(* are a prefix of the events handed over, in the order they were handed   *)
(* over; while the file can be written, it lags fewer than Window events   *)
(* behind; once it cannot be written any more it never grows again, so no  *)
(* later event ever appears after a gap.                                   *)
(*                                                                         *)
(* BufferedTraceWriter over JsonlFileWriter (module TraceBuffer) is shown  *)
(* to implement this specification.                                        *)
(***************************************************************************)
EXTENDS Naturals, Sequences

CONSTANTS
  Event,   \* the events that can be handed over
  Window   \* the file lags by fewer than Window events

VARIABLES
  issued,  \* every event handed over so far, in order
  file,    \* the lines of the trace file
  usable   \* whether the file can still be written

logVars == <<issued, file, usable>>

\* The file shows the first k events and nothing else.
Shows(k) == file' = SubSeq(issued', 1, k)

\* The events are those of before, followed at most by one more.
Extends ==
  \/ issued' = issued
  \/ \E e \in Event : issued' = Append(issued, e)

LogInit ==
  /\ issued = << >>
  /\ file = << >>
  /\ usable \in BOOLEAN

\* A usable file catches up to any point inside the window.
Advance ==
  /\ usable /\ usable'
  /\ Extends
  /\ \E k \in Len(file) .. Len(issued') :
       /\ Len(issued') - k < Window
       /\ Shows(k)

\* The file becomes unusable; what was shown before stays.
Break ==
  /\ usable /\ ~usable'
  /\ Extends
  /\ \E k \in Len(file) .. Len(issued') : Shows(k)

\* An unusable file ignores the events handed over.
Ignore ==
  /\ ~usable /\ ~usable'
  /\ Extends
  /\ UNCHANGED file

LogNext == Advance \/ Break \/ Ignore

LogSpec == LogInit /\ [][LogNext]_logVars
=============================================================================
