---------------------------- MODULE TraceWriter ----------------------------
(* The trace file: trace/trace-writer.ts.  Lines wait in a ring that drops   *)
(* its oldest, a flush writes them at once and may fail at any byte, and a   *)
(* file that is full ends with a marker.  A line is its length; the length   *)
(* of the marker is 1.                                                       *)
EXTENDS Integers, Sequences
CONSTANTS MaxBufferLines, MaxBufferBytes, MaxFileBytes, MaxLineBytes, MaxGiven   \* bound: lines given
ASSUME TraceAssumption == {MaxBufferLines, MaxBufferBytes, MaxFileBytes, MaxLineBytes, MaxGiven} \subseteq Nat \ {0}
VARIABLE trace    \* ring, bytes and whole lines written, torn, dropped, given, disabled, closed
traceVars == <<trace>>

TraceInit == trace = [ring |-> <<>>, bytes |-> 0, whole |-> 0, torn |-> FALSE, dropped |-> 0, given |-> 0, disabled |-> FALSE, closed |-> FALSE]
Marker == 1
SizeOf(lines) == LET upTo[n \in 0..Len(lines)] == IF n = 0 THEN 0 ELSE upTo[n - 1] + lines[n] IN upTo[Len(lines)]
(* #truncatedLine: a line over its cap becomes a marker that fits.           *)
Truncated(size) == IF size <= MaxLineBytes THEN size ELSE Marker
(* push: the oldest give way; a line that can never fit is dropped itself.   *)
Enough(ring, size) == {n \in 0..Len(ring) : /\ Len(ring) - n < MaxBufferLines
                                            /\ SizeOf(SubSeq(ring, n + 1, Len(ring))) + size <= MaxBufferBytes}
Dropped(ring, size) == CHOOSE n \in Enough(ring, size) : \A m \in Enough(ring, size) : n <= m
TraceLine(size) ==
  LET line == Truncated(size)
      n == Dropped(trace.ring, line)
  IN /\ ~trace.disabled /\ ~trace.closed /\ trace.given < MaxGiven
     /\ trace' = IF line > MaxBufferBytes THEN [trace EXCEPT !.given = @ + 1, !.dropped = @ + 1]
                 ELSE [trace EXCEPT !.given = @ + 1, !.dropped = @ + n, !.ring = Append(SubSeq(@, n + 1, Len(@)), line)]
(* #flushSync: everything, or the marker when the file would be too long to  *)
(* take one later; what fails half-way disables the writer.                  *)
Over(t) == t.bytes + SizeOf(t.ring) + Marker > MaxFileBytes
Flushed(t) ==
  IF t.closed \/ t.ring = <<>> THEN {t}
  ELSE LET n == Len(t.ring)
           drained == [t EXCEPT !.ring = <<>>]
       IN IF Over(t)
          THEN LET full == [drained EXCEPT !.dropped = @ + n, !.disabled = TRUE]
               IN {[full EXCEPT !.bytes = @ + Marker, !.whole = @ + 1], full}
          ELSE {[drained EXCEPT !.bytes = @ + SizeOf(t.ring), !.whole = @ + n]}
               \union {[drained EXCEPT !.bytes = @ + b, !.torn = b # 0, !.dropped = @ + n, !.disabled = TRUE] : b \in 0..SizeOf(t.ring)}
Flush == trace' \in Flushed(trace) /\ trace' # trace
CloseTrace == ~trace.closed /\ \E t \in Flushed(trace) : trace' = [t EXCEPT !.closed = TRUE]
TraceNext == (\E n \in 1..MaxLineBytes + 1 : TraceLine(n)) \/ Flush \/ CloseTrace
TraceSpec == TraceInit /\ [][TraceNext]_traceVars

(* A line that was taken is in the file, waits, or is counted as dropped;    *)
(* the file keeps its cap with the marker in it, and a torn line is its end. *)
NoSilentLoss == trace.given <= trace.whole + Len(trace.ring) + trace.dropped
FileBounded == trace.bytes <= MaxFileBytes /\ (~trace.disabled => trace.bytes + Marker <= MaxFileBytes)
TornIsLast == trace.torn => trace.disabled /\ trace.ring = <<>>
TraceKept == NoSilentLoss /\ FileBounded /\ TornIsLast
=============================================================================
