---------------------------- MODULE MCSandbox ----------------------------
(* Instances of Sandbox for TLC.                                             *)
EXTENDS Sandbox, TLC

CONSTANTS xA, xB, w1, w2

TwoExecutions == {xA, xB}
TwoThreads == {w1, w2}
OneStuck == {w2}
NoneStuck == {}

TwoEnds == {"completed", "aborted"}

\* Executions are interchangeable; so are the threads when none is stuck.
SameExecutions == Permutations({xA, xB})
Interchangeable == SameExecutions \cup Permutations({w1, w2})
==========================================================================
