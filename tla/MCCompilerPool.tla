--------------------------- MODULE MCCompilerPool ---------------------------
(* A small instance of CompilerPool for TLC: two requests miss on one key at  *)
(* once, a large entry evicts theirs, and one request names its own worker.   *)
EXTENDS CompilerPool, TLC

CONSTANTS r1, r2, r3, r4, w1, w2, kA, kB

MCKeyOf == [r \in Requests |-> CASE r \in {r1, r2} -> kA
                                  [] r = r3 -> kB
                                  [] OTHER -> Nil]
MCChars == [k \in Keys |-> IF k = kB THEN 3 ELSE 1]
=============================================================================
