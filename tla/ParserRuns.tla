---------------------------- MODULE ParserRuns -----------------------------
(* Extraction through the managed parser: fovea/core/astgrep.ts.  Files are  *)
(* parsed in chunks by concurrent subprocesses: first all rules at once, and *)
(* when that is not available or any chunk of it fails, one run per pattern, *)
(* with a chunk that answers too much cut in halves.  A file has one match   *)
(* of every rule; what a run answers is as long as the files it is about.    *)
EXTENDS Integers, Sequences, FiniteSets, SequencesExt
CONSTANTS Rules, Sources, Chunk, MaxAnswer, Concurrency
ASSUME ParserAssumption == {Rules, Sources, Chunk, MaxAnswer, Concurrency} \subseteq Nat \ {0}
VARIABLE parse    \* at, jobs (waiting), running, answers, failures, out, lengths
parseVars == <<parse>>

(* A chunk is an interval of the files; a job is a chunk of a rule, or of    *)
(* all rules together (0).                                                   *)
Chunks == {[from |-> k, to |-> IF k + Chunk - 1 < Sources THEN k + Chunk - 1 ELSE Sources] : k \in {n \in 1..Sources : n % Chunk = 1 % Chunk}}
JobsOf(rules) == {[rule |-> r, from |-> c.from, to |-> c.to] : r \in rules, c \in Chunks}
ParseInit == \E big \in SUBSET (1..Sources) :
  parse = [at |-> "probe", jobs |-> {}, running |-> {}, answers |-> {}, failures |-> {}, out |-> <<>>, big |-> big]
Answer(j) == FoldLeft(LAMBDA n, f : n + IF f \in parse.big THEN 2 ELSE 1, 0, [k \in 1..(j.to - j.from + 1) |-> j.from + k - 1])
(* hasRuleScan: whether the parser takes rule files at all.                  *)
Probe ==
  /\ parse.at = "probe"
  /\ \/ parse' = [parse EXCEPT !.at = "scan", !.jobs = JobsOf({0})]
     \/ parse' = [parse EXCEPT !.at = "runs", !.jobs = JobsOf(1..Rules)]
SpawnRun(j) == Cardinality(parse.running) < Concurrency /\ j \in parse.jobs
            /\ parse' = [parse EXCEPT !.jobs = @ \ {j}, !.running = @ \union {j}]
(* What a subprocess gives: its complete answer, nothing (an error, a        *)
(* timeout, a line that does not parse), or more than the buffer takes.      *)
Answers(j) == j \in parse.running /\ Answer(j) <= MaxAnswer
              /\ parse' = [parse EXCEPT !.running = @ \ {j}, !.answers = @ \union {j}]
RunFailed(j) == [parse EXCEPT !.running = @ \ {j}, !.failures = @ \union {j}]
(* runChunked: an answer that is too long is asked for again in halves.      *)
Halves(j) == LET m == j.from + (j.to - j.from + 2) \div 2 IN {[j EXCEPT !.to = m - 1], [j EXCEPT !.from = m]}
Splits(j) == parse.at = "runs" /\ Answer(j) > MaxAnswer /\ j.from < j.to
RunFails(j) ==
  /\ j \in parse.running
  /\ parse' = IF Splits(j) THEN [parse EXCEPT !.running = @ \ {j}, !.jobs = @ \union {h \in Halves(j) : h.from <= h.to}] ELSE RunFailed(j)
(* orderMatches: what ran at the same time is published in the declared      *)
(* order: of the chunks, then of the rules, the files and the positions.     *)
Before(a, b) == IF a.rule # b.rule THEN a.rule < b.rule ELSE a.from < b.from
InOrder(js) == SetToSortSeq(js, Before)
Matches(j) == FlattenSeq([k \in 1..(IF j.rule = 0 THEN Rules ELSE 1) |->
                [n \in 1..(j.to - j.from + 1) |-> [rule |-> IF j.rule = 0 THEN k ELSE j.rule, file |-> j.from + n - 1]]])
Published(js) == FlattenSeq([k \in 1..Cardinality(js) |-> Matches(InOrder(js)[k])])
AllRan == parse.jobs = {} /\ parse.running = {}
(* scanRules: any chunk without a result voids the scan.                     *)
ScanEnds ==
  /\ parse.at = "scan" /\ AllRan
  /\ parse' = IF parse.failures = {} THEN [parse EXCEPT !.at = "done", !.out = Published(parse.answers)]
              ELSE [parse EXCEPT !.at = "runs", !.jobs = JobsOf(1..Rules), !.answers = {}, !.failures = {}]
(* patternRun: a chunk without a result goes into the ledger of failures.    *)
RunsEnd == parse.at = "runs" /\ AllRan /\ parse' = [parse EXCEPT !.at = "done", !.out = Published(parse.answers)]
ParseNext == Probe \/ (\E j \in parse.jobs : SpawnRun(j)) \/ (\E j \in parse.running : Answers(j) \/ RunFails(j)) \/ ScanEnds \/ RunsEnd
ParseSpec == ParseInit /\ [][ParseNext]_parseVars

(* Nothing is missing in silence and nothing is there twice: every match is  *)
(* published once, or its file is among the failures of its rule.            *)
Reported(r, f) == \E j \in parse.failures : j.rule = r /\ j.from <= f /\ f <= j.to
Times(r, f) == Cardinality({k \in DOMAIN parse.out : parse.out[k] = [rule |-> r, file |-> f]})
ExtractionHonest == parse.at = "done" => \A r \in 1..Rules, f \in 1..Sources : Times(r, f) = (IF Reported(r, f) THEN 0 ELSE 1)
(* Which subprocess was faster does not show.                                *)
OrderDeclared == parse.at = "done" /\ parse.failures = {} =>
  parse.out \in {FlattenSeq([r \in 1..Rules |-> [f \in 1..Sources |-> [rule |-> r, file |-> f]]]),
                 FlattenSeq([c \in 1..Cardinality(Chunks) |->
                   Matches(SetToSortSeq(JobsOf({0}), Before)[c])])}
ParserKept == ExtractionHonest /\ OrderDeclared
=============================================================================
