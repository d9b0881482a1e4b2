----------------------------- MODULE LocalText -----------------------------
(* The text the local provider hands to a program and to its reviewer: the   *)
(* text of an edit and of its approval (providers/local-edit.ts, #review of  *)
(* local-provider.ts), and results handed over in parts, the continuations   *)
(* of local.readMany (providers/local-read-many.ts) and the cursors of       *)
(* local.find and grep (local-provider.ts).                                  *)
EXTENDS Integers, Sequences, FiniteSets, SequencesExt

-----------------------------------------------------------------------------
(* Edits.  Anchors are resolved against the original and applied at once;    *)
(* the review shows every change with a little context around it and says    *)
(* what it leaves out.  Texts are sequences of letters.                      *)
CONSTANTS Letters, MaxText, Context       \* bound: the longest text; characters of context shown
ASSUME TextAssumption == MaxText \in Nat /\ Context \in Nat
VARIABLE edit
textVars == <<edit>>
Texts(n) == UNION {[1..k -> Letters] : k \in 0..n}
Anchors == Texts(2) \ {<<>>}
EditsOf == [old : Anchors, new : Texts(1), all : BOOLEAN]
TextInit == \E t \in Texts(MaxText), a, b \in EditsOf : edit = [text |-> t, edits |-> <<a, b>>]
TextNext == UNCHANGED edit
TextSpec == TextInit /\ [][TextNext]_textVars

(* A range [from, to) of positions 0..Len(text), and what replaces it.       *)
Found(t, old, at) == at + Len(old) <= Len(t) /\ SubSeq(t, at + 1, at + Len(old)) = old
LeastOf(S) == CHOOSE x \in S : \A y \in S : x <= y
(* indexOf from a position; the next occurrence starts after the last one.   *)
IndexOf(t, old, from) == LET hits == {at \in from..Len(t) : Found(t, old, at)} IN IF hits = {} THEN -1 ELSE LeastOf(hits)
Occurrences(t, e) ==
  LET starts[at \in -1..Len(t)] == IF at < 0 THEN {} ELSE {at} \union
        (IF e.all /\ at + Len(e.old) <= Len(t) THEN starts[IndexOf(t, e.old, at + Len(e.old))] ELSE {})
  IN starts[IndexOf(t, e.old, 0)]
RangesOf(t, e) == {[from |-> at, to |-> at + Len(e.old), text |-> e.new] : at \in Occurrences(t, e)}
Overlap(r, q) == r.from < q.to /\ q.from < r.to
RefusedEdits(t, a, b) ==
  \/ \E e \in {a, b} : IndexOf(t, e.old, 0) < 0
  \/ \E e \in {a, b} : ~e.all /\ IndexOf(t, e.old, IndexOf(t, e.old, 0) + 1) >= 0
  \/ \E r \in RangesOf(t, a), q \in RangesOf(t, b) : Overlap(r, q)
InOrder(S) == SetToSortSeq(S, LAMBDA r, q : r.from < q.from)
(* applyLocalEditsWithRegions: the pieces in order, with the coordinates of  *)
(* every replacement before and after.                                       *)
Ordered(t, a, b) == InOrder(RangesOf(t, a) \union RangesOf(t, b))
Applied(t, a, b) ==
  LET step(acc, r) == LET start == Len(acc.text) + (r.from - acc.end)
                      IN [text |-> acc.text \o SubSeq(t, acc.end + 1, r.from) \o r.text, end |-> r.to,
                          regions |-> Append(acc.regions, [from |-> r.from, to |-> r.to, at |-> start, till |-> start + Len(r.text)])]
      done == FoldLeft(step, [text |-> <<>>, end |-> 0, regions |-> <<>>], Ordered(t, a, b))
  IN [text |-> done.text \o SubSeq(t, done.end + 1, Len(t)), regions |-> done.regions]

(* #review: what is equal at the edges of a region is no change; context is  *)
(* shown once; the rest is said to be left out.                              *)
Same(t, u, r, n) == \A k \in 1..n : t[r.from + k] = u[r.at + k]
SameEnd(t, u, r, n) == \A k \in 0..n - 1 : t[r.to - k] = u[r.till - k]
Greatest(S) == CHOOSE x \in S : \A y \in S : y <= x
Shorter(a, b) == IF a <= b THEN a ELSE b
TrimStart(t, u, r) == LET n == Greatest({k \in 0..Shorter(r.to - r.from, r.till - r.at) : Same(t, u, r, k)})
                      IN [r EXCEPT !.from = @ + n, !.at = @ + n]
TrimEnd(t, u, r) == LET n == Greatest({k \in 0..Shorter(r.to - r.from, r.till - r.at) : SameEnd(t, u, r, k)})
                    IN [r EXCEPT !.to = @ - n, !.till = @ - n]
IsChange(r) == r.from # r.to \/ r.at # r.till
ChangesOf(t, u, regions) == SelectSeq([k \in DOMAIN regions |-> TrimEnd(t, u, TrimStart(t, u, regions[k]))], IsChange)
Review(t, u, regions) ==
  LET changes == ChangesOf(t, u, regions)
      step(acc, k) ==
        LET c == changes[k]
            before == IF c.from - acc.cursor < Context THEN acc.cursor ELSE c.from - Context
            limit == IF k < Len(changes) THEN changes[k + 1].from ELSE Len(t)
            after == IF limit - c.to < Context THEN limit ELSE c.to + Context
        IN [cursor |-> after,
            sections |-> Append(acc.sections, [omitted |-> before - acc.cursor, before |-> SubSeq(t, before + 1, c.from),
                                               minus |-> SubSeq(t, c.from + 1, c.to), plus |-> SubSeq(u, c.at + 1, c.till),
                                               after |-> SubSeq(t, c.to + 1, after)])]
      done == FoldLeft(step, [cursor |-> 0, sections |-> <<>>], [k \in DOMAIN changes |-> k])
  IN [sections |-> done.sections, suffix |-> Len(t) - done.cursor]
(* What somebody who has the original and the review knows the result to be. *)
Rebuilt(t, review) ==
  LET step(acc, s) == [text |-> acc.text \o SubSeq(t, acc.at + 1, acc.at + s.omitted) \o s.before \o s.plus \o s.after,
                       at |-> acc.at + s.omitted + Len(s.before) + Len(s.minus) + Len(s.after)]
      done == FoldLeft(step, [text |-> <<>>, at |-> 0], review.sections)
  IN done.text \o SubSeq(t, done.at + 1, done.at + review.suffix)

(* Two edits that do not overlap can be written in either order, and what is *)
(* not a region of theirs is kept where it was.                              *)
EditsCommute ==
  LET t == edit.text
      a == edit.edits[1]
      b == edit.edits[2]
  IN ~RefusedEdits(t, a, b) =>
       LET r == Applied(t, a, b)
       IN /\ r = Applied(t, b, a)
          /\ \A k \in DOMAIN r.regions : LET g == r.regions[k]
                                         IN \E e \in {a, b} : SubSeq(t, g.from + 1, g.to) = e.old /\ SubSeq(r.text, g.at + 1, g.till) = e.new
(* Approving the review is approving the result: it determines every         *)
(* character of it, and shows nothing as unchanged that changes.             *)
ReviewTellsAll ==
  LET t == edit.text
      a == edit.edits[1]
      b == edit.edits[2]
  IN ~RefusedEdits(t, a, b) => LET r == Applied(t, a, b) IN Rebuilt(t, Review(t, r.text, r.regions)) = r.text
TextTrue == EditsCommute /\ ReviewTellsAll

-----------------------------------------------------------------------------
(* Pages.  Text and records are positions; a budget is the number of them    *)
(* that fit one result; a file or the workspace is the number of its         *)
(* version.  Between two calls, and while a search waits for its subprocess, *)
(* the files change.                                                         *)
CONSTANTS Searchers, MaxLine, MaxRecords, MaxCached,
          MaxVersion, MaxCursors     \* bounds: changes of the files, cursors handed out
ASSUME PagesAssumption == {MaxLine, MaxRecords, MaxCached, MaxVersion, MaxCursors} \subseteq Nat
VARIABLES version,  \* what the files are: a number of their changes
          reading,  \* readMany: the windows still to ask for and what was delivered
          cached,   \* #searchPages: cursor -> [fingerprint, offset, lineage]
          searches, \* per caller: its call in progress
          handed    \* the cursors handed out; per query (lineage) the records delivered, in order
pageVars == <<version, reading, cached, searches, handed>>
Lower(a, b) == IF a <= b THEN a ELSE b

(* --- readMany: windows [from, to, sha] over one file of MaxLine lines; sha  *)
(* -1 is a window that names no version yet.                                 *)
Unbound == -1
NoResult == [files |-> <<>>, rest |-> <<>>, over |-> FALSE, failed |-> FALSE]
Lines(w) == {l \in 1..MaxLine : w.from <= l /\ l <= w.to}
(* #read: the longest part of a window that fits one result.                 *)
Readable(w, budget) == Lower(Cardinality(Lines(w)), budget)
UsedSpace(r) == FoldLeft(LAMBDA n, f : n + Cardinality(Lines(f)), 0, r.files)
Stale(w) == w.sha \notin {Unbound, version}
(* One window of the batch: delivered whole, cut at the budget with a        *)
(* continuation that names the version read, or left with those after it.    *)
TakeWindow(r, w, budget, partial) ==
  LET last == Lower(w.to, MaxLine)
      wanted == Cardinality(Lines(w))
      count == Lower(Readable(w, budget), budget - UsedSpace(r))
      next == w.from + count
  IN CASE r.over \/ r.failed -> [r EXCEPT !.rest = Append(@, w)]
       [] ~r.over /\ ~r.failed /\ Stale(w) -> IF partial THEN [r EXCEPT !.rest = Append(@, w)] ELSE [r EXCEPT !.failed = TRUE]
       [] ~r.over /\ ~r.failed /\ ~Stale(w) /\ wanted > 0 /\ count = 0 ->
            IF r.files = <<>> THEN [r EXCEPT !.failed = TRUE] ELSE [r EXCEPT !.over = TRUE, !.rest = Append(@, w)]
       [] OTHER -> [r EXCEPT !.files = Append(@, [from |-> w.from, to |-> next - 1, sha |-> version, of |-> w.of]),
                             !.over = next <= last,
                             !.rest = IF next <= last THEN Append(@, [from |-> next, to |-> last, sha |-> version, of |-> w.of]) ELSE @]
ReadManyWindows(ws, budget, partial) == FoldLeft(LAMBDA r, w : TakeWindow(r, w, budget, partial), NoResult, ws)
Windows == {[from |-> a, to |-> b, sha |-> Unbound, of |-> n] : a \in 1..MaxLine, b \in 1..MaxLine + 1, n \in {1, 2}}
ReadAgain(budget, partial) ==
  /\ reading.ask # <<>>
  /\ LET r == ReadManyWindows(reading.ask, budget, partial)
     IN /\ ~r.failed
        /\ reading' = [reading EXCEPT !.ask = r.rest, !.got = @ \o r.files]
  /\ UNCHANGED <<version, cached, searches, handed>>

(* --- find and grep with cursors.                                           *)
Quiet == [at |-> "rest", cursor |-> 0, entry |-> [fingerprint |-> 0, offset |-> 0, lineage |-> 0], seen |-> 0]
Reads(ws) == reading = [asked |-> ws, ask |-> ws, got |-> <<>>]
(* The two share nothing but the version: a behaviour has one or the other.  *)
PagesInit ==
  /\ version = 0 /\ cached = <<>> /\ handed = [last |-> 0, got |-> [l \in 1..MaxCursors |-> <<>>]]
  /\ \/ searches = [c \in Searchers |-> Quiet] /\ Reads(<<>>)
     \/ /\ searches = [c \in Searchers |-> [Quiet EXCEPT !.at = "off"]]
        /\ \E u, v \in Windows : u.of = 1 /\ v.of = 2 /\ u.from <= u.to /\ v.from <= v.to /\ Reads(<<u, v>>)
CachedPages == DOMAIN cached
(* A call begins: a known cursor's entry, or a new query while there is room. *)
SearchBegins(c) ==
  /\ searches[c].at = "rest"
  /\ \/ /\ Cardinality(CachedPages) < MaxCached
        /\ searches' = [searches EXCEPT ![c] = [Quiet EXCEPT !.at = "collect"]]
     \/ \E k \in CachedPages : searches' = [searches EXCEPT ![c] = [Quiet EXCEPT !.at = "print", !.cursor = k, !.entry = cached[k]]]
  /\ UNCHANGED <<version, reading, cached, handed>>
(* #searchFingerprint: what is enumerated, read and revalidated at its end.  *)
Drifts(c) == searches[c].entry.fingerprint # version
Collected(c) ==
  /\ searches[c].at \in {"collect", "collected"}
  /\ searches' = [searches EXCEPT ![c] =
       IF searches[c].at = "collect" THEN [@ EXCEPT !.at = "collected", !.seen = version]
       ELSE IF searches[c].seen # version THEN Quiet
       ELSE [@ EXCEPT !.at = "deliver", !.entry = [fingerprint |-> version, offset |-> 0, lineage |-> 0]]]
  /\ UNCHANGED <<version, reading, cached, handed>>
Printed(c) ==
  /\ searches[c].at = "print"
  /\ searches' = [searches EXCEPT ![c] = IF Drifts(c) THEN Quiet ELSE [@ EXCEPT !.at = "deliver", !.seen = version]]
  /\ UNCHANGED <<version, reading, cached, handed>>
(* The page, and only at its end the cursor: consumed if it still is what    *)
(* the call began with, and replaced by the next one.                        *)
Consumed(c) == LET s == searches[c] IN s.cursor # 0 /\ (s.cursor \notin CachedPages \/ cached[s.cursor] # s.entry)
PageOf(e, count) == [k \in 1..count |-> e.offset + k]
Deliver(c, fits) ==
  LET s == searches[c]
      e == IF s.cursor = 0 THEN [s.entry EXCEPT !.lineage = handed.last + 1] ELSE s.entry
      count == Lower(fits, MaxRecords - e.offset)
      more == e.offset + count < MaxRecords
      left == [k \in CachedPages \ {s.cursor} |-> cached[k]]
      next == handed.last + 1
  IN /\ s.at = "deliver" /\ handed.last < MaxCursors
     /\ searches' = [searches EXCEPT ![c] = Quiet]
     /\ IF Consumed(c) \/ count = 0 \/ (more /\ Cardinality(DOMAIN left) >= MaxCached)
        THEN UNCHANGED <<cached, handed>>
        ELSE /\ handed' = [last |-> next, got |-> [handed.got EXCEPT ![e.lineage] = @ \o PageOf(e, count)]]
             /\ cached' = IF more THEN [k \in DOMAIN left \union {next} |-> IF k = next THEN [e EXCEPT !.offset = @ + count] ELSE left[k]]
                                  ELSE left
     /\ UNCHANGED <<version, reading>>
ExpirePages == \E k \in CachedPages : cached' = [j \in CachedPages \ {k} |-> cached[j]] /\ UNCHANGED <<version, reading, searches, handed>>
Edit == version < MaxVersion /\ version' = version + 1 /\ UNCHANGED <<reading, cached, searches, handed>>
PagesNext ==
  \/ \E b \in 1..MaxLine, p \in BOOLEAN : ReadAgain(b, p)
  \/ \E c \in Searchers : SearchBegins(c) \/ Collected(c) \/ Printed(c) \/ (\E n \in 0..MaxRecords : Deliver(c, n))
  \/ ExpirePages \/ Edit
PagesSpec == PagesInit /\ [][PagesNext]_pageVars

(* What was asked for is delivered or still to ask for, line by line and     *)
(* never both, and the parts of one window are of one version.               *)
LinesOf(ws, n) == UNION {Lines(ws[k]) : k \in {j \in DOMAIN ws : ws[j].of = n}}
ReadsWhole ==
  \A n \in {1, 2} :
    LET parts == {k \in DOMAIN reading.got : reading.got[k].of = n}
    IN /\ LinesOf(reading.got, n) \union LinesOf(reading.ask, n) = LinesOf(reading.asked, n)
       /\ LinesOf(reading.got, n) \intersect LinesOf(reading.ask, n) = {}
       /\ \A j, k \in parts : reading.got[j].sha = reading.got[k].sha
                              /\ (j # k => Lines(reading.got[j]) \intersect Lines(reading.got[k]) = {})
(* The pages of one query are its records in order, each once, and there is  *)
(* at most one cursor to go on with, at the record after the last.           *)
PagesInOrder ==
  \A l \in 1..handed.last :
    LET got == handed.got[l]
        open == {k \in CachedPages : cached[k].lineage = l}
    IN /\ \A k \in DOMAIN got : got[k] = k
       /\ Cardinality(open) <= 1 /\ \A k \in open : cached[k].offset = Len(got)
CacheBounded == Cardinality(CachedPages) <= MaxCached
PagesKept == ReadsWhole /\ PagesInOrder /\ CacheBounded
=============================================================================
