--------------------------- MODULE ActionRegistry ---------------------------
(* Discovery in core/action-registry.ts: queries share one index per         *)
(* provider; an index is produced under one of two raw slots, each of which  *)
(* owns capacity before provider code runs, is checked against the           *)
(* provider's revision before and after, and is kept until it is stale or    *)
(* its room is needed.  Capacity is counted in units; descriptors, ranking   *)
(* and the single-descriptor cache, which uses the same slots, are left out. *)
EXTENDS Naturals, Sequences, FiniteSets, SequencesExt
CONSTANTS Providers, Queries, Capacity, RawUnits, IndexUnits,
          MaxRevisions, MaxIndexes  \* bounds: changes and indexes begun, per provider
ASSUME RegistryAssumption == /\ {Capacity, MaxRevisions, MaxIndexes} \subseteq Nat /\ {RawUnits, IndexUnits} \subseteq Nat \ {0}
                             /\ IndexUnits <= RawUnits /\ RawUnits <= Capacity
                             /\ IsFiniteSet(Providers) /\ IsFiniteSet(Queries)
VARIABLES revision,  \* [provider -> its discoveryRevision]
          disc,      \* #discovery, #rawQueue and the indexes: [index, current, queue]
          begun,     \* [provider -> indexes begun so far]
          query,     \* [query -> [pc, using, asked]]
          registry   \* "open" | "closing" | "closed"
regVars == <<revision, disc, begun, query, registry>>

RawSlots == 2
Indexes == Providers \X (1 .. MaxIndexes)
(* A discovery record: raw and kept are the units it holds.                  *)
Unused == [state |-> "unused", before |-> 0, content |-> 0, attempt |-> 0, users |-> 0, raw |-> 0, kept |-> 0]
Pending(x) == x.state \in {"queued", "listing", "built", "failing"}
RegInit ==
  /\ revision = [p \in Providers |-> 0] /\ begun = [p \in Providers |-> 0] /\ registry = "open"
  /\ disc = [index |-> [i \in Indexes |-> Unused], current |-> [p \in Providers |-> 0], queue |-> <<>>]
  /\ query = [q \in Queries |-> [pc |-> "idle", using |-> {}, asked |-> [p \in Providers |-> 0]]]

IsCurrent(d, i) == d.current[i[1]] = i[2]
\* The units that are held, each once.
UnitsOf(d) == UNION {{i} \X (1 .. d.index[i].raw + d.index[i].kept) : i \in Indexes}
Used(d) == Cardinality(UnitsOf(d))
ActiveIndexes(d) == {i \in Indexes : d.index[i].raw > 0}
(* Delete an index from the map and release what it keeps.                   *)
WithoutQuery(d, S) == [d EXCEPT !.index = [i \in Indexes |-> IF i \in S THEN [@[i] EXCEPT !.kept = 0] ELSE @[i]],
                           !.current = [p \in Providers |-> IF <<p, @[p]>> \in S THEN 0 ELSE @[p]]]
Evictable(d) == {i \in Indexes : IsCurrent(d, i) /\ ~Pending(d.index[i]) /\ d.index[i].users = 0}
(* #reserve: idle indexes make room; the smallest set of them that suffices. *)
FitsCapacity(d, units) == Used(d) + units <= Capacity
RoomFor(d, units) == LET able == {S \in SUBSET Evictable(d) : FitsCapacity(WithoutQuery(d, S), units)} IN
  IF able = {} THEN WithoutQuery(d, Evictable(d))
  ELSE WithoutQuery(d, CHOOSE S \in able : \A T \in able : Cardinality(S) <= Cardinality(T))
Failing(d, i) == [d EXCEPT !.index[i].state = "failing"]
(* #pumpRaw, once: start the head of the queue; when there is no room, wait  *)
(* for a raw producer to free some, or refuse when there is none.            *)
PumpOnce(d) ==
  LET i == Head(d.queue)  e == RoomFor(d, RawUnits)  IN
  IF d.queue = <<>> \/ Cardinality(ActiveIndexes(d)) >= RawSlots THEN d
  ELSE IF FitsCapacity(e, RawUnits) THEN [e EXCEPT !.queue = Tail(@), !.index[i].state = "listing", !.index[i].raw = RawUnits]
  ELSE IF ActiveIndexes(d) # {} THEN e ELSE Failing([e EXCEPT !.queue = Tail(@)], i)
PumpedAll(d) ==
  LET after[n \in 0 .. Len(d.queue)] == IF n = 0 THEN d ELSE PumpOnce(after[n - 1]) IN after[Len(d.queue)]
Pumped(d) == IF registry # "open" THEN d ELSE PumpedAll(d)
(* #releaseIndex: what nobody uses any more; a producer that still waits is  *)
(* cancelled, one at work ends by itself.                                    *)
Staying(s, gone) ==
  LET upTo[n \in 0 .. Len(s)] ==
        IF n = 0 THEN <<>> ELSE IF s[n] \in gone THEN upTo[n - 1] ELSE Append(upTo[n - 1], s[n])
  IN upTo[Len(s)]
FailingAll(d, S) == [d EXCEPT !.index = [i \in Indexes |-> IF i \in S THEN [@[i] EXCEPT !.state = "failing"] ELSE @[i]],
                              !.queue = Staying(@, S)]
Unwanted(d, S) ==
  LET idle == {i \in S : d.index[i].users = 0}
      cancelled == {i \in idle : d.index[i].state = "queued"}
      dropped == {i \in idle : ~Pending(d.index[i]) /\ (d.index[i].state = "failed" \/ ~IsCurrent(d, i))}
  IN WithoutQuery(FailingAll(d, cancelled), dropped)

(* #acquire, for every provider at once: join or begin its index.            *)
Joined(d, p) == LET x == d.index[<<p, d.current[p]>>] IN d.current[p] # 0 /\ (Pending(x) \/ x.before = revision[p])
Query(q) ==
  LET new == {p \in Providers : ~Joined(disc, p)}
      use == {<<p, IF p \in new THEN begun[p] + 1 ELSE disc.current[p]>> : p \in Providers}
      stale == {<<p, disc.current[p]>> : p \in {p \in new : disc.current[p] # 0}}
      freed == WithoutQuery(disc, {i \in stale : disc.index[i].users = 0}) IN
  /\ query[q].pc = "idle" /\ registry = "open" /\ \A p \in new : begun[p] < MaxIndexes
  /\ query' = [query EXCEPT ![q] = [pc |-> "waiting", using |-> use, asked |-> revision]]
  /\ begun' = [p \in Providers |-> IF p \in new THEN begun[p] + 1 ELSE begun[p]]
  /\ disc' = Pumped([index |-> [i \in Indexes |->
                        IF i \notin use THEN freed.index[i]
                        ELSE IF i[1] \notin new THEN [freed.index[i] EXCEPT !.users = @ + 1]
                        ELSE [Unused EXCEPT !.state = "queued", !.before = revision[i[1]], !.attempt = 1, !.users = 1]],
                     current |-> [p \in Providers |-> IF p \in new THEN begun[p] + 1 ELSE disc.current[p]],
                     queue |-> disc.queue \o SetToSeq({i \in use : i[1] \in new})])
  /\ UNCHANGED <<revision, registry>>
(* The query is answered, fails with one of its indexes, or is aborted; its  *)
(* indexes lose a user whichever it is.                                      *)
Left(d, S) == LET less == [d EXCEPT !.index = [i \in Indexes |-> IF i \in S THEN [d.index[i] EXCEPT !.users = @ - 1] ELSE d.index[i]]]
              IN Pumped(Unwanted(less, S))
Leave(q) == LET S == query[q].using IN
  /\ query[q].pc = "waiting"
  /\ \/ query' = [query EXCEPT ![q].pc = "aborted"]
     \/ \E i \in S : disc.index[i].state = "failed" /\ query' = [query EXCEPT ![q].pc = "failed"]
     \/ /\ \A i \in S : disc.index[i].state = "ready"
        /\ query' = [query EXCEPT ![q].pc = IF registry = "open" THEN "answered" ELSE "failed"]
  /\ disc' = Left(disc, S) /\ UNCHANGED <<revision, begun, registry>>

(* #buildIndex: the provider has listed its actions, or failed to.           *)
ListedNames(i) == LET x == disc.index[i]
                 small == [disc EXCEPT !.index[i].raw = IndexUnits]
                 d == RoomFor(small, IndexUnits) IN
  /\ x.state = "listing"
  /\ disc' \in {Failing(disc, i)} \union (IF registry # "open" THEN {}
       ELSE IF FitsCapacity(d, IndexUnits)
         THEN {[d EXCEPT !.index[i].state = "built", !.index[i].kept = IndexUnits, !.index[i].content = revision[i[1]]]}
         ELSE {Failing(d, i)})
  /\ UNCHANGED <<revision, begun, query, registry>>
(* The slot is given back, then the revision is looked at again: an index of *)
(* another revision is built once more, and the second time refused.         *)
Unchecked(d, i) ==                             \* as if it were not looked at again
  [d EXCEPT !.index[i].state = "ready", !.index[i].raw = 0, !.index[i].before = revision[i[1]]]
Checked(d, i) == LET x == d.index[i]  now == revision[i[1]]  e == [d EXCEPT !.index[i].raw = 0] IN
  IF registry # "open" THEN Failing(e, i)
  ELSE IF x.before = now THEN [e EXCEPT !.index[i].state = "ready"]
  ELSE IF x.attempt = 1
    THEN [e EXCEPT !.index[i] = [@ EXCEPT !.state = "queued", !.kept = 0, !.before = now, !.attempt = 2], !.queue = Append(@, i)]
    ELSE Failing([e EXCEPT !.index[i].kept = 0], i)
FinishQuery(i) ==
  /\ disc.index[i].state = "built" /\ disc' = Pumped(Checked(disc, i))
  /\ UNCHANGED <<revision, begun, query, registry>>
(* #produce ends: a failed index leaves the map, its waiters are told.       *)
Fail(i) == LET d == [disc EXCEPT !.index[i].state = "failed", !.index[i].raw = 0,
                                 !.current[i[1]] = IF @ = i[2] THEN 0 ELSE @] IN
  /\ disc.index[i].state = "failing" /\ disc' = Pumped(Unwanted(d, {i}))
  /\ UNCHANGED <<revision, begun, query, registry>>

Revise(p) ==
  /\ revision[p] < MaxRevisions /\ revision' = [revision EXCEPT ![p] = @ + 1]
  /\ UNCHANGED <<disc, begun, query, registry>>
(* close(): queued producers are cancelled at once; the map is emptied when  *)
(* the providers have closed.                                                *)
RegistryCloses ==
  /\ registry = "open" /\ registry' = "closing"
  /\ disc' = [FailingAll(disc, ToSet(disc.queue)) EXCEPT !.queue = <<>>]
  /\ UNCHANGED <<revision, begun, query>>
ClearRegistry ==
  /\ registry = "closing" /\ registry' = "closed"
  /\ disc' = [WithoutQuery(disc, Evictable(disc)) EXCEPT !.current = [p \in Providers |-> 0]]
  /\ UNCHANGED <<revision, begun, query>>
RegNext == \/ \E q \in Queries : Query(q) \/ Leave(q)
           \/ \E i \in Indexes : ListedNames(i) \/ FinishQuery(i) \/ Fail(i)
           \/ \E p \in Providers : Revise(p)
           \/ RegistryCloses \/ ClearRegistry
RegSpec == RegInit /\ [][RegNext]_regVars

(* Capacity is never exceeded and never leaks: an index that nobody uses,    *)
(* that is not in the map and not being produced holds nothing, after close  *)
(* included.                                                                 *)
CapacityKept ==
  /\ Used(disc) <= Capacity /\ Cardinality(ActiveIndexes(disc)) <= RawSlots
  /\ \A i \in Indexes : disc.index[i].kept > 0 =>
       Pending(disc.index[i]) \/ disc.index[i].users > 0 \/ IsCurrent(disc, i)
(* No query waits in a queue that nobody will pump: a queued producer always *)
(* has a running one ahead of it, whose end starts or refuses it.            *)
QueueMoves == disc.queue # <<>> => ActiveIndexes(disc) # {}
(* The index a query is about to be answered from is no older than the       *)
(* provider was when the query arrived.                                      *)
AnswersCurrent ==
  \A q \in Queries : query[q].pc = "waiting" => \A i \in query[q].using :
    disc.index[i].state = "ready" => disc.index[i].content >= query[q].asked[i[1]]
(* The registry's capacity is never exceeded nor leaked, its queue moves, and *)
(* no query is answered from an index that changed meanwhile.                 *)
RegistryKept == CapacityKept /\ QueueMoves /\ AnswersCurrent
=============================================================================
