--------------------------- MODULE NavigatorFacts ---------------------------
(* The facts a navigator root keeps about its files: fovea/core/build.ts     *)
(* (discovery, loading, refreshing, tainting, persisting) and the lifecycle  *)
(* in fovea/core/state.ts, with what engine.ts does when a query fails.  One *)
(* file lies at the top, one in a nested repository that is left out of the  *)
(* graph until work touches it.  A pass is one step: it reads a private      *)
(* snapshot.  The facts are the content they were extracted from; sizes,     *)
(* generated sources, the cap on files and the graph are left out.           *)
EXTENDS Naturals, FiniteSets
CONSTANTS MaxContent, MaxActs                    \* bounds: contents of a file, acts of the world
VARIABLES world,   \* [tree, committed, head, git, marker, parser]: the worktree and its repository
          st,      \* RepoState and FactStore: [up, facts, complete, tainted, listed, dirty, head, kind, enrolled, same, parser]
          cache,   \* the fact cache on disk: [up, facts, complete, tainted, enrolled, same, parser]
          looked,  \* history: the state was brought up to date and nothing has changed since
          acts
factVars == <<world, st, cache, looked, acts>>

FactSources == {"a", "n/b"}
FileContents == 0 .. MaxContent                      \* 0: there is no such file
Failures == {{}} \union {{f} : f \in FactSources}     \* one file fails, or is hinted at, in a pass
NoFacts == [f \in FactSources |-> 0]
NoState == [up |-> FALSE, facts |-> NoFacts, complete |-> {}, tainted |-> {}, listed |-> {}, dirty |-> {}, head |-> 0,
            kind |-> "git", enrolled |-> FALSE, same |-> {}, parser |-> 0]
NoCache == [up |-> FALSE, facts |-> NoFacts, complete |-> {}, tainted |-> {}, enrolled |-> FALSE, same |-> {}, parser |-> 0]
FactsInit ==
  /\ world = [tree |-> [f \in FactSources |-> 1], committed |-> [f \in FactSources |-> 1], head |-> 0,
              git |-> TRUE, marker |-> TRUE, parser |-> 0]
  /\ st = NoState /\ cache = NoCache /\ looked = FALSE /\ acts = 0

(* discoverFiles: what exists and is outside every closed boundary.          *)
Discovered(open) == {f \in FactSources : world.tree[f] # 0 /\ (f = "n/b" => open /\ world.marker)}
(* git status: a nested repository shows as one changed directory.           *)
Changes == {p \in {"a", "n"} : LET f == IF p = "a" THEN "a" ELSE "n/b" IN
             world.tree[f] # world.committed[f] /\ (p = "n" => world.marker)}

(* One pass over candidates, with the failures of its extractions: files     *)
(* that failed before wait for their backoff unless they changed; facts of   *)
(* the same content are kept; the rest is extracted.  moved: the rule pack   *)
(* moved, and clean files are anchored again.                                *)
Readable(S) == {f \in S : world.tree[f] # 0}
WaitingFor(s, backoff) == IF backoff THEN s.tainted \intersect s.same ELSE {}
Dirty(s, candidates, backoff) ==
  {f \in Readable(candidates) \ WaitingFor(s, backoff) : s.facts[f] # world.tree[f] \/ f \in s.tainted}
SettledOnce(s, dirty, stale, failing) == ((s.tainted \ dirty) \union (failing \intersect stale)) \ dirty  \* as if cleared again
SettledFacts(s, dirty, stale, failing) == (s.tainted \ dirty) \union (failing \intersect (dirty \union stale))
Extracted(s, candidates, files, backoff, moved, failing) ==
  LET dirty == Dirty(s, candidates, backoff)
      stale == IF moved THEN {f \in files \ dirty : s.facts[f] # 0} ELSE {}
      unread == candidates \ Readable(candidates) IN
  [s EXCEPT !.facts = [f \in FactSources |-> IF f \in unread THEN 0 ELSE IF f \in dirty THEN world.tree[f] ELSE @[f]],
            !.complete = (@ \union dirty) \ (failing \intersect (dirty \union stale)),
            !.tainted = SettledFacts(s, dirty, stale, failing),
            !.same = (@ \union Readable(candidates)) \ unread]
Forgotten(s, gone) == [s EXCEPT !.facts = [f \in FactSources |-> IF f \in gone THEN 0 ELSE @[f]],
                                !.tainted = @ \ gone, !.same = @ \ gone]
KnownFiles(s) == {f \in FactSources : s.facts[f] # 0} \union s.tainted
(* refreshFacts: files no longer listed or reported deleted are dropped,     *)
(* those that are new to the store and the known failures join the changed   *)
(* ones; another parser taints everything.                                   *)
Refreshed(s, files, changed, deleted, backoff, moved, failing) ==
  LET t == IF s.parser = world.parser THEN s
           ELSE [s EXCEPT !.parser = world.parser, !.tainted = @ \union {f \in FactSources : s.facts[f] # 0}, !.same = {}]
      gone == (KnownFiles(t) \ files) \union (deleted \intersect KnownFiles(t))
      kept == Forgotten(t, gone)
      candidates == ((changed \union (files \ KnownFiles(t))) \ gone) \union (kept.tainted \intersect files) IN
  [Extracted(kept, candidates, files, backoff, moved, failing) EXCEPT !.listed = files]

(* refreshState, first part: boundaries whose marker vanished close, those a *)
(* hint lies behind open.                                                    *)
Enrolled(hints) == (st.enrolled /\ world.marker)
  \/ (world.marker /\ "n/b" \in hints /\ ~(st.enrolled /\ world.marker) /\ "n/b" \notin st.listed)
(* The probe: when the listing may have moved everything is listed again.    *)
HeadMoved == world.head # st.head
Relists(open) ==
  \/ open # st.enrolled \/ HeadMoved \/ st.dirty \ Changes # {} \/ "n" \in Changes
  \/ "a" \in Changes \ st.dirty /\ (world.committed["a"] = 0 \/ world.tree["a"] = 0)
Probed(hints) ==
  LET open == Enrolled(hints) \/ "n" \in Changes
      files == IF Relists(Enrolled(hints)) THEN Discovered(open) ELSE st.listed
      named == IF Relists(Enrolled(hints)) THEN files ELSE Changes \intersect FactSources IN
  [files |-> files, anew |-> Relists(Enrolled(hints)), open |-> open, kind |-> "git", head |-> world.head, dirty |-> Changes,
   changed |-> hints \union st.tainted \union Readable(named),
   deleted |-> IF Relists(Enrolled(hints)) THEN st.listed \ files
               ELSE {f \in named : world.tree[f] = 0 /\ st.facts[f] # 0}]
(* Without a repository the tree is walked and swept, at intervals unless    *)
(* forced.                                                                   *)
Walked(hints, force, due) ==
  LET open == Enrolled(hints)
      changed == hints \union st.tainted
      walk == force \/ due \/ changed # {} \/ open # st.enrolled IN
  [files |-> IF walk THEN Discovered(open) ELSE st.listed, anew |-> walk, open |-> open, kind |-> "plain", head |-> 0,
   dirty |-> st.dirty, changed |-> IF walk /\ (force \/ due) THEN changed \union st.listed ELSE changed, deleted |-> {}]

Choice(matters) == IF matters THEN BOOLEAN ELSE {FALSE}
GitSeen == st.kind = "git" /\ world.git
UpToDate(plan, force) == plan.kind = "git" \/ force
FailKeeps(plan) == st' = [st EXCEPT !.head = plan.head, !.dirty = plan.dirty, !.enrolled = plan.open, !.kind = plan.kind]
(* The parser is unavailable, or the query is cancelled: what the pass had   *)
(* begun to change is not used again (engine.ts clears the root's store).    *)
FailReading(plan) == st' = NoState
Refresh(hints, force) ==
  /\ st.up /\ (GitSeen => ~force) /\ UNCHANGED <<world, cache, acts>>   \* force changes nothing there
  /\ \E due \in Choice(~GitSeen) :
    LET plan == IF GitSeen THEN Probed(hints) ELSE Walked(hints, force, due)
        noted == [st EXCEPT !.head = plan.head, !.dirty = plan.dirty, !.enrolled = plan.open, !.kind = plan.kind] IN
    \/ /\ plan.changed = {} /\ plan.deleted = {} /\ ~plan.anew
       /\ st' = noted /\ looked' = (looked \/ UpToDate(plan, force))
    \/ /\ plan.changed # {} \/ plan.deleted # {} \/ plan.anew
       /\ \/ FailReading(plan) /\ looked' = FALSE
          \/ /\ looked' = (looked \/ UpToDate(plan, force))
             /\ \E backoff \in Choice(st.tainted # {}), moved \in Choice(\E f \in plan.files : st.facts[f] # 0),
                  failing \in {F \in Failures : F \subseteq plan.files \union plan.changed} :
                  st' = Refreshed(noted, plan.files, plan.changed, plan.deleted, backoff, moved, failing)

(* buildState: the cache of the same parser is believed where the stats of a *)
(* file are those it recorded; a failure is cached as a mark without facts.  *)
Cached == IF cache.up /\ cache.parser = world.parser
            THEN [NoState EXCEPT !.facts = cache.facts, !.complete = cache.complete, !.tainted = cache.tainted,
                                 !.enrolled = cache.enrolled, !.same = cache.same]
            ELSE NoState
Loaded(backoff, moved, failing) ==
  LET files == Discovered(cache.up /\ cache.enrolled)
      kept == Forgotten(Cached, KnownFiles(Cached) \ files)
      hit == {f \in files : kept.facts[f] # 0 /\ f \in kept.same \ kept.tainted} IN
  [Extracted(kept, files \ hit, files, backoff, moved, failing) EXCEPT
     !.up = TRUE, !.listed = files, !.parser = world.parser, !.head = world.head, !.kind = IF world.git THEN "git" ELSE "plain",
     !.dirty = IF world.git THEN Changes ELSE {}]
(* persistFacts: facts of a file implicated in a failure never reach disk.   *)
Persisted(s) == [up |-> TRUE, facts |-> [f \in FactSources |-> IF f \in s.tainted THEN 0 ELSE s.facts[f]], complete |-> s.complete,
                 tainted |-> s.tainted, enrolled |-> s.enrolled, same |-> s.same, parser |-> s.parser]
Load ==
  \E moved \in Choice(cache.up), backoff \in Choice(cache.tainted # {}), failing \in Failures :
    LET s == Loaded(backoff, moved, failing) IN
    /\ ~st.up /\ st' = s /\ cache' \in {cache, Persisted(s)} /\ looked' = TRUE /\ UNCHANGED <<world, acts>>
Evict == st.up /\ st' = NoState /\ looked' = FALSE /\ UNCHANGED <<world, cache, acts>>

(* The world: edits, commits, checkouts, the nested repository and git come  *)
(* and go, the parser is replaced.                                           *)
World(w, changed) ==
  /\ acts < MaxActs /\ w # world /\ world' = w /\ acts' = acts + 1 /\ looked' = FALSE
  /\ st' = [st EXCEPT !.same = @ \ changed] /\ cache' = [cache EXCEPT !.same = @ \ changed]
Write(f, c) == World([world EXCEPT !.tree[f] = c], {f})
Commit == world.git /\ World([world EXCEPT !.committed = world.tree, !.head = @ + 1], {})
Checkout(c) == world.git /\ World([world EXCEPT !.committed["a"] = c, !.tree["a"] = c, !.head = @ + 1], {"a"})
Other == World([world EXCEPT !.git = FALSE], {}) \/ World([world EXCEPT !.marker = FALSE], {}) \/ World([world EXCEPT !.parser = 1], {})
FactsNext == \/ Load \/ Evict \/ Commit \/ Other
             \/ \E hints \in Failures, force \in BOOLEAN : Refresh(hints, force)
             \/ \E c \in FileContents : Checkout(c) \/ \E f \in FactSources : Write(f, c)
FactsSpec == FactsInit /\ [][FactsNext]_factVars

(* A state that was just brought up to date lists every file that is open to *)
(* it, and its facts are those of the content there: a reverted edit, a      *)
(* checkout, a failed pass or an old cache leave nothing stale behind.  The  *)
(* exception: a tracked file deleted and written again differently stays off *)
(* the list while it is dirty, for only paths that were clean are new there. *)
(* When git vanishes then, the first sweep lists it and leaves its old facts:*)
(* it sweeps the list before.                                                *)
FactsFollow ==
  looked /\ st.up =>
    /\ \A f \in Discovered(st.enrolled) \ st.listed : f \in st.dirty /\ world.committed[f] # 0
    /\ \A f \in st.listed \ st.tainted :
         st.facts[f] = world.tree[f] \/ (st.kind = "plain" /\ f \in st.dirty)
(* Facts that are not marked failed were extracted without a failure, across *)
(* restarts as well.                                                         *)
FactsHonest == \A f \in FactSources \ st.tainted : st.up /\ st.facts[f] # 0 => f \in st.complete
FactsTrue == FactsFollow /\ FactsHonest
=============================================================================
