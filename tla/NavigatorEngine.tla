-------------------------- MODULE NavigatorEngine --------------------------
(* The engine in the child (src/fovea/engine.ts): graphs per root, navigation *)
(* and baselines per conversation, a sync in two phases.  Requests run one at *)
(* a time on the tail; a step is the code between two awaits, and the signal  *)
(* of the request may fire between any two.                                   *)
EXTENDS Naturals, Sequences, FiniteSets, SequencesExt

CONSTANTS Conversations, RootKeys,
          MaxRoots, MaxHot,      \* 32 and 2
          MaxChanges, MaxIds     \* bounds of the model: source versions, requests

ASSUME EngineSizes == MaxRoots \in Nat \ {0} /\ MaxHot \in 1..MaxRoots
                      /\ MaxChanges \in Nat /\ MaxIds \in Nat

Keys == Conversations \X RootKeys
None == [base |-> 0, focus |-> 0]   \* a conversation that is not loaded; base 0: no baseline

VARIABLES
  source,        \* the version of each root's source
  residents,     \* #roots, least recently used first
  hot, gapped,   \* the flags of a root
  graph,         \* the version its store and snapshot hold (0: cleared)
  loaded, conversations, \* keys of #conversations, their content
  prepared,      \* #preparedSync: id, baseline, focus; id 0: none
  work,          \* the request under way
  cleanupFailed, \* cleanupFailure
  ids,           \* requests so far: the source of preparation ids and revisions
  moved          \* the request that last moved the navigation of a key (history)

naviVars == <<source, residents, hot, gapped, graph, loaded, conversations,
              prepared, work, cleanupFailed, ids, moved>>
stores == <<residents, hot, gapped, graph, loaded, conversations, prepared>>

Unprepared == [id |-> 0, from |-> 0, base |-> 0, focus |-> 0]   \* from: the baseline of the verdict
Free == [pc |-> "free", op |-> "none", key |-> <<>>, signal |-> FALSE, transient |-> FALSE,
         version |-> 0, original |-> None]

NaviInit ==
  /\ source = [r \in RootKeys |-> 1]
  /\ residents = <<>> /\ hot = {} /\ gapped = {} /\ graph = [r \in RootKeys |-> 0]
  /\ loaded = {} /\ conversations = [k \in Keys |-> None] /\ prepared = [k \in Keys |-> Unprepared]
  /\ work = Free /\ cleanupFailed = FALSE /\ ids = 0
  /\ moved = [k \in Keys |-> 0]

root == work.key[2]
Dropped(K) == [k \in Keys |-> IF k \in K THEN Unprepared ELSE prepared[k]]
\* Map.delete of a set that keeps its order: no root is resident twice.
PlaceOf(r) == CHOOSE i \in DOMAIN residents : residents[i] = r
WithoutRoot(r) == IF r \in ToSet(residents) THEN RemoveAt(residents, PlaceOf(r)) ELSE residents
KeysOf(r) == {k \in Keys : k[2] = r}
Forget(K) == /\ loaded' = loaded \ K /\ conversations' = [k \in Keys |-> IF k \in K THEN None ELSE conversations[k]]
             /\ prepared' = Dropped(K) /\ moved' = [k \in Keys |-> IF k \in K THEN 0 ELSE moved[k]]

\* retireRoot: the graph and the conversations of a root expire together; when
\* its snapshot cannot be removed the engine refuses every later request.
RetireRoot(r, remove, removed) ==
  /\ hot' = hot \ {r} /\ gapped' = gapped \cup {r} /\ graph' = [graph EXCEPT ![r] = 0]
  /\ Forget(KeysOf(r))
  /\ residents' = IF remove /\ removed THEN WithoutRoot(r) ELSE residents
  /\ cleanupFailed' = ~removed /\ work' = IF removed THEN work ELSE Free

\* The operations that touch no source run at once.
Admitted == work.pc = "free" /\ ~cleanupFailed
\* The acknowledgement of a preparation: never over a newer focus.
Navigation(k) == IF k \in loaded THEN conversations[k].focus ELSE prepared[k].focus
Acknowledge(k, id) ==
  /\ Admitted /\ id > 0 /\ id = prepared[k].id
  /\ conversations' = [conversations EXCEPT ![k] = [base |-> prepared[k].base, focus |-> Navigation(k)]]
  /\ loaded' = loaded \cup {k} /\ prepared' = Dropped({k})
  /\ UNCHANGED <<source, residents, hot, gapped, graph, work, cleanupFailed, ids, moved>>

Reset(k, reload) ==
  /\ Admitted /\ Forget({k})
  /\ graph' = IF reload THEN [graph EXCEPT ![k[2]] = 0] ELSE graph
  /\ UNCHANGED <<source, residents, hot, gapped, work, cleanupFailed, ids>>

RetireOwner(c) ==
  /\ Admitted /\ Forget({k \in Keys : k[1] = c})
  /\ UNCHANGED <<source, residents, hot, gapped, graph, work, cleanupFailed, ids>>

\* executeAtRoot: the root is made resident, then hot, each retiring another.
Begin(k, op, transient) ==
  /\ Admitted /\ ids < MaxIds /\ ids' = ids + 1
  /\ work' = [Free EXCEPT !.pc = "admit", !.op = op, !.key = k, !.transient = transient]
  /\ UNCHANGED <<source, stores, cleanupFailed, moved>>

AdmitRoot(removed) ==
  /\ work.pc = "admit"
  /\ IF root \notin ToSet(residents) /\ Len(residents) >= MaxRoots
     THEN RetireRoot(residents[1], TRUE, removed)
     ELSE /\ residents' = Append(WithoutRoot(root), root)
          /\ gapped' = IF root \in ToSet(residents) THEN gapped ELSE gapped \cup {root}
          /\ work' = [work EXCEPT !.pc = "heat"]
          /\ UNCHANGED <<hot, graph, loaded, conversations, prepared, cleanupFailed, moved>>
  /\ UNCHANGED <<source, ids>>

Coldest == SelectSeq(residents, LAMBDA r : r \in hot)[1]
Expired == work.op = "dwell" /\ root \in gapped /\ work.key \notin loaded
Heat(removed) ==
  /\ work.pc = "heat"
  /\ IF root \notin hot /\ Cardinality(hot) >= MaxHot
     THEN RetireRoot(Coldest, FALSE, removed)
     ELSE /\ hot' = hot \cup {root}
          /\ work' = IF Expired \/ work.signal THEN Free
                     ELSE [work EXCEPT !.pc = "stage", !.original = conversations[work.key]]
          /\ UNCHANGED <<residents, gapped, graph, loaded, conversations, prepared, cleanupFailed, moved>>
  /\ UNCHANGED <<source, ids>>

\* The snapshot is captured at one version; an unchanged one is reused.
Capture ==
  /\ work.pc = "stage" /\ ~work.signal
  /\ work' = [work EXCEPT !.pc = "built", !.version = source[root]]
  /\ graph' = [graph EXCEPT ![root] = source[root]]
  /\ UNCHANGED <<source, residents, hot, gapped, loaded, conversations, prepared, cleanupFailed, ids, moved>>

\* sync: a changed source may be worth telling of (red); then the new baseline
\* waits for its acknowledgement, otherwise it is adopted in silence.
Prepared(k) == [prepared EXCEPT ![k] = [id |-> ids, from |-> work.original.base, base |-> work.version,
                                        focus |-> work.original.focus]]
Adopted(k, content) == conversations' = [conversations EXCEPT ![k] = content] /\ loaded' = loaded \cup {k}
SyncKeeps(red) ==   \* a mutant: an older preparation survives a silent baseline
  /\ work.pc = "built" /\ work.op = "sync" /\ ~work.signal /\ work' = [work EXCEPT !.pc = "ending"]
  /\ red => work.original.base \notin {0, work.version}
  /\ CASE work.transient -> UNCHANGED <<loaded, conversations, prepared, gapped>>
       [] ~work.transient /\ red -> prepared' = Prepared(work.key) /\ UNCHANGED <<loaded, conversations, gapped>>
       [] OTHER -> /\ Adopted(work.key, [work.original EXCEPT !.base = work.version])
                   /\ UNCHANGED prepared /\ gapped' = gapped \ {root}
  /\ UNCHANGED <<source, residents, hot, graph, cleanupFailed, ids, moved>>
Sync(red) ==
  /\ work.pc = "built" /\ work.op = "sync" /\ ~work.signal /\ work' = [work EXCEPT !.pc = "ending"]
  /\ red => work.original.base \notin {0, work.version}
  /\ CASE work.transient -> UNCHANGED <<loaded, conversations, prepared, gapped>>
       [] ~work.transient /\ red -> prepared' = Prepared(work.key) /\ UNCHANGED <<loaded, conversations, gapped>>
       [] OTHER -> /\ Adopted(work.key, [work.original EXCEPT !.base = work.version])
                   /\ prepared' = Dropped({work.key}) /\ gapped' = gapped \ {root}
  /\ UNCHANGED <<source, residents, hot, graph, cleanupFailed, ids, moved>>

\* focus and dwell move the navigation, sketch and impact only read.
Navigate ==
  /\ work.pc = "built" /\ work.op \in {"focus", "dwell"} /\ ~work.signal
  /\ IF work.transient THEN UNCHANGED <<loaded, conversations>>
     ELSE Adopted(work.key, [work.original EXCEPT !.focus = ids])
  /\ work' = [work EXCEPT !.pc = "ending"]
  /\ UNCHANGED <<source, residents, hot, gapped, graph, prepared, cleanupFailed, ids, moved>>

\* A failure clears the graph, it may be half refreshed; what was adopted stays.
Fault ==
  /\ work.pc \in {"stage", "built"}
  /\ work' = [work EXCEPT !.pc = "ending"] /\ graph' = [graph EXCEPT ![root] = 0]
  /\ UNCHANGED <<source, residents, hot, gapped, loaded, conversations, prepared, cleanupFailed, ids, moved>>

\* finally: the stage is removed, and an aborted request leaves no trace.
End(removed) ==
  /\ work.pc = "ending" /\ work' = Free /\ cleanupFailed' = (cleanupFailed \/ ~removed)
  /\ IF work.signal
     THEN /\ graph' = [graph EXCEPT ![root] = 0] /\ prepared' = Dropped({work.key})
          /\ conversations' = [conversations EXCEPT ![work.key] = work.original]
          /\ loaded' = IF work.original # None THEN loaded \cup {work.key} ELSE loaded \ {work.key}
          /\ UNCHANGED moved
     ELSE /\ moved' = [moved EXCEPT ![work.key] = conversations[work.key].focus]
          /\ UNCHANGED <<graph, conversations, loaded, prepared>>
  /\ UNCHANGED <<source, residents, hot, gapped, ids>>
-----------------------------------------------------------------------------
Abort == /\ work.pc # "free" /\ ~work.signal /\ work' = [work EXCEPT !.signal = TRUE]
         /\ UNCHANGED <<source, stores, cleanupFailed, ids, moved>>
Edit(r) == /\ source[r] < MaxChanges /\ source' = [source EXCEPT ![r] = @ + 1]
           /\ UNCHANGED <<stores, work, cleanupFailed, ids, moved>>

NaviNext ==
  \/ \E k \in Keys : \/ \E id \in 1..MaxIds : Acknowledge(k, id)
                     \/ \E reload \in BOOLEAN : Reset(k, reload)
                     \/ \E op \in {"sync", "focus", "dwell"}, transient \in BOOLEAN : Begin(k, op, transient)
  \/ \E c \in Conversations : RetireOwner(c)
  \/ \E removed \in BOOLEAN : AdmitRoot(removed) \/ Heat(removed) \/ End(removed)
  \/ \E red \in BOOLEAN : Sync(red)
  \/ Capture \/ Navigate \/ Fault \/ Abort \/ \E r \in RootKeys : Edit(r)

NaviSpec == NaviInit /\ [][NaviNext]_naviVars
-----------------------------------------------------------------------------
(* Properties.                                                                *)

Quiet(k) == work.key # k \/ work.pc # "ending"

\* A preparation that can still be acknowledged was judged against the baseline
\* the conversation holds: an acknowledgement never skips a change that no
\* verdict compared, and none outlives its root, a reset or a later baseline.
PreparationCurrent ==
  \A k \in Keys : Quiet(k) /\ prepared[k].id # 0 =>
    k \in loaded /\ prepared[k].from = conversations[k].base

\* The navigation of a conversation is the one the last request that was not
\* aborted gave it: neither an acknowledged sync nor an aborted request moves
\* it.  A loaded conversation has a resident root, a graph a hot one.
NavigationKept ==
  /\ \A k \in Keys : Quiet(k) => conversations[k].focus = moved[k]
  /\ \A k \in loaded : k[2] \in ToSet(residents)
  /\ \A r \in RootKeys : graph[r] # 0 => r \in hot
=============================================================================
