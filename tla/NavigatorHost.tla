--------------------------- MODULE NavigatorHost ---------------------------
(* FoveaHost (src/fovea/host.ts) over the engine process: revocable root      *)
(* leases, the analysis queue, invocations and the checks after each of their *)
(* awaits, observations, retained results, call-context claims, retirement of *)
(* conversations and close.                                                   *)
EXTENDS EngineProcess

CONSTANTS Invocations, Roots,
          OwnerOf,          \* the conversation that a root is bound for
          Operations,       \* what an invocation may be, of "focus", "sync",
                            \* "reset", "reload" and "context"
          MaxQueue,         \* analysis jobs that may wait
          MaxObservations   \* committed changes of one root (bounds the model)

ASSUME HostNames == /\ Jobs = Invocations \cup Owners /\ Invocations \cap Owners = {}
                    /\ OwnerOf \in [Roots -> Owners]
ASSUME HostBounds == /\ MaxQueue \in Nat \ {0} /\ MaxObservations \in Nat
                     /\ Operations \in [Invocations -> SUBSET {"focus", "sync", "reset", "reload", "context"}]

VARIABLES
  lease,       \* roots: "none", "live", "revoked"
  controls,    \* #conversations
  retiring,    \* #retirements: "no", "pending", "latched"; "done" when resolved
  queue, running,   \* FoveaScheduler.#queue, the active job
  inv,         \* invocations: where they are and for what
  observed,    \* #observed: known, dirty, operations
  version, covered, \* commits to a root; those a reconciliation has seen
  stored,      \* #results: root, tag of the owner, generation that computed it
  claims,      \* roots with a call-context claim or an emitted key
  hostClosing  \* close: "open", "aborted", "closing", then "removed" or "kept"

hostVars == <<lease, controls, retiring, queue, running, inv, observed, version,
              covered, stored, claims, hostClosing>>
navigatorVars == <<engineVars, hostVars>>

Unobserved == [known |-> FALSE, dirty |-> FALSE, ops |-> 0]
Fresh == [pc |-> "new", root |-> NoJob, op |-> "none", revision |-> 0, snapshot |-> 0]

NavigatorInit ==
  /\ EngineInit
  /\ lease = [l \in Roots |-> "none"] /\ controls = {} /\ retiring = [c \in Owners |-> "no"]
  /\ queue = <<>> /\ running = NoJob /\ inv = [i \in Invocations |-> Fresh]
  /\ observed = [l \in Roots |-> Unobserved]
  /\ version = [l \in Roots |-> 0] /\ covered = [l \in Roots |-> 0]
  /\ stored = {} /\ claims = {} /\ hostClosing = "open"

Open == hostClosing = "open"
Checked(l) == Open /\ lease[l] = "live"          \* #check
Aborted(j) == IF j \in Invocations THEN ~Checked(inv[j].root) ELSE ~Open
Done == [Fresh EXCEPT !.pc = "returned"]
Returned(i) == [inv EXCEPT ![i] = Done]

\* The analysis queue: a job runs at once when none does; the end of a job
\* starts the next one.
Enqueued(j) == IF running = NoJob THEN running' = j /\ UNCHANGED queue
               ELSE queue' = Append(queue, j) /\ UNCHANGED running
Dequeued == IF queue = <<>> THEN running' = NoJob /\ UNCHANGED queue
         ELSE running' = Head(queue) /\ queue' = Tail(queue)
Waiting(kind) == Cardinality({n \in 1..Len(queue) : queue[n] \in kind})

\* bind: one live lease of a root, unless its conversation is being retired.
Bind(l) ==
  /\ Open /\ lease[l] = "none"
  /\ retiring[OwnerOf[l]] # "done"   \* the caller does not grant a retired epoch again
  /\ IF retiring[OwnerOf[l]] \in {"pending", "latched"}
     THEN lease' = [lease EXCEPT ![l] = "revoked"] /\ UNCHANGED controls
     ELSE lease' = [lease EXCEPT ![l] = "live"] /\ controls' = controls \cup {OwnerOf[l]}
  /\ UNCHANGED <<engineVars, retiring, queue, running, inv, observed, version, covered, stored, claims, hostClosing>>

\* The retained results and the call-context claims of a root.
Put(l) == stored \cup {[root |-> l, tag |-> generation, by |-> request.child]}
Kept(R) == {e \in stored : e.root \notin R}
Claimed(l) == claims \cup {l}
Unclaimed(R) == claims \ R

\* #release: revocation is synchronous, and so are the abort listeners: queued
\* jobs of the roots leave the queue, the request in flight is cancelled.
Hits(R) == {j \in Invocations : inv[j].root \in R}
Remaining(R) ==   \* in their order
  LET stay == {n \in 1..Len(queue) : queue[n] \notin Hits(R)}
      Place(m) == CHOOSE n \in stay : Cardinality({k \in stay : k <= n}) = m
  IN [m \in 1..Cardinality(stay) |-> queue[Place(m)]]
Release(R) ==
  /\ lease' = [l \in Roots |-> IF l \in R /\ lease[l] = "live" THEN "revoked" ELSE lease[l]]
  /\ observed' = [l \in Roots |-> IF l \in R THEN Unobserved ELSE observed[l]]
  /\ stored' = Kept(R) /\ claims' = Unclaimed(R)
  /\ inv' = [i \in Invocations |-> IF inv[i].pc = "queued" /\ running # i /\ i \in Hits(R)
                                   THEN Done ELSE inv[i]]
  /\ IF request.job \in Hits(R) THEN Cancel ELSE UNCHANGED <<request, kid, stopVars>>
  /\ UNCHANGED <<child, generation, fateVars>>

CloseBinding(l) ==
  /\ Open /\ lease[l] = "live" /\ Release({l}) /\ queue' = Remaining({l})
  /\ UNCHANGED <<controls, retiring, running, version, covered, hostClosing>>

\* retireConversation: every lease of the conversation is revoked at once, its
\* state in the engine is retired by a maintenance job.
RetireConversation(c) ==
  /\ Open /\ retiring[c] \in {"no", "done"} /\ c \in controls
  /\ LET R == {l \in Roots : OwnerOf[l] = c}
     IN /\ Release(R)
        /\ IF running = NoJob THEN running' = c /\ queue' = Remaining(R)
           ELSE queue' = Append(Remaining(R), c) /\ UNCHANGED running
  /\ retiring' = [retiring EXCEPT ![c] = "pending"]
  /\ UNCHANGED <<controls, version, covered, hostClosing>>

Busy == running # NoJob \/ queue # <<>> \/ ~Open

\* invoke and collectCallContext, up to the wait for the journal's tail.
Admitting(i, l, op) == [inv EXCEPT ![i].pc = "admitting", ![i].root = l, ![i].op = op]
Collect(i, l) == inv' = IF Busy THEN Returned(i) ELSE Admitting(i, l, "context")
Invoke(i, l, op) ==
  /\ inv[i].pc = "new" /\ Checked(l)
  /\ IF op = "context" THEN Collect(i, l) ELSE inv' = Admitting(i, l, op)
  /\ UNCHANGED <<engineVars, lease, controls, retiring, queue, running, observed, version, covered, stored, claims, hostClosing>>

Admit(i) ==
  /\ inv[i].pc = "admitting"
  /\ IF Checked(inv[i].root) /\ Waiting(Invocations) < MaxQueue
     THEN /\ Enqueued(i) /\ inv' = [inv EXCEPT ![i].pc = "queued"]
          /\ controls' = controls \cup {OwnerOf[inv[i].root]}
     ELSE inv' = Returned(i) /\ UNCHANGED <<queue, running, controls>>
  /\ UNCHANGED <<engineVars, lease, retiring, observed, version, covered, stored, claims, hostClosing>>

Fails(i) == inv' = Returned(i) /\ Dequeued /\ UNCHANGED engineVars

\* The job of an invocation: a sync first reads the journal.
Start(i) ==
  /\ running = i /\ inv[i].pc = "queued"
  /\ IF ~Checked(inv[i].root) THEN Fails(i)
     ELSE /\ inv' = [inv EXCEPT ![i].pc = IF inv[i].op = "sync" THEN "reading" ELSE "asking"]
          /\ IF inv[i].op = "sync" THEN UNCHANGED engineVars
             ELSE Call(i, IF inv[i].op = "reload" THEN "restart" ELSE inv[i].op, OwnerOf[inv[i].root], FALSE)
          /\ UNCHANGED <<queue, running>>
  /\ UNCHANGED <<lease, controls, retiring, observed, version, covered, stored, claims, hostClosing>>

Read(i) ==
  /\ running = i /\ inv[i].pc = "reading"
  /\ IF ~Checked(inv[i].root) THEN Fails(i) /\ UNCHANGED observed
     ELSE /\ inv' = [inv EXCEPT ![i].pc = "asking", ![i].revision = observed[inv[i].root].ops]
          /\ observed' = [observed EXCEPT ![inv[i].root].known = TRUE]
          /\ Call(i, "sync", OwnerOf[inv[i].root], FALSE)
          /\ UNCHANGED <<queue, running>>
  /\ UNCHANGED <<lease, controls, retiring, version, covered, stored, claims, hostClosing>>

ObservedBefore(o, i) == FALSE   \* a mutant: the mark is always cleared
ObservedSince(o, i) == o.ops # inv[i].revision

\* What a completed job leaves behind, once its lease was checked again.
Settled(i, l) ==
  CASE inv[i].op = "focus" ->
         /\ stored' = Put(l)
         /\ observed' = [observed EXCEPT ![l].known = TRUE] /\ UNCHANGED <<covered, claims>>
    [] inv[i].op = "sync" ->
         /\ observed' = [observed EXCEPT ![l].known = TRUE,
                           ![l].dirty = @ /\ ObservedSince(observed[l], i)]
         /\ covered' = [covered EXCEPT ![l] = inv[i].snapshot] /\ UNCHANGED <<stored, claims>>
    [] inv[i].op = "reset" ->
         /\ observed' = [observed EXCEPT ![l] = Unobserved] /\ covered' = [covered EXCEPT ![l] = version[l]]
         /\ stored' = Kept({l}) /\ claims' = Unclaimed({l})
    [] inv[i].op = "reload" -> stored' = {} /\ claims' = {} /\ UNCHANGED <<observed, covered>>
    [] inv[i].op = "context" -> claims' = Claimed(l) /\ UNCHANGED <<stored, observed, covered>>

JobEndsUnchecked(i) ==   \* a mutant: the lease is not checked after the query
  /\ running = i /\ inv[i].pc = "asking" /\ request.job = i /\ request.pc = "done"
  /\ request' = NoRequest /\ Dequeued
  /\ IF request.value THEN inv' = Returned(i) /\ Settled(i, inv[i].root)
     ELSE inv' = Returned(i) /\ UNCHANGED <<observed, covered, stored, claims>>
  /\ UNCHANGED <<child, generation, kid, stopVars, fateVars, lease, controls, retiring, version, hostClosing>>
JobEnds(i) ==
  /\ running = i /\ inv[i].pc = "asking" /\ request.job = i /\ request.pc = "done"
  /\ request' = NoRequest /\ Dequeued
  /\ IF request.value /\ Checked(inv[i].root)
     THEN inv' = Returned(i) /\ Settled(i, inv[i].root)
     ELSE inv' = Returned(i) /\ UNCHANGED <<observed, covered, stored, claims>>
  /\ UNCHANGED <<child, generation, kid, stopVars, fateVars, lease, controls, retiring, version, hostClosing>>

\* The maintenance job; a failed retirement stays latched.
StartRetirement(c) ==
  /\ running = c /\ request.job = NoJob
  /\ IF Open THEN Call(c, "retire", c, FALSE) /\ UNCHANGED <<retiring, queue, running>>
     ELSE Dequeued /\ retiring' = [retiring EXCEPT ![c] = "latched"] /\ UNCHANGED engineVars
  /\ UNCHANGED <<lease, controls, inv, observed, version, covered, stored, claims, hostClosing>>

RetirementEnds(c) ==
  /\ running = c /\ request.job = c /\ request.pc = "done"
  /\ request' = NoRequest /\ Dequeued
  /\ controls' = IF request.value THEN controls \ {c} ELSE controls
  /\ retiring' = [retiring EXCEPT ![c] = IF request.value THEN "done" ELSE "latched"]
  /\ UNCHANGED <<child, generation, kid, stopVars, fateVars, lease, inv, observed, version, covered, stored, claims, hostClosing>>

\* observe: the provider committed a change under the root, or only read.
Observe(l, commits) ==
  /\ Checked(l) /\ observed[l].ops < MaxObservations
  /\ version' = [version EXCEPT ![l] = IF commits THEN @ + 1 ELSE @]
  /\ observed' = [observed EXCEPT ![l] = [known |-> TRUE, dirty |-> @.dirty \/ commits, ops |-> @.ops + 1]]
  /\ UNCHANGED <<engineVars, lease, controls, retiring, queue, running, inv, covered, stored, claims, hostClosing>>

\* close: everything is revoked in one turn, then the process is closed.
Close ==
  /\ Open /\ hostClosing' = "aborted"
  /\ lease' = [l \in Roots |-> IF lease[l] = "live" THEN "revoked" ELSE lease[l]]
  /\ stored' = {} /\ claims' = {} /\ queue' = <<>>
  /\ inv' = [i \in Invocations |-> IF inv[i].pc = "queued" /\ running # i
                                   THEN Done ELSE inv[i]]
  /\ retiring' = [c \in Owners |-> IF retiring[c] = "pending" /\ running # c THEN "latched" ELSE retiring[c]]
  /\ Cancel
  /\ UNCHANGED <<child, generation, fateVars, controls, running, observed, version, covered>>

CloseProcess ==
  /\ hostClosing = "aborted" /\ hostClosing' = "closing" /\ CloseEngine
  /\ UNCHANGED <<child, generation, kid, failure, exhausted, crashes, cleanup, retained, request,
                 lease, controls, retiring, queue, running, inv, observed, version, covered, stored, claims>>

\* The instance's directory is removed only when every generation's scratch was.
Removable == closeTask = "resolved" /\ (generation = 0 \/ (~retained /\ cleanup = "graceful"))
CloseDone ==
  /\ hostClosing = "closing" /\ closeTask \in {"resolved", "rejected"}
  /\ hostClosing' = IF Removable THEN "removed" ELSE "kept"
  /\ controls' = {} /\ retiring' = [c \in Owners |-> "no"] /\ observed' = [l \in Roots |-> Unobserved]
  /\ UNCHANGED <<engineVars, lease, queue, running, inv, version, covered, stored, claims>>
-----------------------------------------------------------------------------
\* The steps of the engine process under this host.
Snapshot(g) ==
  LET j == Head(kid[g].inbox).job
  IN inv' = IF Head(kid[g].inbox).type = "sync"
            THEN [inv EXCEPT ![j].snapshot = IF inv[j].pc = "asking" THEN version[inv[j].root] ELSE @] ELSE inv
ChildTakes(g) == ChildReceives(g) /\ Snapshot(g)
  /\ UNCHANGED <<lease, controls, retiring, queue, running, observed, version, covered, stored, claims, hostClosing>>

Querying ==
  LET aborted == Aborted(request.job)
  IN \/ Ensure(aborted) \/ Ask(aborted) \/ Publish(aborted)
     \/ \E refused \in BOOLEAN, recent \in 0..CrashBudget : Spawn(aborted, refused, recent)

Process == (Querying \/ Requesting \/ Timeout \/ Stopping \/ EngineClosed) /\ UNCHANGED hostVars
Events(g) == (Receive(g) \/ ExitEvent(g) \/ Child(g)) /\ UNCHANGED hostVars

Job(i) == Start(i) \/ Read(i) \/ JobEnds(i)
Retirement(c) == StartRetirement(c) \/ RetirementEnds(c)

NavigatorNext ==
  \/ \E l \in Roots : Bind(l) \/ CloseBinding(l) \/ \E commits \in BOOLEAN : Observe(l, commits)
  \/ \E i \in Invocations : Admit(i) \/ Job(i) \/ \E l \in Roots, op \in Operations[i] : Invoke(i, l, op)
  \/ \E c \in Owners : RetireConversation(c) \/ Retirement(c)
  \/ Close \/ CloseProcess \/ CloseDone
  \/ Process \/ \E g \in Generations : ChildTakes(g) \/ Events(g)

NavigatorSpec == NavigatorInit /\ [][NavigatorNext]_navigatorVars

\* The host's steps go on: its event loop runs what is ready, timers fire, and
\* a killed process is reaped or its deadline passes.  Nothing is assumed of the
\* child, which may hang.
HostSteps ==
  \/ \E i \in Invocations : Admit(i) \/ Job(i)
  \/ \E c \in Owners : Retirement(c)
  \/ CloseProcess \/ CloseDone \/ Process
  \/ \E g \in Generations : (Receive(g) \/ ExitEvent(g)) /\ UNCHANGED hostVars
-----------------------------------------------------------------------------
(* Properties.                                                                *)

\* After a binding is released, its conversation retired or the host closed,
\* nothing of the root is retained, whatever was queued, running or waiting
\* then; a retained result carries the generation that computed it.  A
\* conversation whose retirement was reported is in no engine and has no
\* controls, although queries of it were running, cancelled or queued.
RevokedForgotten ==
  /\ \A l \in Roots : lease[l] # "live" =>
       /\ l \notin claims /\ \A e \in stored : e.root # l
       /\ Open => ~observed[l].known
  /\ \A e \in stored : e.tag = e.by
  /\ \A c \in Owners : Open /\ retiring[c] # "no" =>
       /\ \A l \in Roots : OwnerOf[l] = c => lease[l] # "live"
       /\ retiring[c] = "done" => c \notin controls /\ (child # 0 => c \notin kid[child].owners)

\* A change committed while a sync runs keeps the root marked for another one.
DirtyUntilSynced ==
  \A l \in Roots : Checked(l) /\ covered[l] < version[l] => observed[l].dirty

\* The directory of the instance goes only after every child said that it had
\* removed its scratch, and was gone.
RemovedAfterAll ==
  hostClosing = "removed" => \A g \in 1..generation : kid[g].life # "up" /\ kid[g].leaving = "told"

\* The host over its child: no process without an owner, nothing remembered of a
\* released binding or of a retired conversation, and the directory goes last.
HostKept == ChildOwned /\ RevokedForgotten /\ RemovedAfterAll
=============================================================================
