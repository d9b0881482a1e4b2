-------------------------- MODULE WorkspaceContext --------------------------
(* The cached roots of the client: kiro/power/workspace-context.ts, with the  *)
(* channel on which the client announces changes and answers requests in      *)
(* order.  One refresh serves every caller and starts over when a change is   *)
(* announced while it waits.  Roots are a number, 0 for none; contents and    *)
(* bounds of root names are left out: a bad answer is a failed one.           *)
EXTENDS Naturals, Sequences
CONSTANTS Askers, MaxRoots, MaxAnnounced, MaxRefreshes      \* bounds: announced changes, requests sent
ASSUME ContextAssumption == {MaxRoots, MaxAnnounced, MaxRefreshes} \subseteq Nat
VARIABLES client,   \* its roots, announcements made, the messages under way
          context,  \* snapshot, stale, generation; the roots verified last
          refresh,  \* the one in flight: generation, request, who awaits it
          answers   \* [caller -> what it asked at and was told]
contextVars == <<client, context, refresh, answers>>

NoRefresh == [on |-> FALSE, generation |-> 0, request |-> 0, waiting |-> {}]
NoSnapshot == [status |-> "none", roots |-> 0, generation |-> 0]
Unasked == [pc |-> "idle", since |-> 0, told |-> NoSnapshot]
ContextInit ==
  /\ client = [roots |-> 1, announced |-> 0, requests |-> 0, wire |-> <<>>, open |-> {}]
  /\ context = [snapshot |-> NoSnapshot, stale |-> TRUE, generation |-> 0, verified |-> 0]
  /\ refresh = NoRefresh
  /\ answers = [a \in Askers |-> Unasked]

(* The client changes its roots and says so, or answers an open request.      *)
ClientChanges(r) ==
  /\ client.announced < MaxAnnounced /\ r # client.roots
  /\ client' = [client EXCEPT !.roots = r, !.announced = @ + 1, !.wire = Append(@, [kind |-> "changed", request |-> 0, roots |-> 0])]
  /\ UNCHANGED <<context, refresh, answers>>
ClientAnswers(q) ==
  /\ q \in client.open
  /\ client' = [client EXCEPT !.open = @ \ {q}, !.wire = Append(@, [kind |-> "roots", request |-> q, roots |-> client.roots])]
  /\ UNCHANGED <<context, refresh, answers>>

(* current: a fresh snapshot at once; when it is stale, past its time to live *)
(* or not wanted, the refresh in flight or a new one.                         *)
Sent(cl, waiting) ==
  /\ cl.requests < MaxRefreshes
  /\ client' = [cl EXCEPT !.requests = @ + 1, !.open = @ \union {cl.requests + 1}]
  /\ refresh' = [on |-> TRUE, generation |-> context.generation, request |-> cl.requests + 1, waiting |-> waiting]
Asked(a, pc, told) == answers' = [answers EXCEPT ![a] = [pc |-> pc, since |-> context.generation, told |-> told]]
Current(a) ==
  /\ answers[a].pc = "idle" /\ UNCHANGED context
  /\ \/ ~context.stale /\ Asked(a, "told", context.snapshot) /\ UNCHANGED <<client, refresh>>
     \/ /\ Asked(a, "waiting", NoSnapshot)
        /\ IF refresh.on THEN refresh' = [refresh EXCEPT !.waiting = @ \union {a}] /\ UNCHANGED client
           ELSE Sent(client, {a})
AskAgain(a) == /\ answers[a].pc = "told" /\ answers' = [answers EXCEPT ![a] = Unasked]
            /\ UNCHANGED <<client, context, refresh>>

(* The refresh publishes what it loaded, to all who await it; when a change   *)
(* was announced meanwhile it asks once more instead.                         *)
Publish(cl, status, roots) ==
  LET snapshot == [status |-> status, roots |-> roots, generation |-> refresh.generation]
      failed == status = "temporarily-unavailable" IN
  /\ context' = [context EXCEPT !.snapshot = snapshot, !.stale = failed, !.verified = IF failed THEN @ ELSE roots]
  /\ refresh' = NoRefresh /\ client' = cl
  /\ answers' = [a \in Askers |-> IF a \in refresh.waiting THEN [answers[a] EXCEPT !.pc = "told", !.told = snapshot]
                                  ELSE answers[a]]
PublishedAnyhow(cl, status, roots) == Publish(cl, status, roots)      \* as if the generation were not looked at
Loaded(cl, status, roots) ==
  IF refresh.generation = context.generation THEN Publish(cl, status, roots)
  ELSE Sent(cl, refresh.waiting) /\ UNCHANGED <<context, answers>>
(* A request fails or is given up after its time; a late answer is dropped.   *)
Fails == refresh.on /\ Loaded(client, "temporarily-unavailable", context.snapshot.roots)
Arrives ==
  /\ client.wire # <<>>
  /\ LET m == Head(client.wire)
         rest == [client EXCEPT !.wire = Tail(@)] IN
     IF m.kind = "changed"
     THEN /\ context' = [context EXCEPT !.stale = TRUE, !.generation = @ + 1]
          /\ client' = rest /\ UNCHANGED <<refresh, answers>>
     ELSE IF refresh.on /\ refresh.request = m.request
     THEN Loaded(rest, IF m.roots = 0 THEN "explicitly-empty" ELSE "verified", m.roots)
     ELSE client' = rest /\ UNCHANGED <<context, refresh, answers>>
ContextNext == \/ \E r \in 0..MaxRoots : ClientChanges(r)
               \/ \E q \in client.open : ClientAnswers(q)
               \/ \E a \in Askers : Current(a) \/ AskAgain(a)
               \/ Fails \/ Arrives
ContextSpec == ContextInit /\ [][ContextNext]_contextVars

(* Nobody is told of roots observed before the last change announced when it  *)
(* asked, though it may have joined a refresh begun earlier.                  *)
ToldSince == \A a \in Askers : answers[a].pc = "told" => answers[a].told.generation >= answers[a].since
(* A snapshot that counts as fresh shows the client's roots of now, unless    *)
(* the news of a change is still under way; one that failed keeps the roots   *)
(* verified last and is asked for again.                                      *)
FreshIsCurrent ==
  /\ ~context.stale /\ (\A i \in DOMAIN client.wire : client.wire[i].kind # "changed") => context.snapshot.roots = client.roots
  /\ context.snapshot.status = "temporarily-unavailable" => context.stale /\ context.snapshot.roots = context.verified
ContextKept == ToldSince /\ FreshIsCurrent
=============================================================================
