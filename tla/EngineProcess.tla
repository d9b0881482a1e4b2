--------------------------- MODULE EngineProcess ---------------------------
(* The host's side of the Navigator engine process (src/fovea/engine-process  *)
(* .ts) and the message loop of the child (engine-entry.ts).  FoveaHost is    *)
(* the only caller and runs one job at a time, so that one request is in      *)
(* flight, while close, the child and the timers act at any moment.  A step   *)
(* is the code between two awaits.                                            *)
EXTENDS Naturals, Sequences, FiniteSets

CONSTANTS Jobs, NoJob,
          Owners,          \* conversations, the keys of the engine's state
          CrashBudget,     \* unexpected ends after which nothing is started
          MaxGenerations   \* children forked (bounds the model)

ASSUME EngineNames == NoJob \notin Jobs \cup Owners
ASSUME EngineBounds == CrashBudget \in Nat \ {0} /\ MaxGenerations \in Nat \ {0}

Generations == 1..MaxGenerations

VARIABLES
  child, generation,  \* #child (0: none), generation
  kid,                \* the child processes, by generation
  start,              \* #start: "none", "pending", "ready"
  stopping,           \* #stopping and the termination under way
  failure,            \* #failure
  exhausted,          \* unavailable because of the crash budget
  crashes,            \* #failures
  shut, closeTask,    \* #closed, #closeTask
  cleanup, retained,  \* #cleanup.mode; a generation left its scratch behind
  request             \* the call of query, retireConversation or restart

engineVars == <<child, generation, kid, start, stopping, failure, exhausted,
                crashes, shut, closeTask, cleanup, retained, request>>
stopVars == <<stopping, start>>
fateVars == <<failure, exhausted, crashes, shut, closeTask, cleanup, retained>>

NoStop == [phase |-> "none", unexpected |-> FALSE, polite |-> FALSE, ack |-> "none"]
NoRequest == [job |-> NoJob, op |-> "none", owner |-> NoJob, pc |-> "idle",
              child |-> 0, cancelled |-> FALSE, stop |-> FALSE, value |-> FALSE]
Idle == [type |-> "none", job |-> NoJob, owner |-> NoJob]
\* A process that is gone keeps nothing but what it told.
Unborn == [life |-> "none", inbox |-> <<>>, outbox |-> <<>>, ready |-> FALSE,
           work |-> Idle, aborted |-> FALSE, leaving |-> "no", owners |-> {}]

EngineInit ==
  /\ child = 0 /\ generation = 0 /\ kid = [g \in Generations |-> Unborn]
  /\ start = "none" /\ stopping = NoStop /\ failure = FALSE /\ exhausted = FALSE
  /\ crashes = 0 /\ shut = FALSE /\ closeTask = "none" /\ cleanup = "none"
  /\ retained = FALSE /\ request = NoRequest

Available == ~failure /\ ~shut /\ ~exhausted
Stopped == stopping.phase = "none"
Current(g) == child = g /\ Stopped
Awaited == request.pc \in {"initializing", "asked"}   \* #pending is not empty
ActiveChild == Stopped /\ ~failure /\ child # 0 /\ kid[child].life # "reaped"

Message(type) == [type |-> type, job |-> request.job, owner |-> request.owner]

\* #terminate: joins the termination under way, and a failed one for ever.
Terminate(unexpected, polite) ==
  IF Stopped /\ ~failure
  THEN /\ stopping' = [phase |-> "begun", unexpected |-> unexpected,
                       polite |-> polite /\ ~Awaited, ack |-> "none"]
       /\ start' = "none"
  ELSE UNCHANGED stopVars

Ended(value) == [request EXCEPT !.pc = "done", !.value = value]

\* A request that failed: a cancelled one first joins the end of its child.
Fail ==
  IF request.cancelled
  THEN /\ request' = [request EXCEPT !.pc = "joining", !.stop = TRUE]
       /\ IF ~request.stop /\ request.child \in {0, child}
            THEN Terminate(FALSE, FALSE) ELSE UNCHANGED stopVars
  ELSE request' = Ended(FALSE) /\ UNCHANGED stopVars

\* query, retireConversation and restart are called by the running job.
Call(j, op, owner, aborted) ==
  /\ request.pc = "idle"
  /\ request' = [NoRequest EXCEPT !.job = j, !.op = op, !.owner = owner,
       !.pc = IF op \notin {"retire", "restart"} /\ (aborted \/ ~Available) THEN "done" ELSE "ensure"]
  /\ UNCHANGED <<child, generation, kid, stopVars, fateVars>>

Queries == request.op \notin {"retire", "restart", "none"}

\* #ensure: once no termination is under way, a child is started or reused.
Ensure(aborted) ==
  /\ Queries /\ request.pc = "ensure" /\ Stopped
  /\ IF ~Available \/ aborted \/ request.cancelled THEN Fail
     ELSE /\ start' = IF start = "none" THEN "pending" ELSE start
          /\ request' = [request EXCEPT !.pc = IF start = "none" THEN "forking" ELSE "ready"]
          /\ UNCHANGED stopping
  /\ UNCHANGED <<child, generation, kid, fateVars>>

\* #spawn runs a microtask later: a termination may have begun meanwhile.
\* Ends older than a minute no longer count.
Spawn(aborted, refused, recent) ==
  /\ request.pc = "forking" /\ recent <= crashes
  /\ generation = MaxGenerations => refused
  /\ LET spent == recent >= CrashBudget
         admitted == Available /\ ~aborted /\ Stopped
     IN IF admitted /\ ~spent /\ ~refused
        THEN /\ child' = generation + 1 /\ generation' = generation + 1
             /\ kid' = [kid EXCEPT ![generation + 1].life = "up",
                                   ![generation + 1].inbox = <<Message("initialize")>>]
             /\ request' = [request EXCEPT !.pc = "initializing"]
             /\ UNCHANGED <<stopVars, exhausted>>
        ELSE /\ exhausted' = (exhausted \/ (admitted /\ spent))
             /\ request' = IF request.cancelled THEN [request EXCEPT !.pc = "joining"] ELSE Ended(FALSE)
             /\ start' = "none"
             /\ UNCHANGED <<stopping, child, generation, kid>>
  /\ crashes' = recent
  /\ UNCHANGED <<failure, shut, closeTask, cleanup, retained>>

\* #request: the query is sent to the child that is current now.
Ask(aborted) ==
  /\ Queries /\ request.pc = "ready"
  /\ IF Available /\ ~aborted /\ ~request.cancelled /\ Stopped /\ child # 0
     THEN /\ request' = [request EXCEPT !.pc = "asked", !.child = child]
          /\ kid' = [kid EXCEPT ![child].inbox = Append(@, Message(request.op))]
          /\ UNCHANGED stopVars
     ELSE Fail /\ UNCHANGED kid
  /\ UNCHANGED <<child, generation, fateVars>>

\* The continuation of a reply: other microtasks may have run before it.
Publish(aborted) ==
  /\ Queries /\ request.pc = "answered"
  /\ IF request.cancelled \/ aborted
     THEN /\ request' = [request EXCEPT !.pc = "joining", !.cancelled = TRUE, !.stop = TRUE]
          /\ IF ~request.stop /\ request.child = child
               THEN Terminate(FALSE, FALSE) ELSE UNCHANGED stopVars
     ELSE request' = Ended(Available /\ request.child = child) /\ UNCHANGED stopVars
  /\ UNCHANGED <<child, generation, kid, fateVars>>

\* cancel: before the request has an id the start itself is stopped; later the
\* child is told, and killed when it does not answer in time (KillTimer).
CancelWindow == Queries /\ request.pc \in {"ensure", "forking", "initializing", "ready", "asked", "answered"}
Cancel ==
  IF CancelWindow /\ ~request.cancelled
  THEN /\ request' = [request EXCEPT !.cancelled = TRUE, !.stop = request.child = 0]
       /\ IF request.child = 0
          THEN Terminate(FALSE, FALSE) /\ UNCHANGED kid
          ELSE /\ kid' = IF Current(request.child)
                         THEN [kid EXCEPT ![child].inbox = Append(@, Message("cancel"))]
                         ELSE kid
               /\ UNCHANGED stopVars
  ELSE UNCHANGED <<request, kid, stopVars>>

Timeout ==
  /\ CancelWindow /\ ~request.cancelled /\ Cancel
  /\ UNCHANGED <<child, generation, fateVars>>

KillTimer ==
  /\ CancelWindow /\ request.cancelled /\ ~request.stop
  /\ request' = [request EXCEPT !.stop = TRUE]
  /\ IF request.child = child THEN Terminate(FALSE, FALSE) ELSE UNCHANGED stopVars
  /\ UNCHANGED <<child, generation, kid, fateVars>>

Joined ==
  /\ request.pc = "joining" /\ Stopped
  /\ request' = Ended(FALSE)
  /\ UNCHANGED <<child, generation, kid, stopVars, fateVars>>

\* retireConversation: no child, nothing to retire; otherwise the child confirms
\* or is terminated.
Retire ==
  /\ request.op = "retire" /\ request.pc = "ensure" /\ Stopped
  /\ IF shut \/ failure \/ ~ActiveChild
     THEN request' = Ended(~shut /\ ~failure) /\ UNCHANGED kid
     ELSE /\ request' = [request EXCEPT !.pc = "asked", !.child = child]
          /\ kid' = [kid EXCEPT ![child].inbox = Append(@, Message("retire"))]
  /\ UNCHANGED <<child, generation, stopVars, fateVars>>

RetireTimer ==
  /\ request.op = "retire" /\ request.pc = "asked" /\ request.child = child
  /\ Stopped /\ Terminate(FALSE, FALSE)
  /\ UNCHANGED <<child, generation, kid, fateVars, request>>

Retired ==
  /\ request.op = "retire" /\ request.pc = "answered"
  /\ LET confirmed == request.value /\ ~shut /\ request.child = child
     IN IF confirmed \/ request.child # child
        THEN request' = Ended(confirmed) /\ UNCHANGED stopVars
        ELSE request' = [request EXCEPT !.pc = "joining"] /\ Terminate(FALSE, FALSE)
  /\ UNCHANGED <<child, generation, kid, fateVars>>

Restart ==
  /\ request.op = "restart" /\ request.pc = "ensure"
  /\ IF shut THEN request' = Ended(FALSE) /\ UNCHANGED stopVars
             ELSE request' = [request EXCEPT !.pc = "restarting"] /\ Terminate(FALSE, TRUE)
  /\ UNCHANGED <<child, generation, kid, fateVars>>

Restarted ==
  /\ request.pc = "restarting" /\ Stopped
  /\ request' = Ended(~shut /\ ~failure)
  /\ IF shut \/ failure THEN UNCHANGED <<crashes, exhausted>>
                        ELSE crashes' = 0 /\ exhausted' = FALSE
  /\ UNCHANGED <<child, generation, kid, stopVars, failure, shut, closeTask, cleanup, retained>>

\* close: no request is admitted any more; joins a termination under way.
CloseEngine == closeTask' = "pending" /\ shut' = TRUE /\ Terminate(FALSE, TRUE)

EngineClosed ==
  /\ closeTask = "pending" /\ Stopped
  /\ closeTask' = IF failure THEN "rejected" ELSE "resolved"
  /\ UNCHANGED <<child, generation, kid, stopVars, failure, exhausted, crashes,
                 shut, cleanup, retained, request>>
-----------------------------------------------------------------------------
(* The termination: told, killed, reaped, confirmed.                          *)

\* The pending requests are rejected when the termination settles.
RejectPending ==
  request' = IF ~Awaited THEN request
             ELSE IF request.cancelled THEN [request EXCEPT !.pc = "joining", !.stop = TRUE]
             ELSE Ended(FALSE)

Confirmed(mode) ==
  /\ cleanup' = mode /\ retained' = (retained \/ (child # 0 /\ mode # "graceful"))
  /\ child' = 0 /\ stopping' = NoStop /\ RejectPending
  /\ UNCHANGED <<failure>>

\* Uncertain cleanup is for ever: the child stays owned, nothing is admitted.
Uncertain ==
  /\ failure' = TRUE /\ cleanup' = "uncertain" /\ retained' = TRUE
  /\ stopping' = NoStop /\ RejectPending
  /\ UNCHANGED child

Killed(k) == IF k.life = "up"
             THEN [Unborn EXCEPT !.life = "dead", !.outbox = k.outbox, !.leaving = k.leaving] ELSE k

\* A microtask after #terminate the child is captured.
StopBegins ==
  /\ stopping.phase = "begun"
  /\ crashes' = IF stopping.unexpected /\ child # 0 /\ crashes < CrashBudget THEN crashes + 1 ELSE crashes
  /\ IF child = 0 THEN Confirmed("graceful") /\ UNCHANGED kid
     ELSE /\ IF stopping.polite /\ kid[child].life = "up"
             THEN /\ stopping' = [stopping EXCEPT !.phase = "asking"]
                  /\ kid' = [kid EXCEPT ![child].inbox = Append(@, Message("shutdown"))]
             ELSE /\ stopping' = [stopping EXCEPT !.phase = "reaping"]
                  /\ kid' = [kid EXCEPT ![child] = Killed(@)]
          /\ UNCHANGED <<child, request, failure, cleanup, retained>>
  /\ UNCHANGED <<generation, start, exhausted, shut, closeTask>>

\* The acknowledgement and the exit are both needed before the grace timer.
StopAsked ==
  /\ stopping.phase = "asking"
  /\ LET left == stopping.ack = "yes" /\ kid[child].life = "reaped"
     IN /\ stopping' = [stopping EXCEPT !.phase = "reaping", !.ack = IF @ = "yes" /\ ~left THEN "none" ELSE @]
        /\ kid' = IF left THEN kid ELSE [kid EXCEPT ![child] = Killed(@)]
  /\ UNCHANGED <<child, generation, start, fateVars, request>>

\* The leader is reaped and its process group is gone: descendants that outlive
\* a graceful leader are killed and the scratch is not called removed.
StopReaped(lingering) ==
  /\ stopping.phase = "reaping" /\ kid[child].life = "reaped"
  /\ IF stopping.ack = "error" THEN Uncertain
     ELSE Confirmed(IF stopping.ack = "yes" /\ ~lingering THEN "graceful" ELSE "forced")
  /\ UNCHANGED <<generation, kid, start, exhausted, crashes, shut, closeTask>>

StopExpires ==
  /\ stopping.phase = "reaping" /\ Uncertain
  /\ UNCHANGED <<generation, kid, start, exhausted, crashes, shut, closeTask>>
-----------------------------------------------------------------------------
(* Events of the child as the host sees them.                                 *)

Receive(g) ==
  /\ child = g /\ kid[g].outbox # <<>>   \* later its listeners are gone
  /\ kid' = [kid EXCEPT ![g].outbox = Tail(@)]
  /\ LET m == Head(kid[g].outbox)
     IN CASE child = g /\ stopping.phase = "asking" ->
               /\ stopping' = IF m.type = "ack" THEN [stopping EXCEPT !.ack = IF m.ok THEN "yes" ELSE "error"]
                              ELSE stopping
               /\ UNCHANGED <<start, request>>
          [] Current(g) /\ request.pc = "initializing" ->
               start' = "ready" /\ request' = [request EXCEPT !.pc = "ready"] /\ UNCHANGED stopping
          [] Current(g) /\ request.pc = "asked" /\ m.job = request.job ->
               IF m.ok \/ request.op = "retire"
               THEN request' = [request EXCEPT !.pc = "answered", !.value = m.ok] /\ UNCHANGED stopVars
               ELSE Fail
          [] Current(g) /\ ~Awaited -> Terminate(TRUE, FALSE) /\ UNCHANGED request
          [] OTHER -> UNCHANGED <<stopVars, request>>
  /\ UNCHANGED <<child, generation, fateVars>>

ExitEvent(g) ==
  /\ kid[g].life = "dead"
  /\ kid' = [kid EXCEPT ![g].life = "reaped"]
  /\ IF Current(g) THEN Terminate(TRUE, FALSE) ELSE UNCHANGED stopVars
  /\ UNCHANGED <<child, generation, fateVars, request>>

InitTimer ==
  /\ request.pc = "initializing" /\ Stopped /\ Terminate(TRUE, FALSE)
  /\ UNCHANGED <<child, generation, kid, fateVars, request>>
-----------------------------------------------------------------------------
(* The child: one request at a time, cancel and shutdown at any time.         *)

Reply(k, type, job, ok) ==
  IF k.leaving = "no" THEN [k EXCEPT !.outbox = Append(@, [type |-> type, job |-> job, ok |-> ok])] ELSE k

ChildReceives(g) ==
  /\ kid[g].life = "up" /\ kid[g].inbox # <<>>
  /\ LET m == Head(kid[g].inbox)
         k == [kid[g] EXCEPT !.inbox = Tail(@)]
     IN kid' = [kid EXCEPT ![g] =
          CASE m.type = "cancel" -> [k EXCEPT !.aborted = @ \/ k.work.job = m.job]
            [] m.type = "shutdown" -> IF k.leaving = "no" THEN [k EXCEPT !.leaving = "ack", !.aborted = TRUE] ELSE k
            [] m.type = "initialize" -> Reply([k EXCEPT !.ready = TRUE], "reply", m.job, TRUE)
            [] OTHER -> IF k.leaving # "no" \/ k.work # Idle \/ ~k.ready THEN [k EXCEPT !.leaving = "quiet"]
                        ELSE [k EXCEPT !.work = m, !.aborted = FALSE]]
  /\ UNCHANGED <<child, generation, stopVars, fateVars, request>>

\* The engine ends its request: it fails, or changes what it keeps by owner.
ChildWorks(g, ok) ==
  /\ kid[g].life = "up" /\ kid[g].work # Idle
  /\ kid[g].aborted => ~ok \/ kid[g].work.type = "retire"
  /\ LET m == kid[g].work
         k == [kid[g] EXCEPT !.work = Idle,
                 !.owners = IF ~ok THEN @ ELSE IF m.type \in {"retire", "reset"} THEN @ \ {m.owner} ELSE @ \cup {m.owner}]
     IN kid' = [kid EXCEPT ![g] = Reply(k, "reply", m.job, ok)]
  /\ UNCHANGED <<child, generation, stopVars, fateVars, request>>

\* Leaving: the engine is closed once its work is over, told of, and exited.
ChildLeaves(g, ok) ==
  /\ kid[g].life = "up" /\ kid[g].leaving \in {"ack", "quiet"} /\ kid[g].work = Idle
  /\ kid' = [kid EXCEPT ![g].leaving = "told",
                        ![g].outbox = IF kid[g].leaving = "ack" THEN Append(@, [type |-> "ack", job |-> NoJob, ok |-> ok]) ELSE @]
  /\ UNCHANGED <<child, generation, stopVars, fateVars, request>>

ChildExits(g) ==
  /\ kid[g].life = "up"   \* after its last message, or a crash at any time
  /\ kid' = [kid EXCEPT ![g] = Killed(@)]
  /\ UNCHANGED <<child, generation, stopVars, fateVars, request>>

Child(g) == \/ ChildExits(g)
            \/ \E ok \in BOOLEAN : ChildWorks(g, ok) \/ ChildLeaves(g, ok)

Stopping == \/ StopBegins \/ StopAsked \/ StopExpires
            \/ \E lingering \in BOOLEAN : StopReaped(lingering)

Requesting == \/ KillTimer \/ Joined \/ Retire \/ RetireTimer \/ Retired
              \/ Restart \/ Restarted \/ InitTimer
-----------------------------------------------------------------------------
(* Properties.                                                                *)

\* A child that runs is the one the host owns, however starts, cancellations,
\* crashes and closes interleave; a settled close leaves none behind unless it
\* says so by failing.  A generation that is gone without having told that its
\* scratch was removed is remembered as one that left it.
ChildOwned ==
  /\ \A g \in Generations : kid[g].life = "up" => child = g
  /\ closeTask = "resolved" => child = 0 /\ start # "pending"
  /\ \A g \in 1..generation : child # g /\ kid[g].leaving # "told" => retained \/ failure
=============================================================================
