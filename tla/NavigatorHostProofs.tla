------------------------ MODULE NavigatorHostProofs ------------------------
(* Proofs about the Navigator's host over its child process, for any values   *)
(* of the constants.                                                          *)
EXTENDS NavigatorHost, FiniteSetTheorems, SequenceTheorems, TLAPS

-----------------------------------------------------------------------------
(* The host over its child.                                                   *)

Errands == {"focus", "sync", "reset", "context", "retire", "restart", "none"}
MessageTypes == Errands \cup {"initialize", "cancel", "shutdown"}
MessageRecord == [type : MessageTypes, job : Jobs \cup {NoJob}, owner : Owners \cup {NoJob}]
ErrandRecord == [type : Errands, job : Jobs \cup {NoJob}, owner : Owners \cup {NoJob}]
ReplyRecord == [type : {"reply", "ack"}, job : Jobs \cup {NoJob}, ok : BOOLEAN]
KidRecord ==
  [life : {"none", "up", "dead", "reaped"}, inbox : Seq(MessageRecord), outbox : Seq(ReplyRecord), ready : BOOLEAN,
   work : ErrandRecord, aborted : BOOLEAN, leaving : {"no", "ack", "quiet", "told"}, owners : SUBSET (Owners \cup {NoJob})]
StopRecord ==
  [phase : {"none", "begun", "asking", "reaping"}, unexpected : BOOLEAN, polite : BOOLEAN, ack : {"none", "yes", "error"}]
RequestPoints ==
  {"idle", "ensure", "forking", "initializing", "ready", "asked", "answered", "joining", "restarting", "done"}
RequestRecord ==
  [job : Jobs \cup {NoJob}, op : Errands, owner : Owners \cup {NoJob}, pc : RequestPoints, child : Nat,
   cancelled : BOOLEAN, stop : BOOLEAN, value : BOOLEAN]
ProcessTyped ==
  /\ generation \in 0 .. MaxGenerations /\ child \in {0, generation}
  /\ kid \in [Generations -> KidRecord]
  /\ start \in {"none", "pending", "ready"} /\ stopping \in StopRecord
  /\ failure \in BOOLEAN /\ exhausted \in BOOLEAN /\ crashes \in Nat /\ shut \in BOOLEAN
  /\ closeTask \in {"none", "pending", "resolved", "rejected"}
  /\ cleanup \in {"none", "graceful", "forced", "uncertain"} /\ retained \in BOOLEAN
  /\ request \in RequestRecord
InvocationRecord ==
  [pc : {"new", "admitting", "queued", "reading", "asking", "returned"}, root : Roots \cup {NoJob},
   op : {"focus", "sync", "reset", "reload", "context", "none"}, revision : Nat, snapshot : Nat]
HostTyped ==
  /\ lease \in [Roots -> {"none", "live", "revoked"}]
  /\ controls \in SUBSET Owners
  /\ retiring \in [Owners -> {"no", "pending", "latched", "done"}]
  /\ inv \in [Invocations -> InvocationRecord]
  /\ observed \in [Roots -> [known : BOOLEAN, dirty : BOOLEAN, ops : Nat]]
  /\ version \in [Roots -> Nat] /\ covered \in [Roots -> Nat]
  /\ stored \in SUBSET [root : Roots, tag : Nat, by : Nat] /\ claims \in SUBSET Roots
  /\ queue \in Seq(Jobs) /\ running \in Jobs \cup {NoJob}
  /\ hostClosing \in {"open", "aborted", "closing", "removed", "kept"}

\* A child is there from its start until it was reaped; none is started while
\* one is there, and none is there after a close that succeeded.
Single ==
  /\ start # "none" => Stopped
  /\ Stopped /\ ~failure /\ start = "none" => child = 0 \/ request.pc = "initializing"
  /\ request.pc = "forking" => child = 0
  /\ closeTask # "none" => shut
  /\ shut /\ Stopped /\ ~failure => start = "none" /\ child = 0
  /\ failure => Stopped
  /\ stopping.phase \in {"asking", "reaping"} => child # 0
  /\ child # 0 /\ Stopped /\ ~failure => kid[child].life \in {"up", "dead"}
  /\ \A g \in Generations : g > generation => kid[g] = Unborn
  /\ closeTask = "resolved" => ~failure
  /\ hostClosing = "removed" => closeTask = "resolved"
  /\ ChildOwned

\* After the message to leave a child is sent nothing but cancellations, so
\* that what it told last stays so.
Cancels(k) == \A n \in 1 .. Len(k.inbox) : k.inbox[n].type = "cancel"
Dismissed(k) == \E n \in 1 .. Len(k.inbox) : k.inbox[n].type = "shutdown"
HasAck(k) == \E n \in 1 .. Len(k.outbox) : k.outbox[n].type = "ack"
Parting(k) ==
  /\ \A n \in 1 .. Len(k.inbox) : k.inbox[n].type = "shutdown" =>
       \A m \in 1 .. Len(k.inbox) : m > n => k.inbox[m].type = "cancel"
  /\ k.leaving = "ack" => Cancels(k)
  /\ HasAck(k) => Cancels(k) /\ k.leaving = "told"
Leaving(k) == Dismissed(k) \/ k.leaving = "ack" \/ HasAck(k)
Farewell ==
  /\ \A g \in Generations : Parting(kid[g])
  /\ child # 0 /\ Leaving(kid[child]) => failure \/ stopping.phase \in {"asking", "reaping"}
  /\ stopping.ack = "yes" => /\ stopping.phase \in {"asking", "reaping"}
                             /\ kid[child].leaving = "told" /\ Cancels(kid[child])

\* The request is that of the job that runs, and of one child.
Errand(i) == IF inv[i].op = "reload" THEN "restart" ELSE inv[i].op
RequestSound ==
  /\ request.pc = "idle" <=> request.job = NoJob
  /\ request.pc # "idle" => request.op # "none" /\ request.owner \in Owners
  /\ request.pc \in {"forking", "initializing", "ready"} => Queries
  /\ request.pc = "restarting" => request.op = "restart"
  /\ Awaited => child # 0 /\ ~failure
  /\ request.pc = "asked" => request.child = child
  /\ request.pc = "answered" => request.child \in 1 .. generation
  /\ request.pc = "done" /\ request.value /\ Queries => request.child = generation /\ generation # 0
  /\ \A i \in Invocations :
       /\ inv[i].pc = "asking" <=> request.job = i
       /\ inv[i].pc \in {"admitting", "queued", "reading", "asking"} => inv[i].root \in Roots /\ inv[i].op # "none"
       /\ request.job = i => request.op = Errand(i) /\ request.owner = OwnerOf[inv[i].root]
  /\ request.job \in Owners => request.op = "retire" /\ request.owner = request.job
  /\ Open /\ request.job \in Invocations => retiring[request.owner] # "done"

\* Nothing of a conversation is in a child or on its way to it.
Retiring == {"cancel", "shutdown", "initialize", "retire", "reset"}
CleanOf(k, c) ==
  /\ c \notin k.owners
  /\ k.work.owner = c => k.work.type \in Retiring
  /\ \A n \in 1 .. Len(k.inbox) : k.inbox[n].owner = c => k.inbox[n].type \in Retiring
RetiredClean ==
  /\ \A c \in Owners : Open /\ retiring[c] = "done" /\ child # 0 => CleanOf(kid[child], c)
  /\ /\ request.op = "retire" /\ request.value /\ child # 0
     /\ request.pc = "done" \/ (request.pc = "answered" /\ request.child = child)
     => CleanOf(kid[child], request.owner)

\* What a sync that was taken saw: no change, or one that was marked since.
Synced(i) ==
  inv[i].op = "sync" /\ Checked(inv[i].root) =>
    \/ version[inv[i].root] = inv[i].snapshot
    \/ observed[inv[i].root].dirty /\ observed[inv[i].root].ops > inv[i].revision

\* The child that serves has at most the one message of the request, or works
\* for it, or has answered it.
Exchange ==
  child # 0 /\ Stopped /\ ~failure =>
    LET k == kid[child]
        busy == k.work # Idle \/ k.outbox # <<>>
    IN /\ \A n \in 1 .. Len(k.inbox) :
            \/ k.inbox[n].type = "cancel"
            \/ request.pc = "initializing" /\ k.inbox[n].type = "initialize" /\ ~busy
            \/ request.pc = "asked" /\ k.inbox[n] = Message(request.op) /\ ~busy
       /\ \A n, m \in 1 .. Len(k.inbox) : k.inbox[n].type # "cancel" /\ k.inbox[m].type # "cancel" => n = m
       /\ k.work # Idle => request.pc = "asked" /\ k.work = Message(request.op) /\ k.outbox = <<>>
       /\ k.outbox # <<>> => Awaited /\ Len(k.outbox) = 1
       /\ request.pc = "asked" /\ k.outbox # <<>> => k.outbox[1].job = request.job
       /\ request.pc = "asked" /\ busy /\ request.job \in Invocations => Synced(request.job)
       /\ request.pc = "asked" /\ k.outbox # <<>> /\ request.op = "retire" /\ k.outbox[1].ok =>
            CleanOf(k, request.owner)

Marked ==
  /\ \A l \in Roots : lease[l] = "none" => version[l] = 0
  /\ \A i \in Invocations : inv[i].pc = "asking" /\ inv[i].op = "sync" /\ Checked(inv[i].root) =>
       observed[inv[i].root].ops >= inv[i].revision
  /\ request.job \in Invocations /\ (request.pc = "answered" \/ (request.pc = "done" /\ request.value)) =>
       Synced(request.job)
  /\ DirtyUntilSynced

\* A job is of a root that was bound, or of a retirement that was asked for.
Attached ==
  /\ \A i \in Invocations : inv[i].pc \in {"admitting", "queued", "reading", "asking"} => lease[inv[i].root] # "none"
  /\ \A i \in Invocations : inv[i].pc = "reading" => inv[i].op = "sync"
  /\ Open => \A c \in Owners : running = c \/ (\E n \in 1 .. Len(queue) : queue[n] = c) => retiring[c] # "no"

HostInvariant ==
  /\ ProcessTyped /\ HostTyped /\ Single /\ Farewell /\ RequestSound /\ RetiredClean /\ Exchange /\ Marked
  /\ Attached /\ RevokedForgotten /\ RemovedAfterAll

\* What posting and taking a message do to a queue of them.
LEMMA PostedIs ==
  ASSUME NEW S, NEW s \in Seq(S), NEW m \in S
  PROVE  /\ Append(s, m) \in Seq(S) /\ Len(Append(s, m)) = Len(s) + 1 /\ Len(s) \in Nat
         /\ \A n \in 1 .. Len(s) : Append(s, m)[n] = s[n]
         /\ Append(s, m)[Len(s) + 1] = m
BY AppendProperties
LEMMA TakenIs ==
  ASSUME NEW S, NEW s \in Seq(S), s # <<>>
  PROVE  /\ Head(s) = s[1] /\ Head(s) \in S /\ Tail(s) \in Seq(S) /\ Len(s) \in Nat \ {0}
         /\ Len(Tail(s)) = Len(s) - 1 /\ \A n \in 1 .. Len(Tail(s)) : Tail(s)[n] = s[n + 1]
BY HeadTailProperties

LEMMA KidWith ==
  ASSUME NEW K, K = [Generations -> KidRecord], NEW f \in K, NEW g \in Generations, NEW k \in KidRecord
  PROVE  /\ [f EXCEPT ![g] = k] \in K /\ [f EXCEPT ![g] = k][g] = k
         /\ \A h \in Generations : h # g => [f EXCEPT ![g] = k][h] = f[h]
OBVIOUS

LEMMA UnbornIs ==
  /\ Idle \in ErrandRecord /\ Unborn \in KidRecord /\ NoStop \in StopRecord /\ NoRequest \in RequestRecord
  /\ Idle.type = "none" /\ Idle.job = NoJob /\ Idle.owner = NoJob
<1>1. "none" \in MessageTypes /\ "none" \in Errands /\ 0 \in Nat
  BY DEF MessageTypes, Errands
<1>2. Idle \in ErrandRecord /\ Idle.type = "none" /\ Idle.job = NoJob /\ Idle.owner = NoJob
  BY <1>1 DEF Idle, ErrandRecord
<1>3. Unborn \in KidRecord
  <2>1. <<>> \in Seq(MessageRecord) /\ <<>> \in Seq(ReplyRecord) /\ {} \in SUBSET (Owners \cup {NoJob})
    OBVIOUS
  <2> HIDE DEF Idle
  <2> QED BY <1>2, <2>1 DEF Unborn, KidRecord
<1>4. NoStop \in StopRecord
  BY DEF NoStop, StopRecord
<1>5. NoRequest \in RequestRecord
  BY <1>1 DEF NoRequest, RequestRecord, RequestPoints
<1> QED BY <1>2, <1>3, <1>4, <1>5

LEMMA ProcessIs ==
  ASSUME ProcessTyped
  PROVE  /\ MaxGenerations \in Nat /\ generation \in Nat /\ child \in Nat
         /\ child # 0 => child \in Generations /\ kid[child] \in KidRecord
         /\ \A g \in Generations : kid[g] \in KidRecord /\ g \in Nat /\ g # 0
         /\ kid \in [Generations -> KidRecord]
BY EngineBounds DEF ProcessTyped, Generations

\* A message of the request.
LEMMA MessageIs ==
  ASSUME ProcessTyped, NEW t \in MessageTypes
  PROVE  Message(t) \in MessageRecord
BY DEF ProcessTyped, Message, MessageRecord, RequestRecord

-----------------------------------------------------------------------------
(* The steps of the engine process, by what they do.                          *)

\* The request stays the same errand; its marks may change; it gives up.
Same == request'.job = request.job /\ request'.op = request.op /\ request'.owner = request.owner
Flagged ==
  /\ request' \in RequestRecord /\ Same
  /\ request'.pc = request.pc /\ request'.child = request.child /\ request'.value = request.value
GivesUp ==
  /\ request' \in RequestRecord /\ Same /\ request.pc # "idle" /\ request'.pc \in {"joining", "done"}
  /\ request'.pc = "done" => ~request'.value

\* A termination begins, or none does.
Begins ==
  /\ Stopped /\ ~failure /\ start' = "none"
  /\ stopping' \in StopRecord /\ stopping'.phase = "begun" /\ stopping'.ack = "none"
Stops == Begins \/ UNCHANGED stopVars

\* A request that ends well.
Earned ==
  \/ Queries /\ request.pc = "answered" /\ request.child = child
  \/ request.op = "retire" /\ request.pc = "answered" /\ request.value /\ request.child = child
  \/ request.op = "retire" /\ Stopped /\ ~failure /\ (child = 0 \/ kid[child].life = "reaped")
  \/ request.op = "restart"

\* A turn of the host that sends nothing.
Turned ==
  /\ UNCHANGED <<child, generation, kid, failure, shut, closeTask, cleanup, retained>>
  /\ crashes' \in Nat /\ exhausted' \in BOOLEAN
  /\ \/ Stops
     \/ /\ start' = "pending" /\ stopping' = stopping /\ Stopped /\ ~failure /\ ~shut
        /\ start = "none" /\ request.pc = "ensure"
     \/ start' = "none" /\ stopping' = stopping /\ request.pc = "forking"
  /\ \/ Flagged
     \/ /\ request' \in RequestRecord /\ Same /\ request.pc \notin {"idle", "initializing", "asked"}
        /\ request'.pc \in {"forking", "ready", "joining", "restarting", "done"}
        /\ request'.pc = "forking" => start' = "pending" /\ start = "none" /\ Stopped /\ ~failure /\ request.pc = "ensure"
        /\ request'.pc \in {"forking", "ready"} => Queries
        /\ request'.pc = "restarting" => request.op = "restart"
        /\ request'.pc = "done" /\ request'.value => Earned /\ request'.child = request.child

\* A message is posted: a cancellation, or the request itself.
Post(m) ==
  /\ child # 0 /\ Stopped /\ kid' = [kid EXCEPT ![child].inbox = Append(@, m)]
  /\ UNCHANGED <<child, generation, stopVars, fateVars>>
Warned == Flagged /\ Post(Message("cancel"))
AsksChild ==
  /\ Post(Message(request.op)) /\ ~failure /\ request.pc \in {"ready", "ensure"} /\ (Queries \/ request.op = "retire")
  /\ request' = [request EXCEPT !.pc = "asked", !.child = child]

\* A child is forked.
Forks ==
  /\ request.pc = "forking" /\ Available /\ Stopped /\ generation # MaxGenerations
  /\ child' = generation + 1 /\ generation' = generation + 1
  /\ kid' = [kid EXCEPT ![generation + 1].life = "up", ![generation + 1].inbox = <<Message("initialize")>>]
  /\ request' = [request EXCEPT !.pc = "initializing"] /\ crashes' \in Nat
  /\ UNCHANGED <<stopVars, failure, exhausted, shut, closeTask, cleanup, retained>>

LEMMA TerminateIs ==
  ASSUME ProcessTyped, NEW u \in BOOLEAN, NEW p \in BOOLEAN, Terminate(u, p)
  PROVE  Stops /\ (Stopped /\ ~failure => Begins)
BY DEF Terminate, Stops, Begins, StopRecord, ProcessTyped, stopVars

LEMMA EndedIs ==
  ASSUME ProcessTyped, NEW v \in BOOLEAN, request' = Ended(v)
  PROVE  /\ request' \in RequestRecord /\ Same /\ request'.pc = "done" /\ request'.value = v
         /\ request'.child = request.child
BY DEF ProcessTyped, Ended, RequestRecord, RequestPoints, Same

LEMMA FailIs ==
  ASSUME ProcessTyped, request.pc # "idle", Fail
  PROVE  GivesUp /\ Stops
<1>1. CASE request.cancelled
  <2>0. request' = [request EXCEPT !.pc = "joining", !.stop = TRUE]
    BY <1>1 DEF Fail
  <2>1. GivesUp
    <3> QED BY <2>0 DEF GivesUp, ProcessTyped, RequestRecord, RequestPoints, Same
  <2>2. Stops
    BY <1>1, TerminateIs DEF Fail, Stops
  <2> QED BY <2>1, <2>2
<1>2. CASE ~request.cancelled
  BY <1>2, EndedIs DEF Fail, GivesUp, Stops
<1> QED BY <1>1, <1>2

LEMMA CancelIs ==
  ASSUME ProcessTyped, Cancel, UNCHANGED <<child, generation, fateVars>>
  PROVE  Warned \/ (Flagged /\ Stops /\ UNCHANGED kid)
<1>1. Flagged
  <2>1. CASE CancelWindow /\ ~request.cancelled
    BY <2>1 DEF Cancel, ProcessTyped, RequestRecord, Flagged, Same
  <2>2. CASE ~(CancelWindow /\ ~request.cancelled)
    BY <2>2 DEF Cancel, ProcessTyped, Flagged, Same
  <2> QED BY <2>1, <2>2
<1>2. CASE CancelWindow /\ ~request.cancelled /\ request.child = 0
  BY <1>1, <1>2, TerminateIs DEF Cancel
<1>3. CASE CancelWindow /\ ~request.cancelled /\ request.child # 0
  BY <1>1, <1>3 DEF Cancel, Warned, Post, Current, Stops, ProcessTyped, RequestRecord
<1>4. CASE ~(CancelWindow /\ ~request.cancelled)
  BY <1>1, <1>4 DEF Cancel, Stops
<1> QED BY <1>2, <1>3, <1>4

LEMMA Stays == ASSUME ProcessTyped PROVE crashes \in Nat /\ exhausted \in BOOLEAN /\ request \in RequestRecord
BY DEF ProcessTyped

LEMMA EnsureIs == ASSUME ProcessTyped, NEW a \in BOOLEAN, Ensure(a) PROVE Turned
<1>1. /\ Queries /\ request.pc = "ensure" /\ Stopped /\ UNCHANGED <<child, generation, kid, fateVars>>
  BY DEF Ensure
<1>2. CASE ~Available \/ a \/ request.cancelled
  <2>1. GivesUp /\ Stops
    BY <1>1, <1>2, FailIs DEF Ensure
  <2> QED BY <1>1, <2>1, Stays DEF Turned, GivesUp, fateVars
<1>3. CASE ~(~Available \/ a \/ request.cancelled)
  <2>1. /\ start' = IF start = "none" THEN "pending" ELSE start
        /\ request' = [request EXCEPT !.pc = IF start = "none" THEN "forking" ELSE "ready"]
        /\ stopping' = stopping /\ ~failure /\ ~shut
    BY <1>3 DEF Ensure, Available
  <2>2. /\ request' \in RequestRecord /\ Same /\ request'.pc = IF start = "none" THEN "forking" ELSE "ready"
    BY <2>1 DEF ProcessTyped, RequestRecord, RequestPoints, Same
  <2> QED BY <1>1, <2>1, <2>2, Stays DEF Turned, fateVars, Stops, stopVars
<1> QED BY <1>2, <1>3

LEMMA SpawnIs ==
  ASSUME ProcessTyped, RequestSound, NEW a \in BOOLEAN, NEW refused \in BOOLEAN, NEW recent \in 0 .. CrashBudget,
         Spawn(a, refused, recent)
  PROVE  Turned \/ Forks
<1> DEFINE admitted == Available /\ ~a /\ Stopped
           spent == recent >= CrashBudget
<1>1. /\ request.pc = "forking" /\ crashes' = recent /\ recent \in Nat
      /\ UNCHANGED <<failure, shut, closeTask, cleanup, retained>> /\ (generation = MaxGenerations => refused)
  BY EngineBounds DEF Spawn
<1>2. CASE admitted /\ ~spent /\ ~refused
  BY <1>1, <1>2 DEF Spawn, Forks, stopVars
<1>3. CASE ~(admitted /\ ~spent /\ ~refused)
  <2>1. /\ exhausted' = (exhausted \/ (admitted /\ spent)) /\ start' = "none"
        /\ request' = IF request.cancelled THEN [request EXCEPT !.pc = "joining"] ELSE Ended(FALSE)
        /\ UNCHANGED <<stopping, child, generation, kid>>
    BY <1>3 DEF Spawn
  <2>2. GivesUp
    <3>1. CASE request.cancelled
      <4>1. request' = [request EXCEPT !.pc = "joining"]
        BY <2>1, <3>1
      <4> QED
        BY <4>1, <1>1 DEF GivesUp, ProcessTyped, RequestRecord, RequestPoints, Same
    <3>2. CASE ~request.cancelled
      BY <2>1, <3>2, <1>1, EndedIs DEF GivesUp
    <3> QED BY <3>1, <3>2
  <2>3. exhausted' \in BOOLEAN
    BY <2>1, Stays
  <2> QED BY <1>1, <2>1, <2>2, <2>3 DEF Turned, GivesUp
<1> QED BY <1>2, <1>3

LEMMA AskIs == ASSUME ProcessTyped, NEW a \in BOOLEAN, Ask(a) PROVE Turned \/ AsksChild
<1>1. /\ Queries /\ request.pc = "ready" /\ UNCHANGED <<child, generation, fateVars>>
  BY DEF Ask
<1>2. CASE Available /\ ~a /\ ~request.cancelled /\ Stopped /\ child # 0
  BY <1>1, <1>2 DEF Ask, AsksChild, Post, Available
<1>3. CASE ~(Available /\ ~a /\ ~request.cancelled /\ Stopped /\ child # 0)
  <2>1. GivesUp /\ Stops /\ UNCHANGED kid
    BY <1>1, <1>3, FailIs DEF Ask
  <2> QED BY <1>1, <2>1, Stays DEF Turned, GivesUp, fateVars
<1> QED BY <1>2, <1>3

LEMMA PublishIs == ASSUME ProcessTyped, NEW a \in BOOLEAN, Publish(a) PROVE Turned
<1>1. /\ Queries /\ request.pc = "answered" /\ UNCHANGED <<child, generation, kid, fateVars>>
  BY DEF Publish
<1>2. CASE request.cancelled \/ a
  <2>1. request' = [request EXCEPT !.pc = "joining", !.cancelled = TRUE, !.stop = TRUE]
    BY <1>2 DEF Publish
  <2>2. GivesUp
    BY <1>1, <2>1 DEF GivesUp, ProcessTyped, RequestRecord, RequestPoints, Same
  <2>3. Stops
    BY <1>2, TerminateIs DEF Publish, Stops
  <2> QED BY <1>1, <2>2, <2>3, Stays DEF Turned, GivesUp, fateVars
<1>3. CASE ~(request.cancelled \/ a)
  <2>1. request' = Ended(Available /\ request.child = child) /\ UNCHANGED stopVars
    BY <1>3 DEF Publish
  <2>2. (Available /\ request.child = child) \in BOOLEAN
    OBVIOUS
  <2>3. /\ request' \in RequestRecord /\ Same /\ request'.pc = "done" /\ request'.child = request.child
        /\ request'.value = (Available /\ request.child = child)
    BY <2>1, <2>2, EndedIs DEF Available
  <2> QED BY <1>1, <2>1, <2>3, Stays DEF Turned, Stops, Earned, fateVars
<1> QED BY <1>2, <1>3

LEMMA QueryingIs ==
  ASSUME ProcessTyped, RequestSound, HostTyped, Querying
  PROVE  Turned \/ Forks \/ AsksChild
<1> DEFINE a == Aborted(request.job)
<1>1. request.job \in Invocations => inv[request.job].root \in Roots
  <2>1. request.job \in Invocations => inv[request.job].pc = "asking"
    BY DEF RequestSound
  <2> QED BY <2>1 DEF RequestSound
<1>2. a \in BOOLEAN
  BY <1>1 DEF Aborted, Open, Checked
<1>3. \/ Ensure(a) \/ Ask(a) \/ Publish(a)
      \/ \E refused \in BOOLEAN, recent \in 0 .. CrashBudget : Spawn(a, refused, recent)
  BY DEF Querying
<1> HIDE DEF a
<1> QED BY <1>2, <1>3, EnsureIs, SpawnIs, AskIs, PublishIs

LEMMA ChildKept == ASSUME ProcessTyped, UNCHANGED request PROVE Flagged
BY DEF Flagged, Same, ProcessTyped

LEMMA KillTimerIs == ASSUME ProcessTyped, KillTimer PROVE Turned
<1>1. /\ request' = [request EXCEPT !.stop = TRUE] /\ UNCHANGED <<child, generation, kid, fateVars>>
      /\ Terminate(FALSE, FALSE) \/ UNCHANGED stopVars
  BY DEF KillTimer
<1>2. Flagged
  BY <1>1 DEF Flagged, Same, ProcessTyped, RequestRecord
<1>3. Stops
  BY <1>1, TerminateIs DEF Stops
<1> QED BY <1>1, <1>2, <1>3, Stays DEF Turned, fateVars

LEMMA JoinedIs == ASSUME ProcessTyped, Joined PROVE Turned
<1>1. /\ request.pc = "joining" /\ request' = Ended(FALSE) /\ UNCHANGED <<child, generation, kid, stopVars, fateVars>>
  BY DEF Joined
<1>2. /\ request' \in RequestRecord /\ Same /\ request'.pc = "done" /\ request'.value = FALSE
  BY <1>1, EndedIs
<1> QED BY <1>1, <1>2, Stays DEF Turned, fateVars, Stops

LEMMA RetireIs == ASSUME ProcessTyped, Retire PROVE Turned \/ AsksChild
<1>1. /\ request.op = "retire" /\ request.pc = "ensure" /\ Stopped /\ UNCHANGED <<child, generation, stopVars, fateVars>>
  BY DEF Retire
<1>2. CASE shut \/ failure \/ ~ActiveChild
  <2>1. request' = Ended(~shut /\ ~failure) /\ UNCHANGED kid
    BY <1>2 DEF Retire
  <2>2. (~shut /\ ~failure) \in BOOLEAN
    OBVIOUS
  <2>3. /\ request' \in RequestRecord /\ Same /\ request'.pc = "done" /\ request'.child = request.child
        /\ request'.value = (~shut /\ ~failure)
    BY <2>1, <2>2, EndedIs
  <2>4. request'.value => Earned
    BY <1>1, <1>2, <2>3 DEF Earned, ActiveChild
  <2> QED BY <1>1, <2>1, <2>3, <2>4, Stays DEF Turned, fateVars, Stops
<1>3. CASE ~(shut \/ failure \/ ~ActiveChild)
  <2>1. /\ request' = [request EXCEPT !.pc = "asked", !.child = child]
        /\ kid' = [kid EXCEPT ![child].inbox = Append(@, Message("retire"))] /\ ~failure /\ child # 0
    BY <1>3 DEF Retire, ActiveChild
  <2> QED BY <1>1, <2>1 DEF AsksChild, Post
<1> QED BY <1>2, <1>3

LEMMA RetireTimerIs == ASSUME ProcessTyped, RetireTimer PROVE Turned
<1>1. UNCHANGED <<child, generation, kid, fateVars, request>> /\ Stops
  BY TerminateIs DEF RetireTimer
<1>2. Flagged
  BY <1>1, ChildKept
<1> QED BY <1>1, <1>2, Stays DEF Turned, fateVars

LEMMA RetiredIs == ASSUME ProcessTyped, Retired PROVE Turned
<1> DEFINE confirmed == request.value /\ ~shut /\ request.child = child
<1>1. /\ request.op = "retire" /\ request.pc = "answered" /\ UNCHANGED <<child, generation, kid, fateVars>>
  BY DEF Retired
<1>2. CASE confirmed \/ request.child # child
  <2>1. request' = Ended(confirmed) /\ UNCHANGED stopVars
    BY <1>2 DEF Retired
  <2>2. confirmed \in BOOLEAN
    OBVIOUS
  <2>3. /\ request' \in RequestRecord /\ Same /\ request'.pc = "done" /\ request'.child = request.child
        /\ request'.value = confirmed
    BY <2>1, <2>2, EndedIs
  <2> QED BY <1>1, <2>1, <2>3, Stays DEF Turned, fateVars, Stops, Earned
<1>3. CASE ~(confirmed \/ request.child # child)
  <2>1. request' = [request EXCEPT !.pc = "joining"] /\ Terminate(FALSE, FALSE)
    BY <1>3 DEF Retired
  <2>2. GivesUp
    BY <1>1, <2>1 DEF GivesUp, ProcessTyped, RequestRecord, RequestPoints, Same
  <2>3. Stops
    BY <2>1, TerminateIs
  <2> QED BY <1>1, <2>2, <2>3, Stays DEF Turned, GivesUp, fateVars
<1> QED BY <1>2, <1>3

LEMMA RestartIs == ASSUME ProcessTyped, Restart PROVE Turned
<1>1. /\ request.op = "restart" /\ request.pc = "ensure" /\ UNCHANGED <<child, generation, kid, fateVars>>
  BY DEF Restart
<1>2. CASE shut
  <2>1. /\ request' \in RequestRecord /\ Same /\ request'.pc = "done" /\ request'.value = FALSE /\ UNCHANGED stopVars
    BY <1>2, EndedIs DEF Restart
  <2> QED BY <1>1, <2>1, Stays DEF Turned, fateVars, Stops
<1>3. CASE ~shut
  <2>1. request' = [request EXCEPT !.pc = "restarting"] /\ Terminate(FALSE, TRUE)
    BY <1>3 DEF Restart
  <2>2. /\ request' \in RequestRecord /\ Same /\ request'.pc = "restarting" /\ Stops
    BY <2>1, TerminateIs DEF ProcessTyped, RequestRecord, RequestPoints, Same
  <2> QED BY <1>1, <2>2, Stays DEF Turned, fateVars
<1> QED BY <1>2, <1>3

LEMMA RestartedIs == ASSUME ProcessTyped, RequestSound, Restarted PROVE Turned
<1>1. /\ request.pc = "restarting" /\ request.op = "restart" /\ request' = Ended(~shut /\ ~failure)
      /\ UNCHANGED <<child, generation, kid, stopVars, failure, shut, closeTask, cleanup, retained>>
  BY DEF Restarted, RequestSound
<1>2. crashes' \in Nat /\ exhausted' \in BOOLEAN
  <2>1. crashes \in Nat /\ exhausted \in BOOLEAN
    BY Stays
  <2>2. CASE shut \/ failure
    <3>1. UNCHANGED <<crashes, exhausted>>
      BY <2>2, Zenon DEF Restarted
    <3> QED BY <2>1, <3>1
  <2>3. CASE ~(shut \/ failure)
    <3>1. crashes' = 0 /\ exhausted' = FALSE
      BY <2>3, Zenon DEF Restarted
    <3> QED BY <3>1
  <2> QED BY <2>2, <2>3
<1>3. (~shut /\ ~failure) \in BOOLEAN
  OBVIOUS
<1>4. /\ request' \in RequestRecord /\ Same /\ request'.pc = "done" /\ request'.child = request.child
  BY <1>1, <1>3, EndedIs
<1> QED BY <1>1, <1>2, <1>4 DEF Turned, Stops, Earned

LEMMA InitTimerIs == ASSUME ProcessTyped, InitTimer PROVE Turned
<1>1. UNCHANGED <<child, generation, kid, fateVars, request>> /\ Stops
  BY TerminateIs DEF InitTimer
<1>2. Flagged
  BY <1>1, ChildKept
<1> QED BY <1>1, <1>2, Stays DEF Turned, fateVars

LEMMA RequestingIs ==
  ASSUME ProcessTyped, RequestSound, Requesting
  PROVE  Turned \/ AsksChild
BY KillTimerIs, JoinedIs, RetireIs, RetireTimerIs, RetiredIs, RestartIs, RestartedIs, InitTimerIs DEF Requesting

LEMMA TimeoutIs == ASSUME ProcessTyped, Timeout PROVE Turned \/ Warned
<1>1. Cancel /\ UNCHANGED <<child, generation, fateVars>>
  BY DEF Timeout
<1>2. Warned \/ (Flagged /\ Stops /\ UNCHANGED kid)
  BY <1>1, CancelIs
<1> QED BY <1>1, <1>2, Stays DEF Turned, fateVars

-----------------------------------------------------------------------------
(* The end of a child, and its own steps.                                     *)

\* Whoever waits for the child is let go when its termination settles.
Rejected == IF Awaited THEN GivesUp ELSE UNCHANGED request
Cleaned ==
  /\ child' = 0 /\ stopping' = NoStop /\ Rejected
  /\ \/ child = 0 /\ UNCHANGED retained /\ stopping.phase = "begun"
     \/ /\ child # 0 /\ stopping.phase = "reaping" /\ kid[child].life = "reaped"
        /\ retained' = TRUE \/ (UNCHANGED retained /\ stopping.ack = "yes")
  /\ cleanup' \in {"graceful", "forced"} /\ crashes' \in Nat
  /\ UNCHANGED <<generation, kid, start, failure, exhausted, shut, closeTask>>
LeftUncertain ==
  /\ failure' = TRUE /\ cleanup' = "uncertain" /\ retained' = TRUE /\ stopping' = NoStop /\ Rejected
  /\ stopping.phase = "reaping"
  /\ UNCHANGED <<child, generation, kid, start, exhausted, crashes, shut, closeTask>>
\* The child is told to leave, or killed.
Presses ==
  /\ child # 0 /\ stopping' \in StopRecord /\ crashes' \in Nat
  /\ UNCHANGED <<child, generation, start, failure, exhausted, shut, closeTask, cleanup, retained, request>>
  /\ \/ /\ stopping.phase = "begun" /\ stopping'.phase = "asking" /\ stopping'.ack = stopping.ack
        /\ kid' = [kid EXCEPT ![child].inbox = Append(@, Message("shutdown"))]
     \/ /\ stopping.phase \in {"begun", "asking"} /\ stopping'.phase = "reaping"
        /\ stopping'.ack = stopping.ack \/ (stopping'.ack = "none")
        /\ kid' = [kid EXCEPT ![child] = Killed(@)] \/ kid' = kid

LEMMA RejectedIs == ASSUME ProcessTyped, RejectPending PROVE Rejected
<1>1. CASE ~Awaited
  BY <1>1 DEF RejectPending, Rejected
<1>2. CASE Awaited /\ request.cancelled
  <2>1. request' = [request EXCEPT !.pc = "joining", !.stop = TRUE]
    BY <1>2 DEF RejectPending
  <2> QED
    BY <1>2, <2>1 DEF Rejected, Awaited, GivesUp, ProcessTyped, RequestRecord, RequestPoints, Same
<1>3. CASE Awaited /\ ~request.cancelled
  BY <1>3, EndedIs DEF RejectPending, Rejected, Awaited, GivesUp
<1> QED BY <1>1, <1>2, <1>3

LEMMA StopBeginsIs == ASSUME ProcessTyped, StopBegins PROVE Cleaned \/ Presses
<1>1. /\ stopping.phase = "begun" /\ UNCHANGED <<generation, start, exhausted, shut, closeTask>>
  BY DEF StopBegins
<1>2. crashes' \in Nat
  <2>1. crashes \in Nat /\ (crashes' = crashes \/ crashes' = crashes + 1)
    BY Stays DEF StopBegins
  <2> QED BY <2>1
<1>3. CASE child = 0
  <2>1. Confirmed("graceful") /\ UNCHANGED kid
    BY <1>3 DEF StopBegins
  <2>2. retained' = retained
    BY <2>1, <1>3 DEF Confirmed, ProcessTyped
  <2>3. Rejected
    BY <2>1, RejectedIs DEF Confirmed
  <2> QED BY <1>1, <1>2, <1>3, <2>1, <2>2, <2>3 DEF Confirmed, Cleaned
<1>4. CASE child # 0
  <2>1. UNCHANGED <<child, request, failure, cleanup, retained>>
    BY <1>4 DEF StopBegins
  <2>2. CASE stopping.polite /\ kid[child].life = "up"
    <3>1. /\ stopping' = [stopping EXCEPT !.phase = "asking"]
          /\ kid' = [kid EXCEPT ![child].inbox = Append(@, Message("shutdown"))]
      BY <1>4, <2>2 DEF StopBegins
    <3>2. stopping' \in StopRecord /\ stopping'.phase = "asking" /\ stopping'.ack = stopping.ack
      BY <3>1 DEF ProcessTyped, StopRecord
    <3> QED BY <1>1, <1>2, <1>4, <2>1, <3>1, <3>2 DEF Presses
  <2>3. CASE ~(stopping.polite /\ kid[child].life = "up")
    <3>1. /\ stopping' = [stopping EXCEPT !.phase = "reaping"] /\ kid' = [kid EXCEPT ![child] = Killed(@)]
      BY <1>4, <2>3 DEF StopBegins
    <3>2. stopping' \in StopRecord /\ stopping'.phase = "reaping" /\ stopping'.ack = stopping.ack
      BY <3>1 DEF ProcessTyped, StopRecord
    <3> QED BY <1>1, <1>2, <1>4, <2>1, <3>1, <3>2 DEF Presses
  <2> QED BY <2>2, <2>3
<1> QED BY <1>3, <1>4

LEMMA StopAskedIs == ASSUME ProcessTyped, Single, StopAsked PROVE Presses
<1> DEFINE left == stopping.ack = "yes" /\ kid[child].life = "reaped"
<1>1. /\ stopping.phase = "asking" /\ child # 0 /\ UNCHANGED <<child, generation, start, fateVars, request>>
      /\ stopping' = [stopping EXCEPT !.phase = "reaping", !.ack = IF @ = "yes" /\ ~left THEN "none" ELSE @]
      /\ kid' = IF left THEN kid ELSE [kid EXCEPT ![child] = Killed(@)]
  BY DEF StopAsked, Single
<1>2. kid' = [kid EXCEPT ![child] = Killed(@)] \/ kid' = kid
  BY <1>1
<1> HIDE DEF left
<1>3. /\ stopping' \in StopRecord /\ stopping'.phase = "reaping"
      /\ stopping'.ack = stopping.ack \/ stopping'.ack = "none"
  BY <1>1 DEF ProcessTyped, StopRecord
<1> QED BY <1>1, <1>2, <1>3, Stays DEF Presses, fateVars

LEMMA StopEndsIs ==
  ASSUME ProcessTyped, Single, StopExpires \/ \E lingering \in BOOLEAN : StopReaped(lingering)
  PROVE  Cleaned \/ LeftUncertain
<1>1. CASE StopExpires
  BY <1>1, RejectedIs DEF StopExpires, Uncertain, LeftUncertain
<1>2. ASSUME NEW lingering \in BOOLEAN, StopReaped(lingering) PROVE Cleaned \/ LeftUncertain
  <2>1. /\ stopping.phase = "reaping" /\ kid[child].life = "reaped" /\ child # 0
        /\ UNCHANGED <<generation, kid, start, exhausted, crashes, shut, closeTask>>
    BY <1>2 DEF StopReaped, Single
  <2>2. CASE stopping.ack = "error"
    BY <1>2, <2>1, <2>2, RejectedIs DEF StopReaped, Uncertain, LeftUncertain
  <2>3. CASE stopping.ack # "error"
    <3> DEFINE mode == IF stopping.ack = "yes" /\ ~lingering THEN "graceful" ELSE "forced"
    <3>1. Confirmed(mode)
      BY <1>2, <2>3 DEF StopReaped
    <3>2. mode \in {"graceful", "forced"} /\ (mode = "graceful" => stopping.ack = "yes")
      OBVIOUS
    <3> HIDE DEF mode
    <3>3. retained' = (retained \/ mode # "graceful") /\ retained \in BOOLEAN
      BY <2>1, <3>1 DEF Confirmed, ProcessTyped
    <3>4. retained' = TRUE \/ (retained' = retained /\ stopping.ack = "yes")
      BY <3>2, <3>3
    <3> QED BY <2>1, <3>1, <3>2, <3>4, RejectedIs, Stays DEF Confirmed, Cleaned
  <2> QED BY <2>2, <2>3
<1> QED BY <1>1, <1>2

\* A message of the child arrives.
Heard(g) ==
  LET m == Head(kid[g].outbox)
  IN \/ /\ stopping.phase = "asking" /\ stopping' \in StopRecord /\ stopping'.phase = "asking"
        /\ stopping'.ack = "yes" => stopping.ack = "yes" \/ m.type = "ack"
        /\ UNCHANGED <<start, request>>
     \/ /\ Stopped /\ request.pc = "initializing" /\ start' = "ready"
        /\ request' = [request EXCEPT !.pc = "ready"] /\ UNCHANGED stopping
     \/ /\ Stopped /\ request.pc = "asked" /\ m.job = request.job /\ (m.ok \/ request.op = "retire")
        /\ request' = [request EXCEPT !.pc = "answered", !.value = m.ok] /\ UNCHANGED stopVars
     \/ Stopped /\ request.pc = "asked" /\ GivesUp /\ Stops
     \/ Stopped /\ ~Awaited /\ Stops /\ UNCHANGED request
     \/ ~(Stopped /\ request.pc = "initializing") /\ ~(Stopped /\ request.pc = "asked" /\ m.job = request.job) /\ UNCHANGED <<stopVars, request>>

LEMMA ReceiveIs ==
  ASSUME ProcessTyped, NEW g \in Generations, Receive(g)
  PROVE  /\ child = g /\ kid[g].outbox # <<>> /\ kid' = [kid EXCEPT ![g].outbox = Tail(@)]
         /\ UNCHANGED <<child, generation, fateVars>> /\ Heard(g)
<1> DEFINE m == Head(kid[g].outbox)
<1> DEFINE asking == child = g /\ stopping.phase = "asking"
           starting == Current(g) /\ request.pc = "initializing"
           answering == Current(g) /\ request.pc = "asked" /\ m.job = request.job
           stray == Current(g) /\ ~Awaited
           first == /\ stopping' = IF m.type = "ack" THEN [stopping EXCEPT !.ack = IF m.ok THEN "yes" ELSE "error"] ELSE stopping
                    /\ UNCHANGED <<start, request>>
           second == start' = "ready" /\ request' = [request EXCEPT !.pc = "ready"] /\ UNCHANGED stopping
           third == IF m.ok \/ request.op = "retire"
                    THEN request' = [request EXCEPT !.pc = "answered", !.value = m.ok] /\ UNCHANGED stopVars
                    ELSE Fail
           fourth == Terminate(TRUE, FALSE) /\ UNCHANGED request
           last == UNCHANGED <<stopVars, request>>
<1>1. child = g /\ kid[g].outbox # <<>> /\ kid' = [kid EXCEPT ![g].outbox = Tail(@)] /\ UNCHANGED <<child, generation, fateVars>>
  BY DEF Receive
<1> SUFFICES Heard(g)
  BY <1>1
<1>0. (CASE asking -> first [] starting -> second [] answering -> third [] stray -> fourth [] OTHER -> last)
  BY DEF Receive
<1>6. /\ ~(asking /\ starting) /\ ~(asking /\ answering) /\ ~(asking /\ stray)
      /\ ~(starting /\ answering) /\ ~(starting /\ stray) /\ ~(answering /\ stray)
  BY DEF Current, Stopped, Awaited
<1>7. /\ asking => first
      /\ starting => second
      /\ answering => third
      /\ stray => fourth
      /\ ~asking /\ ~starting /\ ~answering /\ ~stray => last
  <2> HIDE DEF asking, starting, answering, stray, first, second, third, fourth, last
  <2>1. CASE asking
    BY <1>0, <1>6, <2>1, Zenon
  <2>2. CASE starting
    BY <1>0, <1>6, <2>2, Zenon
  <2>3. CASE answering
    BY <1>0, <1>6, <2>3, Zenon
  <2>4. CASE stray
    BY <1>0, <1>6, <2>4, Zenon
  <2>5. CASE ~asking /\ ~starting /\ ~answering /\ ~stray
    BY <1>0, <2>5, Zenon
  <2> QED BY <2>1, <2>2, <2>3, <2>4, <2>5
<1>2. CASE stopping.phase = "asking"
  <2>1. /\ stopping' = IF m.type = "ack" THEN [stopping EXCEPT !.ack = IF m.ok THEN "yes" ELSE "error"] ELSE stopping
        /\ UNCHANGED <<start, request>>
    BY <1>1, <1>2, <1>7
  <2>2. /\ stopping' \in StopRecord /\ stopping'.phase = "asking"
        /\ stopping'.ack = "yes" => stopping.ack = "yes" \/ m.type = "ack"
    <3> HIDE DEF m
    <3>1. stopping \in StopRecord
      BY DEF ProcessTyped
    <3>2. CASE m.type = "ack"
      BY <1>2, <2>1, <3>1, <3>2 DEF StopRecord
    <3>3. CASE m.type # "ack"
      BY <1>2, <2>1, <3>1, <3>3
    <3> QED BY <3>2, <3>3
  <2> QED BY <1>1, <1>2, <2>1, <2>2 DEF Heard
<1>3. CASE Stopped /\ request.pc = "initializing"
  <2>1. second
    BY <1>1, <1>3, <1>7 DEF Current, Stopped
  <2> QED BY <1>3, <2>1 DEF Heard
<1>4. CASE Stopped /\ request.pc = "asked" /\ m.job = request.job
  <2>1. answering
    BY <1>1, <1>4 DEF Current
  <2>2. third
    <3> HIDE DEF answering, third
    <3> QED BY <1>7, <2>1
  <2>3. request.pc # "idle"
    BY <1>4
  <2>4. CASE m.ok \/ request.op = "retire"
    BY <1>4, <2>2, <2>4 DEF Heard
  <2>5. CASE ~(m.ok \/ request.op = "retire")
    <3>1. Fail
      BY <2>2, <2>5
    <3>2. GivesUp /\ Stops
      BY <3>1, <2>3, FailIs
    <3> QED BY <1>4, <3>2 DEF Heard
  <2> QED BY <2>4, <2>5
<1>5. CASE Stopped /\ ~Awaited
  <2>1. stray
    BY <1>1, <1>5 DEF Current
  <2>2. Terminate(TRUE, FALSE) /\ UNCHANGED request
    <3>1. fourth
      <4> HIDE DEF stray, fourth
      <4> QED BY <1>7, <2>1
    <3> QED BY <3>1
  <2> QED BY <1>5, <2>2, TerminateIs DEF Heard
<1>8. CASE /\ stopping.phase # "asking" /\ ~(Stopped /\ request.pc = "initializing")
           /\ ~(Stopped /\ request.pc = "asked" /\ m.job = request.job) /\ ~(Stopped /\ ~Awaited)
  <2>1. UNCHANGED <<stopVars, request>>
    BY <1>1, <1>8, <1>7 DEF Current
  <2> QED BY <1>1, <1>8, <2>1 DEF Heard
<1> QED BY <1>2, <1>3, <1>4, <1>5, <1>8

\* The exit of a child is noticed.
LEMMA ExitEventIs ==
  ASSUME ProcessTyped, NEW g \in Generations, ExitEvent(g)
  PROVE  /\ kid[g].life = "dead" /\ kid' = [kid EXCEPT ![g].life = "reaped"]
         /\ UNCHANGED <<child, generation, fateVars, request>> /\ Stops
         /\ child = g /\ Stopped /\ ~failure => Begins
BY TerminateIs DEF ExitEvent, Current, Stops

\* What a child does by itself.
Posts(k, r) == IF k.leaving = "no" THEN [k EXCEPT !.outbox = Append(@, r)] ELSE k
Acts(g, k) ==
  LET o == kid[g]
      m == Head(o.inbox)
  IN \/ /\ o.inbox # <<>> /\ k.inbox = Tail(o.inbox) /\ k.life = o.life /\ k.owners = o.owners
        /\ \/ /\ m.type \in {"cancel", "shutdown"} /\ k.work = o.work /\ k.outbox = o.outbox
              /\ k.leaving = o.leaving \/ (m.type = "shutdown" /\ o.leaving = "no" /\ k.leaving = "ack")
           \/ /\ m.type = "initialize" /\ k.work = o.work /\ k.leaving = o.leaving
              /\ k.outbox = o.outbox \/ k.outbox = Append(o.outbox, [type |-> "reply", job |-> m.job, ok |-> TRUE])
           \/ /\ m.type \in Errands /\ k.work = o.work /\ k.outbox = o.outbox /\ k.leaving = "quiet"
           \/ /\ m.type \in Errands /\ k.work = m /\ o.work = Idle /\ k.outbox = o.outbox /\ k.leaving = o.leaving
     \/ /\ o.work # Idle /\ k.work = Idle /\ k.inbox = o.inbox /\ k.life = o.life /\ k.leaving = o.leaving
        /\ \E ok \in BOOLEAN :
             /\ k.owners = IF ~ok THEN o.owners
                           ELSE IF o.work.type \in {"retire", "reset"} THEN o.owners \ {o.work.owner}
                           ELSE o.owners \cup {o.work.owner}
             /\ k.outbox = o.outbox \/ k.outbox = Append(o.outbox, [type |-> "reply", job |-> o.work.job, ok |-> ok])
     \/ /\ o.leaving \in {"ack", "quiet"} /\ o.work = Idle /\ k.leaving = "told"
        /\ k.inbox = o.inbox /\ k.life = o.life /\ k.owners = o.owners /\ k.work = o.work
        /\ \/ k.outbox = o.outbox
           \/ /\ o.leaving = "ack"
              /\ \E ok \in BOOLEAN : k.outbox = Append(o.outbox, [type |-> "ack", job |-> NoJob, ok |-> ok])
     \/ /\ k.life = "dead" /\ k.inbox = <<>> /\ k.owners = {} /\ k.work = Idle
        /\ k.outbox = o.outbox /\ k.leaving = o.leaving
Moves(g) ==
  /\ kid[g].life = "up" /\ kid' = [kid EXCEPT ![g] = kid'[g]] /\ kid'[g] \in KidRecord /\ Acts(g, kid'[g])
  /\ UNCHANGED <<child, generation, stopVars, fateVars, request>>

LEMMA PostsIs ==
  ASSUME NEW k \in KidRecord, NEW r \in ReplyRecord
  PROVE  /\ Reply(k, r.type, r.job, r.ok) = Posts(k, r)
         /\ Posts(k, r) \in KidRecord
         /\ Posts(k, r).inbox = k.inbox /\ Posts(k, r).life = k.life /\ Posts(k, r).owners = k.owners
         /\ Posts(k, r).work = k.work /\ Posts(k, r).leaving = k.leaving
         /\ Posts(k, r).outbox \in {k.outbox, Append(k.outbox, r)}
<1>1. r = [type |-> r.type, job |-> r.job, ok |-> r.ok]
  BY DEF ReplyRecord
<1>2. Append(k.outbox, r) \in Seq(ReplyRecord)
  BY PostedIs DEF KidRecord
<1> QED BY <1>1, <1>2 DEF Posts, Reply, KidRecord

LEMMA KilledIs ==
  ASSUME NEW k \in KidRecord
  PROVE  /\ Killed(k) \in KidRecord /\ Killed(k).leaving = k.leaving /\ Killed(k).outbox = k.outbox
         /\ k.life = "up" => /\ Killed(k).life = "dead" /\ Killed(k).inbox = <<>> /\ Killed(k).owners = {}
                             /\ Killed(k).work = Idle
         /\ k.life # "up" => Killed(k) = k
<1> HIDE DEF Idle
<1> QED BY UnbornIs DEF Killed, Unborn, KidRecord

\* A step of a child is known by what becomes of its record.
LEMMA MovesIs ==
  ASSUME ProcessTyped, NEW g \in Generations, NEW k \in KidRecord, kid[g].life = "up", kid' = [kid EXCEPT ![g] = k],
         Acts(g, k), UNCHANGED <<child, generation, stopVars, fateVars, request>>
  PROVE  Moves(g)
<1>1. kid'[g] = k
  BY KidWith DEF ProcessTyped
<1> HIDE DEF Acts
<1> QED BY <1>1 DEF Moves

LEMMA TakesIs == ASSUME ProcessTyped, NEW g \in Generations, ChildReceives(g) PROVE Moves(g)
<1> DEFINE o == kid[g]
           m == Head(o.inbox)
           k == [o EXCEPT !.inbox = Tail(@)]
           warned == [k EXCEPT !.aborted = @ \/ k.work.job = m.job]
           parted == IF k.leaving = "no" THEN [k EXCEPT !.leaving = "ack", !.aborted = TRUE] ELSE k
           begun == Reply([k EXCEPT !.ready = TRUE], "reply", m.job, TRUE)
           lost == [k EXCEPT !.leaving = "quiet"]
           taken == [k EXCEPT !.work = m, !.aborted = FALSE]
           next == CASE m.type = "cancel" -> warned
                     [] m.type = "shutdown" -> parted
                     [] m.type = "initialize" -> begun
                     [] OTHER -> IF k.leaving # "no" \/ k.work # Idle \/ ~k.ready THEN lost ELSE taken
<1>1. /\ o.life = "up" /\ o.inbox # <<>> /\ kid' = [kid EXCEPT ![g] = next]
      /\ UNCHANGED <<child, generation, stopVars, fateVars, request>>
  BY DEF ChildReceives
<1>2. o \in KidRecord /\ o.inbox \in Seq(MessageRecord)
  BY ProcessIs DEF KidRecord
<1>3. m \in MessageRecord /\ Tail(o.inbox) \in Seq(MessageRecord)
  BY <1>1, <1>2, TakenIs
<1>4. /\ k \in KidRecord /\ k.inbox = Tail(o.inbox) /\ k.life = o.life /\ k.owners = o.owners /\ k.work = o.work
      /\ k.outbox = o.outbox /\ k.leaving = o.leaving
  <2> HIDE DEF o
  <2> QED BY <1>2, <1>3 DEF KidRecord
<1>5. CASE m.type = "cancel"
  <2>1. kid' = [kid EXCEPT ![g] = warned]
    BY <1>1, <1>5
  <2>2. /\ warned \in KidRecord /\ warned.inbox = k.inbox /\ warned.life = k.life /\ warned.owners = k.owners
        /\ warned.work = k.work /\ warned.outbox = k.outbox /\ warned.leaving = k.leaving
    <3> HIDE DEF k, m
    <3> QED BY <1>4 DEF KidRecord
  <2>3. Acts(g, warned)
    <3> HIDE DEF warned, k
    <3> QED BY <1>1, <1>4, <1>5, <2>2 DEF Acts
  <2> HIDE DEF warned
  <2> QED BY <1>1, <2>1, <2>2, <2>3, MovesIs
<1>6. CASE m.type = "shutdown"
  <2>1. kid' = [kid EXCEPT ![g] = parted]
    BY <1>1, <1>6
  <2>2. /\ parted \in KidRecord /\ parted.inbox = k.inbox /\ parted.life = k.life /\ parted.owners = k.owners
        /\ parted.work = k.work /\ parted.outbox = k.outbox
        /\ parted.leaving = k.leaving \/ (k.leaving = "no" /\ parted.leaving = "ack")
    <3> HIDE DEF k
    <3> QED BY <1>4 DEF KidRecord
  <2>3. Acts(g, parted)
    <3> HIDE DEF parted, k
    <3> QED BY <1>1, <1>4, <1>6, <2>2 DEF Acts
  <2> HIDE DEF parted
  <2> QED BY <1>1, <2>1, <2>2, <2>3, MovesIs
<1>7. CASE m.type = "initialize"
  <2>1. kid' = [kid EXCEPT ![g] = begun]
    BY <1>1, <1>7
  <2> DEFINE r == [type |-> "reply", job |-> m.job, ok |-> TRUE]
             q == [k EXCEPT !.ready = TRUE]
  <2>2. r \in ReplyRecord /\ r.type = "reply" /\ r.job = m.job /\ r.ok = TRUE
    BY <1>3 DEF ReplyRecord, MessageRecord
  <2>3. /\ q \in KidRecord /\ q.inbox = k.inbox /\ q.life = k.life /\ q.owners = k.owners
        /\ q.work = k.work /\ q.outbox = k.outbox /\ q.leaving = k.leaving
    <3> HIDE DEF k
    <3> QED BY <1>4 DEF KidRecord
  <2>4. begun = Posts(q, r)
    <3>1. begun = Reply(q, r.type, r.job, r.ok)
      BY <2>2
    <3> HIDE DEF begun, q, r
    <3> QED BY <2>2, <2>3, <3>1, PostsIs
  <2>5. /\ begun \in KidRecord /\ begun.inbox = k.inbox /\ begun.life = k.life /\ begun.owners = k.owners
        /\ begun.work = k.work /\ begun.leaving = k.leaving /\ begun.outbox \in {k.outbox, Append(k.outbox, r)}
    <3> HIDE DEF begun, q, r, k
    <3> QED BY <2>2, <2>3, <2>4, PostsIs
  <2>6. Acts(g, begun)
    <3> HIDE DEF begun, k
    <3> QED BY <1>1, <1>4, <1>7, <2>5 DEF Acts
  <2> HIDE DEF begun
  <2> QED BY <1>1, <2>1, <2>5, <2>6, MovesIs
<1>8. CASE m.type \notin {"cancel", "shutdown", "initialize"}
  <2>0. m.type \in Errands /\ m \in ErrandRecord
    BY <1>3, <1>8 DEF MessageRecord, MessageTypes, ErrandRecord
  <2>1. kid' = [kid EXCEPT ![g] = IF k.leaving # "no" \/ k.work # Idle \/ ~k.ready THEN lost ELSE taken]
    BY <1>1, <1>8
  <2>2. CASE k.leaving # "no" \/ k.work # Idle \/ ~k.ready
    <3>1. kid' = [kid EXCEPT ![g] = lost]
      BY <2>1, <2>2
    <3>2. /\ lost \in KidRecord /\ lost.inbox = k.inbox /\ lost.life = k.life /\ lost.owners = k.owners
          /\ lost.work = k.work /\ lost.outbox = k.outbox /\ lost.leaving = "quiet"
      <4> HIDE DEF k
      <4> QED BY <1>4 DEF KidRecord
    <3>3. Acts(g, lost)
      <4> HIDE DEF lost, k
      <4> QED BY <1>1, <1>4, <2>0, <3>2 DEF Acts
    <3> HIDE DEF lost
    <3> QED BY <1>1, <3>1, <3>2, <3>3, MovesIs
  <2>3. CASE ~(k.leaving # "no" \/ k.work # Idle \/ ~k.ready)
    <3>1. kid' = [kid EXCEPT ![g] = taken]
      BY <2>1, <2>3
    <3>2. /\ taken \in KidRecord /\ taken.inbox = k.inbox /\ taken.life = k.life /\ taken.owners = k.owners
          /\ taken.work = m /\ taken.outbox = k.outbox /\ taken.leaving = k.leaving
      <4> HIDE DEF k, m
      <4> QED BY <1>3, <1>4, <2>0 DEF KidRecord
    <3>3. Acts(g, taken)
      <4> HIDE DEF taken, k
      <4> QED BY <1>1, <1>4, <2>0, <2>3, <3>2 DEF Acts
    <3> HIDE DEF taken
    <3> QED BY <1>1, <3>1, <3>2, <3>3, MovesIs
  <2> QED BY <2>2, <2>3
<1> QED BY <1>5, <1>6, <1>7, <1>8

LEMMA WorksIs == ASSUME ProcessTyped, NEW g \in Generations, NEW ok \in BOOLEAN, ChildWorks(g, ok) PROVE Moves(g)
<1> DEFINE o == kid[g]
           w == IF ~ok THEN o.owners ELSE IF o.work.type \in {"retire", "reset"} THEN o.owners \ {o.work.owner}
                ELSE o.owners \cup {o.work.owner}
           k == [o EXCEPT !.work = Idle, !.owners = w]
           r == [type |-> "reply", job |-> o.work.job, ok |-> ok]
<1>1. /\ o.life = "up" /\ o.work # Idle /\ kid' = [kid EXCEPT ![g] = Reply(k, "reply", o.work.job, ok)]
      /\ UNCHANGED <<child, generation, stopVars, fateVars, request>>
  BY DEF ChildWorks
<1>2. o \in KidRecord /\ o.work \in ErrandRecord /\ o.owners \in SUBSET (Owners \cup {NoJob})
  BY ProcessIs DEF KidRecord
<1>3. r \in ReplyRecord /\ r.type = "reply" /\ r.job = o.work.job /\ r.ok = ok
  BY <1>2 DEF ReplyRecord, ErrandRecord
<1>4. w \in SUBSET (Owners \cup {NoJob})
  BY <1>2 DEF ErrandRecord
<1>5. /\ k \in KidRecord /\ k.inbox = o.inbox /\ k.life = o.life /\ k.owners = w /\ k.work = Idle
      /\ k.outbox = o.outbox /\ k.leaving = o.leaving
  <2> HIDE DEF o, w, Idle
  <2> QED BY <1>2, <1>4, UnbornIs DEF KidRecord
<1>6. kid' = [kid EXCEPT ![g] = Posts(k, r)]
  <2>1. Reply(k, "reply", o.work.job, ok) = Reply(k, r.type, r.job, r.ok)
    BY <1>3
  <2> HIDE DEF k, r, o
  <2> QED BY <1>1, <1>3, <1>5, <2>1, PostsIs
<1>7. /\ Posts(k, r) \in KidRecord /\ Posts(k, r).inbox = k.inbox /\ Posts(k, r).life = k.life /\ Posts(k, r).owners = k.owners
      /\ Posts(k, r).work = k.work /\ Posts(k, r).leaving = k.leaving
      /\ Posts(k, r).outbox = k.outbox \/ Posts(k, r).outbox = Append(k.outbox, r)
  <2> HIDE DEF k, r
  <2> QED BY SMTT(40), <1>3, <1>5, PostsIs
<1>8. Acts(g, Posts(k, r))
  <2> HIDE DEF k
  <2> QED BY ZenonT(60), <1>1, <1>5, <1>7 DEF Acts
<1> HIDE DEF k, r
<1> QED BY <1>1, <1>6, <1>7, <1>8, MovesIs

LEMMA LeavesIs == ASSUME ProcessTyped, NEW g \in Generations, NEW ok \in BOOLEAN, ChildLeaves(g, ok) PROVE Moves(g)
<1> DEFINE o == kid[g]
           r == [type |-> "ack", job |-> NoJob, ok |-> ok]
           b == IF o.leaving = "ack" THEN Append(o.outbox, r) ELSE o.outbox
           k == [o EXCEPT !.leaving = "told", !.outbox = b]
<1>1. /\ o.life = "up" /\ o.leaving \in {"ack", "quiet"} /\ o.work = Idle /\ kid' = [kid EXCEPT ![g] = k]
      /\ UNCHANGED <<child, generation, stopVars, fateVars, request>>
  BY DEF ChildLeaves
<1>2. o \in KidRecord /\ o.outbox \in Seq(ReplyRecord)
  BY ProcessIs DEF KidRecord
<1>3. r \in ReplyRecord
  BY DEF ReplyRecord
<1>4. b \in Seq(ReplyRecord)
  BY <1>2, <1>3, PostedIs
<1>5. /\ k \in KidRecord /\ k.inbox = o.inbox /\ k.life = o.life /\ k.owners = o.owners /\ k.work = o.work
      /\ k.outbox = b /\ k.leaving = "told"
  <2> HIDE DEF o, b
  <2> QED BY <1>2, <1>4 DEF KidRecord
<1>6. Acts(g, k)
  <2> HIDE DEF k
  <2> QED BY <1>1, <1>5 DEF Acts
<1> HIDE DEF k
<1> QED BY <1>1, <1>5, <1>6, MovesIs

LEMMA ExitsIs == ASSUME ProcessTyped, NEW g \in Generations, ChildExits(g) PROVE Moves(g)
<1> DEFINE k == Killed(kid[g])
<1>1. /\ kid[g].life = "up" /\ kid' = [kid EXCEPT ![g] = k]
      /\ UNCHANGED <<child, generation, stopVars, fateVars, request>>
  BY DEF ChildExits
<1>2. /\ k \in KidRecord /\ k.life = "dead" /\ k.inbox = <<>> /\ k.owners = {} /\ k.work = Idle
      /\ k.outbox = kid[g].outbox /\ k.leaving = kid[g].leaving
  BY <1>1, ProcessIs, KilledIs
<1>3. Acts(g, k)
  <2> HIDE DEF k
  <2> QED BY <1>2 DEF Acts
<1> HIDE DEF k
<1> QED BY <1>1, <1>2, <1>3, MovesIs

LEMMA ChildIs == ASSUME ProcessTyped, NEW g \in Generations, Child(g) PROVE Moves(g)
BY WorksIs, LeavesIs, ExitsIs DEF Child

-----------------------------------------------------------------------------
(* The record of the child that a step changes.                               *)

OneKid(g) ==
  /\ kid' \in [Generations -> KidRecord] /\ g \in Generations /\ kid[g] \in KidRecord
  /\ \A h \in Generations : h # g => kid'[h] = kid[h]
Likewise(k, o) == k.work = o.work /\ k.leaving = o.leaving /\ k.owners = o.owners
Sent(m) ==
  /\ OneKid(child) /\ m \in MessageRecord /\ Likewise(kid'[child], kid[child])
  /\ kid'[child].inbox = Append(kid[child].inbox, m) /\ kid'[child].life = kid[child].life
  /\ kid'[child].outbox = kid[child].outbox
Emptied(g) ==
  /\ OneKid(g) /\ Likewise(kid'[g], kid[g]) /\ kid'[g].inbox = kid[g].inbox /\ kid'[g].life = kid[g].life
  /\ kid'[g].outbox = Tail(kid[g].outbox) /\ kid[g].outbox \in Seq(ReplyRecord)
Buried(g) ==
  /\ OneKid(g) /\ Likewise(kid'[g], kid[g]) /\ kid'[g].inbox = kid[g].inbox /\ kid'[g].outbox = kid[g].outbox
  /\ kid'[g].life = "reaped"
Struck(g) ==
  /\ OneKid(g) /\ kid'[g].outbox = kid[g].outbox /\ kid'[g].leaving = kid[g].leaving
  /\ kid[g].life = "up" => /\ kid'[g].life = "dead" /\ kid'[g].inbox = <<>> /\ kid'[g].owners = {} /\ kid'[g].work = Idle
  /\ kid[g].life # "up" => kid'[g] = kid[g]
Appears(g) ==
  /\ OneKid(g) /\ kid'[g].life = "up" /\ kid'[g].inbox = <<Message("initialize")>> /\ kid'[g].outbox = <<>>
  /\ kid'[g].work = Idle /\ kid'[g].leaving = "no" /\ kid'[g].owners = {}

LEMMA SentIs ==
  ASSUME ProcessTyped, child # 0, NEW m \in MessageRecord, kid' = [kid EXCEPT ![child].inbox = Append(@, m)]
  PROVE  Sent(m)
<1> DEFINE o == kid[child]
           k == [o EXCEPT !.inbox = Append(@, m)]
<1>1. child \in Generations /\ o \in KidRecord /\ kid \in [Generations -> KidRecord]
  BY ProcessIs
<1>2. Append(o.inbox, m) \in Seq(MessageRecord)
  BY <1>1, PostedIs DEF KidRecord
<1>3. k \in KidRecord /\ k.inbox = Append(o.inbox, m) /\ k.life = o.life /\ k.outbox = o.outbox /\ Likewise(k, o)
  <2> HIDE DEF o
  <2> QED BY <1>1, <1>2 DEF KidRecord, Likewise
<1>4. kid' = [kid EXCEPT ![child] = k]
  OBVIOUS
<1>5. /\ kid' \in [Generations -> KidRecord] /\ kid'[child] = k /\ \A h \in Generations : h # child => kid'[h] = kid[h]
  <2> HIDE DEF k
  <2> QED BY <1>1, <1>3, <1>4
<1> HIDE DEF k
<1> QED BY <1>1, <1>3, <1>5 DEF Sent, OneKid

LEMMA EmptiedIs ==
  ASSUME ProcessTyped, NEW g \in Generations, kid[g].outbox # <<>>, kid' = [kid EXCEPT ![g].outbox = Tail(@)]
  PROVE  Emptied(g)
<1> DEFINE o == kid[g]
           k == [o EXCEPT !.outbox = Tail(@)]
<1>1. o \in KidRecord /\ kid \in [Generations -> KidRecord]
  BY ProcessIs
<1>2. Tail(o.outbox) \in Seq(ReplyRecord) /\ o.outbox \in Seq(ReplyRecord)
  BY <1>1, TakenIs DEF KidRecord
<1>3. k \in KidRecord /\ k.inbox = o.inbox /\ k.life = o.life /\ k.outbox = Tail(o.outbox) /\ Likewise(k, o)
  <2> HIDE DEF o
  <2> QED BY <1>1, <1>2 DEF KidRecord, Likewise
<1>4. kid' = [kid EXCEPT ![g] = k]
  OBVIOUS
<1>5. /\ kid' \in [Generations -> KidRecord] /\ kid'[g] = k /\ \A h \in Generations : h # g => kid'[h] = kid[h]
  <2> HIDE DEF k
  <2> QED BY <1>1, <1>3, <1>4
<1> HIDE DEF k
<1> QED BY <1>1, <1>2, <1>3, <1>5 DEF Emptied, OneKid

LEMMA BuriedIs ==
  ASSUME ProcessTyped, NEW g \in Generations, kid' = [kid EXCEPT ![g].life = "reaped"]
  PROVE  Buried(g)
<1> DEFINE o == kid[g]
           k == [o EXCEPT !.life = "reaped"]
<1>1. o \in KidRecord /\ kid \in [Generations -> KidRecord]
  BY ProcessIs
<1>3. k \in KidRecord /\ k.inbox = o.inbox /\ k.life = "reaped" /\ k.outbox = o.outbox /\ Likewise(k, o)
  <2> HIDE DEF o
  <2> QED BY <1>1 DEF KidRecord, Likewise
<1>4. kid' = [kid EXCEPT ![g] = k]
  OBVIOUS
<1>5. /\ kid' \in [Generations -> KidRecord] /\ kid'[g] = k /\ \A h \in Generations : h # g => kid'[h] = kid[h]
  <2> HIDE DEF k
  <2> QED BY <1>1, <1>3, <1>4
<1> HIDE DEF k
<1> QED BY <1>1, <1>3, <1>5 DEF Buried, OneKid

LEMMA StruckIs ==
  ASSUME ProcessTyped, child # 0, kid' = [kid EXCEPT ![child] = Killed(@)] \/ kid' = [kid EXCEPT ![child] = kid[child]]
  PROVE  kid' = kid \/ Struck(child)
<1>1. child \in Generations /\ kid[child] \in KidRecord /\ kid \in [Generations -> KidRecord]
  BY ProcessIs
<1>2. CASE kid' = [kid EXCEPT ![child] = Killed(@)]
  <2> DEFINE k == Killed(kid[child])
  <2>1. k \in KidRecord /\ kid' = [kid EXCEPT ![child] = k]
    BY <1>1, <1>2, KilledIs
  <2>2. /\ kid' \in [Generations -> KidRecord] /\ kid'[child] = k /\ \A h \in Generations : h # child => kid'[h] = kid[h]
    <3> HIDE DEF k
    <3> QED BY <1>1, <2>1
  <2> QED BY <1>1, <2>2, KilledIs DEF Struck, OneKid
<1>3. CASE kid' = [kid EXCEPT ![child] = kid[child]]
  BY <1>1, <1>3
<1> QED BY <1>2, <1>3

LEMMA AppearsIs ==
  ASSUME ProcessTyped, Single, Forks
  PROVE  Appears(child') /\ child' = generation + 1 /\ generation' = generation + 1 /\ generation + 1 \in Generations
<1> DEFINE g == generation + 1
           first == <<Message("initialize")>>
           o == kid[g]
           k == [o EXCEPT !.life = "up", !.inbox = first]
<1>1. g \in Generations /\ generation \in Nat /\ kid \in [Generations -> KidRecord] /\ child' = g /\ generation' = g
  BY EngineBounds DEF Forks, ProcessTyped, Generations
<1>2. o = Unborn /\ o \in KidRecord
  BY <1>1, UnbornIs DEF Single
<1>3. Message("initialize") \in MessageRecord
  <2>1. "initialize" \in MessageTypes
    BY DEF MessageTypes
  <2> QED BY <2>1, MessageIs
<1>4. first \in Seq(MessageRecord)
  <2> HIDE DEF Message
  <2> QED BY <1>3
<1>5. kid' = [kid EXCEPT ![g] = k]
  <2>1. kid' = [kid EXCEPT ![g].life = "up", ![g].inbox = first]
    BY DEF Forks
  <2> HIDE DEF first
  <2> QED BY <1>1, <2>1
<1>6. k \in KidRecord /\ k.life = "up" /\ k.inbox = first /\ k.outbox = <<>> /\ k.work = Idle /\ k.leaving = "no" /\ k.owners = {}
  <2>1. o.outbox = <<>> /\ o.work = Idle /\ o.leaving = "no" /\ o.owners = {}
    BY <1>2 DEF Unborn
  <2> HIDE DEF o, first
  <2> QED BY <1>2, <1>4, <2>1 DEF KidRecord
<1>7. /\ kid' \in [Generations -> KidRecord] /\ kid'[g] = k /\ \A h \in Generations : h # g => kid'[h] = kid[h]
  <2> HIDE DEF k, g
  <2> QED BY <1>1, <1>5, <1>6
<1> HIDE DEF k
<1> QED BY <1>1, <1>2, <1>6, <1>7 DEF Appears, OneKid

LEMMA MovedIs == ASSUME ProcessTyped, NEW g \in Generations, Moves(g) PROVE OneKid(g)
<1>1. kid \in [Generations -> KidRecord] /\ kid[g] \in KidRecord /\ kid' = [kid EXCEPT ![g] = kid'[g]] /\ kid'[g] \in KidRecord
  BY ProcessIs DEF Moves
<1>2. \A h \in Generations : h # g => kid'[h] = kid[h]
  BY <1>1
<1>3. kid' \in [Generations -> KidRecord]
  BY <1>1
<1> QED BY <1>1, <1>2, <1>3 DEF OneKid

-----------------------------------------------------------------------------
(* A step of the engine process, and the types after it.                      *)

Hears(g) ==
  /\ child = g /\ kid[g].outbox # <<>> /\ Emptied(g) /\ UNCHANGED <<child, generation, fateVars>> /\ Heard(g)
Reaps(g) ==
  /\ kid[g].life = "dead" /\ Buried(g) /\ UNCHANGED <<child, generation, fateVars, request>> /\ Stops
  /\ child = g /\ Stopped /\ ~failure => Begins
Handles == Turned \/ Forks \/ AsksChild \/ Warned \/ Cleaned \/ LeftUncertain \/ Presses \/ EngineClosed
EngineStep ==
  \/ Turned \/ Forks \/ AsksChild \/ Warned \/ Cleaned \/ LeftUncertain \/ Presses \/ EngineClosed
  \/ \E g \in Generations : Hears(g) \/ Reaps(g) \/ Moves(g)

LEMMA ProcessStepIs ==
  ASSUME ProcessTyped, RequestSound, HostTyped, Single, Querying \/ Requesting \/ Timeout \/ Stopping \/ EngineClosed
  PROVE  Handles
<1>1. CASE Querying
  BY <1>1, QueryingIs DEF Handles
<1>2. CASE Requesting
  BY <1>2, RequestingIs DEF Handles
<1>3. CASE Timeout
  BY <1>3, TimeoutIs DEF Handles
<1>4. CASE Stopping
  <2>1. CASE StopBegins
    BY <2>1, StopBeginsIs DEF Handles
  <2>2. CASE StopAsked
    BY <2>2, StopAskedIs DEF Handles
  <2>3. CASE StopExpires \/ \E lingering \in BOOLEAN : StopReaped(lingering)
    BY <2>3, StopEndsIs DEF Handles
  <2> QED BY <1>4, <2>1, <2>2, <2>3 DEF Stopping
<1>5. CASE EngineClosed
  BY <1>5 DEF Handles
<1> QED BY <1>1, <1>2, <1>3, <1>4, <1>5

LEMMA HandlesIs == Handles => EngineStep
BY DEF Handles, EngineStep

LEMMA EventIs ==
  ASSUME ProcessTyped, NEW g \in Generations, Receive(g) \/ ExitEvent(g) \/ Child(g) \/ ChildReceives(g)
  PROVE  Hears(g) \/ Reaps(g) \/ Moves(g)
<1>1. CASE Receive(g)
  BY <1>1, ReceiveIs, EmptiedIs DEF Hears
<1>2. CASE ExitEvent(g)
  BY <1>2, ExitEventIs, BuriedIs DEF Reaps
<1>3. CASE Child(g) \/ ChildReceives(g)
  BY <1>3, ChildIs, TakesIs
<1> QED BY <1>1, <1>2, <1>3

LEMMA PostTyped == ASSUME ProcessTyped PROVE Message("cancel") \in MessageRecord /\ Message("shutdown") \in MessageRecord
                                            /\ Message(request.op) \in MessageRecord
<1>1. "cancel" \in MessageTypes /\ "shutdown" \in MessageTypes /\ request.op \in MessageTypes
  BY DEF ProcessTyped, RequestRecord, MessageTypes
<1> QED BY <1>1, MessageIs

LEMMA AsksIs ==
  ASSUME ProcessTyped, AsksChild
  PROVE  /\ Sent(Message(request.op)) /\ request' \in RequestRecord /\ Same /\ request'.pc = "asked" /\ request'.child = child
         /\ UNCHANGED <<child, generation, stopVars, fateVars>> /\ child # 0 /\ Stopped /\ ~failure
         /\ request.pc \in {"ready", "ensure"} /\ (Queries \/ request.op = "retire") /\ request'.value = request.value
<1>1. Sent(Message(request.op))
  BY PostTyped, SentIs DEF AsksChild, Post
<1>2. child \in Nat
  BY ProcessIs
<1>3. request' \in RequestRecord /\ Same /\ request'.pc = "asked" /\ request'.child = child /\ request'.value = request.value
  BY <1>2 DEF AsksChild, ProcessTyped, RequestRecord, RequestPoints, Same
<1> QED BY <1>1, <1>3 DEF AsksChild, Post

LEMMA WarnsIs ==
  ASSUME ProcessTyped, Warned
  PROVE  Sent(Message("cancel")) /\ Flagged /\ UNCHANGED <<child, generation, stopVars, fateVars>> /\ child # 0 /\ Stopped
BY PostTyped, SentIs DEF Warned, Post

LEMMA ForksIs ==
  ASSUME ProcessTyped, Forks
  PROVE  /\ request' \in RequestRecord /\ Same /\ request'.pc = "initializing" /\ request'.child = request.child
         /\ request'.value = request.value
BY DEF Forks, ProcessTyped, RequestRecord, RequestPoints, Same

LEMMA PressesIs ==
  ASSUME ProcessTyped, Presses
  PROVE  \/ stopping.phase = "begun" /\ stopping'.phase = "asking" /\ stopping'.ack = stopping.ack /\ Sent(Message("shutdown"))
         \/ /\ stopping.phase \in {"begun", "asking"} /\ stopping'.phase = "reaping"
            /\ stopping'.ack = stopping.ack \/ stopping'.ack = "none"
            /\ kid' = kid \/ Struck(child)
BY PostTyped, SentIs, StruckIs DEF Presses

LEMMA ProcessTypedStep == ASSUME ProcessTyped, Single, EngineStep PROVE ProcessTyped'
<1> USE DEF stopVars, fateVars
<1>0. Stops => stopping' \in StopRecord /\ start' \in {"none", "pending", "ready"}
  BY DEF Stops, Begins, ProcessTyped
<1>1. CASE Turned
  <2>1. stopping' \in StopRecord /\ start' \in {"none", "pending", "ready"} /\ request' \in RequestRecord
    BY <1>0, <1>1 DEF Turned, Flagged, ProcessTyped
  <2> QED BY <1>1, <2>1 DEF Turned, ProcessTyped
<1>2. CASE Forks
  <2>1. generation' \in 0 .. MaxGenerations /\ child' = generation' /\ kid' \in [Generations -> KidRecord]
    BY <1>2, AppearsIs, EngineBounds DEF Appears, OneKid, Generations, ProcessTyped
  <2> QED BY <1>2, <2>1, ForksIs DEF Forks, ProcessTyped
<1>3. CASE AsksChild
  BY <1>3, AsksIs DEF Sent, OneKid, ProcessTyped
<1>4. CASE Warned
  BY <1>4, WarnsIs DEF Sent, OneKid, Flagged, ProcessTyped
<1>5. CASE Cleaned
  <2>1. request' \in RequestRecord
    BY <1>5 DEF Cleaned, Rejected, GivesUp, ProcessTyped
  <2>2. retained' \in BOOLEAN /\ stopping' \in StopRecord
    BY <1>5, UnbornIs DEF Cleaned, ProcessTyped
  <2> QED BY <1>5, <2>1, <2>2 DEF Cleaned, ProcessTyped
<1>6. CASE LeftUncertain
  <2>1. request' \in RequestRecord
    BY <1>6 DEF LeftUncertain, Rejected, GivesUp, ProcessTyped
  <2> QED BY <1>6, <2>1, UnbornIs DEF LeftUncertain, ProcessTyped
<1>7. CASE Presses
  <2>1. kid' \in [Generations -> KidRecord]
    BY <1>7, PressesIs DEF Sent, Struck, OneKid, ProcessTyped
  <2> QED BY <1>7, <2>1 DEF Presses, ProcessTyped
<1>8. CASE EngineClosed
  BY <1>8 DEF EngineClosed, ProcessTyped
<1>9. ASSUME NEW g \in Generations, Hears(g) PROVE ProcessTyped'
  <2> DEFINE m == Head(kid[g].outbox)
  <2>1. kid' \in [Generations -> KidRecord] /\ UNCHANGED <<child, generation, fateVars>>
    BY <1>9 DEF Hears, Emptied, OneKid
  <2>2. m.ok \in BOOLEAN
    <3>1. m \in ReplyRecord
      BY <1>9, TakenIs DEF Hears, Emptied
    <3> QED BY <3>1 DEF ReplyRecord
  <2>3. stopping' \in StopRecord /\ start' \in {"none", "pending", "ready"} /\ request' \in RequestRecord
    <3> HIDE DEF m
    <3>1. stopping \in StopRecord /\ start \in {"none", "pending", "ready"} /\ request \in RequestRecord
      BY DEF ProcessTyped
    <3>2. [request EXCEPT !.pc = "ready"] \in RequestRecord /\ [request EXCEPT !.pc = "answered", !.value = m.ok] \in RequestRecord
      BY <2>2, <3>1 DEF RequestRecord, RequestPoints
    <3> QED BY <1>0, <1>9, <3>1, <3>2 DEF Hears, Heard, GivesUp, m
  <2> QED BY <2>1, <2>3 DEF ProcessTyped
<1>10. ASSUME NEW g \in Generations, Reaps(g) PROVE ProcessTyped'
  BY <1>0, <1>10 DEF Reaps, Buried, OneKid, ProcessTyped
<1>11. ASSUME NEW g \in Generations, Moves(g) PROVE ProcessTyped'
  <2>1. kid' \in [Generations -> KidRecord]
    BY <1>11, MovedIs DEF OneKid
  <2> QED BY <1>11, <2>1 DEF Moves, ProcessTyped
<1> QED
  BY <1>1, <1>2, <1>3, <1>4, <1>5, <1>6, <1>7, <1>8, <1>9, <1>10, <1>11 DEF EngineStep

-----------------------------------------------------------------------------
(* A child is there from its start until it was reaped, after each step.      *)

Alone ==
  /\ start # "none" => Stopped
  /\ Stopped /\ ~failure /\ start = "none" => child = 0 \/ request.pc = "initializing"
  /\ request.pc = "forking" => child = 0
  /\ closeTask # "none" => shut
  /\ shut /\ Stopped /\ ~failure => start = "none" /\ child = 0
  /\ failure => Stopped
  /\ stopping.phase \in {"asking", "reaping"} => child # 0
  /\ closeTask = "resolved" => ~failure /\ child = 0 /\ start # "pending"
Bodies ==
  /\ child # 0 /\ Stopped /\ ~failure => kid[child].life \in {"up", "dead"}
  /\ \A g \in Generations : g > generation => kid[g] = Unborn
  /\ \A g \in Generations : kid[g].life = "up" => child = g
  /\ \A g \in 1 .. generation : child # g /\ kid[g].leaving # "told" => retained \/ failure

LEMMA SingleIs == Single <=> Alone /\ Bodies /\ (hostClosing = "removed" => closeTask = "resolved")
BY DEF Single, Alone, Bodies, ChildOwned

LEMMA AloneStep == ASSUME ProcessTyped, Single, EngineStep PROVE Alone'
<1> USE DEF stopVars, fateVars, Stopped
<1>0. Alone
  BY SingleIs
<1>1. CASE Turned
  <2>1. UNCHANGED <<child, failure, shut, closeTask>>
    BY <1>1 DEF Turned
  <2>2. CASE Flagged /\ UNCHANGED stopVars
    BY <1>0, <2>1, <2>2 DEF Alone, Flagged
  <2>3. CASE Flagged /\ Begins
    BY <1>0, <2>1, <2>3 DEF Alone, Flagged, Begins
  <2>4. CASE Flagged /\ ~Stops
    BY <1>0, <1>1, <2>1, <2>4 DEF Alone, Flagged, Turned, Stops
  <2>5. CASE ~Flagged /\ Begins
    BY <1>0, <1>1, <2>1, <2>5 DEF Alone, Turned, Begins
  <2>6. CASE ~Flagged /\ UNCHANGED stopVars
    BY <1>0, <1>1, <2>1, <2>6 DEF Alone, Turned, Stops, Begins
  <2>7. CASE ~Flagged /\ ~Stops
    BY <1>0, <1>1, <2>1, <2>7 DEF Alone, Turned
  <2> QED BY <2>2, <2>3, <2>4, <2>5, <2>6, <2>7 DEF Stops
<1>2. CASE Forks
  BY <1>0, <1>2, ForksIs DEF Alone, Forks, Available
<1>3. CASE AsksChild
  BY <1>0, <1>3, AsksIs DEF Alone
<1>4. CASE Warned
  BY <1>0, <1>4, WarnsIs DEF Alone, Flagged
<1>5. CASE Cleaned
  <2>1. request'.pc = "forking" => request.pc = "forking"
    BY <1>5 DEF Cleaned, Rejected, GivesUp
  <2> QED BY <1>0, <1>5, <2>1 DEF Alone, Cleaned, NoStop
<1>6. CASE LeftUncertain
  <2>1. request'.pc = "forking" => request.pc = "forking"
    BY <1>6 DEF LeftUncertain, Rejected, GivesUp
  <2> QED BY <1>0, <1>6, <2>1 DEF Alone, LeftUncertain, NoStop
<1>7. CASE Presses
  BY <1>0, <1>7 DEF Alone, Presses
<1>8. CASE EngineClosed
  BY <1>0, <1>8 DEF Alone, EngineClosed
<1>9. ASSUME NEW g \in Generations, Hears(g) PROVE Alone'
  <2>1. UNCHANGED <<child, failure, shut, closeTask>> /\ child # 0
    BY <1>9, EngineBounds DEF Hears, Generations
  <2>2. CASE UNCHANGED stopVars
    <3>1. request'.pc = request.pc \/ (Stopped /\ request.pc = "asked" /\ request'.pc # "forking")
          \/ (request.pc = "initializing" /\ request'.pc = "ready" /\ start' = "ready")
      BY <1>9 DEF Hears, Heard, GivesUp, Awaited, ProcessTyped, RequestRecord
    <3> QED BY <1>0, <2>1, <2>2, <3>1 DEF Alone
  <2>3. CASE Begins
    <3>1. request'.pc = "forking" => request.pc = "forking"
      BY <1>9 DEF Hears, Heard, GivesUp, Awaited, ProcessTyped, RequestRecord
    <3> QED BY <1>0, <2>1, <2>3, <3>1 DEF Alone, Begins
  <2>4. CASE stopping.phase = "asking" /\ stopping'.phase = "asking" /\ UNCHANGED <<start, request>>
    BY <1>0, <2>1, <2>4 DEF Alone
  <2>5. CASE Stopped /\ request.pc = "initializing" /\ start' = "ready" /\ UNCHANGED stopping /\ request'.pc = "ready"
    BY <1>0, <2>1, <2>5 DEF Alone
  <2>6. Stopped /\ request' = [request EXCEPT !.pc = "ready"] => request'.pc = "ready"
    BY DEF ProcessTyped, RequestRecord
  <2> QED BY <1>9, <2>2, <2>3, <2>4, <2>5, <2>6 DEF Hears, Heard, Stops
<1>10. ASSUME NEW g \in Generations, Reaps(g) PROVE Alone'
  BY <1>0, <1>10 DEF Alone, Reaps, Stops, Begins
<1>11. ASSUME NEW g \in Generations, Moves(g) PROVE Alone'
  BY <1>0, <1>11 DEF Alone, Moves
<1> QED
  BY <1>1, <1>2, <1>3, <1>4, <1>5, <1>6, <1>7, <1>8, <1>9, <1>10, <1>11 DEF EngineStep

LEMMA BodiesStep == ASSUME ProcessTyped, Single, Farewell, EngineStep PROVE Bodies'
<1> USE DEF stopVars, fateVars, Stopped
<1>0. /\ Bodies /\ Alone /\ generation \in Nat /\ child \in {0, generation} /\ retained \in BOOLEAN
      /\ \A g \in Generations : g \in Nat /\ g # 0
      /\ child # 0 => child \in Generations
      /\ \A g \in 1 .. generation : g \in Generations
  BY SingleIs, ProcessIs, EngineBounds DEF ProcessTyped, Generations
<1>1. CASE Turned
  BY <1>0, <1>1 DEF Bodies, Turned, Stops, Begins
<1>2. CASE Forks
  <2>1. /\ Appears(child') /\ child' = generation + 1 /\ generation' = generation + 1 /\ child = 0
        /\ UNCHANGED <<failure, retained>>
    BY <1>0, <1>2, AppearsIs DEF Forks, Alone
  <2>2. kid'[child'].life = "up" /\ \A h \in Generations : h # generation + 1 => kid'[h] = kid[h]
    BY <2>1 DEF Appears, OneKid
  <2>3. \A h \in Generations : h > generation + 1 => h > generation /\ h # generation + 1
    BY <1>0
  <2>4. \A h \in 1 .. generation + 1 : h # generation + 1 => h \in 1 .. generation /\ h # 0
    BY <1>0
  <2>5. \A h \in Generations : h # generation + 1 => kid[h].life # "up"
    BY <1>0, <2>1 DEF Bodies
  <2> QED BY <1>0, <2>1, <2>2, <2>3, <2>4, <2>5 DEF Bodies
<1>3. CASE AsksChild \/ Warned
  <2>1. /\ \E m : Sent(m)
        /\ UNCHANGED <<child, generation, failure, retained, stopping>>
    BY <1>3, AsksIs, WarnsIs
  <2> QED BY <1>0, <2>1 DEF Bodies, Sent, OneKid, Likewise
<1>5. CASE Cleaned
  <2>1. retained => retained'
    BY <1>5 DEF Cleaned
  <2>2. child # 0 => kid[child].life = "reaped" /\ (retained' \/ kid[child].leaving = "told")
    BY <1>5 DEF Cleaned, Farewell
  <2>3. child' = 0 /\ UNCHANGED <<kid, generation, failure>>
    BY <1>5 DEF Cleaned
  <2> QED BY <1>0, <2>1, <2>2, <2>3 DEF Bodies
<1>6. CASE LeftUncertain
  BY <1>0, <1>6 DEF Bodies, LeftUncertain
<1>7. CASE Presses
  <2>1. \/ \E m : Sent(m)
        \/ kid' = kid \/ Struck(child)
    BY <1>7, PressesIs
  <2>2. UNCHANGED <<child, generation, failure, retained>> /\ stopping'.phase # "none" /\ child \in Generations
    BY <1>0, <1>7, ProcessIs DEF Presses
  <2>3. \A g \in Generations : kid'[g].leaving = kid[g].leaving /\ (kid'[g].life = "up" => kid[g].life = "up")
    BY <2>1, <2>2 DEF Sent, Struck, OneKid, Likewise
  <2>4. \A g \in Generations : g # child => kid'[g] = kid[g]
    BY <2>1, <2>2 DEF Sent, Struck, OneKid, Likewise
  <2>5. child = generation /\ 1 .. generation \subseteq Generations
    BY <1>0, <1>7, EngineBounds DEF Presses, ProcessTyped, Generations
  <2> QED BY <1>0, <2>2, <2>3, <2>4, <2>5 DEF Bodies
<1>8. CASE EngineClosed
  BY <1>0, <1>8 DEF Bodies, EngineClosed
<1>9. ASSUME NEW g \in Generations, Hears(g) PROVE Bodies'
  <2>1. /\ UNCHANGED <<child, generation, failure, retained>> /\ child = g /\ child # 0
        /\ OneKid(g) /\ Likewise(kid'[g], kid[g]) /\ kid'[g].life = kid[g].life
    BY <1>0, <1>9 DEF Hears, Emptied
  <2>2. stopping'.phase = "none" => stopping.phase = "none"
    BY <1>9 DEF Hears, Heard, Stops, Begins
  <2>3. g <= generation
    BY <1>0, <2>1
  <2> QED BY <1>0, <2>1, <2>2, <2>3 DEF Bodies, OneKid, Likewise
<1>10. ASSUME NEW g \in Generations, Reaps(g) PROVE Bodies'
  <2>1. /\ UNCHANGED <<child, generation, failure, retained>>
        /\ OneKid(g) /\ kid'[g].leaving = kid[g].leaving /\ kid'[g].life = "reaped"
    BY <1>10 DEF Reaps, Buried, Likewise
  <2>2. /\ stopping'.phase = "none" => stopping.phase = "none"
        /\ stopping'.phase = "none" /\ child = g => failure
    BY <1>10 DEF Reaps, Stops, Begins
  <2>3. g <= generation
    BY <1>0, <1>10 DEF Reaps, Bodies, Unborn
  <2> QED BY <1>0, <2>1, <2>2, <2>3 DEF Bodies, OneKid
<1>11. ASSUME NEW g \in Generations, Moves(g) PROVE Bodies'
  <2>1. child = g /\ g = generation
    BY SMTT(40), <1>0, <1>11 DEF Moves, Bodies
  <2>2. OneKid(g) /\ kid'[g].life \in {"up", "dead"}
    BY ZenonT(60), <1>11, MovedIs DEF Moves, Acts
  <2> QED BY <1>0, <1>11, <2>1, <2>2 DEF Bodies, OneKid, Moves
<1> QED BY <1>1, <1>2, <1>3, <1>5, <1>6, <1>7, <1>8, <1>9, <1>10, <1>11 DEF EngineStep

LEMMA SingleStep ==
  ASSUME ProcessTyped, Single, Farewell, EngineStep, hostClosing' = hostClosing
  PROVE  Single'
<1>1. Alone' /\ Bodies'
  BY AloneStep, BodiesStep
<1>2. closeTask = "resolved" => closeTask' = "resolved"
  BY DEF EngineStep, Turned, Forks, AsksChild, Warned, Post, Cleaned, LeftUncertain, Presses, EngineClosed, Hears, Reaps, Moves,
         fateVars
<1> QED BY <1>1, <1>2 DEF Single, Alone, Bodies, ChildOwned

-----------------------------------------------------------------------------
(* What a child was told and tells when it leaves.                            *)

LEMMA QueuesIs ==
  ASSUME NEW k \in KidRecord
  PROVE  /\ k.inbox \in Seq(MessageRecord) /\ k.outbox \in Seq(ReplyRecord) /\ Len(k.inbox) \in Nat /\ Len(k.outbox) \in Nat
         /\ k.work \in ErrandRecord
BY DEF KidRecord

LEMMA PartingWarned ==
  ASSUME NEW o \in KidRecord, NEW k \in KidRecord, NEW m \in MessageRecord, m.type = "cancel",
         k.inbox = Append(o.inbox, m), k.outbox = o.outbox, k.leaving = o.leaving, Parting(o)
  PROVE  Parting(k) /\ (Leaving(k) => Leaving(o)) /\ (Cancels(o) => Cancels(k))
<1>1. /\ Len(k.inbox) = Len(o.inbox) + 1 /\ Len(o.inbox) \in Nat /\ k.inbox[Len(o.inbox) + 1] = m
      /\ \A n \in 1 .. Len(o.inbox) : k.inbox[n] = o.inbox[n]
  BY QueuesIs, PostedIs
<1>2. \A n \in 1 .. Len(k.inbox) : (n \in 1 .. Len(o.inbox) /\ k.inbox[n] = o.inbox[n]) \/ k.inbox[n].type = "cancel"
  BY <1>1
<1>3. Cancels(o) => Cancels(k)
  BY <1>2 DEF Cancels
<1>4. Dismissed(k) => Dismissed(o)
  BY <1>2 DEF Dismissed
<1>5. ASSUME NEW n \in 1 .. Len(k.inbox), k.inbox[n].type = "shutdown", NEW i \in 1 .. Len(k.inbox), i > n
      PROVE  k.inbox[i].type = "cancel"
  BY <1>2, <1>5 DEF Parting
<1>6. HasAck(k) <=> HasAck(o)
  BY DEF HasAck
<1> QED BY <1>3, <1>4, <1>5, <1>6 DEF Parting, Leaving

LEMMA PartingSent ==
  ASSUME NEW o \in KidRecord, NEW k \in KidRecord, NEW m \in MessageRecord,
         k.inbox = Append(o.inbox, m), k.outbox = o.outbox, k.leaving = o.leaving, ~Leaving(o)
  PROVE  Parting(k) /\ (Leaving(k) => m.type = "shutdown")
<1>1. /\ Len(k.inbox) = Len(o.inbox) + 1 /\ Len(o.inbox) \in Nat /\ k.inbox[Len(o.inbox) + 1] = m
      /\ \A n \in 1 .. Len(o.inbox) : k.inbox[n] = o.inbox[n]
  BY QueuesIs, PostedIs
<1>2. \A n \in 1 .. Len(k.inbox) : k.inbox[n].type = "shutdown" => n = Len(k.inbox) /\ m.type = "shutdown"
  BY <1>1 DEF Leaving, Dismissed
<1>3. k.leaving # "ack" /\ ~HasAck(k)
  BY DEF Leaving, HasAck
<1>4. \A n \in 1 .. Len(k.inbox) : k.inbox[n].type = "shutdown" => \A i \in 1 .. Len(k.inbox) : ~(i > n)
  BY <1>1, <1>2
<1> QED BY <1>2, <1>3, <1>4 DEF Parting, Leaving, Dismissed

LEMMA PartingTaken ==
  ASSUME NEW o \in KidRecord, NEW k \in KidRecord, o.inbox # <<>>, k.inbox = Tail(o.inbox), Parting(o)
  PROVE  /\ Head(o.inbox) = o.inbox[1] /\ 1 \in 1 .. Len(o.inbox)
         /\ \A n \in 1 .. Len(k.inbox) : k.inbox[n].type = "shutdown" =>
              \A i \in 1 .. Len(k.inbox) : i > n => k.inbox[i].type = "cancel"
         /\ Cancels(o) => Cancels(k)
         /\ Cancels(o) => Head(o.inbox).type = "cancel"
         /\ Head(o.inbox).type = "shutdown" => Cancels(k)
         /\ Dismissed(k) => Dismissed(o)
         /\ Head(o.inbox).type = "shutdown" => Dismissed(o)
<1>1. /\ Head(o.inbox) = o.inbox[1] /\ Len(o.inbox) \in Nat \ {0} /\ Len(k.inbox) = Len(o.inbox) - 1
      /\ \A n \in 1 .. Len(k.inbox) : k.inbox[n] = o.inbox[n + 1]
  BY QueuesIs, TakenIs
<1>2. \A n \in 1 .. Len(k.inbox) : n + 1 \in 1 .. Len(o.inbox) /\ n + 1 > 1 /\ k.inbox[n] = o.inbox[n + 1]
  BY <1>1
<1>3. 1 \in 1 .. Len(o.inbox)
  BY <1>1
<1>4. ASSUME NEW n \in 1 .. Len(k.inbox), k.inbox[n].type = "shutdown", NEW i \in 1 .. Len(k.inbox), i > n
      PROVE  k.inbox[i].type = "cancel"
  <2>1. i + 1 > n + 1
    BY <1>1, <1>4
  <2> QED BY <1>2, <1>4, <2>1 DEF Parting
<1>5. Cancels(o) => Cancels(k) /\ Head(o.inbox).type = "cancel"
  BY <1>1, <1>2, <1>3 DEF Cancels
<1>6. Head(o.inbox).type = "shutdown" => Cancels(k) /\ Dismissed(o)
  BY <1>1, <1>2, <1>3 DEF Cancels, Parting, Dismissed
<1>7. Dismissed(k) => Dismissed(o)
  BY <1>2 DEF Dismissed
<1> QED BY <1>1, <1>3, <1>4, <1>5, <1>6, <1>7

LEMMA AckPosted ==
  ASSUME NEW o \in KidRecord, NEW k \in KidRecord, NEW r \in ReplyRecord, k.outbox = Append(o.outbox, r)
  PROVE  HasAck(k) => HasAck(o) \/ r.type = "ack"
<1>1. /\ Len(k.outbox) = Len(o.outbox) + 1 /\ Len(o.outbox) \in Nat /\ k.outbox[Len(o.outbox) + 1] = r
      /\ \A n \in 1 .. Len(o.outbox) : k.outbox[n] = o.outbox[n]
  BY SMTT(40), QueuesIs, PostedIs
<1> QED BY <1>1 DEF HasAck

\* After a step of the child it still parts as it should, it leaves only when
\* told, and a farewell that was given stays.
LEMMA PartingMoved ==
  ASSUME ProcessTyped, NEW g \in Generations, Moves(g), Parting(kid[g])
  PROVE  LET k == kid'[g]  o == kid[g]
         IN /\ Parting(k) /\ (Leaving(k) => Leaving(o))
            /\ o.leaving = "told" /\ Cancels(o) => k.leaving = "told" /\ Cancels(k)
<1> DEFINE o == kid[g]
           k == kid'[g]
           m == Head(o.inbox)
<1>1. o \in KidRecord /\ k \in KidRecord /\ Acts(g, k) /\ Parting(o)
  BY ProcessIs DEF Moves
<1> SUFFICES /\ Parting(k) /\ (Leaving(k) => Leaving(o))
             /\ o.leaving = "told" /\ Cancels(o) => k.leaving = "told" /\ Cancels(k)
  OBVIOUS
<1>0. o.work \in ErrandRecord
  BY SMTT(40), <1>1, QueuesIs
<1> HIDE DEF o, k
<1>2. CASE o.inbox # <<>> /\ k.inbox = Tail(o.inbox)
  <2>0. m \in MessageRecord
    BY <1>1, <1>2, QueuesIs, TakenIs
  <2> HIDE DEF m
  <2>1. /\ \A n \in 1 .. Len(k.inbox) : k.inbox[n].type = "shutdown" =>
             \A i \in 1 .. Len(k.inbox) : i > n => k.inbox[i].type = "cancel"
        /\ Cancels(o) => Cancels(k)
        /\ Cancels(o) => m.type = "cancel"
        /\ m.type = "shutdown" => Cancels(k)
        /\ Dismissed(k) => Dismissed(o)
        /\ m.type = "shutdown" => Dismissed(o)
    BY <1>1, <1>2, PartingTaken DEF m
  <2>2. CASE /\ k.outbox = o.outbox
             /\ k.leaving = o.leaving \/ (m.type = "shutdown" /\ o.leaving = "no" /\ k.leaving = "ack")
    <3>1. HasAck(k) <=> HasAck(o)
      BY <2>2 DEF HasAck
    <3> QED BY <1>1, <2>1, <2>2, <3>1 DEF Parting, Leaving
  <2>3. CASE /\ m.type = "initialize" /\ k.leaving = o.leaving
             /\ k.outbox = o.outbox \/ k.outbox = Append(o.outbox, [type |-> "reply", job |-> m.job, ok |-> TRUE])
    <3>1. HasAck(k) => HasAck(o)
      <4>1. CASE k.outbox = o.outbox
        BY <4>1 DEF HasAck
      <4>2. CASE k.outbox = Append(o.outbox, [type |-> "reply", job |-> m.job, ok |-> TRUE])
        <5>1. [type |-> "reply", job |-> m.job, ok |-> TRUE] \in ReplyRecord
          BY <2>0 DEF MessageRecord, ReplyRecord
        <5> QED BY <1>1, <4>2, <5>1, AckPosted
      <4> QED BY <2>3, <4>1, <4>2
    <3> QED BY <1>1, <2>1, <2>3, <3>1 DEF Parting, Leaving
  <2>4. CASE m.type \in Errands /\ k.outbox = o.outbox /\ (k.leaving = "quiet" \/ k.leaving = o.leaving)
    <3>1. HasAck(k) <=> HasAck(o)
      BY <2>4 DEF HasAck
    <3>2. ~Cancels(o)
      BY <2>1, <2>4 DEF Errands
    <3> QED BY <1>1, <2>1, <2>4, <3>1, <3>2 DEF Parting, Leaving
  <2>5. CASE k.life = "dead" /\ k.inbox = <<>> /\ k.outbox = o.outbox /\ k.leaving = o.leaving
    <3>1. Cancels(k) /\ ~Dismissed(k) /\ (HasAck(k) <=> HasAck(o))
      BY <2>5 DEF Cancels, Dismissed, HasAck
    <3> QED BY <1>1, <2>5, <3>1, <2>1 DEF Parting, Leaving
  <2>6. k.inbox # o.inbox
    <3>1. o.inbox \in Seq(MessageRecord)
      BY <1>1, QueuesIs
    <3>2. Len(k.inbox) = Len(o.inbox) - 1 /\ Len(o.inbox) \in Nat
      BY SMTT(40), <1>2, <3>1, TakenIs
    <3> QED BY <3>2
  <2> QED BY <1>1, <2>2, <2>3, <2>4, <2>5, <2>6 DEF Acts, o, m
<1>3. CASE k.inbox = o.inbox
  <2>1. /\ Cancels(k) <=> Cancels(o)
        /\ Dismissed(k) <=> Dismissed(o)
    BY <1>3 DEF Cancels, Dismissed
  <2>2. CASE o.inbox # <<>> /\ k.inbox = Tail(o.inbox)
    BY <1>2, <2>2
  <2>3. CASE /\ k.leaving = o.leaving /\ o.work # Idle
             /\ \E ok \in BOOLEAN : k.outbox = o.outbox \/ k.outbox = Append(o.outbox, [type |-> "reply", job |-> o.work.job, ok |-> ok])
    <3>1. HasAck(k) => HasAck(o)
      <4>1. CASE k.outbox = o.outbox
        BY <4>1 DEF HasAck
      <4>2. ASSUME NEW ok \in BOOLEAN, k.outbox = Append(o.outbox, [type |-> "reply", job |-> o.work.job, ok |-> ok])
            PROVE  HasAck(k) => HasAck(o)
        <5>1. [type |-> "reply", job |-> o.work.job, ok |-> ok] \in ReplyRecord
          BY <1>0 DEF ErrandRecord, ReplyRecord
        <5> QED BY <1>1, <4>2, <5>1, AckPosted
      <4> QED BY <2>3, <4>1, <4>2
    <3> QED BY <1>1, <1>3, <2>1, <2>3, <3>1 DEF Parting, Leaving
  <2>4. CASE /\ o.leaving \in {"ack", "quiet"} /\ k.leaving = "told"
             /\ \/ k.outbox = o.outbox
                \/ /\ o.leaving = "ack"
                   /\ \E ok \in BOOLEAN : k.outbox = Append(o.outbox, [type |-> "ack", job |-> NoJob, ok |-> ok])
    <3>1. ~HasAck(o)
      BY <1>1, <2>4 DEF Parting
    <3>2. HasAck(k) => o.leaving = "ack"
      BY <2>4, <3>1 DEF HasAck
    <3> QED BY <1>1, <1>3, <2>1, <2>4, <3>1, <3>2 DEF Parting, Leaving
  <2>5. CASE k.life = "dead" /\ k.inbox = <<>> /\ k.outbox = o.outbox /\ k.leaving = o.leaving
    <3>1. HasAck(k) <=> HasAck(o)
      BY <2>5 DEF HasAck
    <3> QED BY <1>1, <1>3, <2>1, <2>5, <3>1 DEF Parting, Leaving
  <2> QED BY <1>1, <1>3, <2>2, <2>3, <2>4, <2>5 DEF Acts, o
<1>4. CASE k.life = "dead" /\ k.inbox = <<>> /\ k.outbox = o.outbox /\ k.leaving = o.leaving
  <2>1. Cancels(k) /\ ~Dismissed(k) /\ (HasAck(k) <=> HasAck(o))
    BY <1>4 DEF Cancels, Dismissed, HasAck
  <2>2. k.inbox = <<>> => Len(k.inbox) = 0
    BY <1>1
  <2> QED BY <1>1, <1>4, <2>1, <2>2 DEF Parting, Leaving
<1> QED BY <1>1, <1>2, <1>3, <1>4 DEF Acts, o

LEMMA PartingStruck ==
  ASSUME NEW o \in KidRecord, NEW k \in KidRecord, Parting(o),
         k.outbox = o.outbox, k.leaving = o.leaving, k.inbox = <<>> \/ k.inbox = o.inbox
  PROVE  Parting(k) /\ (Leaving(k) => Leaving(o)) /\ (Cancels(o) => Cancels(k))
<1>1. HasAck(k) <=> HasAck(o)
  BY DEF HasAck
<1>2. CASE k.inbox = <<>>
  <2>1. Cancels(k) /\ ~Dismissed(k)
    BY <1>2 DEF Cancels, Dismissed
  <2> QED BY <1>1, <1>2, <2>1 DEF Parting, Leaving
<1>3. CASE k.inbox = o.inbox
  BY <1>1, <1>3 DEF Parting, Leaving, Cancels, Dismissed
<1> QED BY <1>2, <1>3

LEMMA PartingEmptied ==
  ASSUME NEW o \in KidRecord, NEW k \in KidRecord, Parting(o), o.outbox # <<>>,
         k.outbox = Tail(o.outbox), k.leaving = o.leaving, k.inbox = o.inbox
  PROVE  /\ Parting(k) /\ (Leaving(k) => Leaving(o)) /\ (Cancels(o) => Cancels(k))
         /\ Head(o.outbox).type = "ack" => o.leaving = "told" /\ Cancels(o)
<1>1. /\ Head(o.outbox) = o.outbox[1] /\ Len(o.outbox) \in Nat \ {0} /\ Len(k.outbox) = Len(o.outbox) - 1
      /\ \A n \in 1 .. Len(k.outbox) : k.outbox[n] = o.outbox[n + 1]
  BY QueuesIs, TakenIs
<1>2. HasAck(k) => HasAck(o)
  BY <1>1 DEF HasAck
<1>3. Head(o.outbox).type = "ack" => HasAck(o)
  BY <1>1 DEF HasAck
<1> QED BY <1>2, <1>3 DEF Parting, Leaving, Cancels, Dismissed

LEMMA FarewellStep == ASSUME ProcessTyped, Single, Farewell, EngineStep PROVE Farewell'
<1> USE DEF stopVars, fateVars, Stopped
<1>0. /\ Alone /\ child \in Nat /\ (child # 0 => child \in Generations /\ kid[child] \in KidRecord)
      /\ \A g \in Generations : kid[g] \in KidRecord /\ Parting(kid[g])
  BY SingleIs, ProcessIs DEF Farewell
<1>1. CASE Turned
  <2>1. UNCHANGED <<child, kid, failure>> /\ (UNCHANGED stopping \/ Begins)
    BY <1>1 DEF Turned, Stops
  <2>2. CASE UNCHANGED stopping
    BY <2>1, <2>2 DEF Farewell
  <2>3. CASE Begins
    BY <2>1, <2>3 DEF Farewell, Begins
  <2> QED BY <2>1, <2>2, <2>3
<1>2. CASE Forks
  <2>1. /\ Appears(child') /\ child' \in Generations /\ kid'[child'] \in KidRecord /\ UNCHANGED stopping /\ stopping.phase = "none"
    BY <1>2, AppearsIs DEF Forks, Appears, OneKid
  <2> DEFINE k == kid'[child']
  <2>2. k.inbox = <<Message("initialize")>> /\ k.outbox = <<>> /\ k.leaving = "no"
    BY <2>1 DEF Appears
  <2>3. Len(k.inbox) = 1 /\ k.inbox[1].type = "initialize" /\ Len(k.outbox) = 0
    BY <2>2 DEF Message
  <2>4. Parting(k) /\ ~Leaving(k)
    <3> HIDE DEF k
    <3> QED BY <2>2, <2>3 DEF Parting, Leaving, Dismissed, HasAck
  <2>5. \A g \in Generations : Parting(kid'[g])
    BY <1>0, <2>1, <2>4 DEF Appears, OneKid
  <2>6. stopping.ack # "yes"
    BY <2>1 DEF Farewell
  <2> QED BY <2>1, <2>4, <2>5, <2>6 DEF Farewell
<1>3. CASE AsksChild
  <2>1. /\ Sent(Message(request.op)) /\ UNCHANGED <<child, stopping, failure>> /\ child # 0 /\ Stopped /\ ~failure
    BY <1>3, AsksIs
  <2> DEFINE k == kid'[child]
  <2>2. Message(request.op).type # "shutdown"
    BY DEF Message, ProcessTyped, RequestRecord, Errands
  <2>3. k \in KidRecord /\ ~Leaving(kid[child])
    BY <1>0, <2>1 DEF Farewell, Sent, OneKid
  <2>4. Parting(k) /\ ~Leaving(k)
    BY <1>0, <2>1, <2>2, <2>3, PartingSent DEF Sent, Likewise
  <2>5. \A g \in Generations : Parting(kid'[g])
    BY <1>0, <2>1, <2>4 DEF Sent, OneKid
  <2> QED BY <2>1, <2>4, <2>5 DEF Farewell
<1>4. CASE Warned
  <2>1. /\ Sent(Message("cancel")) /\ UNCHANGED <<child, stopping, failure>> /\ child # 0 /\ Message("cancel").type = "cancel"
    BY <1>4, WarnsIs DEF Message
  <2> DEFINE k == kid'[child]
  <2>4. Parting(k) /\ (Leaving(k) => Leaving(kid[child])) /\ (Cancels(kid[child]) => Cancels(k)) /\ k.leaving = kid[child].leaving
    <3>1. k \in KidRecord
      BY <1>0, <2>1 DEF Sent, OneKid
    <3> QED BY <1>0, <2>1, <3>1, PartingWarned DEF Sent, Likewise
  <2>5. \A g \in Generations : Parting(kid'[g])
    BY <1>0, <2>1, <2>4 DEF Sent, OneKid
  <2> QED BY <2>1, <2>4, <2>5 DEF Farewell
<1>5. CASE Cleaned
  BY <1>5 DEF Cleaned, Farewell, NoStop
<1>6. CASE LeftUncertain
  BY <1>6 DEF LeftUncertain, Farewell, NoStop
<1>7. CASE Presses
  <2>1. child # 0 /\ ~failure /\ UNCHANGED <<child, failure>>
    BY <1>0, <1>7 DEF Presses, Alone
  <2> DEFINE k == kid'[child]
  <2>2. CASE stopping.phase = "begun" /\ stopping'.phase = "asking" /\ stopping'.ack = stopping.ack /\ Sent(Message("shutdown"))
    <3>1. k \in KidRecord /\ ~Leaving(kid[child]) /\ stopping.ack # "yes"
      BY <1>0, <2>1, <2>2 DEF Farewell, Sent, OneKid
    <3>2. Parting(k)
      BY <1>0, <2>1, <2>2, <3>1, PartingSent DEF Sent, Likewise
    <3>3. \A g \in Generations : Parting(kid'[g])
      BY <1>0, <2>2, <3>2 DEF Sent, OneKid
    <3> QED BY <2>2, <3>1, <3>3 DEF Farewell
  <2>3. CASE /\ stopping'.phase = "reaping" /\ stopping'.ack \in {stopping.ack, "none"}
             /\ kid' = kid \/ Struck(child)
    <3>1. CASE kid' = kid
      BY <2>1, <2>3, <3>1 DEF Farewell
    <3>2. CASE Struck(child)
      <4>1. /\ k \in KidRecord /\ k.outbox = kid[child].outbox /\ k.leaving = kid[child].leaving
            /\ k.inbox = <<>> \/ k.inbox = kid[child].inbox
        BY <1>0, <2>1, <3>2 DEF Struck, OneKid, KidRecord
      <4>2. Parting(k) /\ (Cancels(kid[child]) => Cancels(k))
        BY <1>0, <2>1, <4>1, PartingStruck
      <4>3. \A g \in Generations : Parting(kid'[g])
        BY <1>0, <3>2, <4>2 DEF Struck, OneKid
      <4> QED BY <2>1, <2>3, <4>1, <4>2, <4>3 DEF Farewell
    <3> QED BY <2>3, <3>1, <3>2
  <2> QED BY <1>7, <2>2, <2>3, PressesIs
<1>8. CASE EngineClosed
  BY <1>8 DEF Farewell, EngineClosed
<1>9. ASSUME NEW g \in Generations, Hears(g) PROVE Farewell'
  <2>1. /\ UNCHANGED <<child, failure>> /\ child = g /\ Emptied(g) /\ kid[g].outbox # <<>> /\ child # 0
    BY <1>9, EngineBounds DEF Hears, Generations
  <2> DEFINE k == kid'[g]
             o == kid[g]
  <2>2. /\ Parting(k) /\ (Leaving(k) => Leaving(o)) /\ (Cancels(o) => Cancels(k)) /\ k.leaving = o.leaving
        /\ Head(o.outbox).type = "ack" => o.leaving = "told" /\ Cancels(o)
    <3>1. k \in KidRecord /\ o \in KidRecord /\ Parting(o) /\ o.outbox # <<>>
      BY <1>0, <2>1 DEF Emptied, OneKid
    <3>2. k.outbox = Tail(o.outbox) /\ k.leaving = o.leaving /\ k.inbox = o.inbox
      BY <2>1 DEF Emptied, Likewise
    <3> HIDE DEF k, o
    <3> QED BY <3>1, <3>2, PartingEmptied
  <2>3. \A h \in Generations : Parting(kid'[h])
    BY <1>0, <2>1, <2>2 DEF Emptied, OneKid
  <2>4. \/ UNCHANGED stopping
        \/ Stopped /\ ~failure /\ stopping'.phase = "begun" /\ stopping'.ack = "none"
        \/ /\ stopping.phase = "asking" /\ stopping'.phase = "asking"
           /\ stopping'.ack = "yes" => stopping.ack = "yes" \/ Head(o.outbox).type = "ack"
    BY <1>9 DEF Hears, Heard, Stops, Begins
  <2> HIDE DEF k, o
  <2>5. child' # 0 /\ Leaving(kid'[child']) => failure' \/ stopping'.phase \in {"asking", "reaping"}
    BY <2>1, <2>2, <2>4 DEF Farewell, k, o
  <2>6. stopping'.ack = "yes" => /\ stopping'.phase \in {"asking", "reaping"}
                                 /\ kid'[child'].leaving = "told" /\ Cancels(kid'[child'])
    BY <2>1, <2>2, <2>4 DEF Farewell, k, o
  <2> QED BY <2>3, <2>5, <2>6 DEF Farewell
<1>10. ASSUME NEW g \in Generations, Reaps(g) PROVE Farewell'
  <2>1. /\ UNCHANGED <<child, failure>> /\ Buried(g) /\ (UNCHANGED stopping \/ Begins)
    BY <1>10 DEF Reaps, Stops
  <2>2. \A h \in Generations : /\ Parting(kid'[h]) /\ (Leaving(kid'[h]) => Leaving(kid[h])) /\ (Cancels(kid[h]) => Cancels(kid'[h]))
                               /\ kid'[h].leaving = kid[h].leaving
    <3>1. /\ Parting(kid'[g]) /\ (Leaving(kid'[g]) => Leaving(kid[g])) /\ (Cancels(kid[g]) => Cancels(kid'[g]))
          /\ kid'[g].leaving = kid[g].leaving
      <4>1. kid'[g] \in KidRecord /\ kid[g] \in KidRecord /\ Parting(kid[g])
        BY <1>0, <2>1 DEF Buried, OneKid
      <4>2. kid'[g].outbox = kid[g].outbox /\ kid'[g].leaving = kid[g].leaving /\ kid'[g].inbox = kid[g].inbox
        BY <2>1 DEF Buried, Likewise
      <4> QED BY <4>1, <4>2, PartingStruck
    <3> QED BY <1>0, <2>1, <3>1 DEF Buried, OneKid
  <2> QED BY <1>0, <2>1, <2>2 DEF Farewell, Begins, Alone
<1>11. ASSUME NEW g \in Generations, Moves(g) PROVE Farewell'
  <2>1. UNCHANGED <<child, failure, stopping>> /\ OneKid(g)
    BY <1>11, MovedIs DEF Moves
  <2>2. \A h \in Generations :
          /\ Parting(kid'[h]) /\ (Leaving(kid'[h]) => Leaving(kid[h]))
          /\ kid[h].leaving = "told" /\ Cancels(kid[h]) => kid'[h].leaving = "told" /\ Cancels(kid'[h])
    BY <1>0, <1>11, <2>1, PartingMoved DEF OneKid
  <2> QED BY <1>0, <2>1, <2>2 DEF Farewell, Alone
<1> QED
  BY <1>1, <1>2, <1>3, <1>4, <1>5, <1>6, <1>7, <1>8, <1>9, <1>10, <1>11 DEF EngineStep

-----------------------------------------------------------------------------
(* The request, after each step of the process.                               *)

Fits ==
  /\ request.pc \in {"forking", "initializing", "ready"} => Queries
  /\ request.pc = "restarting" => request.op = "restart"
  /\ Awaited => child # 0 /\ ~failure
  /\ request.pc = "asked" => request.child = child
  /\ request.pc = "answered" => request.child \in 1 .. generation
  /\ request.pc = "done" /\ request.value /\ Queries => request.child = generation /\ generation # 0
Assigned ==
  /\ request.pc = "idle" <=> request.job = NoJob
  /\ request.pc # "idle" => request.op # "none" /\ request.owner \in Owners
  /\ \A i \in Invocations :
       /\ inv[i].pc = "asking" <=> request.job = i
       /\ inv[i].pc \in {"admitting", "queued", "reading", "asking"} => inv[i].root \in Roots /\ inv[i].op # "none"
       /\ request.job = i => request.op = Errand(i) /\ request.owner = OwnerOf[inv[i].root]
  /\ request.job \in Owners => request.op = "retire" /\ request.owner = request.job
  /\ Open /\ request.job \in Invocations => retiring[request.owner] # "done"

LEMMA RequestSoundIs == RequestSound <=> Fits /\ Assigned
BY DEF RequestSound, Fits, Assigned

SameErrand == Same /\ (request'.pc = "idle" <=> request.pc = "idle")

LEMMA HearsIs ==
  ASSUME ProcessTyped, NEW g \in Generations, Hears(g)
  PROVE  /\ child = g /\ g # 0 /\ g = generation /\ kid[g].outbox # <<>> /\ Emptied(g) /\ UNCHANGED <<child, generation, fateVars>>
         /\ Head(kid[g].outbox).ok \in BOOLEAN
         /\ \/ UNCHANGED request
            \/ Stopped /\ request.pc = "initializing" /\ request' \in RequestRecord /\ Same /\ request'.pc = "ready"
            \/ /\ Stopped /\ request.pc = "asked" /\ request' \in RequestRecord /\ Same /\ request'.pc = "answered"
               /\ request'.child = request.child /\ request'.value = Head(kid[g].outbox).ok
               /\ Head(kid[g].outbox).job = request.job
            \/ Stopped /\ request.pc = "asked" /\ GivesUp
         /\ stopping'.phase = "none" => stopping.phase = "none"
<1> DEFINE m == Head(kid[g].outbox)
<1>1. m \in ReplyRecord
  BY TakenIs DEF Hears, Emptied
<1>2. m.ok \in BOOLEAN
  BY <1>1 DEF ReplyRecord
<1>3. child = g /\ g # 0 /\ g = generation /\ kid[g].outbox # <<>> /\ Emptied(g) /\ UNCHANGED <<child, generation, fateVars>> /\ Heard(g)
  BY EngineBounds DEF Hears, Generations, ProcessTyped
<1>4. request' = [request EXCEPT !.pc = "ready"] => request' \in RequestRecord /\ Same /\ request'.pc = "ready"
  BY DEF ProcessTyped, RequestRecord, RequestPoints, Same
<1>5. request' = [request EXCEPT !.pc = "answered", !.value = m.ok] =>
        request' \in RequestRecord /\ Same /\ request'.pc = "answered" /\ request'.child = request.child /\ request'.value = m.ok
  <2> HIDE DEF m
  <2> QED BY <1>2 DEF ProcessTyped, RequestRecord, RequestPoints, Same
<1>6. stopping'.phase = "none" => stopping.phase = "none"
  BY <1>3 DEF Heard, Stops, Begins, stopVars
<1> QED BY <1>2, <1>3, <1>4, <1>5, <1>6 DEF Heard

LEMMA SameErrandIs == ASSUME ProcessTyped, EngineStep PROVE SameErrand
<1>1. CASE Turned
  BY <1>1 DEF Turned, Flagged, SameErrand
<1>2. CASE Forks
  BY <1>2, ForksIs DEF Forks, SameErrand
<1>3. CASE AsksChild
  BY <1>3, AsksIs DEF SameErrand
<1>4. CASE Warned
  BY <1>4, WarnsIs DEF SameErrand, Flagged
<1>5. CASE Cleaned \/ LeftUncertain
  BY <1>5 DEF Cleaned, LeftUncertain, Rejected, GivesUp, SameErrand, Same
<1>6. CASE Presses \/ EngineClosed
  BY <1>6 DEF Presses, EngineClosed, SameErrand, Same
<1>7. ASSUME NEW g \in Generations, Hears(g) PROVE SameErrand
  BY <1>7, HearsIs DEF SameErrand, Same, GivesUp
<1>8. ASSUME NEW g \in Generations, Reaps(g) \/ Moves(g) PROVE SameErrand
  BY <1>8 DEF Reaps, Moves, SameErrand, Same
<1> QED BY <1>1, <1>2, <1>3, <1>4, <1>5, <1>6, <1>7, <1>8 DEF EngineStep

LEMMA FitsStep == ASSUME ProcessTyped, Single, RequestSound, EngineStep PROVE Fits'
<1> USE DEF stopVars, fateVars
<1>0. Alone /\ Fits /\ generation \in Nat /\ child \in {0, generation} /\ Same /\ (Queries' <=> Queries)
  BY SingleIs, RequestSoundIs, SameErrandIs DEF ProcessTyped, SameErrand, Same, Queries
<1>1. CASE Turned
  <2>1. UNCHANGED <<child, generation, failure>>
    BY <1>1 DEF Turned
  <2>2. CASE Flagged
    BY <1>0, <2>1, <2>2 DEF Fits, Flagged, Same, Awaited
  <2>3. CASE ~Flagged
    <3>1. /\ request'.pc \in {"forking", "ready", "joining", "restarting", "done"}
          /\ request'.pc \in {"forking", "ready"} => Queries
          /\ request'.pc = "restarting" => request.op = "restart"
          /\ request'.pc = "done" /\ request'.value => Earned /\ request'.child = request.child
      BY <1>1, <2>3 DEF Turned
    <3>2. request'.pc = "done" /\ request'.value /\ Queries => request'.child = generation /\ generation # 0
      BY <1>0, <3>1 DEF Earned, Queries, Fits
    <3> QED BY <1>0, <2>1, <3>1, <3>2 DEF Fits, Awaited, Same
  <2> QED BY <2>2, <2>3
<1>2. CASE Forks
  <2>1. child' = generation + 1 /\ failure' = failure /\ ~failure /\ Queries /\ request'.pc = "initializing"
    BY <1>0, <1>2, ForksIs DEF Forks, Available, Fits
  <2> QED BY <1>0, <2>1 DEF Fits, Awaited
<1>3. CASE AsksChild
  <2>1. request'.pc = "asked" /\ request'.child = child /\ UNCHANGED <<child, failure>> /\ child # 0 /\ ~failure
    BY <1>3, AsksIs
  <2> QED BY <1>0, <2>1 DEF Fits, Awaited
<1>4. CASE Warned
  <2>1. UNCHANGED <<child, generation, failure>>
    BY <1>4, WarnsIs
  <2>2. request'.pc = request.pc /\ request'.child = request.child /\ request'.value = request.value
    BY <1>4, WarnsIs DEF Flagged
  <2> QED BY <1>0, <2>1, <2>2 DEF Fits, Awaited, Same
<1>5. CASE Cleaned \/ LeftUncertain
  <2>1. Rejected /\ generation' = generation
    BY <1>5 DEF Cleaned, LeftUncertain
  <2>2. CASE Awaited
    BY <1>0, <2>1, <2>2 DEF Rejected, GivesUp, Fits, Awaited
  <2>3. CASE ~Awaited
    BY <1>0, <2>1, <2>3 DEF Rejected, Fits, Awaited
  <2> QED BY <2>2, <2>3
<1>6. CASE Presses \/ EngineClosed
  BY <1>0, <1>6 DEF Presses, EngineClosed, Fits, Awaited
<1>7. ASSUME NEW g \in Generations, Hears(g) PROVE Fits'
  <2>1. UNCHANGED <<child, generation, failure>> /\ child \in 1 .. generation
    BY <1>0, <1>7, HearsIs
  <2>2. CASE UNCHANGED request
    BY <1>0, <2>1, <2>2 DEF Fits, Awaited
  <2>3. CASE request.pc = "initializing" /\ request'.pc = "ready"
    BY <1>0, <2>1, <2>3 DEF Fits, Awaited
  <2>4. CASE request.pc = "asked" /\ request'.pc = "answered" /\ request'.child = request.child
    BY <1>0, <2>1, <2>4 DEF Fits, Awaited
  <2>5. CASE GivesUp
    BY <1>0, <2>1, <2>5 DEF Fits, Awaited, GivesUp
  <2> QED BY <1>7, <2>2, <2>3, <2>4, <2>5, HearsIs
<1>8. ASSUME NEW g \in Generations, Reaps(g) \/ Moves(g) PROVE Fits'
  BY <1>0, <1>8 DEF Reaps, Moves, Fits, Awaited
<1> QED BY <1>1, <1>2, <1>3, <1>4, <1>5, <1>6, <1>7, <1>8 DEF EngineStep

\* The host's records, as far as they are about the request, stay the same.
SameHost == UNCHANGED <<retiring, hostClosing>>
            /\ \A i \in Invocations : inv'[i].pc = inv[i].pc /\ inv'[i].root = inv[i].root /\ inv'[i].op = inv[i].op
LEMMA AssignedStep == ASSUME RequestSound, SameErrand, SameHost PROVE Assigned'
<1>1. \A i \in Invocations : Errand(i)' = Errand(i)
  BY DEF SameHost, Errand
<1>2. /\ request'.pc = "idle" <=> request'.job = NoJob
      /\ request'.pc # "idle" => request'.op # "none" /\ request'.owner \in Owners
  BY RequestSoundIs DEF Assigned, SameErrand, Same
<1>3. ASSUME NEW i \in Invocations
      PROVE  /\ inv'[i].pc = "asking" <=> request'.job = i
             /\ inv'[i].pc \in {"admitting", "queued", "reading", "asking"} => inv'[i].root \in Roots /\ inv'[i].op # "none"
             /\ request'.job = i => request'.op = Errand(i)' /\ request'.owner = OwnerOf[inv'[i].root]
  BY <1>1, RequestSoundIs DEF Assigned, SameErrand, Same, SameHost
<1>4. /\ request'.job \in Owners => request'.op = "retire" /\ request'.owner = request'.job
      /\ Open' /\ request'.job \in Invocations => retiring'[request'.owner] # "done"
  BY RequestSoundIs DEF Assigned, SameErrand, Same, SameHost, Open
<1> QED BY <1>2, <1>3, <1>4 DEF Assigned

-----------------------------------------------------------------------------
(* A conversation that was retired stays out of the child.                    *)

LEMMA CleanSent ==
  ASSUME NEW o \in KidRecord, NEW k \in KidRecord, NEW m \in MessageRecord, NEW c,
         k.inbox = Append(o.inbox, m), Likewise(k, o), m.owner = c => m.type \in Retiring, CleanOf(o, c)
  PROVE  CleanOf(k, c)
<1>1. /\ Len(k.inbox) = Len(o.inbox) + 1 /\ Len(o.inbox) \in Nat /\ k.inbox[Len(o.inbox) + 1] = m
      /\ \A n \in 1 .. Len(o.inbox) : k.inbox[n] = o.inbox[n]
  BY QueuesIs, PostedIs
<1>2. \A n \in 1 .. Len(k.inbox) : (n \in 1 .. Len(o.inbox) /\ k.inbox[n] = o.inbox[n]) \/ k.inbox[n] = m
  BY <1>1
<1> QED BY <1>2 DEF CleanOf, Likewise

LEMMA CleanLike ==
  ASSUME NEW o, NEW k, NEW c, k.inbox = o.inbox, Likewise(k, o), CleanOf(o, c)
  PROVE  CleanOf(k, c)
BY DEF CleanOf, Likewise

\* A child that is new, or gone, has nothing of anybody.
LEMMA CleanNew ==
  ASSUME NEW k, NEW c \in Owners, k.owners = {}, k.work = Idle,
         k.inbox = <<>> \/ k.inbox = <<Message("initialize")>>
  PROVE  CleanOf(k, c)
<1>1. k.work.owner # c
  BY UnbornIs, EngineNames
<1>2. CASE k.inbox = <<>>
  BY <1>1, <1>2 DEF CleanOf
<1>3. CASE k.inbox = <<Message("initialize")>>
  <2>1. Len(k.inbox) = 1 /\ k.inbox[1].type = "initialize"
    BY SMTT(40), <1>3 DEF Message
  <2> QED BY <1>1, <2>1 DEF CleanOf, Retiring
<1> QED BY <1>2, <1>3

LEMMA CleanMoved ==
  ASSUME ProcessTyped, NEW g \in Generations, Moves(g), NEW c \in Owners, CleanOf(kid[g], c)
  PROVE  CleanOf(kid'[g], c)
<1> DEFINE o == kid[g]
           k == kid'[g]
           m == Head(o.inbox)
<1>1. o \in KidRecord /\ k \in KidRecord /\ Acts(g, k) /\ CleanOf(o, c)
  BY ProcessIs DEF Moves
<1>2. o.work \in ErrandRecord
  BY <1>1, QueuesIs
<1> SUFFICES CleanOf(k, c)
  OBVIOUS
<1> HIDE DEF o, k
<1>3. CASE /\ o.inbox # <<>> /\ k.inbox = Tail(o.inbox) /\ k.owners = o.owners
           /\ k.work = o.work \/ k.work = m
  <2>1. /\ m = o.inbox[1] /\ Len(o.inbox) \in Nat \ {0} /\ Len(k.inbox) = Len(o.inbox) - 1
        /\ \A n \in 1 .. Len(k.inbox) : k.inbox[n] = o.inbox[n + 1]
    BY <1>1, <1>3, QueuesIs, TakenIs
  <2>2. /\ 1 \in 1 .. Len(o.inbox)
        /\ \A n \in 1 .. Len(k.inbox) : n + 1 \in 1 .. Len(o.inbox) /\ k.inbox[n] = o.inbox[n + 1]
    BY <2>1
  <2> HIDE DEF m
  <2>3. m.owner = c => m.type \in Retiring
    BY <1>1, <2>1, <2>2 DEF CleanOf
  <2>4. \A n \in 1 .. Len(k.inbox) : k.inbox[n].owner = c => k.inbox[n].type \in Retiring
    BY <1>1, <2>2 DEF CleanOf
  <2> QED BY <1>1, <1>3, <2>3, <2>4 DEF CleanOf
<1>4. CASE k.inbox = o.inbox /\ k.work = Idle
           /\ k.owners \in {o.owners, IF o.work.type \in {"retire", "reset"} THEN o.owners \ {o.work.owner}
                                      ELSE o.owners \cup {o.work.owner}}
  <2>1. k.work.owner # c
    BY <1>4, UnbornIs, EngineNames
  <2>2. o.work.owner = c => o.work.type \in {"retire", "reset"}
    BY <1>1, <1>2 DEF CleanOf, Retiring, ErrandRecord, Errands
  <2>3. c \notin k.owners
    BY <1>1, <1>4, <2>2 DEF CleanOf
  <2> QED BY <1>1, <1>4, <2>1, <2>3 DEF CleanOf
<1>5. CASE k.inbox = o.inbox /\ k.owners = o.owners /\ k.work = o.work
  BY <1>1, <1>5 DEF CleanOf
<1>6. CASE k.inbox = <<>> /\ k.owners = {} /\ k.work = Idle
  BY <1>6, CleanNew
<1> QED BY <1>1, <1>3, <1>4, <1>5, <1>6 DEF Acts, o, m

LEMMA CleanStep ==
  ASSUME ProcessTyped, Single, EngineStep, NEW c \in Owners, child # 0 => CleanOf(kid[child], c),
         AsksChild => request.owner # c \/ request.op \in Retiring, child' # 0
  PROVE  CleanOf(kid'[child'], c)
<1>0. child # 0 => child \in Generations /\ kid[child] \in KidRecord
  BY ProcessIs
<1>1. CASE Turned
  BY <1>1 DEF Turned
<1>2. CASE Forks
  BY <1>2, AppearsIs, CleanNew DEF Appears
<1>3. CASE AsksChild
  <2>1. Sent(Message(request.op)) /\ child' = child
    BY <1>3, AsksIs
  <2>2. Message(request.op).owner = c => Message(request.op).type \in Retiring
    BY <1>3 DEF Message
  <2>3. kid'[child] \in KidRecord /\ kid[child] \in KidRecord
    BY <2>1 DEF Sent, OneKid
  <2> QED BY <2>1, <2>2, <2>3, CleanSent DEF Sent
<1>4. CASE Warned
  <2>1. Sent(Message("cancel")) /\ child' = child
    BY <1>4, WarnsIs
  <2>2. Message("cancel").type \in Retiring
    BY DEF Message, Retiring
  <2>3. kid'[child] \in KidRecord /\ kid[child] \in KidRecord
    BY <2>1 DEF Sent, OneKid
  <2> QED BY <2>1, <2>2, <2>3, CleanSent DEF Sent
<1>5. CASE Cleaned
  BY <1>5 DEF Cleaned
<1>6. CASE LeftUncertain \/ EngineClosed
  BY <1>6 DEF LeftUncertain, EngineClosed
<1>7. CASE Presses
  <2>1. child' = child /\ child # 0
    BY <1>7 DEF Presses
  <2>2. CASE Sent(Message("shutdown"))
    <3>1. Message("shutdown").type \in Retiring
      BY DEF Message, Retiring
    <3>2. kid'[child] \in KidRecord /\ kid[child] \in KidRecord
      BY <2>2 DEF Sent, OneKid
    <3> QED BY <2>1, <2>2, <3>1, <3>2, CleanSent DEF Sent
  <2>3. CASE Struck(child)
    BY <1>0, <2>1, <2>3, CleanNew DEF Struck
  <2> QED BY <1>7, <2>1, <2>2, <2>3, PressesIs
<1>8. ASSUME NEW g \in Generations, Hears(g) PROVE CleanOf(kid'[child'], c)
  BY <1>8, HearsIs, CleanLike DEF Emptied
<1>9. ASSUME NEW g \in Generations, Reaps(g) PROVE CleanOf(kid'[child'], c)
  <2>1. child' = child /\ child \in Generations
    BY <1>0, <1>9 DEF Reaps
  <2>2. CASE child = g
    BY <1>9, <2>1, <2>2, CleanLike DEF Reaps, Buried
  <2>3. CASE child # g
    BY <1>9, <2>1, <2>3 DEF Reaps, Buried, OneKid
  <2> QED BY <2>2, <2>3
<1>10. ASSUME NEW g \in Generations, Moves(g) PROVE CleanOf(kid'[child'], c)
  <2>1. child' = child /\ child = g
    BY <1>10, SingleIs DEF Moves, Bodies
  <2> QED BY <1>10, <1>0, <2>1, CleanMoved
<1> QED BY <1>1, <1>2, <1>3, <1>4, <1>5, <1>6, <1>7, <1>8, <1>9, <1>10 DEF EngineStep

\* A request of a retirement that is told to have succeeded has cleaned.
Affirmed ==
  /\ request.op = "retire" /\ request.value /\ child # 0
  /\ request.pc = "done" \/ (request.pc = "answered" /\ request.child = child)

LEMMA AffirmedStep ==
  ASSUME ProcessTyped, Single, RequestSound, RetiredClean, Exchange, EngineStep, Affirmed'
  PROVE  CleanOf(kid'[child'], request'.owner)
<1> USE DEF fateVars
<1>0. /\ Same /\ request.op = "retire" /\ request.pc # "idle" /\ request.owner \in Owners
      /\ request'.pc \in {"done", "answered"} /\ request'.value /\ child' # 0 /\ ~Queries
  BY SameErrandIs, RequestSoundIs DEF Affirmed, SameErrand, Same, Assigned, Queries
<1>1. ASSUME child # 0 => CleanOf(kid[child], request.owner) PROVE CleanOf(kid'[child'], request'.owner)
  <2>1. request.op \in Retiring
    BY <1>0 DEF Retiring
  <2> QED BY <1>0, <1>1, <2>1, CleanStep DEF Same
<1>2. CASE Affirmed
  BY <1>1, <1>2 DEF Affirmed, RetiredClean
<1>3. CASE Turned /\ ~Affirmed
  <2>1. ~Flagged
    BY <1>3 DEF Turned, Flagged, Affirmed, Same
  <2>2. Earned /\ request'.child = request.child
    BY <1>0, <1>3, <2>1 DEF Turned
  <2>3. CASE Stopped /\ ~failure /\ (child = 0 \/ kid[child].life = "reaped")
    BY <1>0, <1>3, <2>3, SingleIs DEF Turned, Bodies
  <2>4. CASE request.pc = "answered" /\ request.value /\ request.child = child
    BY <1>0, <1>3, <2>4 DEF Affirmed, Turned
  <2> QED BY <1>0, <2>2, <2>3, <2>4 DEF Earned
<1>4. CASE Forks
  BY <1>0, <1>4, ForksIs
<1>5. CASE AsksChild
  BY <1>0, <1>5, AsksIs
<1>6. CASE Warned /\ ~Affirmed
  <2>1. FALSE
    <3>1. Flagged /\ child' = child
      BY <1>6, WarnsIs
    <3> QED BY <1>0, <1>6, <3>1 DEF Affirmed, Flagged, Same
  <2> QED BY <2>1
<1>7. CASE Cleaned
  BY <1>0, <1>7 DEF Cleaned
<1>8. CASE LeftUncertain /\ ~Affirmed
  BY <1>0, <1>8 DEF LeftUncertain, Rejected, GivesUp, Affirmed
<1>9. CASE (Presses \/ EngineClosed) /\ ~Affirmed
  BY <1>9 DEF Presses, EngineClosed, Affirmed
<1>10. ASSUME NEW g \in Generations, Hears(g), ~Affirmed PROVE CleanOf(kid'[child'], request'.owner)
  <2>1. /\ child = g /\ child # 0 /\ child' = child /\ kid[g].outbox # <<>> /\ Emptied(g)
        /\ Stopped /\ request.pc = "asked" /\ request'.pc = "answered" /\ request'.value = Head(kid[g].outbox).ok
    BY <1>0, <1>10, HearsIs DEF Affirmed, GivesUp
  <2>2. ~failure /\ kid[g].outbox[1].ok
    <3>1. Head(kid[g].outbox) = kid[g].outbox[1]
      BY <2>1, TakenIs DEF Emptied
    <3> QED BY <1>0, <2>1, <3>1, RequestSoundIs DEF Fits, Awaited
  <2>3. CleanOf(kid[g], request.owner)
    BY <1>0, <2>1, <2>2 DEF Exchange
  <2> QED BY <1>1, <2>1, <2>3
<1>11. ASSUME NEW g \in Generations, Reaps(g) \/ Moves(g), ~Affirmed PROVE CleanOf(kid'[child'], request'.owner)
  BY <1>11 DEF Reaps, Moves, Affirmed
<1> QED BY <1>2, <1>3, <1>4, <1>5, <1>6, <1>7, <1>8, <1>9, <1>10, <1>11 DEF EngineStep

LEMMA RetiredCleanStep ==
  ASSUME ProcessTyped, Single, RequestSound, RetiredClean, Exchange, EngineStep, UNCHANGED <<retiring, hostClosing>>
  PROVE  RetiredClean'
<1>1. ASSUME NEW c \in Owners, Open, retiring[c] = "done", child' # 0 PROVE CleanOf(kid'[child'], c)
  <2>1. child # 0 => CleanOf(kid[child], c)
    BY <1>1 DEF RetiredClean
  <2>2. ASSUME AsksChild PROVE request.owner # c \/ request.op \in Retiring
    <3>1. request.job \in Jobs
      BY <2>2, AsksIs, RequestSoundIs DEF Assigned, ProcessTyped, RequestRecord
    <3>2. CASE request.job \in Invocations
      BY <1>1, <3>2, RequestSoundIs DEF Assigned
    <3>3. CASE request.job \in Owners
      BY <3>3, RequestSoundIs DEF Assigned, Retiring
    <3> QED BY <3>1, <3>2, <3>3, HostNames
  <2> QED BY <1>1, <2>1, <2>2, CleanStep
<1>2. Affirmed' => CleanOf(kid'[child'], request'.owner)
  BY AffirmedStep
<1> QED BY <1>1, <1>2 DEF RetiredClean, Affirmed, Open

-----------------------------------------------------------------------------
(* The child that serves and its one request.                                 *)

Working(k) == k.work # Idle \/ k.outbox # <<>>
Letter(r) == [type |-> r.op, job |-> r.job, owner |-> r.owner]
Serving(k, r) ==
  /\ \A n \in 1 .. Len(k.inbox) :
       \/ k.inbox[n].type = "cancel"
       \/ r.pc = "initializing" /\ k.inbox[n].type = "initialize" /\ ~Working(k)
       \/ r.pc = "asked" /\ k.inbox[n] = Letter(r) /\ ~Working(k)
  /\ \A n, m \in 1 .. Len(k.inbox) : k.inbox[n].type # "cancel" /\ k.inbox[m].type # "cancel" => n = m
  /\ k.work # Idle => r.pc = "asked" /\ k.work = Letter(r) /\ k.outbox = <<>>
  /\ k.outbox # <<>> => r.pc \in {"initializing", "asked"} /\ Len(k.outbox) = 1
  /\ r.pc = "asked" /\ k.outbox # <<>> => k.outbox[1].job = r.job
  /\ r.pc = "asked" /\ k.outbox # <<>> /\ r.op = "retire" /\ k.outbox[1].ok => CleanOf(k, r.owner)
Serves == child # 0 /\ Stopped /\ ~failure
Saw == Serves /\ request.pc = "asked" /\ Working(kid[child]) /\ request.job \in Invocations

LEMMA ExchangeIs == Exchange <=> (Serves => Serving(kid[child], request)) /\ (Saw => Synced(request.job))
BY DEF Exchange, Serves, Serving, Saw, Working, Letter, Message, Awaited

\* A child without a request of the host has nothing to do.
Still(k) == Cancels(k) /\ k.work = Idle /\ k.outbox = <<>>
LEMMA StillIs == ASSUME NEW k, NEW r, Serving(k, r), r.pc \notin {"initializing", "asked"} PROVE Still(k)
BY DEF Serving, Still, Cancels

LEMMA StillServes == ASSUME NEW k, NEW r, Still(k) PROVE Serving(k, r)
BY DEF Serving, Still, Cancels

\* A message is sent to a child that had nothing to do.
LEMMA ServingSent ==
  ASSUME NEW o \in KidRecord, NEW k \in KidRecord, NEW m \in MessageRecord, NEW r, k.inbox = Append(o.inbox, m),
         k.outbox = o.outbox, Likewise(k, o), Still(o),
         \/ r.pc = "asked" /\ m = Letter(r)
         \/ r.pc = "initializing" /\ m.type = "initialize"
  PROVE  Serving(k, r)
<1>1. /\ Len(k.inbox) = Len(o.inbox) + 1 /\ Len(o.inbox) \in Nat /\ k.inbox[Len(o.inbox) + 1] = m
      /\ \A n \in 1 .. Len(o.inbox) : k.inbox[n] = o.inbox[n]
  BY QueuesIs, PostedIs
<1>2. ~Working(k)
  BY DEF Working, Still, Likewise
<1>3. \A n \in 1 .. Len(k.inbox) : k.inbox[n].type = "cancel" \/ (k.inbox[n] = m /\ n = Len(o.inbox) + 1)
  BY <1>1 DEF Still, Cancels
<1> QED BY <1>2, <1>3 DEF Serving, Working

\* A cancellation changes nothing of what a child does for the request.
LEMMA ServingWarned ==
  ASSUME NEW o \in KidRecord, NEW k \in KidRecord, NEW m \in MessageRecord, NEW r, k.inbox = Append(o.inbox, m),
         k.outbox = o.outbox, Likewise(k, o), m.type = "cancel", Serving(o, r)
  PROVE  Serving(k, r)
<1>1. /\ Len(k.inbox) = Len(o.inbox) + 1 /\ Len(o.inbox) \in Nat /\ k.inbox[Len(o.inbox) + 1] = m
      /\ \A n \in 1 .. Len(o.inbox) : k.inbox[n] = o.inbox[n]
  BY QueuesIs, PostedIs
<1>2. Working(k) <=> Working(o)
  BY DEF Working, Likewise
<1>3. \A n \in 1 .. Len(k.inbox) : k.inbox[n].type = "cancel" \/ (n \in 1 .. Len(o.inbox) /\ k.inbox[n] = o.inbox[n])
  BY <1>1
<1>4. CleanOf(o, r.owner) => CleanOf(k, r.owner)
  <2>1. m.type \in Retiring
    BY DEF Retiring
  <2> QED BY <2>1, CleanSent
<1>5. \A n \in 1 .. Len(k.inbox) :
        \/ k.inbox[n].type = "cancel"
        \/ r.pc = "initializing" /\ k.inbox[n].type = "initialize" /\ ~Working(k)
        \/ r.pc = "asked" /\ k.inbox[n] = Letter(r) /\ ~Working(k)
  BY <1>2, <1>3 DEF Serving
<1>6. \A n, i \in 1 .. Len(k.inbox) : k.inbox[n].type # "cancel" /\ k.inbox[i].type # "cancel" => n = i
  BY <1>3 DEF Serving
<1> QED BY <1>4, <1>5, <1>6 DEF Serving, Likewise

\* The host hears all that a child has to say at once.
LEMMA ServingHeard ==
  ASSUME NEW o \in KidRecord, NEW k \in KidRecord, NEW r, k.inbox = o.inbox, o.outbox # <<>>,
         k.outbox = Tail(o.outbox), Likewise(k, o), Serving(o, r)
  PROVE  Still(k)
<1>1. Len(k.outbox) = Len(o.outbox) - 1 /\ k.outbox \in Seq(ReplyRecord) /\ Len(o.outbox) = 1
  BY QueuesIs, TakenIs DEF Serving
<1>2. k.outbox = <<>>
  <2>1. k.outbox # <<>> => Len(k.outbox) \in Nat \ {0}
    BY <1>1, EmptySeq
  <2> QED BY <1>1, <2>1
<1>3. Working(o)
  BY DEF Working
<1> QED BY <1>2, <1>3 DEF Still, Cancels, Serving, Likewise

LEMMA ServingLike ==
  ASSUME NEW o, NEW k, NEW r, k.inbox = o.inbox, k.outbox = o.outbox, Likewise(k, o), Serving(o, r)
  PROVE  Serving(k, r)
<1>1. Working(k) <=> Working(o)
  BY DEF Working, Likewise
<1>2. CleanOf(o, r.owner) => CleanOf(k, r.owner)
  BY SMTT(40), CleanLike
<1> QED BY <1>1, <1>2 DEF Serving, Likewise

\* A step of the child that serves.
LEMMA ServingMoved ==
  ASSUME ProcessTyped, NEW g \in Generations, Moves(g), Serving(kid[g], request), ~Leaving(kid[g]), request.owner \in Owners \cup {NoJob},
         request.pc # "idle" => request.owner \in Owners
  PROVE  Serving(kid'[g], request)
<1> DEFINE o == kid[g]
           k == kid'[g]
           m == Head(o.inbox)
           r == request
<1>1. o \in KidRecord /\ k \in KidRecord /\ Acts(g, k) /\ Serving(o, r) /\ o.leaving # "ack" /\ r \in RequestRecord
  BY ProcessIs DEF Moves, Leaving, ProcessTyped
<1>2. o.work \in ErrandRecord /\ o.outbox \in Seq(ReplyRecord) /\ Letter(r).type \in Errands
  BY <1>1, QueuesIs DEF Letter, RequestRecord
<1> SUFFICES Serving(k, r)
  OBVIOUS
<1>3. CASE o.inbox # <<>> /\ k.inbox = Tail(o.inbox) /\ k.owners = o.owners
  <2>1. /\ m = o.inbox[1] /\ Len(o.inbox) \in Nat \ {0} /\ Len(k.inbox) = Len(o.inbox) - 1
        /\ \A n \in 1 .. Len(k.inbox) : k.inbox[n] = o.inbox[n + 1]
    BY <1>1, <1>3, QueuesIs, TakenIs
  <2>2. /\ 1 \in 1 .. Len(o.inbox)
        /\ \A n \in 1 .. Len(k.inbox) : n + 1 \in 1 .. Len(o.inbox) /\ n + 1 # 1 /\ k.inbox[n] = o.inbox[n + 1]
    BY <2>1
  <2>0. m \in MessageRecord
    BY <1>1, <1>3, QueuesIs, TakenIs
  <2> HIDE DEF m, o, k, r
  <2>3. m.type # "cancel" =>
          /\ Cancels(k) /\ o.work = Idle /\ o.outbox = <<>>
          /\ (r.pc = "initializing" /\ m.type = "initialize") \/ (r.pc = "asked" /\ m = Letter(r))
    <3>1. ASSUME m.type # "cancel", NEW n \in 1 .. Len(k.inbox) PROVE k.inbox[n].type = "cancel"
      BY <1>1, <2>1, <2>2, <3>1 DEF Serving
    <3>2. m.type # "cancel" => /\ (r.pc = "initializing" /\ m.type = "initialize") \/ (r.pc = "asked" /\ m = Letter(r))
                               /\ ~Working(o)
      BY <1>1, <2>1, <2>2 DEF Serving
    <3> QED BY <3>1, <3>2 DEF Cancels, Working
  <2>4. CASE m.type \in {"cancel", "shutdown"} /\ k.work = o.work /\ k.outbox = o.outbox
    <3>1. m.type = "cancel"
      BY <1>2, <2>3, <2>4 DEF Letter, Errands
    <3>2. Working(k) <=> Working(o)
      BY <2>4 DEF Working
    <3>3. CleanOf(o, r.owner) => CleanOf(k, r.owner)
      BY <1>3, <2>2, <2>4 DEF CleanOf
    <3>4. /\ \A n \in 1 .. Len(k.inbox) :
               \/ k.inbox[n].type = "cancel"
               \/ r.pc = "initializing" /\ k.inbox[n].type = "initialize" /\ ~Working(k)
               \/ r.pc = "asked" /\ k.inbox[n] = Letter(r) /\ ~Working(k)
          /\ \A n, i \in 1 .. Len(k.inbox) : k.inbox[n].type # "cancel" /\ k.inbox[i].type # "cancel" => n = i
      <4>1. \A n \in 1 .. Len(k.inbox) :
               \/ k.inbox[n].type = "cancel"
               \/ r.pc = "initializing" /\ k.inbox[n].type = "initialize" /\ ~Working(k)
               \/ r.pc = "asked" /\ k.inbox[n] = Letter(r) /\ ~Working(k)
        BY <1>1, <2>2, <3>2 DEF Serving
      <4>2. ASSUME NEW n \in 1 .. Len(k.inbox), NEW i \in 1 .. Len(k.inbox), k.inbox[n].type # "cancel", k.inbox[i].type # "cancel"
            PROVE  n = i
        <5>1. \A a, b \in 1 .. Len(o.inbox) : o.inbox[a].type # "cancel" /\ o.inbox[b].type # "cancel" => a = b
          BY <1>1 DEF Serving
        <5>2. /\ n + 1 \in 1 .. Len(o.inbox) /\ o.inbox[n + 1].type # "cancel"
              /\ i + 1 \in 1 .. Len(o.inbox) /\ o.inbox[i + 1].type # "cancel"
          BY <2>2, <4>2
        <5>3. n + 1 = i + 1
          BY <5>1, <5>2
        <5> QED BY <2>1, <5>3
      <4> QED BY <4>1, <4>2
    <3> QED BY <1>1, <2>4, <3>3, <3>4 DEF Serving
  <2>5. CASE /\ m.type = "initialize" /\ k.work = o.work
             /\ k.outbox = o.outbox \/ k.outbox = Append(o.outbox, [type |-> "reply", job |-> m.job, ok |-> TRUE])
    <3>1. r.pc = "initializing" /\ Cancels(k) /\ k.work = Idle /\ o.outbox = <<>>
      BY <1>2, <2>3, <2>5 DEF Letter, Errands
    <3>2. k.outbox # <<>> => Len(k.outbox) = 1
      <4> DEFINE p == [type |-> "reply", job |-> m.job, ok |-> TRUE]
      <4>1. p \in ReplyRecord
        BY <2>0 DEF ReplyRecord, MessageRecord
      <4> HIDE DEF p
      <4>2. Len(Append(o.outbox, p)) = Len(o.outbox) + 1 /\ Len(<<>>) = 0
        BY <1>2, <4>1, PostedIs
      <4>3. k.outbox = o.outbox \/ k.outbox = Append(o.outbox, p)
        BY <2>5 DEF p
      <4>4. Len(o.outbox) = 0
        BY <3>1
      <4>5. Len(Append(o.outbox, p)) = 1
        BY <4>2, <4>4
      <4> QED BY <3>1, <4>3, <4>5
    <3> QED BY <3>1, <3>2 DEF Serving, Cancels
  <2>6. CASE m.type \in Errands /\ k.work = o.work /\ k.outbox = o.outbox
    <3>1. Still(k)
      BY <2>3, <2>6 DEF Still, Errands
    <3> QED BY <3>1, StillServes
  <2>7. CASE m.type \in Errands /\ k.work = m /\ k.outbox = o.outbox
    <3>1. r.pc = "asked" /\ m = Letter(r) /\ Cancels(k) /\ k.outbox = <<>>
      BY <2>3, <2>7 DEF Errands
    <3> QED BY <2>7, <3>1 DEF Serving, Cancels
  <2>8. CASE k.life = "dead" /\ k.inbox = <<>> /\ k.owners = {} /\ k.work = Idle /\ k.outbox = o.outbox
    <3>1. r.pc # "idle" => CleanOf(k, r.owner)
      BY <2>8, CleanNew DEF r
    <3> QED BY <1>1, <2>8, <3>1 DEF Serving
  <2>9. k.inbox # o.inbox
    BY SMTT(40), <2>1
  <2>10. \/ m.type \in {"cancel", "shutdown"} /\ k.work = o.work /\ k.outbox = o.outbox
         \/ /\ m.type = "initialize" /\ k.work = o.work
            /\ k.outbox = o.outbox \/ k.outbox = Append(o.outbox, [type |-> "reply", job |-> m.job, ok |-> TRUE])
         \/ m.type \in Errands /\ k.work = o.work /\ k.outbox = o.outbox
         \/ m.type \in Errands /\ k.work = m /\ k.outbox = o.outbox
         \/ k.life = "dead" /\ k.inbox = <<>> /\ k.owners = {} /\ k.work = Idle /\ k.outbox = o.outbox
         \/ k.inbox = o.inbox
    BY <1>1 DEF Acts, o, m
  <2> QED BY <2>4, <2>5, <2>6, <2>7, <2>8, <2>9, <2>10
<1>4. CASE /\ k.inbox = o.inbox /\ o.work # Idle /\ k.work = Idle
           /\ \E ok \in BOOLEAN :
                /\ k.owners = IF ~ok THEN o.owners
                              ELSE IF o.work.type \in {"retire", "reset"} THEN o.owners \ {o.work.owner}
                              ELSE o.owners \cup {o.work.owner}
                /\ k.outbox = o.outbox \/ k.outbox = Append(o.outbox, [type |-> "reply", job |-> o.work.job, ok |-> ok])
  <2> HIDE DEF o, k, r, m
  <2>1. r.pc = "asked" /\ o.work = Letter(r) /\ o.outbox = <<>> /\ Cancels(k)
    BY <1>1, <1>4 DEF Serving, Working, Cancels
  <2>2. PICK ok \in BOOLEAN :
          /\ k.owners = IF ~ok THEN o.owners
                        ELSE IF o.work.type \in {"retire", "reset"} THEN o.owners \ {o.work.owner}
                        ELSE o.owners \cup {o.work.owner}
          /\ k.outbox = o.outbox \/ k.outbox = Append(o.outbox, [type |-> "reply", job |-> o.work.job, ok |-> ok])
    BY <1>4
  <2> DEFINE p == [type |-> "reply", job |-> o.work.job, ok |-> ok]
  <2>3. p \in ReplyRecord /\ p.job = r.job /\ p.ok = ok
    BY <1>2, <2>1 DEF ReplyRecord, ErrandRecord, Letter
  <2>4. k.outbox # <<>> => Len(k.outbox) = 1 /\ k.outbox[1] = p
    <3> HIDE DEF p
    <3>1. k.outbox = o.outbox \/ k.outbox = Append(o.outbox, p)
      BY <2>2 DEF p
    <3>2. Len(Append(o.outbox, p)) = 1 /\ Append(o.outbox, p)[1] = p
      BY <1>2, <2>1, <2>3, PostedIs, EmptySeq
    <3> QED BY <2>1, <3>1, <3>2
  <2>5. r.op = "retire" /\ ok => CleanOf(k, r.owner)
    <3>1. r.op = "retire" /\ ok => r.owner \notin k.owners
      BY <2>1, <2>2 DEF Letter
    <3>2. k.work.owner # r.owner
      BY <1>4, <2>1, UnbornIs, EngineNames DEF r
    <3> QED BY <2>1, <3>1, <3>2 DEF CleanOf, Cancels, Retiring
  <2> QED BY <1>4, <2>1, <2>3, <2>4, <2>5 DEF Serving, Cancels
<1>5. CASE k.inbox = o.inbox /\ k.work = o.work /\ k.owners = o.owners /\ k.outbox = o.outbox
  <2>1. CleanOf(o, r.owner) => CleanOf(k, r.owner)
    BY <1>5 DEF CleanOf
  <2> HIDE DEF o, k
  <2> QED BY <1>1, <1>5, <2>1 DEF Serving, Working
<1>6. CASE k.life = "dead" /\ k.inbox = <<>> /\ k.owners = {} /\ k.work = Idle /\ k.outbox = o.outbox
  <2>1. r.pc # "idle" => CleanOf(k, r.owner)
    BY <1>6, CleanNew
  <2> HIDE DEF o, k, r
  <2> QED BY <1>1, <1>6, <2>1 DEF Serving
<1> HIDE DEF k
<1> QED BY <1>1, <1>3, <1>4, <1>5, <1>6 DEF Acts

LEMMA ServingFor ==
  ASSUME NEW k, NEW r, NEW q, q.pc = r.pc, q.job = r.job, q.op = r.op, q.owner = r.owner, Serving(k, r)
  PROVE  Serving(k, q)
<1>1. Letter(q) = Letter(r)
  BY DEF Letter
<1> QED BY <1>1 DEF Serving

\* What a step of the host or of the child means for the child that serves.
LEMMA ServesIs ==
  ASSUME ProcessTyped, Single, EngineStep, Serves', ~Forks
  PROVE  Serves /\ child' = child
<1> USE DEF stopVars, fateVars, Stopped, Serves
<1>1. CASE Turned
  BY <1>1 DEF Turned, Stops, Begins
<1>2. CASE AsksChild
  BY <1>2, AsksIs
<1>3. CASE Warned
  BY <1>3, WarnsIs
<1>4. CASE Cleaned \/ LeftUncertain \/ Presses \/ EngineClosed
  <2>1. Presses => stopping'.phase # "none"
    BY DEF Presses
  <2> QED BY <1>4, <2>1 DEF Cleaned, LeftUncertain, EngineClosed
<1>5. ASSUME NEW g \in Generations, Hears(g) PROVE Serves /\ child' = child
  BY <1>5, HearsIs
<1>6. ASSUME NEW g \in Generations, Reaps(g) \/ Moves(g) PROVE Serves /\ child' = child
  BY <1>6 DEF Reaps, Moves, Stops, Begins
<1> QED BY <1>1, <1>2, <1>3, <1>4, <1>5, <1>6 DEF EngineStep

LEMMA ServingStep ==
  ASSUME ProcessTyped, Single, Farewell, RequestSound, Exchange, EngineStep, Serves'
  PROVE  Serving(kid'[child'], request')
<1> USE DEF stopVars, fateVars
<1>1. CASE Forks
  <2>1. Appears(child') /\ request'.pc = "initializing"
    BY <1>1, AppearsIs, ForksIs
  <2> DEFINE k == kid'[child']
  <2>2. k.inbox = <<Message("initialize")>> /\ k.outbox = <<>> /\ k.work = Idle
    BY <2>1 DEF Appears
  <2>3. Len(k.inbox) = 1 /\ k.inbox[1].type = "initialize"
    BY <2>2 DEF Message
  <2> HIDE DEF k
  <2>4. Serving(k, request')
    BY <2>1, <2>2, <2>3 DEF Serving, Working
  <2> QED BY <2>4 DEF k
<1>2. CASE ~Forks
  <2>1. Serves /\ child' = child /\ child \in Generations /\ kid[child] \in KidRecord
    BY <1>2, ServesIs, ProcessIs DEF Serves
  <2>2. Serving(kid[child], request) /\ Same
    BY <2>1, ExchangeIs, SameErrandIs DEF SameErrand
  <2>3. CASE Turned
    <3>1. kid' = kid
      BY <2>3 DEF Turned
    <3>2. CASE Flagged
      BY <2>1, <2>2, <3>1, <3>2, ServingFor DEF Flagged, Same
    <3>3. CASE ~Flagged
      <4>1. request.pc \notin {"initializing", "asked"}
        BY <2>3, <3>3 DEF Turned
      <4> QED BY <2>1, <2>2, <3>1, <4>1, StillIs, StillServes
    <3> QED BY <3>2, <3>3
  <2>4. CASE AsksChild
    <3>1. /\ Sent(Message(request.op)) /\ request.pc \in {"ready", "ensure"} /\ request'.pc = "asked"
      BY <2>4, AsksIs
    <3>2. Message(request.op) = Letter(request')
      BY <2>2 DEF Message, Letter, Same
    <3>3. Still(kid[child])
      BY <2>2, <3>1, StillIs
    <3>4. kid'[child] \in KidRecord
      BY <3>1 DEF Sent, OneKid
    <3> QED BY <2>1, <3>1, <3>2, <3>3, <3>4, ServingSent DEF Sent
  <2>5. CASE Warned
    <3>1. Sent(Message("cancel")) /\ Flagged /\ Message("cancel").type = "cancel"
      BY <2>5, WarnsIs DEF Message
    <3>2. kid'[child] \in KidRecord
      BY <3>1 DEF Sent, OneKid
    <3>3. Serving(kid'[child], request)
      BY <2>1, <2>2, <3>1, <3>2, ServingWarned DEF Sent
    <3> QED BY <2>1, <3>1, <3>3, ServingFor DEF Flagged, Same
  <2>6. CASE Cleaned \/ LeftUncertain \/ Presses
    BY <2>6 DEF Cleaned, LeftUncertain, Presses, Serves, Stopped
  <2>7. CASE EngineClosed
    BY <2>1, <2>2, <2>7 DEF EngineClosed
  <2>8. ASSUME NEW g \in Generations, Hears(g) PROVE Serving(kid'[child'], request')
    <3>1. child = g /\ Emptied(g) /\ kid[g].outbox # <<>>
      BY <2>8 DEF Hears
    <3>2. kid'[g] \in KidRecord
      BY <3>1 DEF Emptied, OneKid
    <3>3. Still(kid'[g])
      BY <2>1, <2>2, <3>1, <3>2, ServingHeard DEF Emptied
    <3> QED BY <2>1, <3>1, <3>3, StillServes
  <2>9. ASSUME NEW g \in Generations, Reaps(g) PROVE Serving(kid'[child'], request')
    <3>1. request' = request /\ Buried(g)
      BY <2>9 DEF Reaps
    <3>2. CASE child = g
      BY <2>1, <2>2, <3>1, <3>2, ServingLike DEF Buried
    <3>3. CASE child # g
      BY <2>1, <2>2, <3>1, <3>3 DEF Buried, OneKid
    <3> QED BY <3>2, <3>3
  <2>10. ASSUME NEW g \in Generations, Moves(g) PROVE Serving(kid'[child'], request')
    <3>1. request' = request /\ child = g
      BY <2>10, SingleIs DEF Moves, Bodies
    <3>2. ~Leaving(kid[g])
      BY <2>1, <3>1 DEF Farewell, Serves, Stopped
    <3>3. /\ request.owner \in Owners \cup {NoJob}
          /\ request.pc # "idle" => request.owner \in Owners
      BY RequestSoundIs DEF Assigned, ProcessTyped, RequestRecord
    <3> QED BY <2>1, <2>2, <2>10, <3>1, <3>2, <3>3, ServingMoved
  <2> QED BY <1>2, <2>3, <2>4, <2>5, <2>6, <2>7, <2>8, <2>9, <2>10 DEF EngineStep
<1> QED BY <1>1, <1>2

\* The child takes the message of the request.
Takes(g) ==
  /\ Moves(g) /\ child = g /\ kid[g].inbox # <<>> /\ Head(kid[g].inbox) = Letter(request) /\ request.pc = "asked"
  /\ kid[g].work = Idle /\ kid'[g].work # Idle
LEMMA SawIs ==
  ASSUME ProcessTyped, Single, Farewell, RequestSound, Exchange, EngineStep, Saw'
  PROVE  Saw \/ \E g \in Generations : Takes(g)
<1> USE DEF stopVars, fateVars
<1>1. ~Forks /\ Same /\ request'.pc = "asked" /\ Working(kid'[child'])
  BY ForksIs, SameErrandIs DEF Saw, SameErrand
<1>2. Serves /\ child' = child /\ child \in Generations /\ kid[child] \in KidRecord
  BY <1>1, ServesIs, ProcessIs DEF Saw, Serves
<1>3. Serving(kid[child], request)
  BY <1>2, ExchangeIs
<1>4. request.pc = "asked" /\ Working(kid[child]) => Saw
  BY <1>1, <1>2 DEF Saw, Same
<1>5. CASE Turned
  BY <1>1, <1>2, <1>4, <1>5 DEF Turned, Flagged
<1>6. CASE AsksChild
  <2>1. /\ Sent(Message(request.op)) /\ request.pc \in {"ready", "ensure"}
    BY <1>6, AsksIs
  <2>2. Still(kid[child])
    BY <1>3, <2>1, StillIs
  <2> QED BY <1>1, <1>2, <2>1, <2>2 DEF Sent, Still, Working, Likewise
<1>7. CASE Warned
  <2>1. Sent(Message("cancel")) /\ Flagged
    BY <1>7, WarnsIs
  <2> QED BY <1>1, <1>2, <1>4, <2>1 DEF Sent, Working, Likewise, Flagged
<1>8. CASE Cleaned \/ LeftUncertain \/ Presses
  BY <1>8 DEF Cleaned, LeftUncertain, Presses, Saw, Serves, Stopped
<1>9. CASE EngineClosed
  BY <1>1, <1>2, <1>4, <1>9 DEF EngineClosed
<1>10. ASSUME NEW g \in Generations, Hears(g) PROVE Saw
  <2>1. child = g /\ Emptied(g) /\ kid[g].outbox # <<>>
    BY <1>10 DEF Hears
  <2>2. kid'[g] \in KidRecord
    BY <2>1 DEF Emptied, OneKid
  <2>3. Still(kid'[g])
    BY <1>2, <1>3, <2>1, <2>2, ServingHeard DEF Emptied
  <2> QED BY <1>1, <1>2, <2>1, <2>3 DEF Still, Working
<1>11. ASSUME NEW g \in Generations, Reaps(g) PROVE Saw
  <2>1. request' = request /\ Buried(g)
    BY <1>11 DEF Reaps
  <2>2. Working(kid'[child]) <=> Working(kid[child])
    BY <1>2, <2>1 DEF Buried, OneKid, Working, Likewise
  <2> QED BY <1>1, <1>2, <1>4, <2>1, <2>2
<1>12. ASSUME NEW g \in Generations, Moves(g), ~Working(kid[child]) PROVE Takes(g)
  <2>1. request' = request /\ child = g /\ Acts(g, kid'[g])
    BY <1>12, SingleIs DEF Moves, Bodies
  <2>2. ~Leaving(kid[g])
    BY <1>2, <2>1 DEF Farewell, Serves, Stopped
  <2> DEFINE o == kid[g]
             k == kid'[g]
             m == Head(o.inbox)
  <2>3. o.work = Idle /\ o.outbox = <<>> /\ o.leaving # "ack" /\ (k.work # Idle \/ k.outbox # <<>>)
    BY <1>1, <1>2, <1>12, <2>1, <2>2 DEF Working, Leaving
  <2> HIDE DEF o, k
  <2>4. o.inbox # <<>> /\ (m.type = "initialize" \/ m.type \in Errands)
    BY <2>1, <2>3 DEF Acts, o, k, m
  <2>5. m = o.inbox[1] /\ 1 \in 1 .. Len(o.inbox)
    <3>1. o \in KidRecord
      BY <1>2, <2>1 DEF o
    <3> QED BY <2>4, <3>1, QueuesIs, TakenIs
  <2>6. m.type # "cancel"
    BY <2>4 DEF Errands
  <2>7. m = Letter(request)
    <3> HIDE DEF m
    <3>1. Serving(o, request)
      BY <1>3, <2>1 DEF o
    <3> QED BY <1>1, <2>1, <2>5, <2>6, <3>1 DEF Serving
  <2>8. m.type # "initialize"
    BY <2>7 DEF Letter, ProcessTyped, RequestRecord, Errands
  <2>9. k.work # Idle
    BY <2>1, <2>3, <2>8 DEF Acts, o, k, m
  <2> QED BY <1>1, <1>12, <2>1, <2>3, <2>4, <2>7, <2>9 DEF Takes, o, m, k
<1>13. ASSUME NEW g \in Generations, Moves(g) PROVE Saw \/ Takes(g)
  <2>1. request' = request
    BY <1>13 DEF Moves
  <2> QED BY <1>1, <1>4, <1>12, <1>13, <2>1
<1> QED BY <1>1, <1>5, <1>6, <1>7, <1>8, <1>9, <1>10, <1>11, <1>13 DEF EngineStep

\* A child that ends, tells or leaves is not at work after it.
LEMMA ChildRests == ASSUME ProcessTyped, NEW g \in Generations, Child(g) PROVE kid'[g].work = Idle
<1>0. kid[g] \in KidRecord /\ kid \in [Generations -> KidRecord]
  BY ProcessIs
<1>1. CASE ChildExits(g)
  <2>1. kid[g].life = "up" /\ kid' = [kid EXCEPT ![g] = Killed(kid[g])]
    BY <1>1 DEF ChildExits
  <2>2. Killed(kid[g]).work = Idle
    BY <1>0, <2>1, KilledIs
  <2> QED BY <1>0, <2>1, <2>2
<1>2. ASSUME NEW ok \in BOOLEAN, ChildWorks(g, ok) PROVE kid'[g].work = Idle
  <2> DEFINE k == [kid[g] EXCEPT !.work = Idle,
                     !.owners = IF ~ok THEN @ ELSE IF kid[g].work.type \in {"retire", "reset"} THEN @ \ {kid[g].work.owner}
                                ELSE @ \cup {kid[g].work.owner}]
  <2>1. kid' = [kid EXCEPT ![g] = Reply(k, "reply", kid[g].work.job, ok)]
    BY <1>2 DEF ChildWorks
  <2>2. k.work = Idle
    BY <1>0 DEF KidRecord
  <2>3. Reply(k, "reply", kid[g].work.job, ok).work = Idle
    <3>1. k \in [life : {"none", "up", "dead", "reaped"}, inbox : Seq(MessageRecord), outbox : Seq(ReplyRecord), ready : BOOLEAN,
                 work : {Idle}, aborted : BOOLEAN, leaving : {"no", "ack", "quiet", "told"}, owners : {k.owners}]
      BY <1>0 DEF KidRecord
    <3> HIDE DEF k
    <3> QED BY <3>1 DEF Reply
  <2> QED BY <1>0, <2>1, <2>3
<1>3. ASSUME NEW ok \in BOOLEAN, ChildLeaves(g, ok) PROVE kid'[g].work = Idle
  <2> DEFINE b == IF kid[g].leaving = "ack" THEN Append(kid[g].outbox, [type |-> "ack", job |-> NoJob, ok |-> ok]) ELSE kid[g].outbox
             k == [kid[g] EXCEPT !.leaving = "told", !.outbox = b]
  <2>1. kid' = [kid EXCEPT ![g] = k] /\ kid[g].work = Idle
    BY <1>3 DEF ChildLeaves
  <2>2. k.work = kid[g].work
    <3> HIDE DEF b
    <3> QED BY <1>0 DEF KidRecord
  <2> HIDE DEF k
  <2> QED BY <1>0, <2>1, <2>2
<1> QED BY <1>1, <1>2, <1>3 DEF Child

-----------------------------------------------------------------------------
(* The marks of the roots.                                                    *)

\* What was taken of the call that runs is what the root had then, or later.
Told == request.job \in Invocations /\ (request.pc = "answered" \/ (request.pc = "done" /\ request.value))
LEMMA ToldIs ==
  ASSUME ProcessTyped, RequestSound, EngineStep, Told'
  PROVE  Told \/ Saw \/ (request.job \in Invocations /\ ~Queries)
<1> USE DEF fateVars
<1>0. Same /\ (Queries' <=> Queries) /\ request.job \in Invocations
  BY SameErrandIs DEF SameErrand, Same, Queries, Told
<1>1. CASE Turned
  <2>1. CASE Flagged
    BY <1>0, <2>1 DEF Told, Flagged
  <2>2. CASE ~Flagged
    <3>1. Earned
      BY <1>1, <2>2 DEF Turned, Told
    <3> QED BY <1>0, <3>1 DEF Earned, Told, Queries
  <2> QED BY <2>1, <2>2
<1>2. CASE Forks
  BY <1>2, ForksIs DEF Told
<1>3. CASE AsksChild
  BY <1>3, AsksIs DEF Told
<1>4. CASE Warned
  BY <1>0, <1>4, WarnsIs DEF Told, Flagged
<1>5. CASE Cleaned \/ LeftUncertain
  <2>1. GivesUp \/ UNCHANGED request
    BY <1>5 DEF Cleaned, LeftUncertain, Rejected
  <2> QED BY <2>1 DEF Told, GivesUp
<1>6. CASE Presses \/ EngineClosed
  BY <1>6 DEF Presses, EngineClosed, Told
<1>7. ASSUME NEW g \in Generations, Hears(g) PROVE Told \/ Saw
  <2>1. CASE Stopped /\ request.pc = "asked"
    <3>1. child = g /\ child # 0 /\ kid[g].outbox # <<>> /\ ~failure
      BY <1>7, <2>1, HearsIs, RequestSoundIs DEF Fits, Awaited
    <3> QED BY <1>0, <2>1, <3>1 DEF Saw, Serves, Working
  <2>2. CASE ~(Stopped /\ request.pc = "asked")
    <3>1. UNCHANGED request \/ request'.pc = "ready"
      BY <1>7, <2>2, HearsIs
    <3> QED BY <3>1 DEF Told
  <2> QED BY <2>1, <2>2
<1>8. ASSUME NEW g \in Generations, Reaps(g) \/ Moves(g) PROVE Told
  BY <1>8 DEF Reaps, Moves, Told
<1> QED BY <1>1, <1>2, <1>3, <1>4, <1>5, <1>6, <1>7, <1>8 DEF EngineStep

\* Only a sync has to be marked.
LEMMA OthersSynced == ASSUME HostTyped, RequestSound, request.job \in Invocations, request.op # "sync" PROVE Synced(request.job)
<1>1. request.op = Errand(request.job)
  BY RequestSoundIs DEF Assigned
<1> QED BY <1>1 DEF Synced, Errand

\* A turn of the host gives no child work.
Rests == \A g \in Generations : kid'[g].work \in {kid[g].work, Idle}
LEMMA HandlesRests == ASSUME ProcessTyped, Single, Handles PROVE Rests
<1>0. child # 0 => child \in Generations
  BY ProcessIs
<1>1. CASE Turned \/ Cleaned \/ LeftUncertain \/ EngineClosed
  BY <1>1 DEF Turned, Cleaned, LeftUncertain, EngineClosed, Rests
<1>2. CASE Forks
  BY <1>2, AppearsIs DEF Appears, OneKid, Rests
<1>3. CASE AsksChild \/ Warned
  <2>1. \E m : Sent(m)
    BY <1>3, AsksIs, WarnsIs
  <2> QED BY <2>1 DEF Sent, OneKid, Likewise, Rests
<1>4. CASE Presses
  <2>1. (\E m : Sent(m)) \/ kid' = kid \/ Struck(child)
    BY <1>4, PressesIs
  <2> QED BY <2>1 DEF Sent, Struck, OneKid, Likewise, Rests
<1> QED BY <1>1, <1>2, <1>3, <1>4 DEF Handles

LEMMA EventRests ==
  ASSUME ProcessTyped, NEW g \in Generations, Receive(g) \/ ExitEvent(g) \/ Child(g)
  PROVE  Rests
<1>1. CASE Receive(g)
  <2>1. Emptied(g)
    BY <1>1, ReceiveIs, EmptiedIs
  <2> QED BY <2>1 DEF Emptied, OneKid, Likewise, Rests
<1>2. CASE ExitEvent(g)
  <2>1. Buried(g)
    BY <1>2, ExitEventIs, BuriedIs
  <2> QED BY <2>1 DEF Buried, OneKid, Likewise, Rests
<1>3. CASE Child(g)
  BY <1>3, ChildIs, MovedIs, ChildRests DEF OneKid, Rests
<1> QED BY <1>1, <1>2, <1>3

Quietly == UNCHANGED <<lease, controls, retiring, queue, running, observed, version, covered, stored, claims, hostClosing>>
Snaps == inv' = inv \/ \E g \in Generations : Moves(g) /\ Snapshot(g)

\* The invocations stay what they are, and what was synced stays so.
Undisturbed ==
  /\ inv' \in [Invocations -> InvocationRecord] /\ SameHost
  /\ \A i \in Invocations : inv'[i].revision = inv[i].revision /\ (Synced(i) => Synced(i)')

LEMMA SameInvIs == ASSUME HostTyped, Quietly, inv' = inv PROVE Undisturbed
<1>1. \A i \in Invocations : Synced(i) => Synced(i)'
  BY DEF Quietly, Synced, Checked, Open
<1> QED BY <1>1 DEF HostTyped, SameHost, Quietly, Undisturbed

LEMMA OneSnapIs ==
  ASSUME HostTyped, Quietly, NEW j \in Invocations, NEW n \in Nat, NEW k \in InvocationRecord,
         k.pc = inv[j].pc /\ k.root = inv[j].root /\ k.op = inv[j].op /\ k.revision = inv[j].revision,
         k.snapshot = n, n = IF inv[j].pc = "asking" THEN version[inv[j].root] ELSE inv[j].snapshot,
         inv' = [inv EXCEPT ![j] = k]
  PROVE  Undisturbed
<1>1. inv' \in [Invocations -> InvocationRecord] /\ inv'[j] = k /\ \A i \in Invocations : i # j => inv'[i] = inv[i]
  BY DEF HostTyped
<1>2. SameHost
  BY <1>1 DEF SameHost, Quietly
<1>3. ASSUME NEW i \in Invocations, Synced(i) PROVE Synced(i)'
  <2>1. CASE i = j /\ inv[j].pc = "asking"
    <3>1. inv'[i].snapshot = version[inv[i].root] /\ inv'[i].root = inv[i].root
      BY <1>1, <2>1
    <3>2. version' = version
      BY DEF Quietly
    <3> QED BY <3>1, <3>2 DEF Synced
  <2>2. CASE i = j /\ inv[j].pc # "asking"
    <3>1. inv'[i].snapshot = inv[i].snapshot /\ inv'[i].root = inv[i].root /\ inv'[i].op = inv[i].op /\ inv'[i].revision = inv[i].revision
      BY <1>1, <2>2
    <3>2. UNCHANGED <<lease, observed, version, hostClosing>>
      BY DEF Quietly
    <3> QED BY <1>3, <3>1, <3>2 DEF Synced, Checked, Open
  <2>3. CASE i # j
    <3>1. inv'[i] = inv[i]
      BY <1>1, <2>3
    <3>2. UNCHANGED <<lease, observed, version, hostClosing>>
      BY DEF Quietly
    <3> QED BY <1>3, <3>1, <3>2 DEF Synced, Checked, Open
  <2> QED BY <2>1, <2>2, <2>3
<1>4. \A i \in Invocations : inv'[i].revision = inv[i].revision
  BY <1>1
<1> QED BY <1>1, <1>2, <1>3, <1>4 DEF Undisturbed

LEMMA SnapsIs ==
  ASSUME ProcessTyped, HostTyped, RequestSound, Snaps, Quietly
  PROVE  /\ inv' \in [Invocations -> InvocationRecord] /\ SameHost
         /\ \A i \in Invocations : inv'[i].revision = inv[i].revision /\ (Synced(i) => Synced(i)')
<1>1. CASE inv' = inv
  BY <1>1, SameInvIs DEF Undisturbed
<1>2. ASSUME NEW g \in Generations, Snapshot(g) PROVE Undisturbed
  <2> DEFINE j == Head(kid[g].inbox).job
             n == IF inv[j].pc = "asking" THEN version[inv[j].root] ELSE inv[j].snapshot
             k == [inv[j] EXCEPT !.snapshot = n]
  <2>1. inv' = [inv EXCEPT ![j] = k] \/ inv' = inv
    BY ZenonT(60), <1>2 DEF Snapshot
  <2>2. CASE inv' = inv \/ j \notin Invocations
    <3>1. inv' = inv
      BY <2>1, <2>2 DEF HostTyped
    <3> QED BY SMTT(40), <3>1, SameInvIs
  <2>3. CASE inv' = [inv EXCEPT ![j] = k] /\ j \in Invocations
    <3>1. inv[j] \in InvocationRecord
      <4> HIDE DEF j
      <4> QED BY <2>3 DEF HostTyped
    <3>2. n \in Nat
      BY ZenonT(60), <2>3, <3>1, RequestSoundIs DEF HostTyped, InvocationRecord, Assigned
    <3>3. /\ k \in InvocationRecord /\ k.pc = inv[j].pc /\ k.root = inv[j].root /\ k.op = inv[j].op
          /\ k.revision = inv[j].revision /\ k.snapshot = n
      <4> HIDE DEF n, j
      <4> QED BY <3>1, <3>2 DEF InvocationRecord
    <3>4. n = IF inv[j].pc = "asking" THEN version[inv[j].root] ELSE inv[j].snapshot
      OBVIOUS
    <3> HIDE DEF k, n, j
    <3> QED BY ZenonT(60), <2>3, <3>2, <3>3, <3>4, OneSnapIs
  <2> HIDE DEF k, n, j
  <2> QED BY SMTT(40), <2>1, <2>2, <2>3
<1> QED BY <1>1, <1>2 DEF Snaps, Undisturbed

-----------------------------------------------------------------------------
(* A step of the engine process keeps the invariant.                          *)

LEMMA RemovedStep ==
  ASSUME ProcessTyped, Single, RemovedAfterAll, EngineStep, hostClosing' = hostClosing
  PROVE  RemovedAfterAll'
<1> SUFFICES ASSUME hostClosing = "removed"
             PROVE  /\ generation' = generation
                    /\ \A g \in 1 .. generation : kid'[g].life # "up" /\ kid'[g].leaving = "told"
  BY DEF RemovedAfterAll
<1>1. closeTask = "resolved" /\ child = 0 /\ shut
  BY DEF Single, ChildOwned
<1>2. \A g \in Generations : kid[g].life # "up" /\ g # 0
  BY <1>1 DEF Single, ChildOwned, Generations
<1>3. /\ \A g \in 1 .. generation : kid[g].life # "up" /\ kid[g].leaving = "told"
      /\ 1 .. generation \subseteq Generations
  BY ProcessIs DEF RemovedAfterAll, ProcessTyped, Generations
<1>4. CASE Turned \/ Cleaned \/ LeftUncertain \/ EngineClosed
  BY <1>3, <1>4 DEF Turned, Cleaned, LeftUncertain, EngineClosed
<1>5. CASE Forks \/ AsksChild \/ Warned \/ Presses
  BY <1>1, <1>5 DEF Forks, AsksChild, Warned, Presses, Post, Available
<1>6. ASSUME NEW g \in Generations, Hears(g) \/ Moves(g) PROVE FALSE
  BY <1>1, <1>2, <1>6 DEF Hears, Moves
<1>7. ASSUME NEW g \in Generations, Reaps(g)
      PROVE  /\ generation' = generation
             /\ \A h \in 1 .. generation : kid'[h].life # "up" /\ kid'[h].leaving = "told"
  BY <1>3, <1>7 DEF Reaps, Buried, OneKid, Likewise
<1> QED BY <1>4, <1>5, <1>6, <1>7 DEF EngineStep

\* What the running request saw stays marked.
Snapped == (inv' = inv /\ Rests) \/ \E g \in Generations : Moves(g) /\ Snapshot(g)
LEMMA SnappedIs == Snapped => Snaps
BY DEF Snapped, Snaps

LEMMA TakesSynced ==
  ASSUME ProcessTyped, HostTyped, RequestSound, EngineStep, Snapped, Quietly, request.job \in Invocations,
         NEW g \in Generations, Takes(g)
  PROVE  Synced(request.job)'
<1>1. \A i \in Invocations : Synced(i) => Synced(i)'
  BY SnappedIs, SnapsIs
<1>2. CASE request.op # "sync"
  <2>1. request'.job = request.job
    BY SameErrandIs DEF SameErrand, Same
  <2> QED BY <1>1, <1>2, <2>1, OthersSynced
<1>3. CASE request.op = "sync"
  <2>1. Head(kid[g].inbox).type = "sync" /\ Head(kid[g].inbox).job = request.job /\ child = g
    BY <1>3 DEF Takes, Letter
  <2>2. ~Rests
    BY DEF Takes, Rests
  <2>3. PICK h \in Generations : Moves(h) /\ Snapshot(h)
    BY <2>2 DEF Snapped
  <2>4. h = g
    <3>1. SUFFICES ASSUME h # g PROVE FALSE
      OBVIOUS
    <3>2. kid'[g] = kid[g]
      BY <2>3, <3>1, MovedIs DEF OneKid
    <3> QED BY <3>2 DEF Takes
  <2>5. inv[request.job].pc = "asking"
    BY SMTT(40), RequestSoundIs DEF Assigned
  <2> DEFINE j == request.job
             k == [inv[j] EXCEPT !.snapshot = version[inv[j].root]]
  <2>6. inv' = [inv EXCEPT ![j] = k]
    BY ZenonT(60), <2>1, <2>3, <2>4, <2>5 DEF Snapshot
  <2>7. inv'[j].snapshot = version[inv[j].root] /\ inv'[j].root = inv[j].root
    BY <2>6 DEF HostTyped, InvocationRecord
  <2>8. request'.job = j
    BY SameErrandIs DEF SameErrand, Same
  <2> HIDE DEF j
  <2>9. version' = version
    BY DEF Quietly
  <2> QED BY <2>7, <2>8, <2>9 DEF Synced
<1> QED BY <1>2, <1>3

LEMMA SawSynced ==
  ASSUME HostInvariant, EngineStep, Snapped, Quietly, Saw'
  PROVE  Synced(request.job)'
<1>1. ProcessTyped /\ HostTyped /\ Single /\ Farewell /\ RequestSound /\ Exchange
  BY DEF HostInvariant
<1>2. request'.job = request.job /\ request.job \in Invocations
  BY <1>1, SameErrandIs DEF SameErrand, Same, Saw
<1>3. CASE Saw
  <2>1. Synced(request.job)
    BY <1>1, <1>3, ExchangeIs
  <2>2. \A i \in Invocations : Synced(i) => Synced(i)'
    BY <1>1, SnappedIs, SnapsIs
  <2> QED BY <1>2, <2>1, <2>2
<1>4. CASE \E g \in Generations : Takes(g)
  BY <1>1, <1>2, <1>4, TakesSynced
<1> QED BY <1>1, <1>3, <1>4, SawIs

LEMMA ToldSynced ==
  ASSUME HostInvariant, EngineStep, Snapped, Quietly, Told'
  PROVE  Synced(request.job)'
<1>1. ProcessTyped /\ HostTyped /\ Single /\ Farewell /\ RequestSound /\ Exchange /\ Marked
  BY DEF HostInvariant
<1>2. request'.job = request.job /\ request.job \in Invocations
  BY <1>1, SameErrandIs DEF SameErrand, Same, Told
<1>3. Synced(request.job)
  <2>1. CASE Told
    BY <1>1, <2>1 DEF Marked, Told
  <2>2. CASE Saw
    BY <1>1, <2>2, ExchangeIs
  <2>3. CASE ~Queries
    <3>1. request.op # "sync"
      BY <2>3 DEF Queries
    <3> QED BY <1>1, <1>2, <3>1, OthersSynced
  <2> QED BY <1>1, <2>1, <2>2, <2>3, ToldIs
<1> QED BY <1>1, <1>2, <1>3, SnappedIs, SnapsIs

LEMMA ProcessHolds ==
  ASSUME HostInvariant, EngineStep, Snapped, Quietly
  PROVE  HostInvariant'
<1>0. ProcessTyped /\ HostTyped /\ Single /\ Farewell /\ RequestSound /\ RetiredClean /\ Exchange /\ Marked
      /\ Attached /\ RevokedForgotten /\ RemovedAfterAll
  BY DEF HostInvariant
<1>1. ProcessTyped'
  BY <1>0, ProcessTypedStep
<1>2. inv' \in [Invocations -> InvocationRecord] /\ SameHost
      /\ \A i \in Invocations : inv'[i].revision = inv[i].revision /\ (Synced(i) => Synced(i)')
  BY <1>0, SnappedIs, SnapsIs
<1>3. HostTyped'
  BY <1>0, <1>2 DEF HostTyped, Quietly
<1>4. hostClosing' = hostClosing /\ UNCHANGED <<retiring, hostClosing>>
  BY DEF Quietly
<1>5. Single'
  BY <1>0, <1>4, SingleStep
<1>6. Farewell'
  BY <1>0, FarewellStep
<1>7. RequestSound'
  <2>1. Fits' /\ Assigned'
    BY <1>0, <1>2, FitsStep, AssignedStep, SameErrandIs
  <2> QED BY <2>1 DEF RequestSound, Fits, Assigned
<1>8. RetiredClean'
  BY <1>0, <1>4, RetiredCleanStep
<1>9. Exchange'
  <2>1. (Serves' => Serving(kid'[child'], request')) /\ (Saw' => Synced(request.job)')
    BY <1>0, ServingStep, SawSynced
  <2>2. Exchange' <=> (Serves' => Serving(kid'[child'], request')) /\ (Saw' => Synced(request.job)')
    BY DEF Exchange, Serves, Serving, Saw, Working, Letter, Message, Awaited
  <2> QED BY <2>1, <2>2
<1>10. Marked'
  <2>1. Told' => Synced(request.job)'
    BY ToldSynced
  <2>2. \A i \in Invocations : inv'[i].pc = inv[i].pc /\ inv'[i].op = inv[i].op /\ inv'[i].root = inv[i].root
                               /\ inv'[i].revision = inv[i].revision
    BY <1>2 DEF SameHost
  <2>3. UNCHANGED <<lease, version, covered, observed, hostClosing>>
    BY DEF Quietly
  <2>4. /\ \A l \in Roots : lease'[l] = "none" => version'[l] = 0
        /\ DirtyUntilSynced'
    BY <1>0, <2>3 DEF Marked, DirtyUntilSynced, Checked, Open
  <2>5. \A i \in Invocations : inv'[i].pc = "asking" /\ inv'[i].op = "sync" /\ Checked(inv[i].root)' =>
       observed'[inv'[i].root].ops >= inv'[i].revision
    BY <1>0, <2>2, <2>3 DEF Marked, Checked, Open
  <2> QED BY <2>1, <2>4, <2>5 DEF Marked, Told
<1>11. RevokedForgotten'
  <2>1. UNCHANGED <<lease, claims, stored, observed, retiring, controls, hostClosing>>
    BY DEF Quietly
  <2>2. \A c \in Owners : Open /\ retiring[c] = "done" /\ child' # 0 => c \notin kid'[child'].owners
    BY <1>8, <2>1 DEF RetiredClean, CleanOf, Open
  <2> QED BY <1>0, <2>1, <2>2 DEF RevokedForgotten, Open
<1>12. RemovedAfterAll'
  BY <1>0, <1>4, RemovedStep
<1>13. Attached'
  BY <1>0, <1>2 DEF Attached, Quietly, SameHost, Open
<1> QED
  BY <1>13, <1>1, <1>3, <1>5, <1>6, <1>7, <1>8, <1>9, <1>10, <1>11, <1>12 DEF HostInvariant

-----------------------------------------------------------------------------
(* The queue of jobs.                                                         *)

\* The places of a finite set of numbers are those up to its size.
LEMMA PlaceIs ==
  ASSUME NEW K \in SUBSET Nat, IsFiniteSet(K), NEW m \in 1 .. Cardinality(K)
  PROVE  \E n \in K : Cardinality({k \in K : k <= n}) = m
<1> DEFINE N == Cardinality(K)
           below(n) == {k \in K : k <= n}
           f == [n \in K |-> Cardinality(below(n))]
<1>1. N \in Nat /\ IsFiniteSet(1 .. N) /\ Cardinality(1 .. N) = N
  BY FS_CardinalityType, FS_Interval
<1>2. ASSUME NEW n \in K PROVE IsFiniteSet(below(n)) /\ Cardinality(below(n)) \in 1 .. N
  <2>1. IsFiniteSet(below(n)) /\ Cardinality(below(n)) <= N /\ Cardinality(below(n)) \in Nat
    BY FS_Subset, FS_CardinalityType
  <2>2. n \in below(n)
    <3>1. n \in Nat /\ n <= n
      OBVIOUS
    <3> QED BY <3>1
  <2>3. Cardinality(below(n)) # 0
    BY <2>1, <2>2, FS_EmptySet
  <2> QED BY <1>1, <2>1, <2>3
<1>3. ASSUME NEW x \in K, NEW y \in K, x < y PROVE f[x] # f[y]
  <2>1. below(x) \in SUBSET below(y) /\ y \in below(y) /\ y \notin below(x)
    <3>1. /\ x \in Nat /\ y \in Nat /\ y <= y /\ ~(y <= x)
          /\ \A k \in Nat : k <= x => k <= y
      BY <1>3
    <3>2. \A k \in K : k \in Nat
      OBVIOUS
    <3> QED BY <3>1, <3>2, Zenon
  <2>2. below(x) # below(y)
    BY <2>1
  <2>3. IsFiniteSet(below(y))
    BY <1>2
  <2> HIDE DEF below
  <2>4. Cardinality(below(x)) # Cardinality(below(y))
    BY <2>1, <2>2, <2>3, FS_Subset
  <2> QED BY <2>4
<1>4. f \in [K -> 1 .. N]
  BY <1>2
<1>5. ASSUME NEW x \in K, NEW y \in K, f[x] = f[y] PROVE x = y
  <2>1. x \in Nat /\ y \in Nat
    OBVIOUS
  <2>2. ~(x < y) /\ ~(y < x)
    <3> HIDE DEF f
    <3> QED BY <1>3, <1>5
  <2> HIDE DEF f
  <2> QED BY <2>1, <2>2
<1>6. f \in Injection(K, 1 .. N)
  <2> HIDE DEF f, N
  <2> QED BY <1>4, <1>5 DEF Injection, IsInjective
<1>7. f \in Surjection(K, 1 .. N)
  <2> HIDE DEF f
  <2> QED BY <1>1, <1>6, FS_Injection
<1>8. \E n \in K : f[n] = m
  <2> HIDE DEF f
  <2> QED BY <1>7 DEF Surjection
<1> QED BY <1>8

\* Nothing enters the queue when jobs leave it.
Among(q) == \A m \in 1 .. Len(q) : \E n \in 1 .. Len(queue) : q[m] = queue[n]
LEMMA RemainingIs ==
  ASSUME queue \in Seq(Jobs), NEW R
  PROVE  Remaining(R) \in Seq(Jobs) /\ Among(Remaining(R))
<1> DEFINE stay == {n \in 1 .. Len(queue) : queue[n] \notin Hits(R)}
           Place(m) == CHOOSE n \in stay : Cardinality({k \in stay : k <= n}) = m
<1>1. Len(queue) \in Nat /\ stay \in SUBSET (1 .. Len(queue)) /\ stay \in SUBSET Nat
  BY LenProperties
<1>2. IsFiniteSet(stay) /\ Cardinality(stay) \in Nat
  <2>1. IsFiniteSet(1 .. Len(queue))
    BY <1>1, FS_Interval
  <2> HIDE DEF stay
  <2> QED BY <1>1, <2>1, FS_Subset, FS_CardinalityType
<1>3. ASSUME NEW m \in 1 .. Cardinality(stay) PROVE Place(m) \in stay
  <2> HIDE DEF stay
  <2>1. \E n \in stay : Cardinality({k \in stay : k <= n}) = m
    BY <1>1, <1>2, PlaceIs
  <2> QED BY <2>1
<1>4. Remaining(R) = [m \in 1 .. Cardinality(stay) |-> queue[Place(m)]]
  BY DEF Remaining
<1> HIDE DEF stay, Place
<1>5. \A m \in 1 .. Cardinality(stay) : queue[Place(m)] \in Jobs
  BY <1>1, <1>3, ElementOfSeq
<1>6. Remaining(R) \in Seq(Jobs) /\ Len(Remaining(R)) = Cardinality(stay)
  BY <1>2, <1>4, <1>5, IsASeq
<1> QED BY <1>1, <1>3, <1>4, <1>6 DEF Among

LEMMA EnqueuedIs ==
  ASSUME queue \in Seq(Jobs), NEW q \in Seq(Jobs), Among(q), NEW j \in Jobs
  PROVE  /\ Append(q, j) \in Seq(Jobs)
         /\ \A m \in 1 .. Len(Append(q, j)) : Append(q, j)[m] = j \/ \E n \in 1 .. Len(queue) : Append(q, j)[m] = queue[n]
BY AppendProperties, LenProperties DEF Among
LEMMA DequeuedIs ==
  ASSUME queue \in Seq(Jobs), Dequeued
  PROVE  /\ queue' \in Seq(Jobs) /\ running' \in Jobs \cup {NoJob} /\ Among(queue')
         /\ running' # NoJob => \E n \in 1 .. Len(queue) : running' = queue[n]
<1>1. CASE queue = <<>>
  BY <1>1 DEF Dequeued, Among
<1>2. CASE queue # <<>>
  <2>1. queue' = Tail(queue) /\ running' = Head(queue)
    BY <1>2 DEF Dequeued
  <2>2. /\ Head(queue) = queue[1] /\ Head(queue) \in Jobs /\ Tail(queue) \in Seq(Jobs) /\ Len(queue) \in Nat \ {0}
        /\ Len(Tail(queue)) = Len(queue) - 1 /\ \A n \in 1 .. Len(Tail(queue)) : Tail(queue)[n] = queue[n + 1]
    BY <1>2, TakenIs
  <2>3. ASSUME NEW m \in 1 .. Len(Tail(queue)) PROVE m + 1 \in 1 .. Len(queue) /\ Tail(queue)[m] = queue[m + 1]
    BY <2>2
  <2> QED BY <2>1, <2>2, <2>3 DEF Among
<1> QED BY <1>1, <1>2

-----------------------------------------------------------------------------
(* What the host does to the engine process.                                  *)

Calls ==
  /\ request.pc = "idle" /\ request' \in RequestRecord /\ request'.pc \in {"ensure", "done"} /\ ~request'.value
  /\ UNCHANGED <<child, generation, kid, stopVars, fateVars>>
Clears == request.pc = "done" /\ request' = NoRequest /\ UNCHANGED <<child, generation, kid, stopVars, fateVars>>
Shuts ==
  /\ closeTask' = "pending" /\ shut' = TRUE /\ Stops /\ (Stopped /\ ~failure => Begins)
  /\ UNCHANGED <<child, generation, kid, failure, exhausted, crashes, cleanup, retained, request>>
Withdrawn == Cancel /\ UNCHANGED <<child, generation, fateVars>>
HostTurn == Calls \/ Clears \/ Shuts \/ Withdrawn \/ UNCHANGED engineVars

\* The parts of the invariant that speak of the process alone.
EngineSound ==
  /\ ProcessTyped /\ Alone /\ Bodies /\ Farewell /\ Fits
  /\ Serves => Serving(kid[child], request)
\* Nothing is seen, told or answered that was not so before.
NothingNew ==
  /\ UNCHANGED <<child, generation>>
  /\ (Saw' => Saw) /\ (Told' => Told) /\ (Saw' \/ Told' => request'.job = request.job)
  /\ Affirmed' => Affirmed /\ request'.owner = request.owner
  /\ child # 0 => \A c \in Owners : CleanOf(kid[child], c) => CleanOf(kid'[child], c)
  /\ \A g \in Generations : kid'[g].life = kid[g].life /\ kid'[g].leaving = kid[g].leaving

LEMMA EngineSoundIs ==
  ASSUME ProcessTyped, Single, Farewell, RequestSound, Exchange
  PROVE  EngineSound
BY SingleIs, RequestSoundIs, ExchangeIs DEF EngineSound

LEMMA CalledIs ==
  ASSUME ProcessTyped, NEW j \in Jobs, NEW op \in Errands, NEW o \in Owners, Call(j, op, o, FALSE)
  PROVE  /\ Calls /\ request'.job = j /\ request'.op = op /\ request'.owner = o
<1> DEFINE p == IF op \notin {"retire", "restart"} /\ (FALSE \/ ~Available) THEN "done" ELSE "ensure"
<1>1. request' = [NoRequest EXCEPT !.job = j, !.op = op, !.owner = o, !.pc = p]
  BY DEF Call
<1>2. p \in {"ensure", "done"}
  OBVIOUS
<1> HIDE DEF p
<1>3. /\ request' \in RequestRecord /\ request'.pc = p /\ ~request'.value
      /\ request'.job = j /\ request'.op = op /\ request'.owner = o
  BY <1>1, <1>2 DEF NoRequest, RequestRecord, RequestPoints, Errands
<1> QED BY <1>2, <1>3 DEF Call, Calls

LEMMA ShutsIs ==
  ASSUME ProcessTyped, CloseEngine,
         UNCHANGED <<child, generation, kid, failure, exhausted, crashes, cleanup, retained, request>>
  PROVE  Shuts
BY TerminateIs DEF CloseEngine, Shuts

LEMMA WithdrawnIs == ASSUME ProcessTyped, Withdrawn PROVE Warned \/ (Turned /\ Flagged /\ UNCHANGED kid)
<1>1. Warned \/ (Flagged /\ Stops /\ UNCHANGED kid)
  BY CancelIs DEF Withdrawn
<1>2. crashes \in Nat /\ exhausted \in BOOLEAN
  BY Stays
<1> QED BY <1>1, <1>2 DEF Withdrawn, Turned, fateVars

LEMMA NothingNewIs ==
  ASSUME ProcessTyped, Single, HostTurn
  PROVE  NothingNew
<1>0. \A g \in Generations : kid[g] \in KidRecord
  BY ProcessIs
<1>1. CASE Calls \/ Clears
  <2>1. /\ request'.pc \in {"ensure", "done", "idle"} /\ ~request'.value
        /\ UNCHANGED <<child, generation, kid, stopVars, fateVars>>
    BY <1>1 DEF Calls, Clears, NoRequest
  <2> QED BY <2>1 DEF NothingNew, Saw, Told, Affirmed
<1>2. CASE Shuts
  <2>1. UNCHANGED <<child, generation, kid, request, failure>> /\ (Stopped' => Stopped)
    BY <1>2 DEF Shuts, Stops, Begins, stopVars, Stopped
  <2> QED BY <2>1 DEF NothingNew, Saw, Told, Affirmed, Serves
<1>3. CASE Withdrawn
  <2>1. UNCHANGED <<child, generation, failure>>
    BY <1>3 DEF Withdrawn, fateVars
  <2>2. CASE Warned
    <3>1. Sent(Message("cancel")) /\ Flagged /\ UNCHANGED <<stopping, start>> /\ child # 0
      BY <2>2, WarnsIs DEF stopVars
    <3>2. \A g \in Generations : kid'[g].life = kid[g].life /\ kid'[g].leaving = kid[g].leaving
                                 /\ kid'[g].work = kid[g].work /\ kid'[g].outbox = kid[g].outbox
      BY <3>1 DEF Sent, OneKid, Likewise
    <3>3. child \in Generations
      BY <3>1, ProcessIs
    <3>4. ASSUME NEW c \in Owners, CleanOf(kid[child], c) PROVE CleanOf(kid'[child], c)
      <4>1. Message("cancel").owner = c => Message("cancel").type \in Retiring
        BY DEF Message, Retiring
      <4> QED BY <3>1, <3>3, <3>4, <4>1, CleanSent DEF Sent, OneKid
    <3> QED
      BY <2>1, <3>1, <3>2, <3>3, <3>4 DEF NothingNew, Saw, Told, Affirmed, Serves, Stopped, Flagged, Same, Working
  <2>3. CASE Turned /\ Flagged /\ UNCHANGED kid
    <3>1. Stopped' => Stopped
      BY <2>3 DEF Turned, Stops, Begins, stopVars, Stopped
    <3> QED
      BY <2>1, <2>3, <3>1 DEF NothingNew, Saw, Told, Affirmed, Serves, Flagged, Same
  <2> QED BY <1>3, <2>2, <2>3, WithdrawnIs
<1>4. CASE UNCHANGED engineVars
  BY <1>4 DEF engineVars, NothingNew, Saw, Told, Affirmed, Serves, Stopped
<1> QED BY <1>1, <1>2, <1>3, <1>4 DEF HostTurn

LEMMA HostTurnHolds ==
  ASSUME ProcessTyped, Single, Farewell, RequestSound, RetiredClean, Exchange, HostTurn
  PROVE  EngineSound'
<1>0. EngineSound
  BY EngineSoundIs
<1>1. CASE Calls \/ Clears
  <2>1. /\ request' \in RequestRecord /\ request'.pc \in {"ensure", "done", "idle"} /\ ~request'.value
        /\ request.pc \notin {"initializing", "asked", "forking"}
        /\ UNCHANGED <<child, generation, kid, stopping, start, failure, exhausted, crashes, shut, closeTask, cleanup, retained>>
    <3>1. NoRequest \in RequestRecord /\ NoRequest.pc = "idle" /\ ~NoRequest.value
      BY UnbornIs DEF NoRequest
    <3> QED BY <1>1, <3>1 DEF Calls, Clears, stopVars, fateVars
  <2>2. ProcessTyped'
    BY <1>0, <2>1 DEF ProcessTyped
  <2>3. Alone' /\ Bodies' /\ Farewell'
    BY <1>0, <2>1 DEF EngineSound, Alone, Bodies, Farewell, Stopped
  <2>4. Fits'
    BY <2>1 DEF Fits, Awaited
  <2>5. Serves' => Serving(kid'[child'], request')
    BY <1>0, <2>1, StillIs, StillServes DEF EngineSound, Serves, Stopped
  <2> QED BY <2>2, <2>3, <2>4, <2>5 DEF EngineSound
<1>2. CASE Shuts
  <2>1. /\ UNCHANGED <<child, generation, kid, failure, exhausted, crashes, cleanup, retained, request>>
        /\ closeTask' = "pending" /\ shut' = TRUE
        /\ \/ Stopped /\ ~failure /\ start' = "none" /\ stopping' \in StopRecord /\ stopping'.phase = "begun" /\ stopping'.ack = "none"
           \/ (~Stopped \/ failure) /\ UNCHANGED <<stopping, start>>
    BY <1>2 DEF Shuts, Stops, Begins, stopVars
  <2>2. ProcessTyped'
    BY <2>1 DEF ProcessTyped
  <2>3. Alone' /\ Bodies'
    BY <1>0, <2>1 DEF EngineSound, Alone, Bodies, Stopped
  <2>4. Farewell'
    BY <1>0, <2>1 DEF EngineSound, Farewell, Stopped
  <2>5. Fits'
    BY <1>0, <2>1 DEF EngineSound, Fits, Awaited, Queries
  <2>6. ~Serves'
    BY <2>1 DEF Serves, Stopped
  <2> QED BY <2>2, <2>3, <2>4, <2>5, <2>6 DEF EngineSound
<1>3. CASE Withdrawn
  <2>1. EngineStep
    BY <1>3, WithdrawnIs DEF EngineStep
  <2> QED
    BY <2>1, ProcessTypedStep, AloneStep, BodiesStep, FarewellStep, FitsStep, ServingStep DEF EngineSound
<1>4. CASE UNCHANGED engineVars
  BY <1>0, <1>4 DEF EngineSound, ProcessTyped, Alone, Bodies, Farewell, Fits, Serves, Stopped, engineVars, Queries, Awaited
<1> QED BY <1>1, <1>2, <1>3, <1>4 DEF HostTurn

-----------------------------------------------------------------------------
(* A step of the host: what it has to show.                                   *)

Bound ==
  /\ \A l \in Roots : lease[l] = "none" => version[l] = 0
  /\ \A i \in Invocations : inv[i].pc = "asking" /\ inv[i].op = "sync" /\ Checked(inv[i].root) =>
       observed[inv[i].root].ops >= inv[i].revision
  /\ DirtyUntilSynced
NothingRetained ==
  /\ \A l \in Roots : lease[l] # "live" =>
       /\ l \notin claims /\ \A e \in stored : e.root # l
       /\ Open => ~observed[l].known
  /\ \A e \in stored : e.tag = e.by
  /\ \A c \in Owners : Open /\ retiring[c] # "no" =>
       /\ \A l \in Roots : OwnerOf[l] = c => lease[l] # "live"
       /\ retiring[c] = "done" => c \notin controls
HostPart == HostTyped /\ Assigned /\ Attached /\ NothingRetained /\ Bound
HostStep ==
  /\ HostTurn
  /\ request.job \in Invocations /\ Synced(request.job) /\ request'.job = request.job => Synced(request.job)'
  /\ \A c \in Owners : Open' /\ retiring'[c] = "done" => retiring[c] = "done" \/ child = 0 \/ (Affirmed /\ request.owner = c)
  /\ Open' => Open
  /\ hostClosing' = "removed" => (hostClosing = "removed" \/ Removable) /\ closeTask' = closeTask

LEMMA HostPartIs == ASSUME HostInvariant PROVE HostPart
BY RequestSoundIs DEF HostInvariant, HostPart, Bound, NothingRetained, Marked, RevokedForgotten

LEMMA HostStepHolds == ASSUME HostInvariant, HostStep, HostPart' PROVE HostInvariant'
<1>0. ProcessTyped /\ HostTyped /\ Single /\ Farewell /\ RequestSound /\ RetiredClean /\ Exchange /\ Marked
      /\ Attached /\ RevokedForgotten /\ RemovedAfterAll
  BY DEF HostInvariant
<1>1. EngineSound' /\ NothingNew
  BY <1>0, HostTurnHolds, NothingNewIs DEF HostStep
<1>2. Single'
  <2>1. hostClosing' = "removed" => closeTask' = "resolved"
    BY <1>0 DEF HostStep, Single, Removable
  <2> QED BY <1>1, <2>1 DEF EngineSound, Single, Alone, Bodies, ChildOwned
<1>3. RequestSound'
  BY <1>1 DEF EngineSound, HostPart, RequestSound, Fits, Assigned
<1>4. RetiredClean'
  <2>1. ASSUME NEW c \in Owners, Open', retiring'[c] = "done", child' # 0 PROVE CleanOf(kid'[child'], c)
    BY <1>0, <1>1, <2>1 DEF HostStep, RetiredClean, NothingNew, Affirmed
  <2>2. Affirmed' => CleanOf(kid'[child'], request'.owner)
    <3>1. SUFFICES ASSUME Affirmed' PROVE CleanOf(kid'[child'], request'.owner)
      OBVIOUS
    <3>2. Affirmed /\ request'.owner = request.owner /\ child' = child /\ child # 0
      BY <1>1, <3>1 DEF NothingNew, Affirmed
    <3>3. request.owner \in Owners
      BY <1>0, <3>2, RequestSoundIs DEF Assigned, Affirmed
    <3> QED BY <1>0, <1>1, <3>2, <3>3 DEF RetiredClean, NothingNew, Affirmed
  <2> QED BY <2>1, <2>2 DEF RetiredClean, Affirmed
<1>5. Saw' \/ Told' => Synced(request.job)'
  <2>1. Saw \/ Told => request.job \in Invocations /\ Synced(request.job)
    BY <1>0, ExchangeIs DEF Marked, Told, Saw
  <2> QED BY <1>1, <2>1 DEF NothingNew, HostStep
<1>6. Exchange'
  <2>1. Exchange' <=> (Serves' => Serving(kid'[child'], request')) /\ (Saw' => Synced(request.job)')
    BY DEF Exchange, Serves, Serving, Saw, Working, Letter, Message, Awaited
  <2> QED BY <1>1, <1>5, <2>1 DEF EngineSound
<1>7. Marked'
  BY <1>5 DEF HostPart, Bound, Marked, Told
<1>8. RevokedForgotten'
  <2>1. \A c \in Owners : Open' /\ retiring'[c] = "done" /\ child' # 0 => c \notin kid'[child'].owners
    BY <1>4 DEF RetiredClean, CleanOf
  <2> QED BY <2>1 DEF HostPart, NothingRetained, RevokedForgotten
<1>9. RemovedAfterAll'
  <2>1. SUFFICES ASSUME hostClosing' = "removed", NEW g \in 1 .. generation
                 PROVE  kid[g].life # "up" /\ kid[g].leaving = "told"
    <3>1. generation' = generation /\ \A g \in Generations : kid'[g].life = kid[g].life /\ kid'[g].leaving = kid[g].leaving
      BY <1>1 DEF NothingNew
    <3>2. ASSUME NEW g \in 1 .. generation PROVE g \in Generations
      BY <1>0, ProcessIs DEF ProcessTyped, Generations
    <3> QED BY <3>1, <3>2 DEF RemovedAfterAll
  <2>2. CASE hostClosing = "removed"
    BY <1>0, <2>2 DEF RemovedAfterAll
  <2>3. CASE Removable
    <3>1. generation \in Nat /\ generation # 0 /\ generation <= MaxGenerations /\ MaxGenerations \in Nat /\ g # 0 /\ g \in Nat
      BY <1>0, ProcessIs DEF ProcessTyped
    <3>2. g \in Generations
      BY <3>1 DEF Generations
    <3>3. closeTask = "resolved" /\ ~retained
      BY <2>3, <3>1 DEF Removable
    <3> QED BY <1>0, <3>1, <3>2, <3>3 DEF Single, ChildOwned
  <2> QED BY <2>1, <2>2, <2>3 DEF HostStep
<1> QED
  BY <1>1, <1>2, <1>3, <1>4, <1>6, <1>7, <1>8, <1>9 DEF HostInvariant, HostPart, EngineSound

\* Nothing of the process and of the one request changes.
LEMMA EngineRests ==
  ASSUME HostPart, UNCHANGED engineVars,
         \A i \in Invocations : inv[i].pc = "asking" => inv'[i] = inv[i],
         \A i \in Invocations : inv[i].pc = "asking" /\ Checked(inv[i].root)' /\ Synced(i) => Synced(i)',
         \A c \in Owners : Open' /\ retiring'[c] = "done" => retiring[c] = "done",
         Open' => Open,
         hostClosing' = "removed" => hostClosing = "removed" \/ Removable
  PROVE  HostStep
<1>1. HostTurn /\ UNCHANGED <<request, closeTask>>
  BY DEF HostTurn, engineVars
<1>2. ASSUME request.job \in Invocations, Synced(request.job) PROVE Synced(request.job)'
  <2>1. inv[request.job].pc = "asking" /\ inv'[request.job] = inv[request.job] /\ request'.job = request.job
    BY <1>1, <1>2 DEF HostPart, Assigned
  <2>2. CASE Checked(inv[request.job].root)'
    BY <1>2, <2>1, <2>2
  <2>3. CASE ~Checked(inv[request.job].root)'
    BY <2>1, <2>3 DEF Synced
  <2> QED BY <2>2, <2>3
<1> QED BY <1>1, <1>2 DEF HostStep
LEMMA AssignedLike ==
  ASSUME Assigned, UNCHANGED request, Open' => Open,
         \A i \in Invocations : inv'[i].pc = "asking" <=> inv[i].pc = "asking",
         \A i \in Invocations : inv[i].pc = "asking" => inv'[i] = inv[i],
         \A i \in Invocations : inv'[i].pc \in {"admitting", "queued", "reading", "asking"} => inv'[i].root \in Roots /\ inv'[i].op # "none",
         \A c \in Owners : Open' /\ retiring'[c] = "done" => retiring[c] = "done"
  PROVE  Assigned'
<1>1. ASSUME NEW i \in Invocations, request.job = i
      PROVE  request'.op = Errand(i)' /\ request'.owner = OwnerOf[inv'[i].root]
  BY <1>1 DEF Assigned, Errand
<1>2. Open' /\ request'.job \in Invocations => retiring'[request'.owner] # "done"
  <2>1. request.job \in Invocations => request.owner \in Owners
    <3>1. SUFFICES ASSUME request.job \in Invocations PROVE request.pc # "idle"
      BY DEF Assigned
    <3> QED BY <3>1, HostNames, EngineNames DEF Assigned
  <2> QED BY <2>1 DEF Assigned
<1> QED BY <1>1, <1>2 DEF Assigned

LEMMA BindHolds == ASSUME HostInvariant, NEW l \in Roots, Bind(l) PROVE HostInvariant'
<1>0. HostPart
  BY HostPartIs
<1>1. /\ Open /\ lease[l] = "none" /\ UNCHANGED <<engineVars, retiring, queue, running, inv, observed, version, covered, stored, claims, hostClosing>>
      /\ \/ retiring[OwnerOf[l]] # "no" /\ lease' = [lease EXCEPT ![l] = "revoked"] /\ controls' = controls
         \/ retiring[OwnerOf[l]] = "no" /\ lease' = [lease EXCEPT ![l] = "live"] /\ controls' = controls \cup {OwnerOf[l]}
  <2>1. OwnerOf[l] \in Owners /\ retiring[OwnerOf[l]] \in {"no", "pending", "latched", "done"}
    BY <1>0, HostNames DEF HostPart, HostTyped
  <2> QED BY <2>1 DEF Bind
<1>2. /\ lease' \in [Roots -> {"none", "live", "revoked"}] /\ lease'[l] # "none" /\ \A r \in Roots : r # l => lease'[r] = lease[r]
      /\ lease'[l] = "live" => retiring[OwnerOf[l]] = "no"
  BY <1>0, <1>1 DEF HostPart, HostTyped
<1>3. \A i \in Invocations : inv[i].pc \in {"admitting", "queued", "reading", "asking"} =>
        inv[i].root \in Roots /\ inv[i].root # l /\ lease'[inv[i].root] = lease[inv[i].root]
  BY <1>0, <1>1, <1>2 DEF HostPart, Assigned, Attached
<1>4. HostStep
  <2>1. \A i \in Invocations : inv[i].pc = "asking" /\ Checked(inv[i].root)' /\ Synced(i) => Synced(i)'
    BY <1>1, <1>3 DEF Synced, Checked, Open
  <2> QED BY <1>0, <1>1, <2>1, EngineRests DEF Open
<1>5. HostTyped'
  BY <1>0, <1>1, <1>2, HostNames DEF HostPart, HostTyped
<1>6. Assigned'
  BY <1>0, <1>1, AssignedLike DEF HostPart, Open, Assigned, engineVars
<1>7. Attached'
  BY <1>0, <1>1, <1>3 DEF HostPart, Attached, Open
<1>8. NothingRetained'
  BY <1>0, <1>1, <1>2, HostNames DEF HostPart, NothingRetained, Open
<1>9. Bound'
  <2>1. \A i \in Invocations : inv'[i].pc = "asking" /\ inv'[i].op = "sync" /\ Checked(inv[i].root)' =>
          observed'[inv'[i].root].ops >= inv'[i].revision
    BY <1>0, <1>1, <1>3 DEF HostPart, Bound, Checked, Open
  <2>2. \A r \in Roots : lease'[r] = "none" => version'[r] = 0
    BY <1>0, <1>1, <1>2 DEF HostPart, Bound
  <2>3. ASSUME NEW r \in Roots, Checked(r)', covered'[r] < version'[r] PROVE observed'[r].dirty
    <3>1. CASE r = l
      BY <1>0, <1>1, <2>3, <3>1 DEF HostPart, Bound, HostTyped
    <3>2. CASE r # l
      BY <1>0, <1>1, <1>2, <2>3, <3>2 DEF HostPart, Bound, DirtyUntilSynced, Checked, Open
    <3> QED BY <3>1, <3>2
  <2> QED BY <2>1, <2>2, <2>3 DEF Bound, DirtyUntilSynced
<1> QED BY <1>4, <1>5, <1>6, <1>7, <1>8, <1>9, HostStepHolds DEF HostPart

\* One invocation changes.
OneInv(i, k) ==
  /\ inv' \in [Invocations -> InvocationRecord] /\ inv'[i] = k /\ \A j \in Invocations : j # i => inv'[j] = inv[j]
LEMMA DoneIs == Done \in InvocationRecord /\ Done.pc = "returned" /\ Done.op = "none" /\ Done.root = NoJob
BY DEF Done, Fresh, InvocationRecord
LEMMA OneInvIs ==
  ASSUME HostTyped, NEW i \in Invocations, NEW k \in InvocationRecord, inv' = [inv EXCEPT ![i] = k]
  PROVE  OneInv(i, k)
BY DEF HostTyped, OneInv
LEMMA ReturnedIs ==
  ASSUME HostTyped, NEW i \in Invocations, inv' = Returned(i)
  PROVE  OneInv(i, Done)
BY DoneIs, OneInvIs DEF Returned

LEMMA InvokeHolds ==
  ASSUME HostInvariant, NEW i \in Invocations, NEW l \in Roots, NEW op \in Operations[i], Invoke(i, l, op)
  PROVE  HostInvariant'
<1>0. HostPart
  BY HostPartIs
<1>1. /\ inv[i].pc = "new" /\ Checked(l) /\ inv[i] \in InvocationRecord
      /\ UNCHANGED <<engineVars, lease, controls, retiring, queue, running, observed, version, covered, stored, claims, hostClosing>>
  BY <1>0 DEF Invoke, HostPart, HostTyped
<1>2. op \in {"focus", "sync", "reset", "reload", "context"}
  BY HostBounds
<1> DEFINE k == [inv[i] EXCEPT !.pc = "admitting", !.root = l, !.op = op]
<1>3. k \in InvocationRecord /\ k.pc = "admitting" /\ k.root = l /\ k.op = op
  BY <1>1, <1>2 DEF InvocationRecord
<1>4. OneInv(i, k) \/ OneInv(i, Done)
  <2>1. Admitting(i, l, op) = [inv EXCEPT ![i] = k]
    BY <1>0, <1>1 DEF Admitting, HostPart, HostTyped
  <2>2. inv' = Admitting(i, l, op) \/ inv' = Returned(i)
    BY DEF Invoke, Collect
  <2> HIDE DEF k
  <2> QED BY <1>0, <1>3, <2>1, <2>2, OneInvIs, ReturnedIs DEF HostPart
<1> HIDE DEF k
<1>5. /\ inv'[i].pc \in {"admitting", "returned"} /\ (inv'[i].pc = "admitting" => inv'[i].root = l /\ inv'[i].op # "none")
      /\ \A j \in Invocations : j # i => inv'[j] = inv[j]
      /\ inv' \in [Invocations -> InvocationRecord]
  BY <1>2, <1>3, <1>4, DoneIs DEF OneInv
<1>6. HostStep
  <2>1. \A j \in Invocations : inv[j].pc = "asking" /\ Checked(inv[j].root)' /\ Synced(j) => Synced(j)'
    BY <1>1, <1>5 DEF Synced, Checked, Open
  <2> QED BY <1>0, <1>1, <1>5, <2>1, EngineRests DEF Open
<1>7. HostTyped'
  BY <1>0, <1>1, <1>5 DEF HostPart, HostTyped
<1>8. Assigned'
  BY <1>0, <1>1, <1>5, AssignedLike DEF HostPart, Open, Assigned, engineVars
<1>9. Attached'
  BY <1>0, <1>1, <1>5 DEF HostPart, Attached, Open, Checked
<1>10. NothingRetained'
  BY <1>0, <1>1 DEF HostPart, NothingRetained, Open
<1>11. Bound'
  BY <1>0, <1>1, <1>5 DEF HostPart, Bound, DirtyUntilSynced, Checked, Open
<1> QED BY <1>6, <1>7, <1>8, <1>9, <1>10, <1>11, HostStepHolds DEF HostPart

LEMMA AdmitHolds ==
  ASSUME HostInvariant, NEW i \in Invocations, Admit(i)
  PROVE  HostInvariant'
<1>0. HostPart /\ i \in Jobs
  BY HostPartIs, HostNames
<1>1. /\ inv[i].pc = "admitting" /\ inv[i] \in InvocationRecord /\ inv[i].root \in Roots
      /\ UNCHANGED <<engineVars, lease, retiring, observed, version, covered, stored, claims, hostClosing>>
  BY <1>0 DEF Admit, HostPart, HostTyped, Assigned
<1> DEFINE k == [inv[i] EXCEPT !.pc = "queued"]
           l == inv[i].root
<1>2. k \in InvocationRecord /\ k.pc = "queued" /\ k.root = inv[i].root /\ k.op = inv[i].op
  BY <1>1 DEF InvocationRecord
<1>3. \/ Checked(l) /\ Enqueued(i) /\ OneInv(i, k) /\ controls' = controls \cup {OwnerOf[l]}
      \/ OneInv(i, Done) /\ UNCHANGED <<queue, running, controls>>
  <2>1. [inv EXCEPT ![i].pc = "queued"] = [inv EXCEPT ![i] = k]
    BY <1>0, <1>1 DEF HostPart, HostTyped
  <2> HIDE DEF k
  <2> QED BY <1>0, <1>2, <2>1, OneInvIs, ReturnedIs DEF HostPart, Admit
<1> HIDE DEF k
<1>4. /\ inv'[i].pc \in {"queued", "returned"}
      /\ inv'[i].pc = "queued" => inv'[i].root = inv[i].root /\ inv'[i].op = inv[i].op
      /\ \A j \in Invocations : j # i => inv'[j] = inv[j]
      /\ inv' \in [Invocations -> InvocationRecord]
  BY <1>2, <1>3, DoneIs DEF OneInv
<1>5. /\ queue' \in Seq(Jobs) /\ running' \in Jobs \cup {NoJob}
      /\ running' \in {running, i}
      /\ \A m \in 1 .. Len(queue') : queue'[m] = i \/ \E n \in 1 .. Len(queue) : queue'[m] = queue[n]
  <2>1. queue \in Seq(Jobs) /\ running \in Jobs \cup {NoJob}
    BY <1>0 DEF HostPart, HostTyped
  <2>2. CASE Enqueued(i)
    <3>1. CASE running = NoJob
      BY <1>0, <2>1, <2>2, <3>1 DEF Enqueued
    <3>2. CASE running # NoJob
      <4>1. queue' = Append(queue, i) /\ running' = running
        BY <2>2, <3>2 DEF Enqueued
      <4>2. Among(queue)
        BY DEF Among
      <4> QED BY <1>0, <2>1, <4>1, <4>2, EnqueuedIs
    <3> QED BY <3>1, <3>2
  <2> QED BY <1>3, <2>1, <2>2
<1>6. HostStep
  <2>1. \A j \in Invocations : inv[j].pc = "asking" /\ Checked(inv[j].root)' /\ Synced(j) => Synced(j)'
    BY <1>1, <1>4 DEF Synced, Checked, Open
  <2> QED BY <1>0, <1>1, <1>4, <2>1, EngineRests DEF Open
<1>7. HostTyped'
  <2>1. OwnerOf[l] \in Owners
    BY <1>1, HostNames
  <2>2. controls' \in SUBSET Owners
    BY <1>0, <1>3, <2>1 DEF HostPart, HostTyped
  <2> QED BY <1>0, <1>1, <1>4, <1>5, <2>2 DEF HostPart, HostTyped
<1>8. Assigned'
  BY <1>0, <1>1, <1>4, AssignedLike DEF HostPart, Open, Assigned, engineVars
<1>9. Attached'
  <2>1. i \notin Owners
    BY HostNames
  <2> QED BY <1>0, <1>1, <1>4, <1>5, <2>1 DEF HostPart, Attached, Open
<1>10. NothingRetained'
  <2>1. ASSUME NEW c \in Owners, Open, retiring[c] = "done" PROVE c \notin controls'
    <3>1. Checked(l) => c # OwnerOf[l]
      BY <1>0, <1>1, <2>1 DEF HostPart, NothingRetained, Checked
    <3> QED BY <1>0, <1>3, <2>1, <3>1 DEF HostPart, NothingRetained
  <2> QED BY <1>0, <1>1, <2>1 DEF HostPart, NothingRetained, Open
<1>11. Bound'
  BY <1>0, <1>1, <1>4 DEF HostPart, Bound, DirtyUntilSynced, Checked, Open
<1> QED BY <1>6, <1>7, <1>8, <1>9, <1>10, <1>11, HostStepHolds DEF HostPart

LEMMA ObserveHolds ==
  ASSUME HostInvariant, NEW l \in Roots, NEW ofChange \in BOOLEAN, Observe(l, ofChange)
  PROVE  HostInvariant'
<1>0. HostPart
  BY HostPartIs
<1> DEFINE v == IF ofChange THEN version[l] + 1 ELSE version[l]
           o == [known |-> TRUE, dirty |-> observed[l].dirty \/ ofChange, ops |-> observed[l].ops + 1]
<1>1. /\ Checked(l) /\ version[l] \in Nat /\ observed[l] \in [known : BOOLEAN, dirty : BOOLEAN, ops : Nat]
      /\ UNCHANGED <<engineVars, lease, controls, retiring, queue, running, inv, covered, stored, claims, hostClosing>>
      /\ version' = [version EXCEPT ![l] = v] /\ observed' = [observed EXCEPT ![l] = o]
  BY <1>0 DEF Observe, HostPart, HostTyped
<1>2. v \in Nat /\ (v = version[l] \/ ofChange)
  BY <1>1
<1>3. /\ o \in [known : BOOLEAN, dirty : BOOLEAN, ops : Nat] /\ (ofChange => o.dirty) /\ (observed[l].dirty => o.dirty)
      /\ o.ops = observed[l].ops + 1
  <2>1. (observed[l].dirty \/ ofChange) \in BOOLEAN
    OBVIOUS
  <2> QED BY <1>1, <2>1
<1> HIDE DEF v, o
<1>4. /\ version' \in [Roots -> Nat] /\ version'[l] = v
      /\ observed' \in [Roots -> [known : BOOLEAN, dirty : BOOLEAN, ops : Nat]] /\ observed'[l] = o
      /\ \A r \in Roots : r # l => version'[r] = version[r] /\ observed'[r] = observed[r]
  BY <1>0, <1>1, <1>2, <1>3 DEF HostPart, HostTyped
<1>5. HostStep
  <2>1. ASSUME NEW i \in Invocations, inv[i].pc = "asking", Checked(inv[i].root)', Synced(i) PROVE Synced(i)'
    <3>1. inv[i].root \in Roots /\ Checked(inv[i].root) /\ inv' = inv
      BY <1>0, <1>1, <2>1 DEF HostPart, Assigned, Checked, Open
    <3>2. CASE inv[i].op # "sync"
      BY <3>1, <3>2 DEF Synced
    <3>3. CASE inv[i].op = "sync" /\ inv[i].root # l
      BY <1>4, <2>1, <3>1, <3>3 DEF Synced
    <3>4. CASE inv[i].op = "sync" /\ inv[i].root = l
      <4>1. observed[l].ops >= inv[i].revision /\ inv[i].revision \in Nat /\ observed[l].ops \in Nat
        BY <1>0, <1>1, <2>1, <3>1, <3>4 DEF HostPart, Bound, HostTyped, InvocationRecord
      <4>2. version[l] = inv[i].snapshot \/ observed[l].dirty
        BY <2>1, <3>1, <3>4 DEF Synced
      <4>3. observed'[l].ops > inv[i].revision
        BY <1>3, <1>4, <4>1
      <4>4. version'[l] = inv[i].snapshot \/ observed'[l].dirty
        BY <1>2, <1>3, <1>4, <4>2
      <4> QED BY <3>1, <3>4, <4>3, <4>4 DEF Synced
    <3> QED BY <3>2, <3>3, <3>4
  <2> QED BY <1>0, <1>1, <2>1, EngineRests DEF Open
<1>6. HostTyped'
  BY <1>0, <1>1, <1>4 DEF HostPart, HostTyped
<1>7. Assigned'
  BY <1>0, <1>1, AssignedLike DEF HostPart, Open, Assigned, engineVars
<1>8. Attached'
  BY <1>0, <1>1 DEF HostPart, Attached, Open
<1>9. NothingRetained'
  <2>1. \A r \in Roots : lease[r] # "live" => r # l
    BY <1>1 DEF Checked
  <2> QED BY <1>0, <1>1, <1>4, <2>1 DEF HostPart, NothingRetained, Open
<1>10. Bound'
  <2>1. \A r \in Roots : lease'[r] = "none" => version'[r] = 0
    BY <1>0, <1>1, <1>4 DEF HostPart, Bound, Checked
  <2>2. ASSUME NEW i \in Invocations, inv'[i].pc = "asking", inv'[i].op = "sync", Checked(inv[i].root)'
        PROVE  observed'[inv'[i].root].ops >= inv'[i].revision
    <3>1. inv' = inv /\ inv[i].root \in Roots /\ observed[inv[i].root].ops >= inv[i].revision
      BY <1>0, <1>1, <2>2 DEF HostPart, Assigned, Bound, Checked, Open
    <3>2. inv[i].revision \in Nat /\ observed[inv[i].root].ops \in Nat
      BY <1>0, <3>1 DEF HostPart, HostTyped, InvocationRecord
    <3> QED BY <1>3, <1>4, <3>1, <3>2
  <2>3. ASSUME NEW r \in Roots, Checked(r)', covered'[r] < version'[r] PROVE observed'[r].dirty
    <3>1. Checked(r) /\ (covered[r] < version[r] => observed[r].dirty)
      BY <1>0, <1>1, <2>3 DEF HostPart, Bound, DirtyUntilSynced, Checked, Open
    <3> QED BY <1>1, <1>2, <1>3, <1>4, <2>3, <3>1
  <2> QED BY <2>1, <2>2, <2>3 DEF Bound, DirtyUntilSynced
<1> QED BY <1>5, <1>6, <1>7, <1>8, <1>9, <1>10, HostStepHolds DEF HostPart

LEMMA CloseDoneHolds == ASSUME HostInvariant, CloseDone PROVE HostInvariant'
<1>0. HostPart
  BY HostPartIs
<1>1. /\ hostClosing = "closing" /\ hostClosing' \in {"removed", "kept"} /\ (hostClosing' = "removed" => Removable)
      /\ controls' = {} /\ retiring' = [c \in Owners |-> "no"] /\ observed' = [l \in Roots |-> Unobserved]
      /\ UNCHANGED <<engineVars, lease, queue, running, inv, version, covered, stored, claims>>
  BY DEF CloseDone
<1>2. ~Open /\ ~Open' /\ \A l : ~Checked(l)'
  BY <1>1 DEF Open, Checked
<1>3. HostStep
  BY <1>0, <1>1, <1>2, EngineRests
<1>4. HostTyped'
  BY <1>0, <1>1 DEF HostPart, HostTyped, Unobserved
<1>5. Assigned'
  BY <1>0, <1>1, <1>2, AssignedLike DEF HostPart, Assigned, engineVars
<1>6. Attached'
  BY <1>0, <1>1, <1>2 DEF HostPart, Attached
<1>7. NothingRetained'
  BY <1>0, <1>1, <1>2 DEF HostPart, NothingRetained
<1>8. Bound'
  BY <1>0, <1>1, <1>2 DEF HostPart, Bound, DirtyUntilSynced
<1> QED BY <1>3, <1>4, <1>5, <1>6, <1>7, <1>8, HostStepHolds DEF HostPart

\* A job whose lease is gone ends before it asks anything.
LEMMA FailsHolds ==
  ASSUME HostInvariant, NEW i \in Invocations, Fails(i), inv[i].pc \in {"queued", "reading"},
         UNCHANGED <<lease, controls, retiring, observed, version, covered, stored, claims, hostClosing>>
  PROVE  HostInvariant'
<1>0. HostPart
  BY HostPartIs
<1>1. OneInv(i, Done) /\ UNCHANGED engineVars /\ Dequeued
  BY <1>0, ReturnedIs DEF HostPart, Fails
<1>2. inv'[i].pc = "returned" /\ inv' \in [Invocations -> InvocationRecord] /\ \A j \in Invocations : j # i => inv'[j] = inv[j]
  BY <1>1, DoneIs DEF OneInv
<1>3. /\ queue' \in Seq(Jobs) /\ running' \in Jobs \cup {NoJob} /\ Among(queue')
      /\ running' # NoJob => \E n \in 1 .. Len(queue) : running' = queue[n]
  BY <1>0, <1>1, DequeuedIs DEF HostPart, HostTyped
<1>4. HostStep
  <2>1. \A j \in Invocations : inv[j].pc = "asking" /\ Checked(inv[j].root)' /\ Synced(j) => Synced(j)'
    BY <1>2 DEF Synced, Checked, Open
  <2> QED BY <1>0, <1>1, <1>2, <2>1, EngineRests DEF Open
<1>5. HostTyped'
  BY <1>0, <1>2, <1>3 DEF HostPart, HostTyped
<1>6. Assigned'
  BY <1>0, <1>1, <1>2, AssignedLike DEF HostPart, Open, Assigned, engineVars
<1>7. Attached'
  <2>1. NoJob \notin Owners
    BY EngineNames
  <2> QED BY <1>0, <1>2, <1>3, <2>1 DEF HostPart, Attached, Open, Among
<1>8. NothingRetained'
  BY <1>0 DEF HostPart, NothingRetained, Open
<1>9. Bound'
  BY <1>0, <1>2 DEF HostPart, Bound, DirtyUntilSynced, Checked, Open
<1> QED BY <1>4, <1>5, <1>6, <1>7, <1>8, <1>9, HostStepHolds DEF HostPart

\* The job asks the engine: its invocation goes on, the request is its own.
Asks(i, k) ==
  /\ inv[i].pc \in {"queued", "reading"} /\ Checked(inv[i].root)
  /\ OneInv(i, k) /\ k.pc = "asking" /\ k.root = inv[i].root /\ k.op = inv[i].op
  /\ Call(i, Errand(i), OwnerOf[inv[i].root], FALSE)
  /\ UNCHANGED <<lease, controls, retiring, queue, running, version, covered, stored, claims, hostClosing>>
LEMMA AsksHolds ==
  ASSUME HostInvariant, NEW i \in Invocations, NEW k \in InvocationRecord, Asks(i, k),
         observed' \in [Roots -> [known : BOOLEAN, dirty : BOOLEAN, ops : Nat]],
         \A l \in Roots : observed'[l].dirty = observed[l].dirty /\ observed'[l].ops = observed[l].ops,
         \A l \in Roots : l # inv[i].root => observed'[l] = observed[l],
         k.op = "sync" => observed[k.root].ops >= k.revision
  PROVE  HostInvariant'
<1>0. HostPart /\ ProcessTyped
  BY HostPartIs DEF HostInvariant
<1>1. /\ i \in Jobs /\ i # NoJob /\ i \notin Owners /\ inv[i].root \in Roots /\ inv[i].op # "none" /\ inv[i] \in InvocationRecord
      /\ OwnerOf[inv[i].root] \in Owners
  BY <1>0, HostNames, EngineNames DEF HostPart, Asks, Assigned, HostTyped
<1>2. Errand(i) \in Errands /\ Errand(i) # "none"
  BY <1>1 DEF Errand, InvocationRecord, Errands
<1>3. Calls /\ request'.job = i /\ request'.op = Errand(i) /\ request'.owner = OwnerOf[inv[i].root]
  BY ZenonT(60), <1>0, <1>1, <1>2, CalledIs DEF Asks
<1>4. /\ request.job = NoJob /\ request'.pc # "idle" /\ \A j \in Invocations : inv[j].pc # "asking"
  BY <1>0, <1>3, HostNames, EngineNames DEF HostPart, Assigned, Calls
<1>5. /\ inv' \in [Invocations -> InvocationRecord] /\ \A j \in Invocations : j # i => inv'[j] = inv[j]
      /\ inv'[i] = k /\ k.pc = "asking" /\ k.root = inv[i].root /\ k.op = inv[i].op
      /\ UNCHANGED <<lease, controls, retiring, queue, running, version, covered, stored, claims, hostClosing>>
  BY DEF Asks, OneInv
<1>6. HostStep
  <2>1. closeTask' = closeTask
    BY <1>3 DEF Calls, fateVars
  <2> QED BY <1>1, <1>3, <1>4, <1>5, <2>1 DEF HostStep, HostTurn, Open
<1>7. HostTyped'
  BY <1>0, <1>5 DEF HostPart, HostTyped
<1>8. Assigned'
  <2>1. Errand(i)' = Errand(i)
    BY <1>5 DEF Errand
  <2>2. ASSUME NEW j \in Invocations
        PROVE  /\ inv'[j].pc = "asking" <=> request'.job = j
               /\ inv'[j].pc \in {"admitting", "queued", "reading", "asking"} => inv'[j].root \in Roots /\ inv'[j].op # "none"
               /\ request'.job = j => request'.op = Errand(j)' /\ request'.owner = OwnerOf[inv'[j].root]
    <3>1. CASE j = i
      BY <1>1, <1>3, <1>5, <2>1, <3>1
    <3>2. CASE j # i
      BY <1>0, <1>3, <1>4, <1>5, <3>2 DEF HostPart, Assigned
    <3> QED BY <3>1, <3>2
  <2>3. retiring[OwnerOf[inv[i].root]] # "done"
    BY <1>0, <1>1 DEF HostPart, NothingRetained, Asks, Checked
  <2> QED BY <1>1, <1>2, <1>3, <1>4, <1>5, <2>2, <2>3 DEF Assigned
<1>9. Attached'
  BY <1>0, <1>5 DEF HostPart, Attached, Open, Asks, Checked
<1>10. NothingRetained'
  <2>1. \A l \in Roots : lease[l] # "live" => l # inv[i].root
    BY DEF Asks, Checked
  <2> QED BY <1>0, <1>5, <2>1 DEF HostPart, NothingRetained, Open
<1>11. Bound'
  <2>1. ASSUME NEW j \in Invocations, inv'[j].pc = "asking", inv'[j].op = "sync"
        PROVE  observed'[inv'[j].root].ops >= inv'[j].revision
    <3>1. j = i
      BY <1>4, <1>5, <2>1
    <3> QED BY <1>1, <1>5, <2>1, <3>1
  <2>2. DirtyUntilSynced'
    BY <1>0, <1>5 DEF HostPart, Bound, DirtyUntilSynced, Checked, Open
  <2> QED BY <1>0, <1>5, <2>1, <2>2 DEF HostPart, Bound
<1> QED BY <1>6, <1>7, <1>8, <1>9, <1>10, <1>11, HostStepHolds DEF HostPart

LEMMA StartHolds == ASSUME HostInvariant, NEW i \in Invocations, Start(i) PROVE HostInvariant'
<1>0. HostPart
  BY HostPartIs
<1>1. inv[i].pc = "queued" /\ inv[i] \in InvocationRecord
      /\ UNCHANGED <<lease, controls, retiring, observed, version, covered, stored, claims, hostClosing>>
  BY <1>0 DEF Start, HostPart, HostTyped
<1>2. CASE ~Checked(inv[i].root)
  BY <1>1, <1>2, FailsHolds DEF Start
<1>3. CASE Checked(inv[i].root) /\ inv[i].op = "sync"
  <2> DEFINE k == [inv[i] EXCEPT !.pc = "reading"]
  <2>1. UNCHANGED <<engineVars, queue, running>> /\ inv' = [inv EXCEPT ![i] = k]
    BY <1>0, <1>1, <1>3 DEF Start, HostPart, HostTyped
  <2>2. k \in InvocationRecord /\ k.pc = "reading" /\ k.root = inv[i].root /\ k.op = inv[i].op
    BY <1>1 DEF InvocationRecord
  <2> HIDE DEF k
  <2>3. /\ inv' \in [Invocations -> InvocationRecord] /\ inv'[i].pc = "reading" /\ inv'[i].root = inv[i].root /\ inv'[i].op = inv[i].op
        /\ \A j \in Invocations : j # i => inv'[j] = inv[j]
    BY <1>0, <2>1, <2>2, OneInvIs DEF HostPart, OneInv
  <2>4. HostStep
    <3>1. \A j \in Invocations : inv[j].pc = "asking" /\ Checked(inv[j].root)' /\ Synced(j) => Synced(j)'
      BY <1>1, <2>3 DEF Synced, Checked, Open
    <3> QED BY <1>0, <1>1, <2>1, <2>3, <3>1, EngineRests DEF Open
  <2>5. HostTyped'
    BY <1>0, <1>1, <2>1, <2>3 DEF HostPart, HostTyped
  <2>6. Assigned'
    BY <1>0, <1>1, <2>1, <2>3, AssignedLike DEF HostPart, Open, Assigned, engineVars
  <2>7. Attached' /\ NothingRetained'
    BY <1>0, <1>1, <1>3, <2>1, <2>3 DEF HostPart, Attached, NothingRetained, Open
  <2>8. Bound'
    BY <1>0, <1>1, <2>3 DEF HostPart, Bound, DirtyUntilSynced, Checked, Open
  <2> QED BY <2>4, <2>5, <2>6, <2>7, <2>8, HostStepHolds DEF HostPart
<1>4. CASE Checked(inv[i].root) /\ inv[i].op # "sync"
  <2> DEFINE k == [inv[i] EXCEPT !.pc = "asking"]
  <2>1. /\ UNCHANGED <<queue, running>> /\ inv' = [inv EXCEPT ![i] = k]
        /\ Call(i, Errand(i), OwnerOf[inv[i].root], FALSE)
    BY <1>0, <1>1, <1>4 DEF Start, HostPart, HostTyped, Errand
  <2>2. k \in InvocationRecord /\ k.pc = "asking" /\ k.root = inv[i].root /\ k.op = inv[i].op
    BY <1>1 DEF InvocationRecord
  <2> HIDE DEF k
  <2>3. Asks(i, k)
    BY <1>0, <1>1, <1>4, <2>1, <2>2, OneInvIs DEF HostPart, Asks
  <2> QED BY <1>0, <1>1, <1>4, <2>2, <2>3, AsksHolds DEF HostPart, HostTyped
<1> QED BY <1>2, <1>3, <1>4

LEMMA ReadHolds == ASSUME HostInvariant, NEW i \in Invocations, Read(i) PROVE HostInvariant'
<1>0. HostPart
  BY HostPartIs
<1>1. inv[i].pc = "reading" /\ inv[i] \in InvocationRecord
      /\ UNCHANGED <<lease, controls, retiring, version, covered, stored, claims, hostClosing>>
  BY <1>0 DEF Read, HostPart, HostTyped
<1>2. CASE ~Checked(inv[i].root)
  BY <1>1, <1>2, FailsHolds DEF Read
<1>3. CASE Checked(inv[i].root)
  <2> DEFINE l == inv[i].root
             k == [inv[i] EXCEPT !.pc = "asking", !.revision = observed[l].ops]
             o == [observed[l] EXCEPT !.known = TRUE]
  <2>1. l \in Roots /\ observed[l] \in [known : BOOLEAN, dirty : BOOLEAN, ops : Nat]
    BY <1>0, <1>1 DEF HostPart, Assigned, HostTyped
  <2>2. /\ UNCHANGED <<queue, running>> /\ Call(i, "sync", OwnerOf[l], FALSE)
        /\ inv' = [inv EXCEPT ![i] = k] /\ observed' = [observed EXCEPT ![l] = o]
    BY <1>0, <1>1, <1>3, <2>1 DEF Read, HostPart, HostTyped
  <2>3. /\ k \in InvocationRecord /\ k.pc = "asking" /\ k.root = l /\ k.op = inv[i].op /\ k.revision = observed[l].ops
    BY <1>1, <2>1 DEF InvocationRecord
  <2>4. /\ o \in [known : BOOLEAN, dirty : BOOLEAN, ops : Nat] /\ o.dirty = observed[l].dirty /\ o.ops = observed[l].ops
    BY <2>1
  <2>5. inv[i].op = "sync"
    BY <1>0, <1>1 DEF HostPart, Attached
  <2>6. Errand(i) = "sync"
    BY <2>5 DEF Errand
  <2> HIDE DEF k, o
  <2>7. OneInv(i, k)
    BY <1>0, <2>2, <2>3, OneInvIs DEF HostPart
  <2>8. Asks(i, k)
    BY <1>1, <1>3, <2>2, <2>3, <2>6, <2>7 DEF Asks
  <2>9. /\ observed' \in [Roots -> [known : BOOLEAN, dirty : BOOLEAN, ops : Nat]]
        /\ observed'[l] = o /\ \A r \in Roots : r # l => observed'[r] = observed[r]
    BY <1>0, <2>1, <2>2, <2>4 DEF HostPart, HostTyped
  <2>10. observed[l].ops >= k.revision
    BY <2>1, <2>3
  <2> QED BY <2>1, <2>3, <2>4, <2>8, <2>9, <2>10, AsksHolds
<1> QED BY <1>2, <1>3

\* What a job leaves is of its own root, and the mark of a change stays unless
\* the job saw the change.
Left(l) ==
  /\ observed' \in [Roots -> [known : BOOLEAN, dirty : BOOLEAN, ops : Nat]] /\ covered' \in [Roots -> Nat]
  /\ stored' \in SUBSET [root : Roots, tag : Nat, by : Nat] /\ claims' \subseteq claims \cup {l}
  /\ \A r \in Roots : r # l => observed'[r] = observed[r] /\ covered'[r] = covered[r]
  /\ \A e \in stored' : e \in stored \/ (e.root = l /\ e.tag = e.by)
  /\ covered'[l] < version[l] => observed'[l].dirty
LEMMA SettledIs ==
  ASSUME HostPart, NEW i \in Invocations, NEW l \in Roots, l = inv[i].root, Settled(i, l), Checked(l), Synced(i),
         inv[i].op # "none", generation \in Nat, inv[i].op = "focus" => request.child = generation
  PROVE  Left(l)
<1> DEFINE op == inv[i].op
           focus == /\ stored' = Put(l)
                    /\ observed' = [observed EXCEPT ![l].known = TRUE] /\ UNCHANGED <<covered, claims>>
           sync == /\ observed' = [observed EXCEPT ![l].known = TRUE, ![l].dirty = @ /\ ObservedSince(observed[l], i)]
                   /\ covered' = [covered EXCEPT ![l] = inv[i].snapshot] /\ UNCHANGED <<stored, claims>>
           reset == /\ observed' = [observed EXCEPT ![l] = Unobserved] /\ covered' = [covered EXCEPT ![l] = version[l]]
                    /\ stored' = Kept({l}) /\ claims' = Unclaimed({l})
           reload == stored' = {} /\ claims' = {} /\ UNCHANGED <<observed, covered>>
           context == claims' = Claimed(l) /\ UNCHANGED <<stored, observed, covered>>
<1>1. (CASE op = "focus" -> focus [] op = "sync" -> sync [] op = "reset" -> reset [] op = "reload" -> reload
         [] op = "context" -> context)
  BY DEF Settled
<1>2. op \in {"focus", "sync", "reset", "reload", "context"} /\ inv[i] \in InvocationRecord
  BY DEF HostPart, HostTyped, InvocationRecord
<1>3. \/ op = "focus" /\ focus
      \/ op = "sync" /\ sync
      \/ op = "reset" /\ reset
      \/ op = "reload" /\ reload
      \/ op = "context" /\ context
  <2> HIDE DEF focus, sync, reset, reload, context, op
  <2>1. CASE op = "focus"
    <3>1. op # "sync" /\ op # "reset" /\ op # "reload" /\ op # "context"
      BY <2>1
    <3> QED BY <1>1, <2>1, <3>1, Zenon
  <2>2. CASE op = "sync"
    <3>1. op # "focus" /\ op # "reset" /\ op # "reload" /\ op # "context"
      BY <2>2
    <3> QED BY <1>1, <2>2, <3>1, Zenon
  <2>3. CASE op = "reset"
    <3>1. op # "focus" /\ op # "sync" /\ op # "reload" /\ op # "context"
      BY <2>3
    <3> QED BY <1>1, <2>3, <3>1, Zenon
  <2>4. CASE op = "reload"
    <3>1. op # "focus" /\ op # "sync" /\ op # "reset" /\ op # "context"
      BY <2>4
    <3> QED BY <1>1, <2>4, <3>1, Zenon
  <2>5. CASE op = "context"
    <3>1. op # "focus" /\ op # "sync" /\ op # "reset" /\ op # "reload"
      BY <2>5
    <3> QED BY <1>1, <2>5, <3>1, Zenon
  <2> QED BY <1>2, <2>1, <2>2, <2>3, <2>4, <2>5
<1>4. /\ observed \in [Roots -> [known : BOOLEAN, dirty : BOOLEAN, ops : Nat]] /\ covered \in [Roots -> Nat] /\ version \in [Roots -> Nat]
      /\ stored \in SUBSET [root : Roots, tag : Nat, by : Nat] /\ claims \in SUBSET Roots
      /\ covered[l] < version[l] => observed[l].dirty
  BY DEF HostPart, HostTyped, Bound, DirtyUntilSynced
<1>5. CASE op = "focus" /\ focus
  <2> DEFINE o == [observed[l] EXCEPT !.known = TRUE]
  <2>1. observed' = [observed EXCEPT ![l] = o]
    BY <1>4, <1>5
  <2>2. o \in [known : BOOLEAN, dirty : BOOLEAN, ops : Nat] /\ o.dirty = observed[l].dirty
    BY <1>4
  <2> HIDE DEF o
  <2>3. [root |-> l, tag |-> generation, by |-> request.child] \in [root : Roots, tag : Nat, by : Nat]
    BY <1>5
  <2>4. \A e \in Put(l) : e \in stored \/ (e.root = l /\ e.tag = e.by)
    BY <1>5 DEF Put
  <2> QED BY <1>4, <1>5, <2>1, <2>2, <2>3, <2>4 DEF Left, Put
<1>6. CASE op = "sync" /\ sync
  <2> DEFINE d == observed[l].dirty /\ ObservedSince(observed[l], i)
             o == [observed[l] EXCEPT !.known = TRUE, !.dirty = d]
  <2>1. observed' = [observed EXCEPT ![l] = o]
    BY <1>4, <1>6
  <2>2. d \in BOOLEAN
    OBVIOUS
  <2>3. version[l] = inv[i].snapshot \/ d
    <3>1. version[l] = inv[i].snapshot \/ (observed[l].dirty /\ observed[l].ops > inv[i].revision)
      BY <1>6 DEF Synced
    <3>2. observed[l].ops \in Nat /\ inv[i].revision \in Nat
      BY <1>2, <1>4 DEF InvocationRecord
    <3>3. observed[l].ops > inv[i].revision => ObservedSince(observed[l], i)
      BY <3>2 DEF ObservedSince
    <3> QED BY <3>1, <3>3
  <2> HIDE DEF d
  <2>4. o \in [known : BOOLEAN, dirty : BOOLEAN, ops : Nat] /\ o.dirty = d
    BY <1>4, <2>2
  <2> HIDE DEF o
  <2>5. inv[i].snapshot \in Nat
    BY <1>2 DEF InvocationRecord
  <2> QED BY <1>4, <1>6, <2>1, <2>3, <2>4, <2>5 DEF Left
<1>7. CASE op = "reset" /\ reset
  BY <1>4, <1>7 DEF Left, Unobserved, Kept, Unclaimed
<1>8. CASE op = "reload" /\ reload
  BY <1>4, <1>8 DEF Left
<1>9. CASE op = "context" /\ context
  BY <1>4, <1>9 DEF Left, Claimed
<1> HIDE DEF focus, sync, reset, reload, context, op
<1> QED BY <1>3, <1>5, <1>6, <1>7, <1>8, <1>9

\* The end of a request: the next job is taken from the queue.
LEMMA ClearedHolds ==
  ASSUME HostPart, Clears, \A i \in Invocations : inv'[i].pc # "asking",
         \A i \in Invocations : inv'[i].pc \in {"admitting", "queued", "reading"} => inv'[i] = inv[i]
  PROVE  Assigned'
<1>1. request'.pc = "idle" /\ request'.job = NoJob
  BY DEF Clears, NoRequest
<1>2. NoJob \notin Invocations /\ NoJob \notin Owners
  BY HostNames, EngineNames
<1> QED BY <1>1, <1>2 DEF HostPart, Assigned

LEMMA JobEndsHolds == ASSUME HostInvariant, NEW i \in Invocations, JobEnds(i) PROVE HostInvariant'
<1>0. HostPart /\ ProcessTyped /\ RequestSound
  BY HostPartIs DEF HostInvariant
<1>1. /\ inv[i].pc = "asking" /\ request.job = i /\ request.pc = "done" /\ Dequeued
      /\ UNCHANGED <<lease, controls, retiring, version, hostClosing>>
      /\ inv[i].root \in Roots /\ inv[i].op # "none" /\ inv[i] \in InvocationRecord
  BY <1>0 DEF JobEnds, HostPart, Assigned, HostTyped
<1>2. OneInv(i, Done)
  BY <1>0, ReturnedIs DEF HostPart, JobEnds
<1>3. Clears
  BY DEF JobEnds, Clears
<1>4. /\ inv'[i].pc = "returned" /\ inv' \in [Invocations -> InvocationRecord] /\ \A j \in Invocations : j # i => inv'[j] = inv[j]
      /\ \A j \in Invocations : inv'[j].pc # "asking"
  BY <1>0, <1>1, <1>2, DoneIs DEF OneInv, HostPart, Assigned
<1>5. /\ queue' \in Seq(Jobs) /\ running' \in Jobs \cup {NoJob} /\ Among(queue')
      /\ running' # NoJob => \E n \in 1 .. Len(queue) : running' = queue[n]
  BY <1>0, <1>1, DequeuedIs DEF HostPart, HostTyped
<1>6. UNCHANGED <<observed, covered, stored, claims>> \/ (Checked(inv[i].root) /\ Left(inv[i].root))
  <2>1. CASE request.value /\ Checked(inv[i].root)
    <3>1. Synced(i)
      BY <1>1, <2>1 DEF HostInvariant, Marked
    <3>2. generation \in Nat /\ (inv[i].op = "focus" => request.child = generation)
      <4>1. inv[i].op = "focus" => Queries
        BY <1>0, <1>1 DEF HostPart, Assigned, Errand, Queries
      <4> QED BY <1>0, <1>1, <2>1, <4>1, ProcessIs, RequestSoundIs DEF Fits
    <3>3. Settled(i, inv[i].root)
      BY <2>1 DEF JobEnds
    <3> QED BY <1>0, <1>1, <2>1, <3>1, <3>2, <3>3, SettledIs
  <2>2. CASE ~(request.value /\ Checked(inv[i].root))
    BY <2>2 DEF JobEnds
  <2> QED BY <2>1, <2>2
<1>7. HostStep
  <2>1. request'.job = NoJob /\ closeTask' = closeTask
    BY <1>3 DEF Clears, NoRequest, fateVars
  <2>2. NoJob \notin Invocations
    BY HostNames, EngineNames
  <2> QED BY <1>1, <1>3, <2>1, <2>2 DEF HostStep, HostTurn, Open
<1>8. HostTyped'
  BY <1>0, <1>1, <1>4, <1>5, <1>6 DEF HostPart, HostTyped, Left
<1>9. Assigned'
  BY <1>0, <1>1, <1>3, <1>4, ClearedHolds
<1>10. Attached'
  <2>1. NoJob \notin Owners
    BY EngineNames
  <2> QED BY SMTT(40), <1>0, <1>1, <1>4, <1>5, <2>1 DEF HostPart, Attached, Open, Among
<1>11. NothingRetained'
  BY <1>0, <1>1, <1>6 DEF HostPart, NothingRetained, Open, Checked, Left
<1>12. Bound'
  BY <1>0, <1>1, <1>4, <1>6 DEF HostPart, Bound, DirtyUntilSynced, Checked, Open, Left
<1> QED BY <1>7, <1>8, <1>9, <1>10, <1>11, <1>12, HostStepHolds DEF HostPart

LEMMA StartRetirementHolds == ASSUME HostInvariant, NEW c \in Owners, StartRetirement(c) PROVE HostInvariant'
<1>0. HostPart /\ ProcessTyped
  BY HostPartIs DEF HostInvariant
<1>1. /\ running = c /\ request.job = NoJob /\ c \in Jobs /\ c # NoJob /\ c \notin Invocations
      /\ UNCHANGED <<lease, controls, inv, observed, version, covered, stored, claims, hostClosing>>
  BY HostNames, EngineNames DEF StartRetirement
<1>2. CASE Open
  <2>1. Call(c, "retire", c, FALSE) /\ UNCHANGED <<retiring, queue, running>>
    BY <1>2 DEF StartRetirement
  <2>2. Calls /\ request'.job = c /\ request'.op = "retire" /\ request'.owner = c /\ request'.pc # "idle" /\ closeTask' = closeTask
    <3>1. "retire" \in Errands
      BY DEF Errands
    <3>2. Calls /\ request'.job = c /\ request'.op = "retire" /\ request'.owner = c
      BY <1>0, <1>1, <2>1, <3>1, CalledIs
    <3> QED BY <3>2 DEF Calls, fateVars
  <2>3. HostStep
    BY <1>1, <2>1, <2>2, HostNames, EngineNames DEF HostStep, HostTurn, Open
  <2>4. HostTyped'
    BY <1>0, <1>1, <2>1 DEF HostPart, HostTyped
  <2>5. Assigned'
    <3>1. \A i \in Invocations : inv'[i].pc # "asking" /\ request'.job # i
      BY <1>0, <1>1, <2>2, HostNames, EngineNames DEF HostPart, Assigned
    <3> QED BY <1>0, <1>1, <2>2, <3>1 DEF HostPart, Assigned
  <2>6. Attached' /\ NothingRetained' /\ Bound'
    BY <1>0, <1>1, <2>1 DEF HostPart, Attached, NothingRetained, Bound, DirtyUntilSynced, Checked, Open
  <2> QED BY <2>3, <2>4, <2>5, <2>6, HostStepHolds DEF HostPart
<1>3. CASE ~Open
  <2>1. Dequeued /\ retiring' = [retiring EXCEPT ![c] = "latched"] /\ UNCHANGED engineVars
    BY <1>3 DEF StartRetirement
  <2>2. /\ queue' \in Seq(Jobs) /\ running' \in Jobs \cup {NoJob} /\ ~Open' /\ \A l : ~Checked(l)'
    BY <1>0, <1>1, <1>3, <2>1, DequeuedIs DEF HostPart, HostTyped, Open, Checked
  <2>3. HostStep
    <3>1. \A i \in Invocations : inv[i].pc = "asking" /\ Checked(inv[i].root)' /\ Synced(i) => Synced(i)'
      BY <2>2
    <3> QED BY <1>0, <1>1, <1>3, <2>1, <2>2, <3>1, EngineRests
  <2>4. HostTyped'
    BY <1>0, <1>1, <2>1, <2>2 DEF HostPart, HostTyped
  <2>5. Assigned'
    BY <1>0, <1>1, <2>1, <2>2, AssignedLike DEF HostPart, Assigned, engineVars
  <2>6. Attached' /\ NothingRetained' /\ Bound'
    BY <1>0, <1>1, <2>1, <2>2 DEF HostPart, Attached, NothingRetained, Bound, DirtyUntilSynced
  <2> QED BY <2>3, <2>4, <2>5, <2>6, HostStepHolds DEF HostPart
<1> QED BY <1>2, <1>3

LEMMA RetirementEndsHolds == ASSUME HostInvariant, NEW c \in Owners, RetirementEnds(c) PROVE HostInvariant'
<1>0. HostPart /\ ProcessTyped /\ Single
  BY HostPartIs DEF HostInvariant
<1>1. /\ running = c /\ request.job = c /\ request.pc = "done" /\ Dequeued
      /\ controls' = IF request.value THEN controls \ {c} ELSE controls
      /\ retiring' = [retiring EXCEPT ![c] = IF request.value THEN "done" ELSE "latched"]
      /\ UNCHANGED <<lease, inv, observed, version, covered, stored, claims, hostClosing>>
  BY DEF RetirementEnds
<1>2. Clears
  BY DEF RetirementEnds, Clears
<1>3. /\ retiring' \in [Owners -> {"no", "pending", "latched", "done"}] /\ retiring'[c] \in {"latched", "done"}
      /\ retiring'[c] = "done" => request.value /\ c \notin controls'
      /\ \A b \in Owners : b # c => retiring'[b] = retiring[b]
      /\ controls' \subseteq controls
  BY <1>0, <1>1 DEF HostPart, HostTyped
<1>4. request.op = "retire" /\ request.owner = c /\ \A i \in Invocations : inv[i].pc # "asking"
  BY <1>0, <1>1, HostNames DEF HostPart, Assigned
<1>5. /\ queue' \in Seq(Jobs) /\ running' \in Jobs \cup {NoJob} /\ Among(queue')
      /\ running' # NoJob => \E n \in 1 .. Len(queue) : running' = queue[n]
  BY <1>0, <1>1, DequeuedIs DEF HostPart, HostTyped
<1>6. HostStep
  <2>1. request'.job = NoJob /\ closeTask' = closeTask
    BY <1>2 DEF Clears, NoRequest, fateVars
  <2>2. NoJob \notin Invocations
    BY HostNames, EngineNames
  <2>3. ASSUME NEW b \in Owners, retiring'[b] = "done"
        PROVE  retiring[b] = "done" \/ child = 0 \/ (Affirmed /\ request.owner = b)
    BY <1>1, <1>3, <1>4, <2>3 DEF Affirmed
  <2> QED BY <1>1, <1>2, <2>1, <2>2, <2>3 DEF HostStep, HostTurn, Open
<1>7. HostTyped'
  BY <1>0, <1>1, <1>3, <1>5 DEF HostPart, HostTyped
<1>8. Assigned'
  BY <1>0, <1>1, <1>2, <1>4, ClearedHolds
<1>9. Attached'
  <2>1. NoJob \notin Owners
    BY EngineNames
  <2> QED BY <1>0, <1>1, <1>3, <1>5, <2>1 DEF HostPart, Attached, Open, Among
<1>10. NothingRetained'
  <2>1. ASSUME NEW b \in Owners, Open, retiring'[b] # "no" PROVE retiring[b] # "no"
    BY <1>0, <1>1, <1>3, <2>1 DEF HostPart, Attached
  <2>2. ASSUME NEW b \in Owners, Open, retiring'[b] = "done" PROVE b \notin controls'
    BY <1>0, <1>3, <2>2 DEF HostPart, NothingRetained
  <2> QED BY <1>0, <1>1, <2>1, <2>2 DEF HostPart, NothingRetained, Open
<1>11. Bound'
  BY <1>0, <1>1 DEF HostPart, Bound, DirtyUntilSynced, Checked, Open
<1> QED BY <1>6, <1>7, <1>8, <1>9, <1>10, <1>11, HostStepHolds DEF HostPart

\* The errand of the request stays.
LEMMA AssignedFor ==
  ASSUME Assigned, SameErrand, Open' => Open,
         \A i \in Invocations : inv'[i].pc = "asking" <=> inv[i].pc = "asking",
         \A i \in Invocations : inv[i].pc = "asking" => inv'[i] = inv[i],
         \A i \in Invocations : inv'[i].pc \in {"admitting", "queued", "reading", "asking"} => inv'[i].root \in Roots /\ inv'[i].op # "none",
         \A c \in Owners : Open' /\ retiring'[c] = "done" => retiring[c] = "done"
  PROVE  Assigned'
<1>0. /\ request'.job = request.job /\ request'.op = request.op /\ request'.owner = request.owner
      /\ request'.pc = "idle" <=> request.pc = "idle"
  BY DEF SameErrand, Same
<1>1. ASSUME NEW i \in Invocations, request.job = i
      PROVE  request'.op = Errand(i)' /\ request'.owner = OwnerOf[inv'[i].root]
  BY <1>0, <1>1 DEF Assigned, Errand
<1>2. Open' /\ request'.job \in Invocations => retiring'[request'.owner] # "done"
  <2>1. request.job \in Invocations => request.owner \in Owners
    <3>1. SUFFICES ASSUME request.job \in Invocations PROVE request.pc # "idle"
      BY DEF Assigned
    <3> QED BY <3>1, HostNames, EngineNames DEF Assigned
  <2> QED BY <1>0, <2>1 DEF Assigned
<1> QED BY <1>0, <1>1, <1>2 DEF Assigned

\* The request in flight is cancelled, or nothing of the process changes.
LEMMA CancelledIs ==
  ASSUME ProcessTyped, Cancel \/ UNCHANGED <<request, kid, stopVars>>, UNCHANGED <<child, generation, fateVars>>
  PROVE  HostTurn /\ SameErrand /\ UNCHANGED closeTask
<1>1. UNCHANGED closeTask
  BY DEF fateVars
<1>2. CASE Cancel
  <2>1. Withdrawn
    BY <1>2 DEF Withdrawn
  <2>2. EngineStep
    BY <2>1, WithdrawnIs DEF EngineStep
  <2> QED BY <1>1, <2>1, <2>2, SameErrandIs DEF HostTurn
<1>3. CASE UNCHANGED <<request, kid, stopVars>>
  BY <1>1, <1>3 DEF HostTurn, SameErrand, Same, engineVars, stopVars, fateVars
<1> QED BY <1>2, <1>3

\* The invocations that leave the queue.
LEMMA LeavesQueueIs ==
  ASSUME HostPart, NEW G,
         inv' = [i \in Invocations |-> IF inv[i].pc = "queued" /\ running # i /\ i \in G THEN Done ELSE inv[i]]
  PROVE  /\ inv' \in [Invocations -> InvocationRecord]
         /\ \A i \in Invocations : inv[i].pc = "asking" => inv'[i] = inv[i]
         /\ \A i \in Invocations : inv'[i].pc \in {"admitting", "queued", "reading", "asking"} => inv'[i] = inv[i]
         /\ \A i \in Invocations : inv'[i].pc = "asking" <=> inv[i].pc = "asking"
<1>1. \A i \in Invocations : inv[i] \in InvocationRecord
  BY DEF HostPart, HostTyped
<1>2. \A i \in Invocations : inv'[i] = Done \/ inv'[i] = inv[i]
  OBVIOUS
<1>3. inv' \in [Invocations -> InvocationRecord]
  BY <1>1, <1>2, DoneIs
<1>4. ASSUME NEW i \in Invocations, inv[i].pc = "asking" PROVE inv'[i] = inv[i]
  BY <1>4
<1> QED BY <1>2, <1>3, <1>4, DoneIs

LEMMA ReleaseHolds ==
  ASSUME HostInvariant, NEW R \in SUBSET Roots, Release(R), Open, UNCHANGED <<controls, version, covered, hostClosing>>,
         queue' \in Seq(Jobs), running' \in Jobs \cup {NoJob},
         retiring' \in [Owners -> {"no", "pending", "latched", "done"}],
         \A c \in Owners : running' = c \/ (\E n \in 1 .. Len(queue') : queue'[n] = c) => retiring'[c] # "no",
         \A c \in Owners : retiring'[c] # "no" => retiring[c] # "no" \/ \A l \in Roots : OwnerOf[l] = c => l \in R,
         \A c \in Owners : retiring'[c] = "done" => retiring[c] = "done"
  PROVE  HostInvariant'
<1>0. HostPart /\ ProcessTyped
  BY HostPartIs DEF HostInvariant
<1>1. /\ lease' = [l \in Roots |-> IF l \in R /\ lease[l] = "live" THEN "revoked" ELSE lease[l]]
      /\ observed' = [l \in Roots |-> IF l \in R THEN Unobserved ELSE observed[l]]
      /\ stored' = {e \in stored : e.root \notin R} /\ claims' = claims \ R
  BY DEF Release, Kept, Unclaimed
<1>2. /\ inv' \in [Invocations -> InvocationRecord]
      /\ \A i \in Invocations : inv[i].pc = "asking" => inv'[i] = inv[i]
      /\ \A i \in Invocations : inv'[i].pc \in {"admitting", "queued", "reading", "asking"} => inv'[i] = inv[i]
      /\ \A i \in Invocations : inv'[i].pc = "asking" <=> inv[i].pc = "asking"
  BY <1>0, LeavesQueueIs DEF Release
<1>3. HostTurn /\ SameErrand /\ UNCHANGED closeTask
  BY <1>0, CancelledIs DEF Release
<1>4. /\ \A l \in Roots : lease'[l] = "none" <=> lease[l] = "none"
      /\ \A l \in Roots : lease'[l] = "live" => lease[l] = "live" /\ l \notin R /\ observed'[l] = observed[l]
      /\ \A l \in Roots : lease[l] = "live" /\ lease'[l] # "live" => l \in R
  BY <1>1
<1>5. HostStep
  <2>1. ASSUME request.job \in Invocations, Synced(request.job), request'.job = request.job PROVE Synced(request.job)'
    <3>1. inv[request.job].pc = "asking" /\ inv'[request.job] = inv[request.job] /\ inv[request.job].root \in Roots
      BY <1>0, <1>2, <2>1 DEF HostPart, Assigned
    <3> QED BY <1>4, <2>1, <3>1 DEF Synced, Checked, Open
  <2> QED BY <1>3, <2>1 DEF HostStep, Open
<1>6. HostTyped'
  <2>1. lease' \in [Roots -> {"none", "live", "revoked"}]
    BY <1>0, <1>1 DEF HostPart, HostTyped
  <2>2. \A l \in Roots : observed'[l] = Unobserved \/ observed'[l] = observed[l]
    BY <1>1
  <2> QED BY <1>0, <1>1, <1>2, <2>1, <2>2 DEF HostPart, HostTyped, Unobserved
<1>7. Assigned'
  <2>1. \A i \in Invocations : inv'[i].pc \in {"admitting", "queued", "reading", "asking"} => inv'[i].root \in Roots /\ inv'[i].op # "none"
    BY <1>0, <1>2 DEF HostPart, Assigned
  <2> QED BY <1>0, <1>2, <1>3, <2>1, AssignedFor DEF HostPart, Open
<1>8. Attached'
  BY <1>0, <1>2, <1>4 DEF HostPart, Attached, Assigned
<1>9. NothingRetained'
  <2>1. ASSUME NEW l \in Roots, lease'[l] # "live"
        PROVE  l \notin claims' /\ (\A e \in stored' : e.root # l) /\ ~observed'[l].known
    BY <1>0, <1>1, <1>4, <2>1 DEF HostPart, NothingRetained, Unobserved
  <2>2. ASSUME NEW c \in Owners, retiring'[c] # "no", NEW l \in Roots, OwnerOf[l] = c PROVE lease'[l] # "live"
    BY <1>0, <1>4, <2>2 DEF HostPart, NothingRetained
  <2> QED BY <1>0, <1>1, <2>1, <2>2 DEF HostPart, NothingRetained
<1>10. Bound'
  <2>1. \A i \in Invocations : inv'[i].pc = "asking" /\ inv'[i].op = "sync" /\ Checked(inv[i].root)' =>
          observed'[inv'[i].root].ops >= inv'[i].revision
    BY <1>0, <1>2, <1>4 DEF HostPart, Bound, Assigned, Checked, Open
  <2>2. DirtyUntilSynced'
    BY <1>0, <1>4 DEF HostPart, Bound, DirtyUntilSynced, Checked, Open
  <2> QED BY <1>0, <1>2, <1>4, <2>1, <2>2 DEF HostPart, Bound
<1> QED BY <1>5, <1>6, <1>7, <1>8, <1>9, <1>10, HostStepHolds DEF HostPart

LEMMA CloseBindingHolds == ASSUME HostInvariant, NEW l \in Roots, CloseBinding(l) PROVE HostInvariant'
<1>0. HostPart
  BY HostPartIs
<1>1. Open /\ Release({l}) /\ queue' = Remaining({l}) /\ UNCHANGED <<controls, retiring, running, version, covered, hostClosing>>
  BY DEF CloseBinding
<1>2. queue' \in Seq(Jobs) /\ Among(queue')
  BY <1>0, <1>1, RemainingIs DEF HostPart, HostTyped
<1>3. \A c \in Owners : running' = c \/ (\E n \in 1 .. Len(queue') : queue'[n] = c) => retiring'[c] # "no"
  BY <1>0, <1>1, <1>2 DEF HostPart, Attached, Among
<1> QED BY <1>0, <1>1, <1>2, <1>3, ReleaseHolds DEF HostPart, HostTyped

LEMMA RetireConversationHolds == ASSUME HostInvariant, NEW c \in Owners, RetireConversation(c) PROVE HostInvariant'
<1>0. HostPart
  BY HostPartIs
<1> DEFINE R == {l \in Roots : OwnerOf[l] = c}
<1>1. /\ Open /\ Release(R) /\ UNCHANGED <<controls, version, covered, hostClosing>>
      /\ retiring' = [retiring EXCEPT ![c] = "pending"] /\ R \in SUBSET Roots /\ \A l \in Roots : OwnerOf[l] = c => l \in R
      /\ c \in Jobs
      /\ \/ running = NoJob /\ running' = c /\ queue' = Remaining(R)
         \/ running # NoJob /\ queue' = Append(Remaining(R), c) /\ running' = running
  BY HostNames DEF RetireConversation
<1> HIDE DEF R
<1>2. Remaining(R) \in Seq(Jobs) /\ Among(Remaining(R))
  BY <1>0, RemainingIs DEF HostPart, HostTyped
<1>3. /\ queue' \in Seq(Jobs) /\ running' \in {c, running}
      /\ \A m \in 1 .. Len(queue') : queue'[m] = c \/ \E n \in 1 .. Len(queue) : queue'[m] = queue[n]
  <2>1. CASE queue' = Remaining(R) /\ running' = c
    BY <1>2, <2>1 DEF Among
  <2>2. CASE queue' = Append(Remaining(R), c) /\ running' = running
    BY <1>0, <1>1, <1>2, <2>2, EnqueuedIs DEF HostPart, HostTyped
  <2> QED BY <1>1, <2>1, <2>2
<1>4. /\ retiring' \in [Owners -> {"no", "pending", "latched", "done"}] /\ retiring'[c] = "pending"
      /\ \A b \in Owners : b # c => retiring'[b] = retiring[b]
  BY <1>0, <1>1 DEF HostPart, HostTyped
<1>5. \A b \in Owners : running' = b \/ (\E n \in 1 .. Len(queue') : queue'[n] = b) => retiring'[b] # "no"
  BY <1>0, <1>1, <1>3, <1>4 DEF HostPart, Attached
<1>6. running' \in Jobs \cup {NoJob}
  BY <1>0, <1>1, <1>3 DEF HostPart, HostTyped
<1>7. /\ \A b \in Owners : retiring'[b] # "no" => retiring[b] # "no" \/ \A l \in Roots : OwnerOf[l] = b => l \in R
      /\ \A b \in Owners : retiring'[b] = "done" => retiring[b] = "done"
  BY <1>1, <1>4
<1> QED BY <1>1, <1>3, <1>4, <1>5, <1>6, <1>7, ReleaseHolds

LEMMA CloseHolds == ASSUME HostInvariant, Close PROVE HostInvariant'
<1>0. HostPart /\ ProcessTyped
  BY HostPartIs DEF HostInvariant
<1>1. /\ Open /\ hostClosing' = "aborted" /\ stored' = {} /\ claims' = {} /\ queue' = <<>>
      /\ lease' = [l \in Roots |-> IF lease[l] = "live" THEN "revoked" ELSE lease[l]]
      /\ retiring' = [c \in Owners |-> IF retiring[c] = "pending" /\ running # c THEN "latched" ELSE retiring[c]]
      /\ UNCHANGED <<controls, running, observed, version, covered>>
  BY DEF Close
<1>2. ~Open' /\ \A l : ~Checked(l)'
  BY <1>1 DEF Open, Checked
<1>3. /\ inv' \in [Invocations -> InvocationRecord]
      /\ \A i \in Invocations : inv[i].pc = "asking" => inv'[i] = inv[i]
      /\ \A i \in Invocations : inv'[i].pc \in {"admitting", "queued", "reading", "asking"} => inv'[i] = inv[i]
      /\ \A i \in Invocations : inv'[i].pc = "asking" <=> inv[i].pc = "asking"
  <2>1. inv' = [i \in Invocations |-> IF inv[i].pc = "queued" /\ running # i /\ i \in Invocations THEN Done ELSE inv[i]]
    BY DEF Close
  <2> QED BY <1>0, <2>1, LeavesQueueIs
<1>4. HostTurn /\ SameErrand /\ UNCHANGED closeTask
  BY <1>0, CancelledIs DEF Close
<1>5. HostStep
  <2>1. request.job \in Invocations => Synced(request.job)'
    BY <1>2 DEF Synced
  <2> QED BY <1>1, <1>2, <1>4, <2>1 DEF HostStep
<1>6. \A l \in Roots : (lease'[l] = "none" <=> lease[l] = "none") /\ lease'[l] # "live"
  BY <1>0, <1>1 DEF HostPart, HostTyped
<1>7. HostTyped'
  <2>1. /\ lease' \in [Roots -> {"none", "live", "revoked"}]
        /\ retiring' \in [Owners -> {"no", "pending", "latched", "done"}]
    BY <1>0, <1>1 DEF HostPart, HostTyped
  <2>2. queue' \in Seq(Jobs)
    BY <1>1
  <2> QED BY <1>0, <1>1, <1>3, <2>1, <2>2 DEF HostPart, HostTyped
<1>8. Assigned'
  <2>1. \A i \in Invocations : inv'[i].pc \in {"admitting", "queued", "reading", "asking"} => inv'[i].root \in Roots /\ inv'[i].op # "none"
    BY <1>0, <1>3 DEF HostPart, Assigned
  <2> QED BY <1>0, <1>2, <1>3, <1>4, <2>1, AssignedFor DEF HostPart
<1>9. Attached'
  BY <1>0, <1>2, <1>3, <1>6 DEF HostPart, Attached, Assigned
<1>10. NothingRetained'
  BY <1>1, <1>2 DEF NothingRetained
<1>11. Bound'
  BY <1>0, <1>1, <1>2, <1>3, <1>6 DEF HostPart, Bound, Assigned, DirtyUntilSynced
<1> QED BY <1>5, <1>7, <1>8, <1>9, <1>10, <1>11, HostStepHolds DEF HostPart

LEMMA CloseProcessHolds == ASSUME HostInvariant, CloseProcess PROVE HostInvariant'
<1>0. HostPart /\ ProcessTyped
  BY HostPartIs DEF HostInvariant
<1>1. /\ hostClosing' = "closing" /\ CloseEngine
      /\ UNCHANGED <<child, generation, kid, failure, exhausted, crashes, cleanup, retained, request>>
      /\ UNCHANGED <<lease, controls, retiring, queue, running, inv, observed, version, covered, stored, claims>>
      /\ hostClosing = "aborted"
  BY DEF CloseProcess
<1>2. ~Open /\ ~Open' /\ \A l : ~Checked(l)'
  BY <1>1 DEF Open, Checked
<1>3. HostTurn
  BY <1>0, <1>1, ShutsIs DEF HostTurn
<1>4. HostStep
  <2>1. request.job \in Invocations => Synced(request.job)'
    BY <1>2 DEF Synced
  <2> QED BY <1>1, <1>2, <1>3, <2>1 DEF HostStep
<1>5. HostTyped'
  BY <1>0, <1>1 DEF HostPart, HostTyped
<1>6. Assigned'
  BY <1>0, <1>1, <1>2, AssignedLike DEF HostPart, Assigned
<1>7. Attached' /\ NothingRetained' /\ Bound'
  BY <1>0, <1>1, <1>2 DEF HostPart, Attached, NothingRetained, Bound, DirtyUntilSynced
<1> QED BY <1>4, <1>5, <1>6, <1>7, HostStepHolds DEF HostPart

\* A step of the engine process, and of its children.
LEMMA ProcessTurnHolds == ASSUME HostInvariant, Process PROVE HostInvariant'
<1>1. ProcessTyped /\ RequestSound /\ HostTyped /\ Single
  BY DEF HostInvariant
<1>2. Handles /\ UNCHANGED hostVars
  BY <1>1, ProcessStepIs DEF Process
<1>3. EngineStep /\ Snapped /\ Quietly
  BY <1>1, <1>2, HandlesIs, HandlesRests DEF Snapped, Quietly, hostVars
<1> QED BY <1>3, ProcessHolds

LEMMA ChildTurnHolds ==
  ASSUME HostInvariant, NEW g \in Generations, Events(g) \/ ChildTakes(g)
  PROVE  HostInvariant'
<1>0. ProcessTyped
  BY DEF HostInvariant
<1>1. CASE Events(g)
  <2>1. (Receive(g) \/ ExitEvent(g) \/ Child(g)) /\ UNCHANGED hostVars
    BY <1>1 DEF Events
  <2>2. EngineStep /\ Rests
    BY <1>0, <2>1, EventIs, EventRests DEF EngineStep
  <2>3. Snapped /\ Quietly
    BY <2>1, <2>2 DEF Snapped, Quietly, hostVars
  <2> QED BY <2>2, <2>3, ProcessHolds
<1>2. CASE ChildTakes(g)
  <2>1. Moves(g) /\ Snapshot(g) /\ Quietly
    BY <1>0, <1>2, TakesIs DEF ChildTakes, Quietly
  <2>2. EngineStep /\ Snapped
    BY <2>1 DEF EngineStep, Snapped
  <2> QED BY <2>1, <2>2, ProcessHolds
<1> QED BY <1>1, <1>2

LEMMA HostBegins == NavigatorInit => HostInvariant
<1> SUFFICES ASSUME NavigatorInit PROVE HostInvariant
  OBVIOUS
<1>1. EngineInit
  BY DEF NavigatorInit
<1>2. /\ child = 0 /\ generation = 0 /\ kid = [g \in Generations |-> Unborn] /\ start = "none" /\ stopping = NoStop
      /\ failure = FALSE /\ closeTask = "none" /\ request = NoRequest /\ cleanup = "none" /\ retained = FALSE /\ shut = FALSE
  BY <1>1 DEF EngineInit
<1>3. /\ NoRequest.pc = "idle" /\ NoRequest.job = NoJob /\ NoRequest.op = "none" /\ ~NoRequest.value /\ NoStop.phase = "none"
      /\ NoStop.ack = "none" /\ Unborn.life = "none" /\ Unborn.inbox = <<>> /\ Unborn.outbox = <<>> /\ Unborn.leaving = "no"
  BY DEF NoRequest, NoStop, Unborn
<1>4. ProcessTyped
  <2>1. crashes = 0 /\ exhausted = FALSE /\ MaxGenerations \in Nat
    BY <1>1, EngineBounds DEF EngineInit
  <2>2. kid \in [Generations -> KidRecord]
    BY <1>2, UnbornIs
  <2> QED
    <3>1. request \in RequestRecord /\ stopping \in StopRecord
      BY <1>2, UnbornIs
    <3>2. generation \in 0 .. MaxGenerations /\ child \in {0, generation} /\ crashes \in Nat
      BY <1>2, <2>1
    <3> QED BY <1>2, <2>1, <2>2, <3>1, <3>2 DEF ProcessTyped
<1>5. /\ lease = [l \in Roots |-> "none"] /\ controls = {} /\ retiring = [c \in Owners |-> "no"] /\ queue = <<>>
      /\ running = NoJob /\ inv = [i \in Invocations |-> Fresh] /\ observed = [l \in Roots |-> Unobserved]
      /\ version = [l \in Roots |-> 0] /\ covered = [l \in Roots |-> 0] /\ stored = {} /\ claims = {} /\ hostClosing = "open"
  BY DEF NavigatorInit
<1>6. Fresh \in InvocationRecord /\ Fresh.pc = "new" /\ Unobserved \in [known : BOOLEAN, dirty : BOOLEAN, ops : Nat] /\ ~Unobserved.known
  BY DEF Fresh, InvocationRecord, Unobserved
<1>7. HostTyped
  <2>1. queue \in Seq(Jobs)
    BY <1>5
  <2> HIDE DEF InvocationRecord
  <2> QED BY <1>5, <1>6, <2>1 DEF HostTyped
<1>8. \A g \in Generations : kid[g] = Unborn
  BY <1>2
<1>9. Single
  BY <1>2, <1>3, <1>5, <1>8 DEF Single, Stopped, ChildOwned
<1>10. Farewell
  BY <1>2, <1>3, <1>8 DEF Farewell, Parting, HasAck, Cancels
<1>11. NoJob \notin Invocations /\ NoJob \notin Owners
  BY HostNames, EngineNames
<1>12. RequestSound
  BY <1>2, <1>3, <1>5, <1>6, <1>11 DEF RequestSound, Awaited
<1>13. RetiredClean /\ Exchange
  BY <1>2, <1>3 DEF RetiredClean, Exchange
<1>14. Marked
  BY <1>2, <1>3, <1>5, <1>6, <1>11 DEF Marked, DirtyUntilSynced, Checked
<1>15. Attached
  BY <1>5, <1>6, <1>11 DEF Attached
<1>16. RevokedForgotten /\ RemovedAfterAll
  BY <1>2, <1>5, <1>6 DEF RevokedForgotten, RemovedAfterAll
<1> QED BY <1>4, <1>7, <1>9, <1>10, <1>12, <1>13, <1>14, <1>15, <1>16 DEF HostInvariant

LEMMA HostMoves == ASSUME HostInvariant, NavigatorNext PROVE HostInvariant'
<1>1. ASSUME NEW l \in Roots, Bind(l) \/ CloseBinding(l) \/ \E ofChange \in BOOLEAN : Observe(l, ofChange)
      PROVE  HostInvariant'
  BY <1>1, BindHolds, CloseBindingHolds, ObserveHolds
<1>2. ASSUME NEW i \in Invocations, Admit(i) \/ Job(i) \/ \E l \in Roots, op \in Operations[i] : Invoke(i, l, op)
      PROVE  HostInvariant'
  BY <1>2, AdmitHolds, StartHolds, ReadHolds, JobEndsHolds, InvokeHolds DEF Job
<1>3. ASSUME NEW c \in Owners, RetireConversation(c) \/ Retirement(c) PROVE HostInvariant'
  BY <1>3, RetireConversationHolds, StartRetirementHolds, RetirementEndsHolds DEF Retirement
<1>4. CASE Close \/ CloseProcess \/ CloseDone
  BY <1>4, CloseHolds, CloseProcessHolds, CloseDoneHolds
<1>5. CASE Process
  BY <1>5, ProcessTurnHolds
<1>6. ASSUME NEW g \in Generations, ChildTakes(g) \/ Events(g) PROVE HostInvariant'
  BY <1>6, ChildTurnHolds
<1> QED BY <1>1, <1>2, <1>3, <1>4, <1>5, <1>6 DEF NavigatorNext

LEMMA HostRests == ASSUME HostInvariant, UNCHANGED navigatorVars PROVE HostInvariant'
<1>0. HostPart
  BY HostPartIs
<1>1. UNCHANGED engineVars /\ UNCHANGED hostVars
  BY DEF navigatorVars
<1>2. UNCHANGED <<lease, controls, retiring, queue, running, inv, observed, version, covered, stored, claims, hostClosing, request>>
  BY <1>1 DEF hostVars, engineVars
<1>3. HostPart'
  BY <1>0, <1>2 DEF HostPart, HostTyped, Assigned, Attached, NothingRetained, Bound, DirtyUntilSynced, Checked, Open, Errand
<1>4. HostStep
  BY <1>0, <1>1, <1>2, EngineRests DEF Synced, Checked, Open
<1> QED BY <1>3, <1>4, HostStepHolds

-----------------------------------------------------------------------------
(* What is proved of the host over its child.                                 *)

\* Whatever jobs run, are cancelled, wait or are retired, and however often the
\* child crashes, hangs or is replaced: the one request, the messages on their
\* way, the leases and the marks agree.
THEOREM HostHolds == NavigatorSpec => []HostInvariant
<1>1. NavigatorInit => HostInvariant
  BY HostBegins
<1>2. HostInvariant /\ [NavigatorNext]_navigatorVars => HostInvariant'
  BY HostMoves, HostRests
<1> QED BY <1>1, <1>2, PTL DEF NavigatorSpec

\* No child runs that the host does not own, nothing is retained of a binding
\* that was released nor of a conversation whose retirement was reported, and the
\* instance's directory goes after every child has told that its scratch went.
THEOREM HostIsKept == NavigatorSpec => []HostKept
<1>1. HostInvariant => HostKept
  BY DEF HostInvariant, HostKept, Single
<1> QED BY <1>1, HostHolds, PTL

\* A change that no sync has taken in keeps its root marked, also when it is
\* committed while a sync runs.
THEOREM ChangesMarked == NavigatorSpec => []DirtyUntilSynced
<1>1. HostInvariant => DirtyUntilSynced
  BY DEF HostInvariant, Marked
<1> QED BY <1>1, HostHolds, PTL
=============================================================================
