---------------------------- MODULE HostsProofs ----------------------------
(* Proofs about the parts around a running program, for any values of their   *)
(* constants.                                                                 *)
EXTENDS MCHosts, FiniteSetTheorems, SequenceTheorems, RecursionTheorems, TLAPS

-----------------------------------------------------------------------------
(* The connection to an external server.                                      *)

Response == [id : Wire, outcome : {"result", "error"}]
ConnectionTypes ==
  /\ asked \subseteq Wire /\ waiting \subseteq asked /\ active \subseteq Wire \ {"close"}
  /\ answered \in [Wire -> {"none", "result", "error"}]
  /\ shut \in {"open", "closing", "closed", "failed"} /\ broken \in BOOLEAN /\ children \in BOOLEAN
  /\ inbox \in Seq(Wire) /\ outbox \in Seq(Response)
  /\ worker \in [alive : BOOLEAN, connected : BOOLEAN, closing : BOOLEAN, tearing : BOOLEAN]

\* Close is the last request sent, so a closing worker has received them all.
CloseIsLast ==
  /\ "close" \in asked <=> shut # "open"
  /\ \A i \in 1 .. Len(inbox) : inbox[i] = "close" => i = Len(inbox)
  /\ \A i \in 1 .. Len(inbox) : inbox[i] \in asked
  /\ worker.closing => inbox = <<>> /\ "close" \in asked

\* The answer to close is the last one, and was sent when all was quiet.
AnswerIsLast ==
  \A i \in 1 .. Len(outbox) : outbox[i].id = "close" =>
     /\ i = Len(outbox) /\ worker.closing /\ ~worker.tearing /\ active = {}
     /\ outbox[i].outcome = "result" => ~children

\* Whoever waits is on its way, in the worker, or on its way back.
Underway(r) ==
  \/ \E i \in 1 .. Len(inbox) : inbox[i] = r
  \/ r \in active
  \/ \E i \in 1 .. Len(outbox) : outbox[i].id = r
  \/ r = "close" /\ worker.closing
WaitersUnderway == \A r \in waiting : Underway(r)

\* After the end nothing is left to happen.
EndedForGood ==
  /\ broken => waiting = {} /\ outbox = <<>> /\ inbox = <<>> /\ ~worker.alive
  /\ shut = "closed" => waiting = {} /\ active = {} /\ ~children /\ outbox = <<>> /\ ~worker.alive
  /\ \A r \in Wire : answered[r] = "none" => r \notin asked \/ r \in waiting

ConnectionInvariant ==
  ConnectionTypes /\ CloseIsLast /\ AnswerIsLast /\ WaitersUnderway /\ EndedForGood

\* Whoever waits has asked, so nothing is left of an answer in the invariant.
LEMMA ConnectionBegins == ConnInit => ConnectionInvariant
<1> SUFFICES ASSUME ConnInit PROVE ConnectionInvariant
  OBVIOUS
<1>1. ConnectionTypes
  <2>1. worker \in [alive : BOOLEAN, connected : BOOLEAN, closing : BOOLEAN, tearing : BOOLEAN]
    BY DEF ConnInit
  <2>2. inbox \in Seq(Wire) /\ outbox \in Seq(Response)
    BY DEF ConnInit
  <2>3. answered \in [Wire -> {"none", "result", "error"}]
    BY DEF ConnInit
  <2> QED BY <2>1, <2>2, <2>3 DEF ConnInit, ConnectionTypes
<1>2. Len(inbox) = 0 /\ Len(outbox) = 0
  BY DEF ConnInit
<1> QED
  BY <1>1, <1>2 DEF ConnInit, ConnectionInvariant, CloseIsLast, AnswerIsLast, WaitersUnderway, EndedForGood

\* The head and the rest of a sequence that is not empty.
LEMMA HeadAndTail ==
  ASSUME NEW S, NEW s \in Seq(S), s # <<>>
  PROVE  /\ Len(s) \in Nat /\ Len(s) >= 1 /\ Head(s) = s[1] /\ Head(s) \in S
         /\ Tail(s) \in Seq(S) /\ Len(Tail(s)) = Len(s) - 1
         /\ \A i \in 1 .. Len(Tail(s)) : Tail(s)[i] = s[i + 1]
OBVIOUS

\* A sequence with one more element.
LEMMA Appended ==
  ASSUME NEW S, NEW s \in Seq(S), NEW x \in S
  PROVE  /\ Append(s, x) \in Seq(S) /\ Len(s) \in Nat /\ Len(Append(s, x)) = Len(s) + 1
         /\ \A i \in 1 .. Len(s) : Append(s, x)[i] = s[i]
         /\ Append(s, x)[Len(s) + 1] = x
OBVIOUS

\* A request is sent, or refused at once.
LEMMA AskKeeps ==
  ASSUME NEW r \in Wire, ConnectionInvariant, Ask(r)
  PROVE  ConnectionInvariant'
<1> USE DEF ConnectionInvariant
<1>1. CASE broken \/ (shut # "open" /\ r # "close")
  <2>1. /\ answered' = [answered EXCEPT ![r] = "error"]
        /\ UNCHANGED <<waiting, inbox, broken, outbox, worker, active, children>>
        /\ asked' = asked \union {r} /\ r \notin asked
        /\ shut' = IF r = "close" THEN (IF broken THEN "failed" ELSE "closing") ELSE shut
    BY <1>1 DEF Ask
  <2>2. ConnectionTypes'
    BY <2>1 DEF ConnectionTypes
  <2>3. CloseIsLast'
    BY <2>1, <1>1 DEF CloseIsLast
  <2>4. AnswerIsLast' /\ WaitersUnderway'
    BY <2>1 DEF AnswerIsLast, WaitersUnderway, Underway
  <2>5. EndedForGood'
    BY <2>1 DEF EndedForGood, ConnectionTypes
  <2> QED BY <2>2, <2>3, <2>4, <2>5
<1>2. CASE ~broken /\ (shut = "open" \/ r = "close")
  <2>1. /\ waiting' = waiting \union {r} /\ inbox' = Append(inbox, r)
        /\ UNCHANGED <<answered, broken, outbox, worker, active, children>>
        /\ asked' = asked \union {r} /\ r \notin asked
        /\ shut' = IF r = "close" THEN "closing" ELSE shut
    BY <1>2 DEF Ask
  <2>2. /\ inbox' \in Seq(Wire) /\ Len(inbox) \in Nat /\ Len(inbox') = Len(inbox) + 1
        /\ \A i \in 1 .. Len(inbox) : inbox'[i] = inbox[i]
        /\ inbox'[Len(inbox) + 1] = r
    BY <2>1, Appended DEF ConnectionTypes
  <2>3. ConnectionTypes'
    BY <2>1, <2>2 DEF ConnectionTypes
  <2>4. shut = "open" /\ "close" \notin asked
    BY <1>2, <2>1 DEF CloseIsLast, ConnectionTypes
  <2>5. CloseIsLast'
    <3>1. \A i \in 1 .. Len(inbox) : inbox[i] # "close"
      BY <2>4 DEF CloseIsLast
    <3>2. \A i \in 1 .. Len(inbox') : i = Len(inbox) + 1 \/ i \in 1 .. Len(inbox)
      BY <2>2
    <3> QED BY <3>1, <3>2, <2>1, <2>2, <2>4 DEF CloseIsLast
  <2>6. AnswerIsLast'
    BY <2>1 DEF AnswerIsLast
  <2>7. WaitersUnderway'
    <3>1. \A q \in waiting : Underway(q)'
      BY <2>1, <2>2 DEF WaitersUnderway, Underway
    <3>2. Underway(r)'
      BY <2>2 DEF Underway
    <3> QED BY <3>1, <3>2, <2>1 DEF WaitersUnderway
  <2>8. EndedForGood'
    BY <2>1, <2>4, <1>2 DEF EndedForGood
  <2> QED BY <2>3, <2>5, <2>6, <2>7, <2>8
<1> QED BY <1>1, <1>2 DEF ConnectionTypes

\* A response arrives.
LEMMA AnswerKeeps ==
  ASSUME ConnectionInvariant, AnswerRequest
  PROVE  ConnectionInvariant'
<1> USE DEF ConnectionInvariant
<1> DEFINE m == Head(outbox)
<1>1. /\ outbox # <<>> /\ outbox' = Tail(outbox)
      /\ UNCHANGED <<asked, broken, inbox, active, children>>
  BY DEF AnswerRequest
<1>2. /\ Len(outbox) \in Nat /\ Len(outbox) >= 1 /\ m = outbox[1] /\ m \in Response
      /\ outbox' \in Seq(Response) /\ Len(outbox') = Len(outbox) - 1
      /\ \A i \in 1 .. Len(outbox') : outbox'[i] = outbox[i + 1]
  BY <1>1, HeadAndTail DEF ConnectionTypes
<1>3. CASE m.id \in waiting
  <2>1. /\ waiting' = waiting \ {m.id} /\ answered' = [answered EXCEPT ![m.id] = m.outcome]
        /\ shut' = IF m.id # "close" THEN shut ELSE IF m.outcome = "result" THEN "closed" ELSE "failed"
        /\ worker' = IF m.id = "close" /\ m.outcome = "result" THEN [worker EXCEPT !.alive = FALSE] ELSE worker
    BY <1>3 DEF AnswerRequest
  <2> HIDE DEF m
  <2>2. /\ worker'.closing = worker.closing /\ worker'.tearing = worker.tearing
        /\ worker'.alive => worker.alive
        /\ m.id = "close" /\ m.outcome = "result" => ~worker'.alive
    BY <2>1 DEF ConnectionTypes
  <2>3. ConnectionTypes'
    <3>1. worker' \in [alive : BOOLEAN, connected : BOOLEAN, closing : BOOLEAN, tearing : BOOLEAN]
      BY <2>1 DEF ConnectionTypes
    <3> QED BY <1>1, <1>2, <2>1, <3>1 DEF ConnectionTypes, Response
  <2>4. CloseIsLast'
    BY <1>1, <2>1, <2>2, <1>3 DEF CloseIsLast, ConnectionTypes
  <2>5. AnswerIsLast'
    BY <1>1, <1>2, <2>1, <2>2 DEF AnswerIsLast
  <2>6. WaitersUnderway'
    <3> SUFFICES ASSUME NEW q \in waiting, q # m.id PROVE Underway(q)'
      BY <2>1 DEF WaitersUnderway
    <3>1. CASE \E i \in 1 .. Len(outbox) : outbox[i].id = q
      <4>1. PICK i \in 1 .. Len(outbox) : outbox[i].id = q
        BY <3>1
      <4>2. i - 1 \in 1 .. Len(outbox') /\ outbox'[i - 1].id = q
        BY <4>1, <1>2
      <4> QED BY <4>2 DEF Underway
    <3> QED BY <3>1, <1>1, <2>2 DEF Underway, WaitersUnderway
  <2>7. EndedForGood'
    <3>1. CASE shut' = "closed"
      <4>1. m.id = "close" /\ m.outcome = "result"
        BY <2>1, <3>1, <1>1 DEF EndedForGood
      <4>2. Len(outbox) = 1 /\ worker.closing /\ active = {} /\ ~children
        BY <4>1, <1>2 DEF AnswerIsLast
      <4>3. inbox = <<>>
        BY <4>2 DEF CloseIsLast
      <4>4. waiting' = {}
        <5> SUFFICES ASSUME NEW q \in waiting, q # m.id PROVE FALSE
          BY <2>1
        <5> QED BY <4>1, <4>2, <4>3, <1>2 DEF WaitersUnderway, Underway
      <4>5. outbox' = <<>>
        BY <4>2, <1>2
      <4> QED
        BY <4>1, <4>2, <4>3, <4>4, <4>5, <1>1, <2>1, <2>2, <1>2, <1>3 DEF EndedForGood, ConnectionTypes, Response
    <3>2. CASE shut' # "closed"
      BY <3>2, <1>1, <1>2, <2>1, <2>2, <1>3 DEF EndedForGood, ConnectionTypes, Response
    <3> QED BY <3>1, <3>2
  <2> QED BY <2>3, <2>4, <2>5, <2>6, <2>7
<1>4. CASE m.id \notin waiting
  <2>1. UNCHANGED <<waiting, answered, shut, worker>>
    BY <1>4 DEF AnswerRequest
  <2> HIDE DEF m
  <2>2. ConnectionTypes' /\ CloseIsLast'
    BY <1>1, <1>2, <2>1 DEF ConnectionTypes, CloseIsLast
  <2>3. AnswerIsLast'
    <3>1. \A i \in 1 .. Len(outbox') : i + 1 \in 1 .. Len(outbox) /\ outbox'[i] = outbox[i + 1]
      BY <1>2
    <3>2. worker' = worker /\ active' = active /\ children' = children
      BY <1>1, <2>1
    <3> QED BY SMTT(40), <3>1, <3>2, <1>2 DEF AnswerIsLast
  <2>4. WaitersUnderway'
    <3> SUFFICES ASSUME NEW q \in waiting PROVE Underway(q)'
      BY <2>1 DEF WaitersUnderway
    <3>1. CASE \E i \in 1 .. Len(outbox) : outbox[i].id = q
      <4>1. PICK i \in 1 .. Len(outbox) : outbox[i].id = q
        BY <3>1
      <4>2. i - 1 \in 1 .. Len(outbox') /\ outbox'[i - 1].id = q
        BY <4>1, <1>2, <1>4
      <4> QED BY <4>2 DEF Underway
    <3> QED BY <3>1, <1>1, <2>1 DEF Underway, WaitersUnderway
  <2>5. EndedForGood'
    BY <1>1, <2>1 DEF EndedForGood
  <2> QED BY <2>2, <2>3, <2>4, <2>5
<1> QED BY <1>3, <1>4

\* The worker fails: whoever waits is told.
LEMMA CrashKeeps ==
  ASSUME ConnectionInvariant, Crash
  PROVE  ConnectionInvariant'
<1> USE DEF ConnectionInvariant
<1>1. /\ worker.alive /\ worker' = [worker EXCEPT !.alive = FALSE] /\ broken' = TRUE
      /\ answered' = [r \in Wire |-> IF r \in waiting THEN "error" ELSE answered[r]] /\ waiting' = {}
      /\ shut' = IF shut = "closing" THEN "failed" ELSE shut
      /\ active' = {} /\ inbox' = <<>> /\ outbox' = <<>> /\ UNCHANGED <<asked, children>>
  BY DEF Crash
<1>2. worker'.closing = worker.closing /\ ~worker'.alive
  BY <1>1 DEF ConnectionTypes
<1>3. ConnectionTypes'
  <2>1. answered' \in [Wire -> {"none", "result", "error"}]
    BY <1>1 DEF ConnectionTypes
  <2>2. worker' \in [alive : BOOLEAN, connected : BOOLEAN, closing : BOOLEAN, tearing : BOOLEAN]
    BY <1>1 DEF ConnectionTypes
  <2>3. inbox' \in Seq(Wire) /\ outbox' \in Seq(Response)
    BY <1>1
  <2> QED BY <1>1, <2>1, <2>2, <2>3 DEF ConnectionTypes
<1>4. Len(inbox') = 0 /\ Len(outbox') = 0
  BY <1>1
<1>5. CloseIsLast' /\ AnswerIsLast' /\ WaitersUnderway'
  BY <1>1, <1>2, <1>4 DEF CloseIsLast, AnswerIsLast, WaitersUnderway
<1>6. EndedForGood'
  BY <1>1, <1>2 DEF EndedForGood, ConnectionTypes
<1> QED BY <1>3, <1>5, <1>6

\* The worker takes a request from its inbox.
LEMMA ReceiveKeeps ==
  ASSUME ConnectionInvariant, Receive
  PROVE  ConnectionInvariant'
<1> USE DEF ConnectionInvariant
<1> DEFINE r == Head(inbox)
<1>1. /\ worker.alive /\ inbox # <<>> /\ inbox' = Tail(inbox)
      /\ UNCHANGED <<asked, waiting, answered, shut, broken, children>>
  BY DEF Receive
<1>2. /\ Len(inbox) \in Nat /\ Len(inbox) >= 1 /\ r = inbox[1] /\ r \in Wire
      /\ inbox' \in Seq(Wire) /\ Len(inbox') = Len(inbox) - 1
      /\ \A i \in 1 .. Len(inbox') : inbox'[i] = inbox[i + 1]
  BY <1>1, HeadAndTail DEF ConnectionTypes
<1>3. ~worker.closing /\ ~broken /\ shut # "closed"
  BY <1>1 DEF CloseIsLast, EndedForGood
<1>4. \A i \in 1 .. Len(outbox) : outbox[i].id # "close"
  BY <1>3 DEF AnswerIsLast
<1>5. \A q : (\E i \in 1 .. Len(inbox) : inbox[i] = q) => q = r \/ \E i \in 1 .. Len(inbox') : inbox'[i] = q
  <2> SUFFICES ASSUME NEW q, NEW i \in 1 .. Len(inbox), inbox[i] = q, q # r
               PROVE  \E j \in 1 .. Len(inbox') : inbox'[j] = q
    OBVIOUS
  <2>1. i - 1 \in 1 .. Len(inbox') /\ inbox'[i - 1] = q
    BY <1>2
  <2> QED BY <2>1
<1>9. \A i \in 1 .. Len(inbox') : i + 1 \in 1 .. Len(inbox) /\ inbox'[i] = inbox[i + 1]
  BY <1>2
<1>10. \A i \in 1 .. Len(inbox') : inbox'[i] \in asked /\ (inbox'[i] = "close" => i = Len(inbox'))
  <2> SUFFICES ASSUME NEW i \in 1 .. Len(inbox')
               PROVE  inbox'[i] \in asked /\ (inbox'[i] = "close" => i = Len(inbox'))
    OBVIOUS
  <2>1. inbox[i + 1] \in asked /\ (inbox[i + 1] = "close" => i + 1 = Len(inbox))
    BY <1>9 DEF CloseIsLast
  <2> QED BY <2>1, <1>9, <1>2
<1>6. CASE r = "close"
  <2>1. worker' = [worker EXCEPT !.closing = TRUE, !.tearing = TRUE] /\ UNCHANGED <<active, outbox>>
    BY <1>6 DEF Receive
  <2> HIDE DEF r
  <2>2. worker'.closing /\ worker'.alive = worker.alive
    BY <2>1 DEF ConnectionTypes
  <2>0. 1 \in 1 .. Len(inbox) /\ inbox[1] = "close"
    BY <1>2, <1>6
  <2>3. Len(inbox) = 1 /\ inbox' = <<>> /\ "close" \in asked
    BY <1>2, <2>0 DEF CloseIsLast
  <2>4. ConnectionTypes'
    BY <1>1, <1>2, <2>1 DEF ConnectionTypes
  <2>5. CloseIsLast'
    BY <1>1, <1>2, <2>2, <2>3 DEF CloseIsLast
  <2>6. AnswerIsLast'
    BY <2>1, <1>4 DEF AnswerIsLast
  <2>7. WaitersUnderway'
    BY <1>1, <1>5, <1>6, <2>1, <2>2 DEF WaitersUnderway, Underway
  <2>8. EndedForGood'
    BY <1>1, <1>3, <2>1 DEF EndedForGood
  <2> QED BY <2>4, <2>5, <2>6, <2>7, <2>8
<1>7. CASE /\ r # "close" /\ WorkerReplies(r, "error") /\ UNCHANGED <<worker, active>>
  <2> HIDE DEF r
  <2>1. [id |-> r, outcome |-> "error"] \in Response
    BY <1>2 DEF Response
  <2>2. /\ outbox' \in Seq(Response) /\ Len(outbox) \in Nat /\ Len(outbox') = Len(outbox) + 1
        /\ \A i \in 1 .. Len(outbox) : outbox'[i] = outbox[i]
        /\ outbox'[Len(outbox) + 1] = [id |-> r, outcome |-> "error"]
    BY <1>7, <2>1, Appended DEF ConnectionTypes, WorkerReplies
  <2>3. ConnectionTypes'
    BY <1>1, <1>2, <1>7, <2>2 DEF ConnectionTypes
  <2>4. CloseIsLast'
    BY <1>1, <1>3, <1>7, <1>10 DEF CloseIsLast
  <2>5. AnswerIsLast'
    <3>1. \A i \in 1 .. Len(outbox') : i = Len(outbox) + 1 \/ i \in 1 .. Len(outbox)
      BY <2>2
    <3>2. \A i \in 1 .. Len(outbox') : outbox'[i].id # "close"
      BY <3>1, <2>2, <1>4, <1>7
    <3> QED BY <3>2 DEF AnswerIsLast
  <2>6. WaitersUnderway'
    <3>1. \E i \in 1 .. Len(outbox') : outbox'[i].id = r
      BY <2>2
    <3>2. \A q : (\E i \in 1 .. Len(outbox) : outbox[i].id = q) => \E i \in 1 .. Len(outbox') : outbox'[i].id = q
      BY <2>2
    <3> QED BY <3>1, <3>2, <1>1, <1>5, <1>7 DEF WaitersUnderway, Underway
  <2>7. EndedForGood'
    BY <1>1, <1>3, <1>7 DEF EndedForGood
  <2> QED BY <2>3, <2>4, <2>5, <2>6, <2>7
<1>8. CASE r # "close" /\ active' = active \union {r} /\ UNCHANGED <<worker, outbox>>
  <2> HIDE DEF r
  <2>3. ConnectionTypes'
    BY <1>1, <1>2, <1>8 DEF ConnectionTypes
  <2>4. CloseIsLast'
    BY <1>1, <1>3, <1>8, <1>10 DEF CloseIsLast
  <2>5. AnswerIsLast'
    BY <1>4, <1>8 DEF AnswerIsLast
  <2>6. WaitersUnderway'
    BY <1>1, <1>5, <1>8 DEF WaitersUnderway, Underway
  <2>7. EndedForGood'
    BY <1>1, <1>3, <1>8 DEF EndedForGood
  <2> QED BY <2>3, <2>4, <2>5, <2>6, <2>7
<1> QED BY <1>6, <1>7, <1>8 DEF Receive

\* An operation of the worker ends and is answered.
LEMMA FinishKeeps ==
  ASSUME NEW r \in Wire, ConnectionInvariant, FinishRequest(r)
  PROVE  ConnectionInvariant'
<1> USE DEF ConnectionInvariant
<1>1. /\ worker.alive /\ r \in active /\ active' = active \ {r}
      /\ children' \in BOOLEAN
      /\ UNCHANGED <<asked, waiting, answered, shut, broken, inbox>>
  BY DEF FinishRequest, ConnectionTypes
<1>2. PICK o \in {"result", "error"} :
        WorkerReplies(r, o) /\ worker' = [worker EXCEPT !.connected = @ \/ (r = "connect" /\ o = "result")]
  BY DEF FinishRequest
<1>3. [id |-> r, outcome |-> o] \in Response
  BY DEF Response
<1>4. /\ outbox' \in Seq(Response) /\ Len(outbox) \in Nat /\ Len(outbox') = Len(outbox) + 1
      /\ \A i \in 1 .. Len(outbox) : outbox'[i] = outbox[i]
      /\ outbox'[Len(outbox) + 1] = [id |-> r, outcome |-> o]
  BY <1>2, <1>3, Appended DEF ConnectionTypes, WorkerReplies
<1>5. /\ worker' \in [alive : BOOLEAN, connected : BOOLEAN, closing : BOOLEAN, tearing : BOOLEAN]
      /\ worker'.closing = worker.closing /\ worker'.alive = worker.alive
  <2> DEFINE b == worker.connected \/ (r = "connect" /\ o = "result")
  <2>1. b \in BOOLEAN /\ worker' = [worker EXCEPT !.connected = b]
    BY <1>2 DEF ConnectionTypes
  <2> HIDE DEF b
  <2> QED BY <2>1 DEF ConnectionTypes
<1>6. ~broken /\ shut # "closed" /\ r # "close"
  BY <1>1 DEF EndedForGood, ConnectionTypes
<1>7. \A i \in 1 .. Len(outbox) : outbox[i].id # "close"
  BY <1>1 DEF AnswerIsLast
<1>8. ConnectionTypes'
  BY <1>1, <1>4, <1>5 DEF ConnectionTypes
<1>9. CloseIsLast'
  BY <1>1, <1>5 DEF CloseIsLast
<1>10. AnswerIsLast'
  <2>1. \A i \in 1 .. Len(outbox') : i = Len(outbox) + 1 \/ i \in 1 .. Len(outbox)
    BY <1>4
  <2>2. \A i \in 1 .. Len(outbox') : outbox'[i].id # "close"
    BY <2>1, <1>4, <1>6, <1>7
  <2> QED BY <2>2 DEF AnswerIsLast
<1>11. WaitersUnderway'
  <2>1. \E i \in 1 .. Len(outbox') : outbox'[i].id = r
    BY <1>4
  <2>2. \A q : (\E i \in 1 .. Len(outbox) : outbox[i].id = q) => \E i \in 1 .. Len(outbox') : outbox'[i].id = q
    BY <1>4
  <2> QED BY <2>1, <2>2, <1>1, <1>5 DEF WaitersUnderway, Underway
<1>12. EndedForGood'
  BY <1>1, <1>6 DEF EndedForGood
<1> QED BY <1>8, <1>9, <1>10, <1>11, <1>12

\* The server's processes have been ended, or not.
LEMMA TearDownKeeps ==
  ASSUME ConnectionInvariant, TearDown
  PROVE  ConnectionInvariant'
<1> USE DEF ConnectionInvariant
<1>1. /\ worker.alive /\ worker.tearing /\ worker' = [worker EXCEPT !.tearing = FALSE]
      /\ children' \in BOOLEAN
      /\ UNCHANGED <<asked, waiting, answered, shut, broken, inbox, outbox, active>>
  BY DEF TearDown, ConnectionTypes
<1>2. worker'.closing = worker.closing /\ worker'.alive = worker.alive
  BY <1>1 DEF ConnectionTypes
<1>3. ConnectionTypes'
  BY <1>1 DEF ConnectionTypes
<1>4. CloseIsLast' /\ WaitersUnderway'
  BY <1>1, <1>2 DEF CloseIsLast, WaitersUnderway, Underway
<1>5. AnswerIsLast'
  BY <1>1, <1>2 DEF AnswerIsLast
<1>6. EndedForGood'
  BY <1>1 DEF EndedForGood
<1> QED BY <1>3, <1>4, <1>5, <1>6

\* The worker answers close.
LEMMA ClosedKeeps ==
  ASSUME ConnectionInvariant, Closed
  PROVE  ConnectionInvariant'
<1> USE DEF ConnectionInvariant
<1>1. /\ worker.alive /\ worker.closing /\ ~worker.tearing /\ active = {} /\ "close" \in waiting
      /\ ~\E i \in DOMAIN outbox : outbox[i].id = "close"
      /\ UNCHANGED <<asked, waiting, answered, shut, broken, inbox, worker, active, children>>
  BY DEF Closed, Settled
<1>2. PICK o \in {"result", "error"} : WorkerReplies("close", o) /\ (o = "result" => ~children)
  BY DEF Closed
<1>3. [id |-> "close", outcome |-> o] \in Response
  BY DEF Response, Wire
<1>4. /\ outbox' \in Seq(Response) /\ Len(outbox) \in Nat /\ Len(outbox') = Len(outbox) + 1
      /\ \A i \in 1 .. Len(outbox) : outbox'[i] = outbox[i]
      /\ outbox'[Len(outbox) + 1] = [id |-> "close", outcome |-> o]
  BY <1>2, <1>3, Appended DEF ConnectionTypes, WorkerReplies
<1>5. ConnectionTypes'
  BY <1>1, <1>4 DEF ConnectionTypes
<1>6. CloseIsLast'
  BY <1>1 DEF CloseIsLast
<1>7. AnswerIsLast'
  <2>1. \A i \in 1 .. Len(outbox') : i = Len(outbox) + 1 \/ i \in 1 .. Len(outbox)
    BY <1>4
  <2>2. \A i \in 1 .. Len(outbox) : outbox'[i].id # "close"
    <3>1. DOMAIN outbox = 1 .. Len(outbox)
      BY DEF ConnectionTypes
    <3> QED BY <3>1, <1>1, <1>4
  <2>3. ~worker'.tearing /\ worker'.closing /\ active' = {} /\ children' = children
    BY <1>1
  <2> QED BY <2>1, <2>2, <2>3, <1>2, <1>4 DEF AnswerIsLast
<1>8. WaitersUnderway'
  <2>2. \A q : (\E i \in 1 .. Len(outbox) : outbox[i].id = q) => \E i \in 1 .. Len(outbox') : outbox'[i].id = q
    BY <1>4
  <2> QED BY <2>2, <1>1 DEF WaitersUnderway, Underway
<1>9. EndedForGood'
  BY <1>1 DEF EndedForGood
<1> QED BY <1>5, <1>6, <1>7, <1>8, <1>9

\* Every step of a connection keeps the invariant.
LEMMA ConnectionStep ==
  ASSUME ConnectionInvariant, [ConnNext]_connVars
  PROVE  ConnectionInvariant'
<1>1. CASE UNCHANGED connVars
  BY <1>1 DEF connVars, ConnectionInvariant, ConnectionTypes, CloseIsLast, AnswerIsLast, WaitersUnderway, Underway, EndedForGood
<1>2. CASE ConnNext
  BY <1>2, AskKeeps, FinishKeeps, AnswerKeeps, CrashKeeps, ReceiveKeeps, TearDownKeeps, ClosedKeeps DEF ConnNext
<1> QED BY <1>1, <1>2

(* A connection that reports itself closed has answered every request and     *)
(* left no child process, and a failed worker leaves no request waiting,      *)
(* however many requests are under way, for any set of them                   *)
(* (IsolatedMcpConnection.close).                                             *)
THEOREM ConnectionQuiet == ConnSpec => []ClosedIsQuiet
<1>1. ConnectionInvariant => ClosedIsQuiet
  BY DEF ConnectionInvariant, EndedForGood, ClosedIsQuiet
<1> QED BY <1>1, ConnectionBegins, ConnectionStep, PTL DEF ConnSpec

-----------------------------------------------------------------------------
(* The cached roots of the client.                                            *)

Announcement == [kind : {"changed", "roots"}, request : Nat, roots : Nat]
Verdicts == {"none", "verified", "explicitly-empty", "temporarily-unavailable"}
RootsShown == [status : Verdicts, roots : Nat, generation : Nat]
ContextTypes ==
  /\ client \in [roots : Nat, announced : Nat, requests : Nat, wire : Seq(Announcement), open : SUBSET Nat]
  /\ context \in [snapshot : RootsShown, stale : BOOLEAN, generation : Nat, verified : Nat]
  /\ refresh \in [on : BOOLEAN, generation : Nat, request : Nat, waiting : SUBSET Askers]
  /\ answers \in [Askers -> [pc : {"idle", "waiting", "told"}, since : Nat, told : RootsShown]]

\* A message that no announcement follows shows the roots of now.
WireTrue(wire, roots) ==
  \A i \in 1 .. Len(wire) :
    wire[i].kind = "roots" /\ (\A j \in 1 .. Len(wire) : j > i => wire[j].kind # "changed") => wire[i].roots = roots
NoNews(wire) == \A i \in 1 .. Len(wire) : wire[i].kind # "changed"

\* A fresh snapshot is of the generation of now, and of its roots unless news
\* are under way; its roots are always those verified last.
SnapshotFits ==
  /\ ~context.stale => context.snapshot.generation = context.generation
  /\ ~context.stale /\ NoNews(client.wire) => context.snapshot.roots = client.roots
  /\ context.snapshot.status = "temporarily-unavailable" => context.stale
  /\ context.snapshot.roots = context.verified
AskedBefore ==
  \A a \in Askers : /\ answers[a].since <= context.generation
                    /\ answers[a].pc = "told" => answers[a].told.generation >= answers[a].since

ContextInvariant == ContextTypes /\ WireTrue(client.wire, client.roots) /\ SnapshotFits /\ AskedBefore

LEMMA ContextBegins == ContextInit => ContextInvariant
<1> SUFFICES ASSUME ContextInit PROVE ContextInvariant
  OBVIOUS
<1>1. NoSnapshot \in RootsShown
  BY DEF NoSnapshot, RootsShown, Verdicts
<1>2. client \in [roots : Nat, announced : Nat, requests : Nat, wire : Seq(Announcement), open : SUBSET Nat] /\ Len(client.wire) = 0
  BY DEF ContextInit
<1>3. context \in [snapshot : RootsShown, stale : BOOLEAN, generation : Nat, verified : Nat]
  BY <1>1 DEF ContextInit
<1>4. refresh \in [on : BOOLEAN, generation : Nat, request : Nat, waiting : SUBSET Askers]
  BY DEF ContextInit, NoRefresh
<1>5. answers \in [Askers -> [pc : {"idle", "waiting", "told"}, since : Nat, told : RootsShown]]
  BY <1>1 DEF ContextInit, Unasked
<1>6. WireTrue(client.wire, client.roots)
  BY <1>2 DEF WireTrue
<1>7. SnapshotFits
  BY DEF SnapshotFits, ContextInit, NoSnapshot
<1>8. AskedBefore
  BY DEF AskedBefore, ContextInit, Unasked
<1> QED BY <1>2, <1>3, <1>4, <1>5, <1>6, <1>7, <1>8 DEF ContextInvariant, ContextTypes

\* A change of the roots goes out after everything sent before.
LEMMA ClientChangesKeeps ==
  ASSUME NEW r \in 0 .. MaxRoots, ContextInvariant, ClientChanges(r)
  PROVE  ContextInvariant'
<1> DEFINE m == [kind |-> "changed", request |-> 0, roots |-> 0]
<1> USE DEF ContextInvariant
<1>1. /\ client' = [client EXCEPT !.roots = r, !.announced = @ + 1, !.wire = Append(@, m)]
      /\ UNCHANGED <<context, refresh, answers>>
  BY DEF ClientChanges
<1>2. m \in Announcement /\ r \in Nat
  BY ContextAssumption DEF Announcement
<1>3. m.kind = "changed"
  OBVIOUS
<1> HIDE DEF m
<1>4. client.wire \in Seq(Announcement)
  BY DEF ContextTypes
<1>5. /\ Append(client.wire, m) \in Seq(Announcement) /\ Len(client.wire) \in Nat
      /\ Len(Append(client.wire, m)) = Len(client.wire) + 1
      /\ \A i \in 1 .. Len(client.wire) : Append(client.wire, m)[i] = client.wire[i]
      /\ Append(client.wire, m)[Len(client.wire) + 1] = m
  BY <1>2, <1>4, Appended
<1>6. ContextTypes' /\ client'.wire = Append(client.wire, m) /\ client'.roots = r
  <2> DEFINE w == Append(client.wire, m)
             n == client.announced + 1
  <2>1. w \in Seq(Announcement) /\ n \in Nat /\ client' = [client EXCEPT !.roots = r, !.announced = n, !.wire = w]
    BY <1>1, <1>5 DEF ContextTypes
  <2> HIDE DEF w, n
  <2>2. /\ client' \in [roots : Nat, announced : Nat, requests : Nat, wire : Seq(Announcement), open : SUBSET Nat]
        /\ client'.wire = w /\ client'.roots = r
    BY <2>1, <1>2 DEF ContextTypes
  <2> QED BY <2>2, <1>1 DEF ContextTypes, w
<1>7. ~NoNews(client'.wire)
  BY <1>3, <1>5, <1>6 DEF NoNews
<1>8. WireTrue(client'.wire, client'.roots)
  <2>1. \A i \in 1 .. Len(client'.wire) : i = Len(client.wire) + 1 \/ Len(client.wire) + 1 > i
    BY <1>5, <1>6
  <2> QED BY <2>1, <1>3, <1>5, <1>6 DEF WireTrue
<1> QED BY <1>1, <1>6, <1>7, <1>8 DEF SnapshotFits, AskedBefore

\* An answer shows the roots of now.
LEMMA ClientAnswersKeeps ==
  ASSUME NEW q, ContextInvariant, ClientAnswers(q)
  PROVE  ContextInvariant'
<1> DEFINE m == [kind |-> "roots", request |-> q, roots |-> client.roots]
<1> USE DEF ContextInvariant
<1>1. /\ client' = [client EXCEPT !.open = @ \ {q}, !.wire = Append(@, m)]
      /\ UNCHANGED <<context, refresh, answers>> /\ q \in client.open
  BY DEF ClientAnswers
<1>2. m \in Announcement
  BY <1>1 DEF Announcement, ContextTypes
<1>3. m.kind = "roots" /\ m.roots = client.roots
  OBVIOUS
<1> HIDE DEF m
<1>4. client.wire \in Seq(Announcement)
  BY DEF ContextTypes
<1>5. /\ Append(client.wire, m) \in Seq(Announcement) /\ Len(client.wire) \in Nat
      /\ Len(Append(client.wire, m)) = Len(client.wire) + 1
      /\ \A i \in 1 .. Len(client.wire) : Append(client.wire, m)[i] = client.wire[i]
      /\ Append(client.wire, m)[Len(client.wire) + 1] = m
  BY <1>2, <1>4, Appended
<1>6. ContextTypes' /\ client'.wire = Append(client.wire, m) /\ client'.roots = client.roots
  BY <1>1, <1>2, <1>5 DEF ContextTypes
<1>9. \A i \in 1 .. Len(client.wire) : i \in 1 .. Len(client'.wire) /\ client'.wire[i] = client.wire[i]
  BY <1>5, <1>6
<1>7. NoNews(client'.wire) => NoNews(client.wire)
  BY <1>9 DEF NoNews
<1>8. WireTrue(client'.wire, client'.roots)
  <2> SUFFICES ASSUME NEW i \in 1 .. Len(client'.wire), client'.wire[i].kind = "roots",
                      \A j \in 1 .. Len(client'.wire) : j > i => client'.wire[j].kind # "changed"
               PROVE  client'.wire[i].roots = client.roots
    BY <1>6 DEF WireTrue
  <2>1. CASE i = Len(client.wire) + 1
    BY <2>1, <1>3, <1>5, <1>6
  <2>2. CASE i \in 1 .. Len(client.wire)
    BY <2>2, <1>9 DEF WireTrue
  <2> QED BY <2>1, <2>2, <1>5, <1>6
<1> QED BY <1>1, <1>6, <1>7, <1>8 DEF SnapshotFits, AskedBefore

\* A request that is sent changes nothing that the invariant is about.
LEMMA SentKeepsTypes ==
  ASSUME NEW cl \in [roots : Nat, announced : Nat, requests : Nat, wire : Seq(Announcement), open : SUBSET Nat],
         NEW W \in SUBSET Askers, ContextTypes, Sent(cl, W)
  PROVE  /\ client' \in [roots : Nat, announced : Nat, requests : Nat, wire : Seq(Announcement), open : SUBSET Nat]
         /\ refresh' \in [on : BOOLEAN, generation : Nat, request : Nat, waiting : SUBSET Askers]
         /\ client'.wire = cl.wire /\ client'.roots = cl.roots
<1> DEFINE n == cl.requests + 1
           o == cl.open \union {n}
<1>1. n \in Nat /\ o \in SUBSET Nat
  OBVIOUS
<1>2. client' = [cl EXCEPT !.requests = n, !.open = o]
  BY DEF Sent
<1>3. refresh' = [on |-> TRUE, generation |-> context.generation, request |-> n, waiting |-> W] /\ context.generation \in Nat
  BY DEF Sent, ContextTypes
<1> HIDE DEF n, o
<1>4. /\ client' \in [roots : Nat, announced : Nat, requests : Nat, wire : Seq(Announcement), open : SUBSET Nat]
      /\ client'.wire = cl.wire /\ client'.roots = cl.roots
  BY <1>1, <1>2
<1> QED BY <1>1, <1>3, <1>4

\* A caller asks.
LEMMA CurrentKeeps ==
  ASSUME NEW a \in Askers, ContextInvariant, Current(a)
  PROVE  ContextInvariant'
<1> USE DEF ContextInvariant
<1>1. UNCHANGED context /\ context \in [snapshot : RootsShown, stale : BOOLEAN, generation : Nat, verified : Nat]
  BY DEF Current, ContextTypes
<1>2. PICK point \in {"waiting", "told"}, told \in RootsShown :
        /\ answers' = [answers EXCEPT ![a] = [pc |-> point, since |-> context.generation, told |-> told]]
        /\ point = "told" => told.generation = context.generation
  <2>1. NoSnapshot \in RootsShown /\ context.snapshot \in RootsShown
    BY <1>1 DEF NoSnapshot, RootsShown, Verdicts
  <2> QED BY <2>1 DEF Current, Asked, SnapshotFits
<1>3. /\ client' \in [roots : Nat, announced : Nat, requests : Nat, wire : Seq(Announcement), open : SUBSET Nat]
      /\ refresh' \in [on : BOOLEAN, generation : Nat, request : Nat, waiting : SUBSET Askers]
      /\ client'.wire = client.wire /\ client'.roots = client.roots
  <2>1. CASE UNCHANGED <<client, refresh>>
    BY <2>1 DEF ContextTypes
  <2>2. CASE refresh' = [refresh EXCEPT !.waiting = @ \union {a}] /\ UNCHANGED client
    BY <2>2 DEF ContextTypes
  <2>3. CASE Sent(client, {a})
    BY <2>3, SentKeepsTypes DEF ContextTypes
  <2> QED BY <2>1, <2>2, <2>3 DEF Current
<1>4. answers' \in [Askers -> [pc : {"idle", "waiting", "told"}, since : Nat, told : RootsShown]]
  BY <1>1, <1>2 DEF ContextTypes
<1>5. AskedBefore'
  <2>1. /\ answers'[a].since = context.generation /\ answers'[a].pc = point /\ answers'[a].told = told
        /\ \A b \in Askers \ {a} : answers'[b] = answers[b]
    BY <1>2 DEF ContextTypes
  <2>2. context.generation \in Nat
    BY <1>1
  <2> QED BY <2>1, <2>2, <1>1, <1>2 DEF AskedBefore
<1> QED BY <1>1, <1>3, <1>4, <1>5 DEF ContextTypes, SnapshotFits

\* A caller forgets what it was told.
LEMMA AskAgainKeeps ==
  ASSUME NEW a \in Askers, ContextInvariant, AskAgain(a)
  PROVE  ContextInvariant'
<1> USE DEF ContextInvariant
<1>1. answers' = [answers EXCEPT ![a] = Unasked] /\ UNCHANGED <<client, context, refresh>>
  BY DEF AskAgain
<1>2. Unasked \in [pc : {"idle", "waiting", "told"}, since : Nat, told : RootsShown] /\ Unasked.since = 0 /\ Unasked.pc = "idle"
  BY DEF Unasked, NoSnapshot, RootsShown, Verdicts
<1>3. ContextTypes'
  BY <1>1, <1>2 DEF ContextTypes
<1>4. AskedBefore'
  BY <1>1, <1>2 DEF AskedBefore, ContextTypes
<1> QED BY <1>1, <1>3, <1>4 DEF SnapshotFits

\* The refresh has a result: it is published, or asked for once more when a
\* change was announced meanwhile.
LEMMA LoadedKeeps ==
  ASSUME NEW cl \in [roots : Nat, announced : Nat, requests : Nat, wire : Seq(Announcement), open : SUBSET Nat],
         NEW status \in Verdicts, NEW roots \in Nat, ContextInvariant, Loaded(cl, status, roots),
         cl.roots = client.roots, WireTrue(cl.wire, cl.roots),
         NoNews(cl.wire) => NoNews(client.wire),
         status = "temporarily-unavailable" => roots = context.snapshot.roots,
         status # "temporarily-unavailable" /\ NoNews(cl.wire) => roots = cl.roots
  PROVE  ContextInvariant'
<1> USE DEF ContextInvariant
<1>1. CASE refresh.generation = context.generation
  <2> DEFINE shown == [status |-> status, roots |-> roots, generation |-> refresh.generation]
             failed == status = "temporarily-unavailable"
  <2>1. /\ context' = [context EXCEPT !.snapshot = shown, !.stale = failed, !.verified = IF failed THEN @ ELSE roots]
        /\ refresh' = NoRefresh /\ client' = cl
        /\ answers' = [a \in Askers |-> IF a \in refresh.waiting THEN [answers[a] EXCEPT !.pc = "told", !.told = shown]
                                         ELSE answers[a]]
    BY <1>1 DEF Loaded, Publish
  <2>2. shown \in RootsShown /\ shown.roots = roots /\ shown.generation = context.generation /\ shown.status = status
    BY <1>1 DEF RootsShown, ContextTypes
  <2> HIDE DEF shown
  <2>3. /\ context' \in [snapshot : RootsShown, stale : BOOLEAN, generation : Nat, verified : Nat]
        /\ context'.snapshot = shown /\ context'.stale = failed /\ context'.generation = context.generation
        /\ context'.verified = IF failed THEN context.verified ELSE roots
    BY <2>1, <2>2 DEF ContextTypes
  <2>4. refresh' \in [on : BOOLEAN, generation : Nat, request : Nat, waiting : SUBSET Askers]
    BY <2>1 DEF NoRefresh
  <2>5. answers' \in [Askers -> [pc : {"idle", "waiting", "told"}, since : Nat, told : RootsShown]]
    <3> HIDE DEF failed
    <3>1. ASSUME NEW b \in [pc : {"idle", "waiting", "told"}, since : Nat, told : RootsShown]
          PROVE  [b EXCEPT !.pc = "told", !.told = shown] \in [pc : {"idle", "waiting", "told"}, since : Nat, told : RootsShown]
      BY <2>2
    <3>2. answers \in [Askers -> [pc : {"idle", "waiting", "told"}, since : Nat, told : RootsShown]]
      BY DEF ContextTypes
    <3>3. \A a \in Askers : answers'[a] \in [pc : {"idle", "waiting", "told"}, since : Nat, told : RootsShown]
      BY <2>1, <3>1, <3>2
    <3> QED BY <2>1, <3>3
  <2>6. ContextTypes'
    BY <2>1, <2>3, <2>4, <2>5 DEF ContextTypes
  <2>7. SnapshotFits'
    BY <2>1, <2>2, <2>3 DEF SnapshotFits
  <2>8. AskedBefore'
    <3> SUFFICES ASSUME NEW a \in Askers
                 PROVE  /\ answers'[a].since <= context.generation
                        /\ answers'[a].pc = "told" => answers'[a].told.generation >= answers'[a].since
      BY <2>3 DEF AskedBefore
    <3>1. CASE a \in refresh.waiting
      <4>1. answers'[a].since = answers[a].since /\ answers'[a].told = shown
        BY ZenonT(60), <3>1, <2>1 DEF ContextTypes
      <4>2. answers[a].since \in Nat /\ context.generation \in Nat /\ answers[a].since <= context.generation
        <5>1. answers[a] \in [pc : {"idle", "waiting", "told"}, since : Nat, told : RootsShown]
          BY DEF ContextTypes
        <5>2. context.generation \in Nat
          BY DEF ContextTypes
        <5> QED BY <5>1, <5>2 DEF AskedBefore
      <4> QED BY <4>1, <4>2, <2>2
    <3>2. CASE a \notin refresh.waiting
      BY <3>2, <2>1 DEF AskedBefore
    <3> QED BY <3>1, <3>2
  <2> QED BY <2>1, <2>6, <2>7, <2>8
<1>2. CASE refresh.generation # context.generation
  <2>1. Sent(cl, refresh.waiting) /\ UNCHANGED <<context, answers>>
    BY <1>2 DEF Loaded
  <2>2. ContextTypes' /\ client'.wire = cl.wire /\ client'.roots = cl.roots
    BY <2>1, SentKeepsTypes DEF ContextTypes
  <2> QED BY <2>1, <2>2 DEF SnapshotFits, AskedBefore
<1> QED BY <1>1, <1>2

\* A request fails, or is given up.
LEMMA FailsKeeps ==
  ASSUME ContextInvariant, Fails
  PROVE  ContextInvariant'
<1>1. /\ client \in [roots : Nat, announced : Nat, requests : Nat, wire : Seq(Announcement), open : SUBSET Nat]
      /\ context.snapshot.roots \in Nat
  BY DEF ContextInvariant, ContextTypes, RootsShown
<1>4. "temporarily-unavailable" \in Verdicts
  BY DEF Verdicts
<1>2. Loaded(client, "temporarily-unavailable", context.snapshot.roots)
  BY DEF Fails
<1>3. WireTrue(client.wire, client.roots)
  BY DEF ContextInvariant
<1> QED BY <1>1, <1>2, <1>3, <1>4, LoadedKeeps

\* A message arrives.
LEMMA ArrivesKeeps ==
  ASSUME ContextInvariant, Arrives
  PROVE  ContextInvariant'
<1> DEFINE m == Head(client.wire)
           rest == [client EXCEPT !.wire = Tail(@)]
<1>1. client.wire # <<>> /\ client.wire \in Seq(Announcement)
  BY DEF Arrives, ContextInvariant, ContextTypes
<1>2. /\ Len(client.wire) \in Nat /\ Len(client.wire) >= 1 /\ m = client.wire[1] /\ m \in Announcement
      /\ Tail(client.wire) \in Seq(Announcement) /\ Len(Tail(client.wire)) = Len(client.wire) - 1
      /\ \A i \in 1 .. Len(Tail(client.wire)) : Tail(client.wire)[i] = client.wire[i + 1]
  BY <1>1, HeadAndTail
<1>3. /\ rest \in [roots : Nat, announced : Nat, requests : Nat, wire : Seq(Announcement), open : SUBSET Nat]
      /\ rest.wire = Tail(client.wire) /\ rest.roots = client.roots
  BY <1>2 DEF ContextInvariant, ContextTypes
<1>4. \/ /\ m.kind = "changed" /\ context' = [context EXCEPT !.stale = TRUE, !.generation = @ + 1]
         /\ client' = rest /\ UNCHANGED <<refresh, answers>>
      \/ /\ m.kind # "changed" /\ Loaded(rest, IF m.roots = 0 THEN "explicitly-empty" ELSE "verified", m.roots)
      \/ /\ m.kind # "changed" /\ client' = rest /\ UNCHANGED <<context, refresh, answers>>
  BY DEF Arrives
<1> HIDE DEF m, rest
<1>5. \A i \in 1 .. Len(rest.wire) : i + 1 \in 1 .. Len(client.wire) /\ rest.wire[i] = client.wire[i + 1]
  BY <1>2, <1>3
<1>6. WireTrue(rest.wire, rest.roots)
  <2> SUFFICES ASSUME NEW i \in 1 .. Len(rest.wire), rest.wire[i].kind = "roots",
                      \A j \in 1 .. Len(rest.wire) : j > i => rest.wire[j].kind # "changed"
               PROVE  rest.wire[i].roots = client.roots
    BY <1>3 DEF WireTrue
  <2>1. \A j \in 1 .. Len(client.wire) : j > i + 1 => j - 1 \in 1 .. Len(rest.wire) /\ j - 1 > i /\ client.wire[j] = rest.wire[j - 1]
    BY <1>2, <1>3
  <2>2. \A j \in 1 .. Len(client.wire) : j > i + 1 => client.wire[j].kind # "changed"
    BY <2>1
  <2> QED BY <2>2, <1>5 DEF WireTrue, ContextInvariant
<1>7. m.kind # "changed" /\ NoNews(rest.wire) => NoNews(client.wire) /\ m.roots = client.roots
  <2> SUFFICES ASSUME m.kind # "changed", NoNews(rest.wire) PROVE NoNews(client.wire) /\ m.roots = client.roots
    OBVIOUS
  <2>1. \A j \in 1 .. Len(client.wire) : j > 1 => j - 1 \in 1 .. Len(rest.wire) /\ client.wire[j] = rest.wire[j - 1]
    BY <1>2, <1>3
  <2>2. \A j \in 1 .. Len(client.wire) : j > 1 => client.wire[j].kind # "changed"
    BY <2>1 DEF NoNews
  <2>3. NoNews(client.wire)
    BY <2>2, <1>2 DEF NoNews
  <2>4. 1 \in 1 .. Len(client.wire) /\ m.kind = "roots"
    BY <1>2 DEF Announcement
  <2> QED BY <2>2, <2>3, <2>4, <1>2 DEF WireTrue, ContextInvariant
<1>8. CASE /\ m.kind = "changed" /\ context' = [context EXCEPT !.stale = TRUE, !.generation = @ + 1]
           /\ client' = rest /\ UNCHANGED <<refresh, answers>>
  <2>1. /\ context' \in [snapshot : RootsShown, stale : BOOLEAN, generation : Nat, verified : Nat]
        /\ context'.snapshot = context.snapshot /\ context'.stale /\ context'.generation = context.generation + 1
        /\ context'.verified = context.verified /\ context.generation \in Nat
    <3> DEFINE g == context.generation + 1
    <3>1. context.generation \in Nat /\ g \in Nat /\ context' = [context EXCEPT !.stale = TRUE, !.generation = g]
      BY <1>8 DEF ContextInvariant, ContextTypes
    <3>2. context \in [snapshot : RootsShown, stale : BOOLEAN, generation : Nat, verified : Nat]
      BY DEF ContextInvariant, ContextTypes
    <3> HIDE DEF g
    <3>3. /\ context' \in [snapshot : RootsShown, stale : BOOLEAN, generation : Nat, verified : Nat]
          /\ context'.snapshot = context.snapshot /\ context'.stale /\ context'.generation = g
          /\ context'.verified = context.verified
      BY <3>1, <3>2
    <3> QED BY <3>1, <3>3 DEF g
  <2>2. ContextTypes'
    BY <2>1, <1>8, <1>3 DEF ContextInvariant, ContextTypes
  <2>3. AskedBefore'
    <3> SUFFICES ASSUME NEW a \in Askers
                 PROVE  /\ answers'[a].since <= context'.generation
                        /\ answers'[a].pc = "told" => answers'[a].told.generation >= answers'[a].since
      BY DEF AskedBefore
    <3>1. answers' = answers /\ answers[a].since \in Nat /\ answers[a].since <= context.generation
      BY <1>8 DEF ContextInvariant, ContextTypes, AskedBefore
    <3> QED BY <2>1, <3>1 DEF ContextInvariant, AskedBefore
  <2>4. SnapshotFits'
    BY <2>1 DEF ContextInvariant, SnapshotFits
  <2> QED BY <2>2, <2>3, <2>4, <1>6, <1>8 DEF ContextInvariant
<1>9. CASE m.kind # "changed" /\ Loaded(rest, IF m.roots = 0 THEN "explicitly-empty" ELSE "verified", m.roots)
  <2>1. PICK status \in {"explicitly-empty", "verified"} : Loaded(rest, status, m.roots)
    BY <1>9
  <2>2. m.roots \in Nat /\ status \in Verdicts /\ status # "temporarily-unavailable"
    BY <1>2 DEF Announcement, Verdicts
  <2> QED BY <2>1, <2>2, <1>3, <1>6, <1>7, <1>9, LoadedKeeps
<1>10. CASE m.kind # "changed" /\ client' = rest /\ UNCHANGED <<context, refresh, answers>>
  BY <1>10, <1>3, <1>6, <1>7 DEF ContextInvariant, ContextTypes, SnapshotFits, AskedBefore
<1> QED BY <1>4, <1>8, <1>9, <1>10

LEMMA ContextStep ==
  ASSUME ContextInvariant, [ContextNext]_contextVars
  PROVE  ContextInvariant'
<1>1. CASE UNCHANGED contextVars
  BY <1>1 DEF contextVars, ContextInvariant, ContextTypes, WireTrue, SnapshotFits, AskedBefore
<1>2. CASE ContextNext
  BY <1>2, ClientChangesKeeps, ClientAnswersKeeps, CurrentKeeps, AskAgainKeeps, FailsKeeps, ArrivesKeeps DEF ContextNext
<1> QED BY <1>1, <1>2

LEMMA ContextSound == ContextInvariant => ContextKept
<1> SUFFICES ASSUME ContextInvariant PROVE ContextKept
  OBVIOUS
<1>1. DOMAIN client.wire = 1 .. Len(client.wire)
  BY DEF ContextInvariant, ContextTypes
<1> QED
  <2>1. ToldSince
    BY DEF ContextInvariant, AskedBefore, ToldSince
  <2>2. FreshIsCurrent
    BY <1>1 DEF ContextInvariant, SnapshotFits, NoNews, FreshIsCurrent
  <2> QED BY <2>1, <2>2 DEF ContextKept

-----------------------------------------------------------------------------
(* The server process.                                                        *)

\* What start-up has listed when so many parts are started.
Listing == [n \in 0 .. 7 |->
  CASE n = 0 -> <<>>
    [] n \in {1, 2} -> <<"server">>
    [] n = 3 -> <<"server", "tracer">>
    [] n = 4 -> <<"navigator", "server", "tracer">>
    [] n = 5 -> <<"delivery", "navigator", "server", "tracer">>
    [] OTHER -> <<"session", "delivery", "navigator", "server", "tracer">>]
\* The parts with a cleanup among those started.
BegunOf == [n \in 0 .. 7 |-> {Starts[i] : i \in 1 .. n} \ {"data", "transport"}]
Parted == {"server", "tracer", "navigator", "delivery", "session"}

\* Each listing holds every started part once, users before what they use.
ListsOnce(list, begun1) ==
  /\ \A i, j \in 1 .. Len(list) : list[i] = list[j] => i = j
  /\ \A i \in 1 .. Len(list) : list[i] \in begun1
  /\ \A p \in begun1 : \E i \in 1 .. Len(list) : list[i] = p
  /\ \A u \in Uses : \A i, j \in 1 .. Len(list) : list[i] = u[1] /\ list[j] = u[2] => i < j

ProcessTypes ==
  /\ server \in [started : 0 .. 7, cleanup : Seq(Parted), stage : {"starting", "serving", "closing", "closed"},
                  left : Seq(Parted), tried : Seq(Parted), failed : SUBSET Parted]
  /\ entry \in [stage : {"starting", "failing", "waiting", "closing", "ended"}, code : Nat, exit : Nat]
\* What was tried and what is left are the list in its order.
CleanupSplit ==
  /\ server.cleanup = Listing[server.started]
  /\ server.stage \in {"starting", "serving"} => server.tried = <<>>
  /\ server.stage \in {"closing", "closed"} =>
       /\ Len(server.tried) + Len(server.left) = Len(server.cleanup)
       /\ \A i \in 1 .. Len(server.tried) : server.tried[i] = server.cleanup[i]
       /\ \A i \in 1 .. Len(server.left) : server.left[i] = server.cleanup[Len(server.tried) + i]
  /\ server.stage = "closed" => server.left = <<>>
ExitTrue ==
  /\ entry.stage \in {"closing", "failing", "ended"} => server.stage \in {"closing", "closed"}
  /\ entry.stage = "ended" /\ entry.exit # 1 => server.stage = "closed" /\ server.failed = {}
ProcessInvariant == ProcessTypes /\ CleanupSplit /\ ExitTrue

LEMMA ListingValues ==
  /\ Listing[0] = <<>> /\ Listing[1] = <<"server">> /\ Listing[2] = <<"server">> /\ Listing[3] = <<"server", "tracer">>
  /\ Listing[4] = <<"navigator", "server", "tracer">> /\ Listing[5] = <<"delivery", "navigator", "server", "tracer">>
  /\ Listing[6] = <<"session", "delivery", "navigator", "server", "tracer">> /\ Listing[7] = Listing[6]
BY DEF Listing

LEMMA StartsValues ==
  /\ Len(Starts) = 7 /\ Starts[1] = "server" /\ Starts[2] = "data" /\ Starts[3] = "tracer" /\ Starts[4] = "navigator"
  /\ Starts[5] = "delivery" /\ Starts[6] = "session" /\ Starts[7] = "transport"
BY DEF Starts

\* A sequence with one more element in front.
LEMMA Prepended ==
  ASSUME NEW S, NEW s \in Seq(S), NEW x \in S
  PROVE  /\ <<x>> \o s \in Seq(S) /\ Len(s) \in Nat /\ Len(<<x>> \o s) = Len(s) + 1 /\ (<<x>> \o s)[1] = x
         /\ \A i \in 1 .. Len(s) : (<<x>> \o s)[i + 1] = s[i]
<1>1. <<x>> \in Seq(S) /\ Len(<<x>>) = 1 /\ <<x>>[1] = x
  OBVIOUS
<1> QED BY <1>1

LEMMA SameSequence ==
  ASSUME NEW S, NEW s \in Seq(S), NEW t \in Seq(S), Len(s) = Len(t), \A i \in 1 .. Len(s) : s[i] = t[i]
  PROVE  s = t
OBVIOUS

\* Such sequences are told by their elements.
LEMMA AppendedIs ==
  ASSUME NEW S, NEW s \in Seq(S), NEW t \in Seq(S), NEW x \in S,
         Len(t) = Len(s) + 1, t[Len(s) + 1] = x, \A i \in 1 .. Len(s) : t[i] = s[i]
  PROVE  Append(s, x) = t
<1> DEFINE w == Append(s, x)
<1>1. /\ w \in Seq(S) /\ Len(s) \in Nat /\ Len(w) = Len(s) + 1 /\ w[Len(s) + 1] = x
      /\ \A i \in 1 .. Len(s) : w[i] = s[i]
  BY Appended
<1> HIDE DEF w
<1>2. \A i \in 1 .. Len(w) : i = Len(s) + 1 \/ i \in 1 .. Len(s)
  BY <1>1
<1>3. \A i \in 1 .. Len(w) : w[i] = t[i]
  BY <1>1, <1>2
<1>4. w = t
  BY <1>1, <1>3, SameSequence
<1> QED BY <1>4 DEF w

LEMMA PrependedIs ==
  ASSUME NEW S, NEW s \in Seq(S), NEW t \in Seq(S), NEW x \in S,
         Len(t) = Len(s) + 1, t[1] = x, \A i \in 1 .. Len(s) : t[i + 1] = s[i]
  PROVE  <<x>> \o s = t
<1> DEFINE w == <<x>> \o s
<1>1. /\ w \in Seq(S) /\ Len(s) \in Nat /\ Len(w) = Len(s) + 1 /\ w[1] = x
      /\ \A i \in 1 .. Len(s) : w[i + 1] = s[i]
  BY Prepended
<1> HIDE DEF w
<1>2. \A i \in 1 .. Len(w) : w[i] = t[i]
  <2> SUFFICES ASSUME NEW i \in 1 .. Len(w) PROVE w[i] = t[i]
    OBVIOUS
  <2>1. CASE i = 1
    BY <2>1, <1>1
  <2>2. CASE i # 1
    <3> DEFINE k == i - 1
    <3>1. k \in 1 .. Len(s) /\ k + 1 = i
      BY <2>2, <1>1
    <3> HIDE DEF k
    <3>2. w[k + 1] = s[k] /\ t[k + 1] = s[k]
      BY <3>1, <1>1
    <3> QED BY <3>1, <3>2
  <2> QED BY <2>1, <2>2
<1>3. w = t
  BY <1>1, <1>2, SameSequence
<1> QED BY <1>3 DEF w

\* One more part gives the next listing.
LEMMA ListingGrows ==
  ASSUME NEW n \in 0 .. 6
  PROVE  CleanupListed(Starts[n + 1], Listing[n]) = Listing[n + 1]
<1>1. CASE n = 0
  BY <1>1, ListingValues, StartsValues DEF CleanupListed
<1>2. CASE n = 1
  BY <1>2, ListingValues, StartsValues DEF CleanupListed
<1>3. CASE n = 2
  <2>1. Append(<<"server">>, "tracer") = <<"server", "tracer">>
    <3> DEFINE short == <<"server">>
               long == <<"server", "tracer">>
    <3>1. short \in Seq(Parted) /\ Len(short) = 1 /\ short[1] = "server"
      BY DEF Parted
    <3>2. long \in Seq(Parted) /\ Len(long) = 2 /\ long[1] = "server" /\ long[2] = "tracer"
      BY DEF Parted
    <3> HIDE DEF short, long
    <3>3. PICK one \in Parted : one = "tracer"
      BY DEF Parted
    <3>4. \A i \in 1 .. Len(short) : long[i] = short[i]
      BY <3>1, <3>2
    <3>5. /\ short \in Seq(Parted) /\ long \in Seq(Parted) /\ one \in Parted
          /\ Len(long) = Len(short) + 1 /\ long[Len(short) + 1] = one
      BY <3>1, <3>2, <3>3
    <3>6. Append(short, one) = long
      BY <3>4, <3>5, AppendedIs, ZenonT(60)
    <3> QED BY <3>3, <3>6 DEF short, long
  <2>2. CleanupListed("tracer", Listing[2]) = Listing[3]
    BY <2>1, ListingValues DEF CleanupListed
  <2> QED BY <1>3, <2>2, StartsValues
<1>4. CASE n = 3
  <2>1. <<"navigator">> \o <<"server", "tracer">> = <<"navigator", "server", "tracer">>
    <3> DEFINE short == <<"server", "tracer">>
               long == <<"navigator", "server", "tracer">>
    <3>1. short \in Seq(Parted) /\ Len(short) = 2 /\ short[1] = "server" /\ short[2] = "tracer"
      BY DEF Parted
    <3>2. long \in Seq(Parted) /\ Len(long) = 3 /\ long[1] = "navigator" /\ long[2] = "server" /\ long[3] = "tracer"
      BY DEF Parted
    <3> HIDE DEF short, long
    <3>3. PICK one \in Parted : one = "navigator"
      BY DEF Parted
    <3>4. long[1 + 1] = short[1] /\ long[2 + 1] = short[2]
      BY <3>1, <3>2
    <3>5. \A i \in 1 .. Len(short) : long[i + 1] = short[i]
      BY <3>1, <3>4
    <3>6. short \in Seq(Parted) /\ long \in Seq(Parted) /\ one \in Parted /\ Len(long) = Len(short) + 1 /\ long[1] = one
      BY <3>1, <3>2, <3>3
    <3>7. <<one>> \o short = long
      BY <3>5, <3>6, PrependedIs, ZenonT(60)
    <3> QED BY <3>3, <3>7 DEF short, long
  <2>2. CleanupListed("navigator", Listing[3]) = Listing[4]
    BY <2>1, ListingValues DEF CleanupListed
  <2> QED BY <1>4, <2>2, StartsValues
<1>5. CASE n = 4
  <2>1. <<"delivery">> \o <<"navigator", "server", "tracer">> = <<"delivery", "navigator", "server", "tracer">>
    <3> DEFINE short == <<"navigator", "server", "tracer">>
               long == <<"delivery", "navigator", "server", "tracer">>
    <3>1. short \in Seq(Parted) /\ Len(short) = 3 /\ short[1] = "navigator" /\ short[2] = "server" /\ short[3] = "tracer"
      BY DEF Parted
    <3>2. long \in Seq(Parted) /\ Len(long) = 4 /\ long[1] = "delivery" /\ long[2] = "navigator" /\ long[3] = "server" /\ long[4] = "tracer"
      BY DEF Parted
    <3> HIDE DEF short, long
    <3>3. PICK one \in Parted : one = "delivery"
      BY DEF Parted
    <3>4. long[1 + 1] = short[1] /\ long[2 + 1] = short[2] /\ long[3 + 1] = short[3]
      BY <3>1, <3>2
    <3>5. \A i \in 1 .. Len(short) : long[i + 1] = short[i]
      BY <3>1, <3>4
    <3>6. short \in Seq(Parted) /\ long \in Seq(Parted) /\ one \in Parted /\ Len(long) = Len(short) + 1 /\ long[1] = one
      BY <3>1, <3>2, <3>3
    <3>7. <<one>> \o short = long
      BY <3>5, <3>6, PrependedIs, ZenonT(60)
    <3> QED BY <3>3, <3>7 DEF short, long
  <2>2. CleanupListed("delivery", Listing[4]) = Listing[5]
    BY <2>1, ListingValues DEF CleanupListed
  <2> QED BY <1>5, <2>2, StartsValues
<1>6. CASE n = 5
  <2>1. <<"session">> \o <<"delivery", "navigator", "server", "tracer">> = <<"session", "delivery", "navigator", "server", "tracer">>
    <3> DEFINE short == <<"delivery", "navigator", "server", "tracer">>
               long == <<"session", "delivery", "navigator", "server", "tracer">>
    <3>1. short \in Seq(Parted) /\ Len(short) = 4 /\ short[1] = "delivery" /\ short[2] = "navigator" /\ short[3] = "server" /\ short[4] = "tracer"
      BY DEF Parted
    <3>2. long \in Seq(Parted) /\ Len(long) = 5 /\ long[1] = "session" /\ long[2] = "delivery" /\ long[3] = "navigator" /\ long[4] = "server" /\ long[5] = "tracer"
      BY DEF Parted
    <3> HIDE DEF short, long
    <3>3. PICK one \in Parted : one = "session"
      BY DEF Parted
    <3>4. long[1 + 1] = short[1] /\ long[2 + 1] = short[2] /\ long[3 + 1] = short[3] /\ long[4 + 1] = short[4]
      BY <3>1, <3>2
    <3>5. \A i \in 1 .. Len(short) : long[i + 1] = short[i]
      BY <3>1, <3>4
    <3>6. short \in Seq(Parted) /\ long \in Seq(Parted) /\ one \in Parted /\ Len(long) = Len(short) + 1 /\ long[1] = one
      BY <3>1, <3>2, <3>3
    <3>7. <<one>> \o short = long
      BY <3>5, <3>6, PrependedIs, ZenonT(60)
    <3> QED BY <3>3, <3>7 DEF short, long
  <2>2. CleanupListed("session", Listing[5]) = Listing[6]
    BY <2>1, ListingValues DEF CleanupListed
  <2> QED BY <1>6, <2>2, StartsValues
<1>7. CASE n = 6
  <2>1. CleanupListed("transport", Listing[6]) = Listing[6]
    BY DEF CleanupListed
  <2>2. Listing[7] = Listing[6]
    BY ListingValues
  <2> QED BY <1>7, <2>1, <2>2, StartsValues
<1> QED BY <1>1, <1>2, <1>3, <1>4, <1>5, <1>6, <1>7

\* The parts that have a cleanup, for each number of parts started.
LEMMA BegunValues ==
  /\ BegunOf[0] = {} /\ BegunOf[1] = {"server"} /\ BegunOf[2] = {"server"} /\ BegunOf[3] = {"server", "tracer"}
  /\ BegunOf[4] = {"server", "tracer", "navigator"} /\ BegunOf[5] = {"server", "tracer", "navigator", "delivery"}
  /\ BegunOf[6] = Parted /\ BegunOf[7] = Parted
<1>0. BegunOf[0] = {}
  BY DEF BegunOf
<1>1. BegunOf[1] = {"server"}
  BY StartsValues DEF BegunOf
<1>2. BegunOf[2] = {"server"}
  BY StartsValues DEF BegunOf
<1>3. BegunOf[3] = {"server", "tracer"}
  BY StartsValues DEF BegunOf
<1>4. BegunOf[4] = {"server", "tracer", "navigator"}
  BY StartsValues DEF BegunOf
<1>5. BegunOf[5] = {"server", "tracer", "navigator", "delivery"}
  BY StartsValues DEF BegunOf
<1>6. BegunOf[6] = Parted
  BY StartsValues DEF BegunOf, Parted
<1>7. BegunOf[7] = Parted
  BY StartsValues DEF BegunOf, Parted
<1> QED BY <1>0, <1>1, <1>2, <1>3, <1>4, <1>5, <1>6, <1>7

LEMMA ListingsOnce ==
  ASSUME NEW n \in 0 .. 7
  PROVE  Listing[n] \in Seq(Parted) /\ ListsOnce(Listing[n], BegunOf[n])
<1>0. CASE n = 0
  BY <1>0, ListingValues, BegunValues DEF ListsOnce, Uses, Parted
<1>1. CASE n \in {1, 2}
  <2>1. Listing[n] = <<"server">> /\ BegunOf[n] = {"server"}
    BY <1>1, ListingValues, BegunValues
  <2> QED BY <2>1 DEF ListsOnce, Uses, Parted
<1>3. CASE n = 3
  <2> DEFINE s == Listing[n]
             B == BegunOf[n]
  <2>1. Len(s) = 2 /\ s[1] = "server" /\ s[2] = "tracer"
    BY <1>3, ListingValues
  <2>2. s \in Seq(Parted)
    BY <1>3, ListingValues DEF Parted
  <2>3. B = {"server", "tracer"}
    BY <1>3, BegunValues DEF Parted
  <2> HIDE DEF s, B
  <2>4. \A i, j \in 1 .. Len(s) : s[i] = s[j] => i = j
    BY <2>1
  <2>5. \A i \in 1 .. Len(s) : s[i] \in B
    BY <2>1, <2>3
  <2>6. \A p \in B : \E i \in 1 .. Len(s) : s[i] = p
    BY <2>1, <2>3
  <2>7. \A u \in Uses : \A i, j \in 1 .. Len(s) : s[i] = u[1] /\ s[j] = u[2] => i < j
    BY <2>1 DEF Uses
  <2> QED BY <2>2, <2>4, <2>5, <2>6, <2>7 DEF ListsOnce, s, B
<1>4. CASE n = 4
  <2> DEFINE s == Listing[n]
             B == BegunOf[n]
  <2>1. Len(s) = 3 /\ s[1] = "navigator" /\ s[2] = "server" /\ s[3] = "tracer"
    BY <1>4, ListingValues
  <2>2. s \in Seq(Parted)
    BY <1>4, ListingValues DEF Parted
  <2>3. B = {"navigator", "server", "tracer"}
    BY <1>4, BegunValues DEF Parted
  <2> HIDE DEF s, B
  <2>4. \A i, j \in 1 .. Len(s) : s[i] = s[j] => i = j
    BY <2>1
  <2>5. \A i \in 1 .. Len(s) : s[i] \in B
    BY <2>1, <2>3
  <2>6. \A p \in B : \E i \in 1 .. Len(s) : s[i] = p
    BY <2>1, <2>3
  <2>7. \A u \in Uses : \A i, j \in 1 .. Len(s) : s[i] = u[1] /\ s[j] = u[2] => i < j
    BY <2>1 DEF Uses
  <2> QED BY <2>2, <2>4, <2>5, <2>6, <2>7 DEF ListsOnce, s, B
<1>5. CASE n = 5
  <2> DEFINE s == Listing[n]
             B == BegunOf[n]
  <2>1. Len(s) = 4 /\ s[1] = "delivery" /\ s[2] = "navigator" /\ s[3] = "server" /\ s[4] = "tracer"
    BY <1>5, ListingValues
  <2>2. s \in Seq(Parted)
    BY <1>5, ListingValues DEF Parted
  <2>3. B = {"delivery", "navigator", "server", "tracer"}
    BY <1>5, BegunValues DEF Parted
  <2> HIDE DEF s, B
  <2>4. \A i, j \in 1 .. Len(s) : s[i] = s[j] => i = j
    BY <2>1
  <2>5. \A i \in 1 .. Len(s) : s[i] \in B
    BY <2>1, <2>3
  <2>6. \A p \in B : \E i \in 1 .. Len(s) : s[i] = p
    BY <2>1, <2>3
  <2>7. \A u \in Uses : \A i, j \in 1 .. Len(s) : s[i] = u[1] /\ s[j] = u[2] => i < j
    BY <2>1 DEF Uses
  <2> QED BY <2>2, <2>4, <2>5, <2>6, <2>7 DEF ListsOnce, s, B
<1>6. CASE n \in {6, 7}
  <2> DEFINE s == Listing[n]
             B == BegunOf[n]
  <2>0. s = <<"session", "delivery", "navigator", "server", "tracer">>
    <3>1. Listing[6] = <<"session", "delivery", "navigator", "server", "tracer">> /\ Listing[7] = Listing[6]
      BY ListingValues
    <3> QED BY <3>1, <1>6
  <2>1. Len(s) = 5 /\ s[1] = "session" /\ s[2] = "delivery" /\ s[3] = "navigator" /\ s[4] = "server" /\ s[5] = "tracer"
    BY <2>0
  <2>2. s \in Seq(Parted)
    BY <2>0 DEF Parted
  <2>3. B = {"session", "delivery", "navigator", "server", "tracer"}
    BY <1>6, BegunValues DEF Parted
  <2> HIDE DEF s, B
  <2>4. \A i, j \in 1 .. Len(s) : s[i] = s[j] => i = j
    BY <2>1
  <2>5. \A i \in 1 .. Len(s) : s[i] \in B
    BY <2>1, <2>3
  <2>6. \A p \in B : \E i \in 1 .. Len(s) : s[i] = p
    BY <2>1, <2>3
  <2>7. \A u \in Uses : \A i, j \in 1 .. Len(s) : s[i] = u[1] /\ s[j] = u[2] => i < j
    BY <2>1 DEF Uses
  <2> QED BY <2>2, <2>4, <2>5, <2>6, <2>7 DEF ListsOnce, s, B
<1> QED BY <1>0, <1>1, <1>3, <1>4, <1>5, <1>6

ServerRecord ==
  [started : 0 .. 7, cleanup : Seq(Parted), stage : {"starting", "serving", "closing", "closed"},
   left : Seq(Parted), tried : Seq(Parted), failed : SUBSET Parted]

LEMMA ProcessBegins == ProcessInit => ProcessInvariant
<1> SUFFICES ASSUME ProcessInit PROVE ProcessInvariant
  OBVIOUS
<1>1. server = [started |-> 0, cleanup |-> <<>>, stage |-> "starting", left |-> <<>>, tried |-> <<>>, failed |-> {}]
      /\ entry = [stage |-> "starting", code |-> 0, exit |-> 0]
  BY DEF ProcessInit
<1>2. <<>> \in Seq(Parted) /\ {} \in SUBSET Parted
  OBVIOUS
<1>3. ProcessTypes
  BY <1>1, <1>2 DEF ProcessTypes
<1>4. CleanupSplit
  BY <1>1, ListingValues DEF CleanupSplit
<1>5. ExitTrue
  BY <1>1 DEF ExitTrue
<1> QED BY <1>3, <1>4, <1>5 DEF ProcessInvariant

\* The process leaves or waits: the server does not move.
LEMMA EntryMoves ==
  ASSUME ProcessInvariant, server' = server, ExitTrue',
         entry' \in [stage : {"starting", "failing", "waiting", "closing", "ended"}, code : Nat, exit : Nat]
  PROVE  ProcessInvariant'
BY DEF ProcessInvariant, ProcessTypes, CleanupSplit

\* A close begins, or has begun.
LEMMA CloseStartedKeeps ==
  ASSUME ProcessInvariant, server' = CloseStarted(server)
  PROVE  /\ server' \in ServerRecord /\ CleanupSplit' /\ server'.stage \in {"closing", "closed"}
         /\ server'.failed = server.failed /\ (server.stage = "closed" => server'.stage = "closed")
<1>0. server \in ServerRecord
  BY DEF ProcessInvariant, ProcessTypes, ServerRecord
<1>1. CASE server.stage \in {"closing", "closed"}
  <2>1. server' = server
    BY <1>1 DEF CloseStarted
  <2> QED BY <2>1, <1>0, <1>1 DEF ProcessInvariant, CleanupSplit
<1>2. CASE server.stage \notin {"closing", "closed"}
  <2>1. server' = [server EXCEPT !.stage = "closing", !.left = server.cleanup]
    BY <1>2 DEF CloseStarted
  <2>2. /\ server' \in ServerRecord /\ server'.stage = "closing" /\ server'.left = server.cleanup
        /\ server'.started = server.started /\ server'.cleanup = server.cleanup
        /\ server'.tried = server.tried /\ server'.failed = server.failed
    BY <2>1, <1>0 DEF ServerRecord
  <2>3. server.tried = <<>> /\ server.stage \in {"starting", "serving"}
    BY <1>0, <1>2 DEF ProcessInvariant, CleanupSplit, ServerRecord
  <2>4. Len(server'.tried) = 0 /\ Len(server'.left) \in Nat
    BY <2>2, <2>3 DEF ServerRecord
  <2>5. \A k \in 1 .. Len(server'.left) : 0 + k = k
    BY <2>4
  <2>6. CleanupSplit'
    BY <2>2, <2>4, <2>5 DEF ProcessInvariant, CleanupSplit
  <2> QED BY <2>2, <2>3, <2>6
<1> QED BY <1>1, <1>2

LEMMA StartPartKeeps ==
  ASSUME ProcessInvariant, StartPart
  PROVE  ProcessInvariant'
<1>0. server \in ServerRecord
  BY DEF ProcessInvariant, ProcessTypes, ServerRecord
<1>1. /\ server.stage = "starting" /\ server.started < 7 /\ UNCHANGED entry
      /\ server' = [server EXCEPT !.started = @ + 1, !.cleanup = CleanupListed(Starts[server.started + 1], @)]
  BY StartsValues DEF StartPart
<1> DEFINE n == server.started
           longer == CleanupListed(Starts[n + 1], server.cleanup)
           m == n + 1
<1>2. n \in 0 .. 6 /\ m \in 0 .. 7
  BY <1>0, <1>1 DEF ServerRecord
<1>3. longer = Listing[m] /\ longer \in Seq(Parted)
  BY <1>2, ListingGrows, ListingsOnce DEF ProcessInvariant, CleanupSplit
<1>4. server' = [server EXCEPT !.started = m, !.cleanup = longer]
  BY <1>1
<1> HIDE DEF longer, m
<1>5. /\ server' \in ServerRecord /\ server'.started = m /\ server'.cleanup = longer /\ server'.stage = "starting"
      /\ server'.left = server.left /\ server'.tried = server.tried /\ server'.failed = server.failed
  BY <1>0, <1>1, <1>2, <1>3, <1>4 DEF ServerRecord
<1>6. ProcessTypes'
  BY <1>1, <1>5 DEF ProcessInvariant, ProcessTypes, ServerRecord
<1>7. CleanupSplit'
  BY <1>1, <1>3, <1>5 DEF ProcessInvariant, CleanupSplit
<1>8. ExitTrue'
  BY <1>1, <1>5 DEF ProcessInvariant, ExitTrue
<1> QED BY <1>6, <1>7, <1>8 DEF ProcessInvariant

LEMMA StartFailsKeeps ==
  ASSUME ProcessInvariant, StartFails
  PROVE  ProcessInvariant'
<1>1. server' = CloseStarted(server) /\ entry' = [entry EXCEPT !.stage = "failing"]
  BY DEF StartFails
<1>2. entry' \in [stage : {"starting", "failing", "waiting", "closing", "ended"}, code : Nat, exit : Nat] /\ entry'.stage = "failing"
  BY <1>1 DEF ProcessInvariant, ProcessTypes
<1>3. server' \in ServerRecord /\ CleanupSplit' /\ server'.stage \in {"closing", "closed"}
  BY <1>1, CloseStartedKeeps
<1>4. ExitTrue'
  BY <1>2, <1>3 DEF ExitTrue
<1> QED BY <1>2, <1>3, <1>4 DEF ProcessInvariant, ProcessTypes, ServerRecord

LEMMA TransportClosesKeeps ==
  ASSUME ProcessInvariant, TransportCloses
  PROVE  ProcessInvariant'
<1>1. server' = CloseStarted(server) /\ entry' = entry
  BY DEF TransportCloses
<1>3. /\ server' \in ServerRecord /\ CleanupSplit' /\ server'.stage \in {"closing", "closed"}
      /\ server'.failed = server.failed /\ (server.stage = "closed" => server'.stage = "closed")
  BY <1>1, CloseStartedKeeps
<1>4. ExitTrue'
  BY <1>1, <1>3 DEF ProcessInvariant, ExitTrue
<1> QED BY <1>1, <1>3, <1>4 DEF ProcessInvariant, ProcessTypes, ServerRecord

LEMMA ServesKeeps ==
  ASSUME ProcessInvariant, Serves
  PROVE  ProcessInvariant'
<1>1. /\ entry.stage = "starting" /\ entry' = [entry EXCEPT !.stage = "waiting"]
      /\ server' = IF server.stage = "starting" THEN [server EXCEPT !.stage = "serving"] ELSE server
  BY DEF Serves
<1>2. entry' \in [stage : {"starting", "failing", "waiting", "closing", "ended"}, code : Nat, exit : Nat] /\ entry'.stage = "waiting"
  BY <1>1 DEF ProcessInvariant, ProcessTypes
<1>3. ExitTrue'
  BY <1>2 DEF ExitTrue
<1>4. CASE server.stage = "starting"
  <2>0. server \in ServerRecord
    BY DEF ProcessInvariant, ProcessTypes, ServerRecord
  <2>1. /\ server' \in ServerRecord /\ server'.stage = "serving" /\ server'.left = server.left /\ server'.tried = server.tried
        /\ server'.started = server.started /\ server'.cleanup = server.cleanup
    BY <2>0, <1>1, <1>4 DEF ServerRecord
  <2>2. CleanupSplit'
    BY <2>1, <1>4 DEF ProcessInvariant, CleanupSplit
  <2> QED BY <2>1, <2>2, <1>2, <1>3 DEF ProcessInvariant, ProcessTypes, ServerRecord
<1>5. CASE server.stage # "starting"
  BY <1>1, <1>2, <1>3, <1>5, EntryMoves
<1> QED BY <1>4, <1>5

LEMMA CleanUpKeeps ==
  ASSUME ProcessInvariant, CleanUp
  PROVE  ProcessInvariant'
<1>0. server \in ServerRecord
  BY DEF ProcessInvariant, ProcessTypes, ServerRecord
<1> DEFINE p == Head(server.left)
           rest == Tail(server.left)
           done == Append(server.tried, p)
<1>1. PICK bad \in {{}, {p}} :
        /\ server.stage = "closing" /\ server.left # <<>> /\ UNCHANGED entry
        /\ server' = [server EXCEPT !.left = rest, !.tried = done, !.failed = server.failed \union bad]
  BY DEF CleanUp
<1>2. /\ Len(server.left) \in Nat /\ Len(server.left) >= 1 /\ p = server.left[1] /\ p \in Parted
      /\ rest \in Seq(Parted) /\ Len(rest) = Len(server.left) - 1
      /\ \A i \in 1 .. Len(rest) : rest[i] = server.left[i + 1]
  BY <1>0, <1>1, HeadAndTail DEF ServerRecord
<1>3. /\ done \in Seq(Parted) /\ Len(server.tried) \in Nat /\ Len(done) = Len(server.tried) + 1
      /\ \A i \in 1 .. Len(server.tried) : done[i] = server.tried[i]
      /\ done[Len(server.tried) + 1] = p
  <2>1. server.tried \in Seq(Parted)
    BY <1>0 DEF ServerRecord
  <2>2. p \in Parted
    BY <1>2
  <2> HIDE DEF p
  <2> QED BY <2>1, <2>2, Appended
<1>4. server.failed \union bad \in SUBSET Parted
  BY <1>0, <1>2 DEF ServerRecord
<1> DEFINE f == server.failed \union bad
<1> HIDE DEF p, rest, done, f
<1>5. server' = [server EXCEPT !.left = rest, !.tried = done, !.failed = f] /\ f \in SUBSET Parted
  BY <1>1, <1>4 DEF f
<1>6. /\ server' \in ServerRecord /\ server'.started = server.started /\ server'.cleanup = server.cleanup
      /\ server'.stage = "closing" /\ server'.left = rest /\ server'.tried = done
  BY <1>0, <1>1, <1>2, <1>3, <1>5 DEF ServerRecord
<1>7. /\ Len(server.tried) + Len(server.left) = Len(server.cleanup)
      /\ \A i \in 1 .. Len(server.tried) : server.tried[i] = server.cleanup[i]
      /\ \A i \in 1 .. Len(server.left) : server.left[i] = server.cleanup[Len(server.tried) + i]
  BY <1>1 DEF ProcessInvariant, CleanupSplit
<1>13. PICK a, b \in Nat : a = Len(server.tried) /\ b = Len(server.left)
  BY <1>2, <1>3
<1>14. Len(done) = a + 1 /\ Len(rest) = b - 1 /\ Len(server.cleanup) = a + b
  BY <1>2, <1>3, <1>7, <1>13
<1>8. Len(done) + Len(rest) = Len(server.cleanup)
  BY <1>14
<1>9. \A i \in 1 .. Len(done) : done[i] = server.cleanup[i]
  <2>1. p = server.cleanup[Len(server.tried) + 1]
    BY <1>2, <1>7
  <2>2. \A i \in 1 .. Len(done) : i = Len(server.tried) + 1 \/ i \in 1 .. Len(server.tried)
    BY <1>3
  <2> QED BY <2>1, <2>2, <1>3, <1>7
<1>10. \A i \in 1 .. Len(rest) : rest[i] = server.cleanup[Len(done) + i]
  <2> SUFFICES ASSUME NEW i \in 1 .. Len(rest) PROVE rest[i] = server.cleanup[Len(done) + i]
    OBVIOUS
  <2>0. PICK k \in Nat : k = i /\ k \in 1 .. b - 1
    BY <1>14
  <2>1. i + 1 \in 1 .. Len(server.left) /\ Len(server.tried) + (i + 1) = Len(done) + i
    <3>1. k + 1 \in 1 .. b /\ a + (k + 1) = (a + 1) + k
      BY <2>0
    <3> QED BY <3>1, <2>0, <1>13, <1>14
  <2>2. rest[i] = server.left[i + 1]
    BY <1>2
  <2>3. server.left[i + 1] = server.cleanup[Len(server.tried) + (i + 1)]
    BY <2>1, <1>7
  <2> QED BY <2>1, <2>2, <2>3
<1>11. CleanupSplit'
  <2>1. server'.cleanup = Listing[server'.started]
    BY <1>6 DEF ProcessInvariant, CleanupSplit
  <2> QED BY <2>1, <1>6, <1>8, <1>9, <1>10 DEF CleanupSplit
<1>12. ExitTrue'
  BY <1>1, <1>6 DEF ProcessInvariant, ExitTrue
<1> QED BY <1>1, <1>6, <1>11, <1>12 DEF ProcessInvariant, ProcessTypes, ServerRecord

LEMMA AllClosedKeeps ==
  ASSUME ProcessInvariant, AllClosed
  PROVE  ProcessInvariant'
<1>0. server \in ServerRecord
  BY DEF ProcessInvariant, ProcessTypes, ServerRecord
<1>1. /\ server.stage = "closing" /\ server.left = <<>> /\ UNCHANGED entry
      /\ server' = [server EXCEPT !.stage = "closed"]
  BY DEF AllClosed
<1>2. /\ server' \in ServerRecord /\ server'.started = server.started /\ server'.cleanup = server.cleanup
      /\ server'.stage = "closed" /\ server'.left = server.left /\ server'.tried = server.tried /\ server'.failed = server.failed
  BY <1>0, <1>1 DEF ServerRecord
<1>3. CleanupSplit'
  BY ZenonT(60), <1>1, <1>2 DEF ProcessInvariant, CleanupSplit
<1>4. ExitTrue'
  BY <1>1, <1>2 DEF ProcessInvariant, ExitTrue
<1> QED BY <1>1, <1>2, <1>3, <1>4 DEF ProcessInvariant, ProcessTypes, ServerRecord

LEMMA EndsWithKeeps ==
  ASSUME NEW code \in Codes, ProcessInvariant, EndsWith(code)
  PROVE  ProcessInvariant'
<1>1. server' = CloseStarted(server) /\ entry' = [entry EXCEPT !.stage = "closing", !.code = code] /\ code \in Nat
  BY ProcessAssumption DEF EndsWith
<1>2. entry' \in [stage : {"starting", "failing", "waiting", "closing", "ended"}, code : Nat, exit : Nat] /\ entry'.stage = "closing"
  BY <1>1 DEF ProcessInvariant, ProcessTypes
<1>3. server' \in ServerRecord /\ CleanupSplit' /\ server'.stage \in {"closing", "closed"}
  BY <1>1, CloseStartedKeeps
<1>4. ExitTrue'
  BY <1>2, <1>3 DEF ExitTrue
<1> QED BY <1>2, <1>3, <1>4 DEF ProcessInvariant, ProcessTypes, ServerRecord

LEMMA ExitKeeps ==
  ASSUME ProcessInvariant, Exit
  PROVE  ProcessInvariant'
<1>1. PICK code \in Nat :
        /\ entry' = [entry EXCEPT !.stage = "ended", !.exit = code] /\ server' = server
        /\ server.stage \in {"closing", "closed"}
        /\ code # 1 => server.stage = "closed" /\ server.failed = {}
  <2>1. entry.code \in Nat /\ 1 \in Nat
    BY DEF ProcessInvariant, ProcessTypes
  <2>2. CASE entry.stage = "failing" /\ server.stage = "closed" /\ Leaves(1)
    BY <2>1, <2>2 DEF Leaves
  <2>3. CASE entry.stage = "closing" /\ server.stage = "closed" /\ Leaves(IF server.failed = {} THEN entry.code ELSE 1)
    BY <2>1, <2>3 DEF Leaves
  <2>4. CASE entry.stage = "closing" /\ server.stage = "closing" /\ Leaves(1)
    BY <2>1, <2>4 DEF Leaves
  <2> QED BY <2>2, <2>3, <2>4 DEF Exit
<1>2. /\ entry' \in [stage : {"starting", "failing", "waiting", "closing", "ended"}, code : Nat, exit : Nat]
      /\ entry'.stage = "ended" /\ entry'.exit = code
  BY <1>1 DEF ProcessInvariant, ProcessTypes
<1>3. ExitTrue'
  BY <1>1, <1>2 DEF ExitTrue
<1> QED BY SMTT(40), <1>1, <1>2, <1>3, EntryMoves

LEMMA ProcessStep ==
  ASSUME ProcessInvariant, [ProcessNext]_processVars
  PROVE  ProcessInvariant'
<1>1. CASE UNCHANGED processVars
  BY <1>1 DEF processVars, ProcessInvariant, ProcessTypes, CleanupSplit, ExitTrue
<1>2. CASE ProcessNext
  BY <1>2, StartPartKeeps, StartFailsKeeps, TransportClosesKeeps, ServesKeeps, CleanUpKeeps, AllClosedKeeps, ExitKeeps, EndsWithKeeps
     DEF ProcessNext
<1> QED BY <1>1, <1>2

\* What was tried is the beginning of a list that holds everything once, users
\* before what they use.
LEMMA ProcessSound == ProcessInvariant => ProcessKept
<1> SUFFICES ASSUME ProcessInvariant PROVE ProcessKept
  OBVIOUS
<1> DEFINE list == Listing[server.started]
           tried == server.tried
<1>0. server \in ServerRecord
  BY DEF ProcessInvariant, ProcessTypes, ServerRecord
<1>1. server.started \in 0 .. 7 /\ Begun = BegunOf[server.started]
  BY <1>0 DEF Begun, BegunOf, ServerRecord
<1>2. list \in Seq(Parted) /\ ListsOnce(list, Begun)
  BY <1>1, ListingsOnce
<1>3. /\ tried \in Seq(Parted) /\ Len(tried) \in Nat /\ DOMAIN tried = 1 .. Len(tried)
      /\ Len(list) \in Nat /\ Len(server.left) \in Nat
  BY <1>0, <1>2 DEF ServerRecord
<1>4. Len(tried) <= Len(list) /\ \A i \in 1 .. Len(tried) : tried[i] = list[i]
  <2>1. CASE server.stage \in {"starting", "serving"}
    BY <2>1, <1>3 DEF ProcessInvariant, CleanupSplit
  <2>2. CASE server.stage \in {"closing", "closed"}
    <3>1. Len(tried) + Len(server.left) = Len(list) /\ \A i \in 1 .. Len(tried) : tried[i] = list[i]
      BY <2>2 DEF ProcessInvariant, CleanupSplit
    <3>2. PICK a, b, c \in Nat : a = Len(tried) /\ b = Len(server.left) /\ c = Len(list)
      BY <1>3
    <3> HIDE DEF tried, list
    <3> QED BY <3>1, <3>2
  <2>3. server.stage \in {"starting", "serving", "closing", "closed"}
    BY <1>0 DEF ServerRecord
  <2> QED BY <2>1, <2>2, <2>3
<1>5. server.stage = "closed" => Len(tried) = Len(list)
  <2> SUFFICES ASSUME server.stage = "closed" PROVE Len(tried) = Len(list)
    OBVIOUS
  <2>1. server.left = <<>> /\ Len(tried) + Len(server.left) = Len(list)
    BY DEF ProcessInvariant, CleanupSplit
  <2>2. Len(server.left) = 0
    BY <2>1
  <2> QED BY <2>1, <2>2, <1>3
<1> HIDE DEF list, tried
<1>6. \A i \in 1 .. Len(tried) : i \in 1 .. Len(list) /\ tried[i] = list[i]
  BY <1>3, <1>4
<1>7. IsInjective(tried)
  BY <1>2, <1>3, <1>6 DEF IsInjective, ListsOnce
<1>8. Range(tried) \subseteq Begun
  BY <1>2, <1>3, <1>6 DEF Range, ListsOnce
<1>9. server.stage = "closed" => Range(tried) = Begun
  BY <1>2, <1>3, <1>5, <1>6, <1>8 DEF Range, ListsOnce
<1>10. \A u \in Uses : u[2] \in Range(tried) /\ u[1] \in Begun =>
         \E i, j \in DOMAIN tried : i < j /\ tried[i] = u[1] /\ tried[j] = u[2]
  <2> SUFFICES ASSUME NEW u \in Uses, u[2] \in Range(tried), u[1] \in Begun
               PROVE  \E i, j \in DOMAIN tried : i < j /\ tried[i] = u[1] /\ tried[j] = u[2]
    OBVIOUS
  <2>1. PICK j \in 1 .. Len(tried) : tried[j] = u[2]
    BY <1>3 DEF Range
  <2>2. PICK i \in 1 .. Len(list) : list[i] = u[1]
    BY <1>2 DEF ListsOnce
  <2>3. j \in 1 .. Len(list) /\ list[j] = u[2]
    BY <2>1, <1>6
  <2>4. i < j
    BY <2>2, <2>3, <1>2 DEF ListsOnce
  <2>5. i \in 1 .. Len(tried)
    BY <2>1, <2>2, <2>4, <1>3
  <2> QED BY <2>1, <2>2, <2>4, <2>5, <1>3, <1>6
<1>11. entry.stage = "ended" /\ entry.exit # 1 => server.stage = "closed" /\ server.failed = {}
  BY DEF ProcessInvariant, ExitTrue
<1> QED BY <1>7, <1>8, <1>9, <1>10, <1>11 DEF ProcessKept, tried

(* Nobody is told of roots older than its question, a snapshot that counts as *)
(* fresh is the client's, and whatever ends the process everything started is *)
(* cleaned up once, users first, before it reports success, for any callers,  *)
(* roots, exit codes and interleaving of the two (WorkspaceContext.current,   *)
(* createKiroMcpServer, runKiroMcpProcess).                                   *)
THEOREM SurroundingsHold == ContextSpec /\ ProcessSpec => []SurroundingsKept
<1>1. ContextInvariant /\ ProcessInvariant => SurroundingsKept
  BY ContextSound, ProcessSound DEF SurroundingsKept
<1> QED
  BY <1>1, ContextBegins, ContextStep, ProcessBegins, ProcessStep, PTL DEF ContextSpec, ProcessSpec

-----------------------------------------------------------------------------
(* The configuration of external servers.                                     *)

FileRecord == [id : Nat, bytes : 0 .. Blank]
ConfigurationTypes ==
  /\ live \in FileRecord /\ staged \in FileRecord /\ own \in Nat /\ files \in Nat
  /\ explicit \in 0 .. MaxWrites /\ definitions \in 0 .. Blank /\ doubt \in BOOLEAN /\ stuck \in BOOLEAN
  /\ live.bytes # Blank
\* Identities are handed out once, and the staged file of this process is not
\* the absent one.
Identities ==
  /\ own <= files /\ staged.id <= files
  /\ step \in {"read", "create"} => own = 0
  /\ step \in {"write", "verify", "load", "after", "remove", "unlink", "recheck", "loaded"} => own # 0
\* What has been loaded was read from a file that is ours, and a file that is
\* no longer ours never is again.
LoadedOurs ==
  /\ step = "after" /\ Ours => definitions = explicit
  /\ step \in {"remove", "unlink"} /\ ~doubt => definitions = explicit
  /\ step \in {"recheck", "loaded"} => definitions = explicit
StagedRemoved == step \in {"recheck", "loaded", "failed"} /\ own # 0 => staged.id # own \/ stuck
ConfigurationInvariant == ConfigurationTypes /\ Identities /\ LoadedOurs /\ StagedRemoved

LEMMA ConfigurationBegins == ConfInit => ConfigurationInvariant
<1> SUFFICES ASSUME ConfInit PROVE ConfigurationInvariant
  OBVIOUS
<1>0. MaxWrites \in Nat \ {0} /\ Blank = MaxWrites + 1
  BY ConfigurationAssumption DEF Blank
<1>1. live \in FileRecord /\ staged \in FileRecord /\ live.bytes = 0 /\ staged.id = 0
  BY <1>0 DEF ConfInit, Gone, FileRecord
<1>2. ConfigurationTypes
  <2>1. explicit \in 0 .. MaxWrites /\ definitions \in 0 .. Blank
    BY <1>0 DEF ConfInit
  <2>2. live.bytes # Blank
    BY <1>0, <1>1
  <2>3. own \in Nat /\ files \in Nat /\ doubt \in BOOLEAN /\ stuck \in BOOLEAN
    BY DEF ConfInit
  <2> QED BY <1>1, <2>1, <2>2, <2>3 DEF ConfigurationTypes
<1>3. Identities
  BY <1>1 DEF ConfInit, Identities
<1>4. LoadedOurs /\ StagedRemoved
  BY DEF ConfInit, LoadedOurs, StagedRemoved
<1> QED BY <1>2, <1>3, <1>4 DEF ConfigurationInvariant

\* Others change the files: none of their files becomes ours.
LEMMA OthersKeep ==
  ASSUME ConfigurationInvariant, Others
  PROVE  ConfigurationInvariant'
<1>0. MaxWrites \in Nat
  BY ConfigurationAssumption
<1>1. UNCHANGED <<own, explicit, definitions, doubt, stuck, step>>
  BY DEF Others
<1>2. /\ live' \in FileRecord /\ live'.bytes # Blank /\ staged' \in FileRecord /\ files' \in Nat /\ files <= files'
      /\ staged' = staged \/ (staged'.id = staged.id /\ staged'.bytes = Blank) \/ staged'.id = 0 \/ staged'.id > files
      /\ staged'.id <= files'
  <2>0. /\ live \in FileRecord /\ staged \in FileRecord /\ files \in Nat /\ staged.id <= files /\ live.bytes # Blank
    BY DEF ConfigurationInvariant, ConfigurationTypes, Identities
  <2>1. ASSUME NEW b \in 0 .. MaxWrites, live' = [id |-> files + 1, bytes |-> b] /\ files' = files + 1 /\ UNCHANGED staged
        PROVE  <1>2!:
    BY <2>0, <2>1, <1>0 DEF FileRecord, Blank
  <2>2. ASSUME NEW b \in 0 .. MaxWrites, live' = [live EXCEPT !.bytes = b] /\ UNCHANGED <<staged, files>>
        PROVE  <1>2!:
    BY <2>0, <2>2, <1>0 DEF FileRecord, Blank
  <2>3. CASE live' = Gone /\ UNCHANGED <<staged, files>>
    BY <2>0, <2>3, <1>0 DEF FileRecord, Blank, Gone
  <2>4. CASE staged' = Gone /\ UNCHANGED <<live, files>>
    BY <2>0, <2>4, <1>0 DEF FileRecord, Blank, Gone
  <2>5. CASE staged' = [staged EXCEPT !.bytes = Blank] /\ UNCHANGED <<live, files>>
    BY <2>0, <2>5, <1>0 DEF FileRecord, Blank
  <2>6. ASSUME NEW b \in 0 .. MaxWrites, staged' = [id |-> files + 1, bytes |-> b] /\ files' = files + 1 /\ UNCHANGED live
        PROVE  <1>2!:
    BY <2>0, <2>6, <1>0 DEF FileRecord, Blank
  <2> QED BY <2>1, <2>2, <2>3, <2>4, <2>5, <2>6 DEF Others
<1>3. ConfigurationTypes'
  BY <1>1, <1>2 DEF ConfigurationInvariant, ConfigurationTypes
<1>4. Identities'
  BY <1>1, <1>2 DEF ConfigurationInvariant, ConfigurationTypes, Identities
<1>5. own # 0 /\ staged'.id = own => staged.id = own /\ (staged' = staged \/ staged'.bytes = Blank)
  BY <1>2 DEF ConfigurationInvariant, ConfigurationTypes, Identities, FileRecord
<1>6. explicit # Blank
  BY <1>0 DEF ConfigurationInvariant, ConfigurationTypes, Blank
<1>7. LoadedOurs'
  <2>1. step = "after" => own # 0
    BY DEF ConfigurationInvariant, Identities
  <2>2. step = "after" /\ Ours' => Ours
    BY <2>1, <1>1, <1>5, <1>6 DEF Ours
  <2> QED BY <2>2, <1>1 DEF ConfigurationInvariant, LoadedOurs
<1>8. StagedRemoved'
  BY <1>1, <1>5 DEF ConfigurationInvariant, StagedRemoved
<1> QED BY <1>3, <1>4, <1>7, <1>8 DEF ConfigurationInvariant

\* The steps of this process.
LEMMA ConfigurationMoves ==
  ASSUME ConfigurationInvariant,
         ReadExplicit \/ CreateStaged \/ WriteStaged \/ Verify \/ LoadServers \/ After \/ RemoveStaged \/ Unlink \/ Recheck
  PROVE  ConfigurationInvariant'
<1>0. MaxWrites \in Nat /\ Blank = MaxWrites + 1
  BY ConfigurationAssumption DEF Blank
<1> USE DEF ConfigurationInvariant, ConfigurationTypes, Identities, LoadedOurs, StagedRemoved, FileRecord
<1>1. CASE ReadExplicit
  BY <1>0, <1>1 DEF ReadExplicit
<1>2. CASE CreateStaged
  BY <1>0, <1>2 DEF CreateStaged
<1>3. CASE WriteStaged
  <2>1. CASE /\ staged' = (IF staged.id = own THEN [staged EXCEPT !.bytes = explicit] ELSE staged) /\ step' = "verify" /\ UNCHANGED doubt
    BY <1>0, <1>3, <2>1 DEF WriteStaged
  <2>2. CASE doubt' = TRUE /\ step' = "unlink" /\ UNCHANGED staged
    BY <1>0, <1>3, <2>2 DEF WriteStaged
  <2> QED BY <1>3, <2>1, <2>2 DEF WriteStaged
<1>4. CASE Verify
  BY <1>0, <1>4 DEF Verify, Ours
<1>5. CASE LoadServers
  BY <1>0, <1>5 DEF LoadServers, Ours
<1>6. CASE After
  <2>1. ConfigurationTypes' /\ Identities' /\ StagedRemoved'
    BY <1>0, <1>6 DEF After
  <2>2. LoadedOurs'
    <3>1. step = "after" /\ doubt' = ~Ours /\ step' = "remove" /\ UNCHANGED <<definitions, explicit>>
      BY <1>6 DEF After
    <3>2. ~doubt' => definitions = explicit
      BY <3>1 DEF LoadedOurs
    <3> QED BY <3>1, <3>2
  <2> QED BY <2>1, <2>2
<1>7. CASE RemoveStaged
  <2>1. ConfigurationTypes' /\ Identities' /\ StagedRemoved'
    BY <1>0, <1>7 DEF RemoveStaged
  <2>2. LoadedOurs'
    <3>1. step = "remove" /\ (~doubt' => ~doubt) /\ step' = "unlink" /\ UNCHANGED <<definitions, explicit>>
      BY <1>7 DEF RemoveStaged
    <3>2. ~doubt' => definitions = explicit
      BY <3>1 DEF LoadedOurs
    <3> QED BY <3>1, <3>2
  <2> QED BY <2>1, <2>2
<1>8. CASE Unlink
  <2>1. /\ UNCHANGED <<live, own, explicit, definitions, doubt, files>>
        /\ step' \in {"recheck", "failed"} /\ (step' = "recheck" => ~doubt) /\ step = "unlink"
        /\ \/ staged' = Gone /\ staged.id = own /\ UNCHANGED stuck
           \/ UNCHANGED staged /\ staged.id # own /\ UNCHANGED stuck
           \/ UNCHANGED staged /\ stuck' = TRUE
    BY <1>8 DEF Unlink
  <2>2. Gone \in FileRecord /\ Gone.id = 0
    BY <1>0 DEF Gone
  <2> HIDE DEF FileRecord, Gone
  <2>3. ConfigurationTypes'
    BY <2>1, <2>2
  <2>4. Identities'
    BY <2>1, <2>2, <1>0
  <2>5. LoadedOurs'
    BY <2>1
  <2>6. StagedRemoved'
    BY <2>1, <2>2
  <2> QED BY <2>3, <2>4, <2>5, <2>6
<1>9. CASE Recheck
  BY <1>0, <1>9 DEF Recheck
<1> QED BY <1>1, <1>2, <1>3, <1>4, <1>5, <1>6, <1>7, <1>8, <1>9

LEMMA ConfigurationStep ==
  ASSUME ConfigurationInvariant, [ConfNext]_confVars
  PROVE  ConfigurationInvariant'
<1>1. CASE UNCHANGED confVars
  BY <1>1 DEF confVars, ConfigurationInvariant, ConfigurationTypes, Identities, LoadedOurs, StagedRemoved, Ours
<1>2. CASE ConfNext
  BY <1>2, OthersKeep, ConfigurationMoves DEF ConfNext
<1> QED BY <1>1, <1>2

LEMMA ConfigurationSound == ConfigurationInvariant => SnapshotAccounted
BY DEF ConfigurationInvariant, LoadedOurs, StagedRemoved, SnapshotAccounted

-----------------------------------------------------------------------------
(* The provider of external servers.                                          *)

Attached == {"approving", "queued"} \union Bounded
CallStages == {"idle", "runtime", "terminating", "ok", "failed"} \union Attached
CallerRecord == [pc : CallStages, server : Servers \union {None}, kind : {None, "call", "tools"}, approved : Nat]
LinkRecord == [digest : Nat, live : Nat, state : {"idle", "closing", "failed"}]
Inventories == [Servers -> Callers \union {None}]
AuthorityRecord ==
  [fresh : SUBSET Callers, reserved : SUBSET Servers, invalid : SUBSET Servers, cursors : SUBSET Callers,
   observed : Inventories, listed : Inventories, current : BOOLEAN]
RuntimeStages == {"none", "creating", "ready", "late", "disposed", "undisposed"}
ClosingRecord == [phase : {"open", "lanes", "runtime", "done", "failed"}, had : RuntimeStages]
ProviderTypes ==
  /\ transport \in [Servers -> Nat] /\ mcpRuntime \in RuntimeStages /\ mcpClosing \in ClosingRecord
  /\ caller \in [Callers -> CallerRecord]
  /\ \A c \in Callers : caller[c].pc # "idle" => caller[c].server \in Servers
  /\ lane \in [Servers -> Seq(Callers)]
  /\ raw \in [Callers -> {None, "list", "tool"}]
  /\ link \in [Servers -> LinkRecord]
  /\ authority \in AuthorityRecord

\* Whoever works in a transport, or waits for its end, is the first of its lane.
Leased(c) == raw[c] # None \/ caller[c].pc \in Bounded \union {"terminating"}
FirstOf(c, s) == s \in Servers /\ lane[s] # <<>> /\ Head(lane[s]) = c
LaneKept ==
  /\ \A c \in Callers : Leased(c) => FirstOf(c, caller[c].server)
  /\ \A c \in Callers : caller[c].pc = "queued" => \E i \in 1 .. Len(lane[caller[c].server]) : lane[caller[c].server][i] = c
  /\ \A c \in Callers : raw[c] # None => caller[c].pc \in {"listing", "calling", "terminating", "failed"}
  /\ \A c \in Callers : caller[c].pc \in {"listing", "calling"} => raw[c] # None
\* What is connected is what the connection was last opened for, and what the
\* one at work was approved for.
LinkKept ==
  /\ \A s \in Servers : link[s].live \in {Absent, link[s].digest}
  /\ \A c \in Callers : raw[c] # None => link[caller[c].server].live \in {Absent, caller[c].approved}
\* An inventory belongs to a call of its server that has not failed.
Standing == {"calling", "ok", "recovering"}
CatalogueKept ==
  /\ \A c \in authority.cursors : caller[c].pc # "idle" /\ authority.observed[caller[c].server] = c
  /\ \A s \in Servers, c \in Callers : authority.observed[s] = c => caller[c].server = s /\ caller[c].pc \in Standing
  /\ authority.current => authority.listed = authority.observed
\* Nothing begins without a runtime, or after close has begun.
CloseKept ==
  /\ mcpClosing.phase = "open" => mcpRuntime \in {"none", "creating", "ready"}
  /\ \A c \in Callers : mcpClosing.phase = "open" /\ caller[c].pc \in Attached => mcpRuntime = "ready"
  /\ \A c \in Callers : mcpClosing.phase # "open" => caller[c].pc \notin Bounded
  /\ \A s \in Servers : mcpRuntime \notin {"ready", "undisposed"} => link[s].live = Absent
  /\ \A s \in Servers : mcpClosing.phase \in {"runtime", "done", "failed"} => lane[s] = <<>>
  /\ mcpClosing.phase # "open" /\ mcpClosing.had = "none" => mcpRuntime = "none"
  /\ mcpClosing.phase # "open" /\ mcpClosing.had = "creating" => mcpRuntime # "ready"
  /\ mcpClosing.phase = "done" => mcpRuntime \in {"none", "disposed"}
  /\ mcpClosing.phase = "failed" => mcpRuntime # "ready"
ProviderInvariant == ProviderTypes /\ LaneKept /\ LinkKept /\ CatalogueKept /\ CloseKept

LEMMA AbsentIs == Absent \in Nat /\ None \notin Callers
BY McpAssumption DEF Absent, None

LEMMA ProviderBegins == McpInit => ProviderInvariant
<1> SUFFICES ASSUME McpInit PROVE ProviderInvariant
  OBVIOUS
<1>1. Idle \in CallerRecord /\ Idle.pc = "idle"
  BY DEF Idle, CallerRecord, CallStages, None
<1>2. Unlinked \in LinkRecord /\ Unlinked.live = Absent
  BY AbsentIs DEF Unlinked, LinkRecord
<1>3. mcpClosing \in ClosingRecord /\ mcpClosing.phase = "open" /\ mcpRuntime \in RuntimeStages /\ mcpRuntime = "none"
  BY DEF McpInit, ClosingRecord, RuntimeStages
<1>4. /\ authority \in AuthorityRecord /\ authority.cursors = {} /\ authority.observed = [s \in Servers |-> None]
      /\ authority.listed = [s \in Servers |-> None]
  BY DEF McpInit, AuthorityRecord, Inventories
<1>5. lane \in [Servers -> Seq(Callers)]
  BY DEF McpInit
<1>6. /\ \A c \in Callers : caller[c] = Idle /\ raw[c] = None
      /\ \A s \in Servers : link[s] = Unlinked
      /\ caller \in [Callers -> CallerRecord] /\ link \in [Servers -> LinkRecord] /\ raw \in [Callers -> {None, "list", "tool"}]
      /\ transport \in [Servers -> Nat]
  BY <1>1, <1>2 DEF McpInit
<1>7. ProviderTypes
  BY <1>1, <1>3, <1>4, <1>5, <1>6 DEF ProviderTypes
<1>8. LaneKept /\ LinkKept
  BY <1>1, <1>2, <1>6 DEF LaneKept, LinkKept, Leased, Bounded
<1>9. CatalogueKept
  BY <1>4, AbsentIs DEF CatalogueKept
<1>10. CloseKept
  BY <1>1, <1>2, <1>3, <1>6 DEF CloseKept, Attached, Bounded
<1> QED BY <1>7, <1>8, <1>9, <1>10 DEF ProviderInvariant

\* What entering a stage does.
Moved(c, p) ==
  /\ caller' \in [Callers -> CallerRecord] /\ caller'[c].pc = p
  /\ caller'[c].server = caller[c].server /\ caller'[c].kind = caller[c].kind /\ caller'[c].approved = caller[c].approved
  /\ \A d \in Callers \ {c} : caller'[d] = caller[d]
LEMMA EnterMoves ==
  ASSUME ProviderTypes, NEW c \in Callers, NEW p \in CallStages, Enter(c, p)
  PROVE  Moved(c, p)
<1>1. caller \in [Callers -> CallerRecord] /\ caller' = [caller EXCEPT ![c] = [caller[c] EXCEPT !.pc = p]]
  BY DEF ProviderTypes, Enter
<1>2. [caller[c] EXCEPT !.pc = p] \in CallerRecord
  BY <1>1 DEF CallerRecord
<1>3. [caller[c] EXCEPT !.pc = p].pc = p /\ [caller[c] EXCEPT !.pc = p].server = caller[c].server
      /\ [caller[c] EXCEPT !.pc = p].kind = caller[c].kind /\ [caller[c] EXCEPT !.pc = p].approved = caller[c].approved
  BY <1>1 DEF CallerRecord
<1> HIDE DEF CallerRecord
<1> QED BY <1>1, <1>2, <1>3 DEF Moved

\* Authority that is only lost: nothing is published.
Dwindles(a, b) ==
  /\ b \in AuthorityRecord
  /\ b.cursors \subseteq a.cursors
  /\ \A s \in Servers : b.observed[s] \in {a.observed[s], None}
  /\ \A c \in b.cursors : caller[c].server \in Servers => b.observed[caller[c].server] = a.observed[caller[c].server]
  /\ b.current => a.current /\ b.observed = a.observed /\ b.listed = a.listed
LEMMA EvictedDwindles ==
  ASSUME NEW a \in AuthorityRecord, NEW S \in SUBSET Servers
  PROVE  /\ Dwindles(a, Evicted(a, S))
         /\ \A s \in Servers : Evicted(a, S).observed[s] = IF s \in S THEN None ELSE a.observed[s]
         /\ Evicted(a, S).cursors = {c \in a.cursors : caller[c].server \notin S}
<1> DEFINE f == {c \in a.fresh : caller[c].server \notin S}
           k == {c \in a.cursors : caller[c].server \notin S}
           v == a.invalid \union (a.reserved \intersect S)
           o == [s \in Servers |-> IF s \in S THEN None ELSE a.observed[s]]
<1>1. Evicted(a, S) = [[a EXCEPT !.fresh = f, !.cursors = k, !.invalid = v, !.observed = o] EXCEPT !.current = FALSE]
  BY DEF Evicted, EvictedQuietly
<1>2. f \in SUBSET Callers /\ k \in SUBSET Callers /\ v \in SUBSET Servers /\ o \in Inventories
  BY DEF AuthorityRecord, Inventories
<1>3. \A s \in Servers : o[s] = IF s \in S THEN None ELSE a.observed[s]
  OBVIOUS
<1>4. k = {c \in a.cursors : caller[c].server \notin S}
  OBVIOUS
<1> HIDE DEF f, k, v, o
<1>5. /\ Evicted(a, S) \in AuthorityRecord /\ Evicted(a, S).cursors = k /\ Evicted(a, S).observed = o
      /\ Evicted(a, S).current = FALSE
  BY <1>1, <1>2, Zenon DEF AuthorityRecord
<1> QED BY <1>3, <1>4, <1>5 DEF Dwindles
LEMMA ReleasedIs ==
  ASSUME NEW a \in AuthorityRecord, NEW s \in Servers
  PROVE  /\ Released(a, s) \in AuthorityRecord
         /\ Released(a, s).cursors = a.cursors /\ Released(a, s).observed = a.observed
         /\ Released(a, s).listed = a.listed /\ Released(a, s).current = a.current
<1> DEFINE r == a.reserved \ {s}
           v == a.invalid \ {s}
<1>1. Released(a, s) = [a EXCEPT !.reserved = r, !.invalid = v]
  BY DEF Released
<1>2. r \in SUBSET Servers /\ v \in SUBSET Servers
  BY DEF AuthorityRecord
<1> HIDE DEF r, v
<1> QED BY <1>1, <1>2, Zenon DEF AuthorityRecord
LEMMA FreshIs ==
  ASSUME NEW a \in AuthorityRecord, NEW c \in Callers
  PROVE  Dwindles(a, [a EXCEPT !.fresh = @ \union {c}]) /\ [a EXCEPT !.fresh = @ \union {c}].observed = a.observed
<1> DEFINE f == a.fresh \union {c}
           b == [a EXCEPT !.fresh = f]
<1>1. f \in SUBSET Callers
  BY DEF AuthorityRecord
<1> HIDE DEF f
<1>2. b \in AuthorityRecord /\ b.cursors = a.cursors /\ b.observed = a.observed /\ b.listed = a.listed /\ b.current = a.current
  BY <1>1, Zenon DEF AuthorityRecord
<1> HIDE DEF b
<1>3. Dwindles(a, b) /\ b.observed = a.observed
  BY <1>2 DEF Dwindles
<1> QED BY <1>3 DEF b, f
LEMMA ReservedIs ==
  ASSUME NEW a \in AuthorityRecord, NEW s \in Servers
  PROVE  LET b == [a EXCEPT !.reserved = @ \union {s}] IN
         b \in AuthorityRecord /\ b.cursors = a.cursors /\ b.observed = a.observed /\ b.listed = a.listed /\ b.current = a.current
<1> DEFINE r == a.reserved \union {s}
<1>1. r \in SUBSET Servers
  BY DEF AuthorityRecord
<1> HIDE DEF r
<1>2. LET b == [a EXCEPT !.reserved = r] IN
      b \in AuthorityRecord /\ b.cursors = a.cursors /\ b.observed = a.observed /\ b.listed = a.listed /\ b.current = a.current
  BY <1>1, Zenon DEF AuthorityRecord
<1> QED BY <1>2 DEF r
LEMMA SameDwindles == ASSUME NEW a \in AuthorityRecord PROVE Dwindles(a, a)
BY DEF Dwindles
LEMMA DwindlesOn ==
  ASSUME NEW a \in AuthorityRecord, NEW b \in AuthorityRecord, NEW d \in AuthorityRecord, Dwindles(a, b),
         d.cursors = b.cursors, d.observed = b.observed, d.listed = b.listed, d.current = b.current
  PROVE  Dwindles(a, d)
BY DEF Dwindles
LEMMA FailedDwindles ==
  ASSUME ProviderTypes, NEW c \in Callers, OperationFails(c), caller[c].pc # "idle"
  PROVE  /\ Moved(c, "failed") /\ Dwindles(authority, authority')
         /\ authority'.observed[caller[c].server] = None
<1> DEFINE s == caller[c].server
           e == Evicted(authority, {s})
<1>1. s \in Servers /\ authority \in AuthorityRecord /\ {s} \in SUBSET Servers
  BY DEF ProviderTypes
<1>2. Enter(c, "failed") /\ authority' = Released(e, s)
  BY DEF OperationFails
<1>3. Moved(c, "failed")
  BY <1>2, EnterMoves DEF CallStages
<1>4. Dwindles(authority, e) /\ e \in AuthorityRecord /\ e.observed[s] = None
  <2> HIDE DEF s
  <2>1. Dwindles(authority, e) /\ \A t \in Servers : e.observed[t] = IF t \in {s} THEN None ELSE authority.observed[t]
    BY <1>1, EvictedDwindles, Zenon
  <2> HIDE DEF e
  <2> QED BY <1>1, <2>1 DEF Dwindles
<1> HIDE DEF e
<1>5. authority' \in AuthorityRecord /\ authority'.cursors = e.cursors /\ authority'.observed = e.observed
      /\ authority'.listed = e.listed /\ authority'.current = e.current
  BY <1>1, <1>2, <1>4, ReleasedIs
<1>6. Dwindles(authority, authority')
  BY <1>1, <1>4, <1>5, DwindlesOn
<1> QED BY <1>3, <1>4, <1>5, <1>6

\* Steps of which the invariant is kept, each by its effect on one part.
\* The lanes stay, nobody comes to work in a transport who was not the first
\* of the lane, and who was queued was queued before.
LanesStay ==
  /\ UNCHANGED lane
  /\ \A c \in Callers : Leased(c)' => FirstOf(c, caller'[c].server)
  /\ \A c \in Callers : caller'[c].pc = "queued" => caller[c].pc = "queued" /\ caller'[c].server = caller[c].server
  /\ \A c \in Callers : raw'[c] # None => caller'[c].pc \in {"listing", "calling", "terminating", "failed"}
  /\ \A c \in Callers : caller'[c].pc \in {"listing", "calling"} => raw'[c] # None
LEMMA LanesKept == ASSUME LaneKept, LanesStay PROVE LaneKept'
BY DEF LaneKept, LanesStay, FirstOf
\* Connections are at most lost.
LinksSettle ==
  /\ \A s \in Servers : \/ link'[s].live = link[s].live /\ link'[s].digest = link[s].digest
                        \/ link'[s].live = Absent
  /\ \A c \in Callers : raw'[c] # None =>
       raw[c] # None /\ caller'[c].server = caller[c].server /\ caller'[c].approved = caller[c].approved /\ caller[c].server \in Servers
LEMMA LinksKept == ASSUME LinkKept, LinksSettle PROVE LinkKept'
BY DEF LinkKept, LinksSettle, Absent
\* Authority is at most lost, and goes when a call fails.
Standings ==
  /\ \A c \in Callers : caller[c].pc # "idle" => caller'[c].pc # "idle" /\ caller'[c].server = caller[c].server
  /\ \A c \in Callers : caller[c].pc \in Standing => caller'[c].pc \in Standing \/ authority'.observed[caller[c].server] # c
LEMMA CatalogueLasts ==
  ASSUME ProviderTypes, CatalogueKept, Dwindles(authority, authority'), Standings
  PROVE  CatalogueKept'
<1>0. /\ authority \in AuthorityRecord /\ authority' \in AuthorityRecord
      /\ \A c \in authority.cursors : c \in Callers
      /\ \A c \in authority'.cursors : c \in authority.cursors
  BY DEF ProviderTypes, Dwindles, AuthorityRecord
<1>1. \A c \in authority'.cursors : caller'[c].pc # "idle" /\ authority'.observed[caller'[c].server] = c
  <2> TAKE c \in authority'.cursors
  <2>1. c \in Callers /\ c \in authority.cursors /\ caller[c].pc # "idle" /\ authority.observed[caller[c].server] = c
    BY <1>0 DEF CatalogueKept
  <2>2. caller[c].server \in Servers
    BY <2>1 DEF ProviderTypes
  <2> QED BY <2>1, <2>2 DEF Dwindles, Standings
<1>2. \A s \in Servers, c \in Callers : authority'.observed[s] = c => caller'[c].server = s /\ caller'[c].pc \in Standing
  <2> SUFFICES ASSUME NEW s \in Servers, NEW c \in Callers, authority'.observed[s] = c
               PROVE  caller'[c].server = s /\ caller'[c].pc \in Standing
    OBVIOUS
  <2>1. authority.observed[s] = c
    BY AbsentIs DEF Dwindles
  <2>2. caller[c].server = s /\ caller[c].pc \in Standing
    BY <2>1 DEF CatalogueKept
  <2>3. caller[c].pc # "idle"
    BY <2>2 DEF Standing
  <2> QED BY <2>2, <2>3 DEF Standings
<1>3. authority'.current => authority'.listed = authority'.observed
  BY DEF Dwindles, CatalogueKept
<1> QED BY <1>1, <1>2, <1>3 DEF CatalogueKept
\* The runtime and close stay, and what begins begins while it is ready.
Backstage ==
  /\ UNCHANGED <<mcpRuntime, mcpClosing>>
  /\ \A s \in Servers : link'[s].live \in {link[s].live, Absent} \/ mcpRuntime = "ready"
  /\ \A s \in Servers : lane'[s] = lane[s] \/ lane'[s] = <<>> \/ lane[s] # <<>> \/ mcpClosing.phase = "open"
  /\ \A c \in Callers : caller'[c].pc \in Attached => caller[c].pc \in Attached \/ mcpRuntime = "ready"
  /\ \A c \in Callers : caller'[c].pc \in Bounded => caller[c].pc \in Bounded \/ mcpClosing.phase = "open"
LEMMA CloseStays == ASSUME CloseKept, Backstage PROVE CloseKept'
<1>1. UNCHANGED <<mcpRuntime, mcpClosing>>
  BY DEF Backstage
<1>2. \A c \in Callers : mcpClosing.phase = "open" /\ caller'[c].pc \in Attached => mcpRuntime = "ready"
  BY DEF Backstage, CloseKept
<1>3. \A c \in Callers : mcpClosing.phase # "open" => caller'[c].pc \notin Bounded
  BY DEF Backstage, CloseKept
<1>4. \A s \in Servers : mcpRuntime \notin {"ready", "undisposed"} => link'[s].live = Absent
  BY DEF Backstage, CloseKept
<1>5. \A s \in Servers : mcpClosing.phase \in {"runtime", "done", "failed"} => lane'[s] = <<>>
  BY DEF Backstage, CloseKept
<1> QED BY <1>1, <1>2, <1>3, <1>4, <1>5 DEF CloseKept, Absent
ProviderQuiet == LanesStay /\ LinksSettle /\ Dwindles(authority, authority') /\ Standings /\ Backstage
LEMMA QuietKeeps ==
  ASSUME ProviderInvariant, ProviderTypes', ProviderQuiet
  PROVE  ProviderInvariant'
BY LanesKept, LinksKept, CatalogueLasts, CloseStays DEF ProviderInvariant, ProviderQuiet

\* What a closure that begins leaves of the connections.
LEMMA ClosingIs ==
  ASSUME ProviderTypes, NEW s \in Servers, link' = [link EXCEPT ![s] = Closing(@)]
  PROVE  /\ link' \in [Servers -> LinkRecord]
         /\ \A t \in Servers : link'[t].live = link[t].live /\ link'[t].digest = link[t].digest
<1>0. \A t \in Servers : link[t] \in LinkRecord
  BY DEF ProviderTypes
<1>1. /\ Closing(link[s]) \in LinkRecord
      /\ Closing(link[s]).live = link[s].live /\ Closing(link[s]).digest = link[s].digest
  BY <1>0 DEF Closing, LinkRecord
<1> HIDE DEF LinkRecord
<1> QED BY <1>0, <1>1 DEF ProviderTypes

\* A call leaves its stage for a later one in which it begins nothing.
Departs(c, p) ==
  /\ Moved(c, p) /\ caller[c].pc # "idle" /\ p \in {"terminating", "recovering", "ok", "failed"}
  /\ UNCHANGED <<transport, mcpRuntime, mcpClosing, lane>>
  /\ raw' = raw \/ raw' = [raw EXCEPT ![c] = None]
  /\ link' = link \/ link' = [link EXCEPT ![caller[c].server] = Closing(@)]
  /\ p \in {"terminating", "recovering"} => caller[c].pc \in Bounded
  /\ p \in {"recovering", "ok"} => raw'[c] = None
  /\ Dwindles(authority, authority')
  /\ caller[c].pc \in Standing => p \in Standing \/ authority'.observed[caller[c].server] # c
LEMMA LeavesQuietly ==
  ASSUME ProviderInvariant, NEW c \in Callers, NEW p, Departs(c, p)
  PROVE  ProviderInvariant'
<1> DEFINE s == caller[c].server
<1>0. /\ ProviderTypes /\ LaneKept /\ s \in Servers /\ p \in {"terminating", "recovering", "ok", "failed"}
      /\ \A d \in Callers : d # c => caller'[d] = caller[d]
      /\ caller'[c].pc = p /\ caller'[c].server = s /\ caller'[c].approved = caller[c].approved
      /\ caller' \in [Callers -> CallerRecord]
      /\ authority' \in AuthorityRecord
  BY DEF ProviderInvariant, ProviderTypes, Departs, Moved, Dwindles
<1>1. /\ link' \in [Servers -> LinkRecord]
      /\ \A t \in Servers : link'[t].live = link[t].live /\ link'[t].digest = link[t].digest
  BY <1>0, ClosingIs DEF Departs, ProviderTypes
<1>2. /\ raw' \in [Callers -> {None, "list", "tool"}] /\ \A d \in Callers : raw'[d] # None => raw[d] # None
      /\ p \in {"recovering", "ok"} => raw'[c] = None
      /\ \A d \in Callers : d # c => raw'[d] = raw[d]
  BY <1>0 DEF Departs, ProviderTypes
<1>3. \A d \in Callers : caller'[d].server = caller[d].server /\ caller'[d].approved = caller[d].approved
  BY <1>0
<1>4. UNCHANGED <<transport, mcpRuntime, mcpClosing, lane>>
  BY DEF Departs
<1>5. ProviderTypes'
  BY <1>0, <1>1, <1>2, <1>3, <1>4 DEF ProviderTypes
<1>6. \A d \in Callers : Leased(d)' => Leased(d)
  BY <1>0, <1>2 DEF Leased, Departs, Bounded
<1>7. LanesStay
  <2>1. \A d \in Callers : Leased(d)' => FirstOf(d, caller'[d].server)
    BY <1>3, <1>6, <1>0 DEF LaneKept
  <2>2. \A d \in Callers : caller'[d].pc = "queued" => caller[d].pc = "queued" /\ caller'[d].server = caller[d].server
    BY <1>0
  <2>3. /\ \A d \in Callers : raw'[d] # None => caller'[d].pc \in {"listing", "calling", "terminating", "failed"}
        /\ \A d \in Callers : caller'[d].pc \in {"listing", "calling"} => raw'[d] # None
    BY <1>0, <1>2 DEF LaneKept
  <2> QED BY <2>1, <2>2, <2>3, <1>4 DEF LanesStay
<1>8. LinksSettle
  <2>1. \A d \in Callers : raw'[d] # None => caller[d].server \in Servers
    BY <1>2, <1>0 DEF LaneKept, Leased, FirstOf
  <2> QED BY <1>1, <1>2, <1>3, <2>1 DEF LinksSettle
<1>9. Standings
  <2>1. caller[c].pc \in Standing => p \in Standing \/ authority'.observed[s] # c
    BY DEF Departs
  <2> QED BY <1>0, <2>1 DEF Standings
<1>10. Backstage
  BY <1>0, <1>1, <1>4 DEF Backstage, Departs, Attached, Bounded
<1> QED BY <1>5, <1>7, <1>8, <1>9, <1>10, QuietKeeps DEF ProviderQuiet, Departs

\* The operation of a lease fails.
LEMMA FailsQuietly ==
  ASSUME ProviderInvariant, NEW c \in Callers, OperationFails(c), caller[c].pc # "idle",
         UNCHANGED <<transport, mcpRuntime, mcpClosing, lane, link>>, raw' = raw \/ raw' = [raw EXCEPT ![c] = None]
  PROVE  ProviderInvariant'
<1>1. Moved(c, "failed") /\ Dwindles(authority, authority') /\ authority'.observed[caller[c].server] = None
  BY FailedDwindles DEF ProviderInvariant
<1>2. authority'.observed[caller[c].server] # c
  BY <1>1, AbsentIs
<1>3. Departs(c, "failed")
  BY <1>1, <1>2 DEF Departs
<1> QED BY <1>3, LeavesQuietly
\* A call ends or is ended, and its server's authority with it.
LEMMA EvictsQuietly ==
  ASSUME ProviderInvariant, NEW c \in Callers, NEW p \in {"terminating", "recovering", "failed"},
         Enter(c, p), authority' = Evicted(authority, {caller[c].server}), caller[c].pc # "idle",
         UNCHANGED <<transport, mcpRuntime, mcpClosing, lane>>, raw' = raw \/ raw' = [raw EXCEPT ![c] = None],
         link' = link \/ link' = [link EXCEPT ![caller[c].server] = Closing(@)],
         p \in {"terminating", "recovering"} => caller[c].pc \in Bounded,
         p = "recovering" => raw'[c] = None
  PROVE  ProviderInvariant'
<1> DEFINE s == caller[c].server
<1>1. ProviderTypes /\ s \in Servers /\ {s} \in SUBSET Servers /\ authority \in AuthorityRecord /\ s \in {s}
  BY DEF ProviderInvariant, ProviderTypes
<1>2. Moved(c, p)
  BY <1>1, EnterMoves DEF CallStages, Attached, Bounded
<1> HIDE DEF s
<1>3. Dwindles(authority, Evicted(authority, {s})) /\ Evicted(authority, {s}).observed[s] = None
  BY <1>1, EvictedDwindles
<1>4. Dwindles(authority, authority') /\ authority'.observed[s] # c
  BY <1>3, AbsentIs DEF s
<1>5. Departs(c, p)
  BY <1>2, <1>4 DEF Departs, s
<1> QED BY <1>5, LeavesQuietly
\* A call ends and leaves authority as it is.
LEMMA EndsQuietly ==
  ASSUME ProviderInvariant, NEW c \in Callers, NEW p \in {"recovering", "ok", "failed"},
         Enter(c, p), caller[c].pc # "idle",
         authority' = authority \/ authority' = Released(authority, caller[c].server),
         UNCHANGED <<transport, mcpRuntime, mcpClosing, lane>>, raw' = raw \/ raw' = [raw EXCEPT ![c] = None],
         link' = link \/ link' = [link EXCEPT ![caller[c].server] = Closing(@)],
         p = "recovering" => caller[c].pc \in Bounded,
         p \in {"recovering", "ok"} => raw'[c] = None,
         caller[c].pc \in Standing => p \in Standing
  PROVE  ProviderInvariant'
<1> DEFINE s == caller[c].server
<1>1. ProviderTypes /\ s \in Servers /\ authority \in AuthorityRecord
  BY DEF ProviderInvariant, ProviderTypes
<1>2. Moved(c, p)
  BY <1>1, EnterMoves DEF CallStages, Attached, Bounded
<1>3. Dwindles(authority, authority')
  BY <1>1, SameDwindles, ReleasedIs, DwindlesOn
<1>4. Departs(c, p)
  BY <1>2, <1>3 DEF Departs
<1> QED BY <1>4, LeavesQuietly

LEMMA RefusedKeeps == ASSUME ProviderInvariant, NEW c \in Callers, Refused(c) PROVE ProviderInvariant'
BY EvictsQuietly DEF Refused
LEMMA WithdrawnKeeps == ASSUME ProviderInvariant, NEW c \in Callers, Withdrawn(c) PROVE ProviderInvariant'
BY EndsQuietly DEF Withdrawn, Standing
LEMMA CalledKeeps == ASSUME ProviderInvariant, NEW c \in Callers, Called(c) PROVE ProviderInvariant'
<1>1. raw' = [raw EXCEPT ![c] = None] /\ raw'[c] = None /\ caller[c].pc = "calling" /\ UNCHANGED <<transport, mcpRuntime, mcpClosing, lane, link>>
  BY DEF Called, ProviderInvariant, ProviderTypes
<1>2. CASE Enter(c, "ok") /\ authority' = Released(authority, caller[c].server)
  BY <1>1, <1>2, EndsQuietly DEF Standing
<1>3. CASE OperationFails(c)
  BY <1>1, <1>3, FailsQuietly
<1> QED BY <1>2, <1>3 DEF Called
LEMMA TransportFailsKeeps == ASSUME ProviderInvariant, NEW c \in Callers, TransportFails(c) PROVE ProviderInvariant'
<1>1. /\ raw' = [raw EXCEPT ![c] = None] /\ raw'[c] = None /\ caller[c].pc \in {"listing", "calling"}
      /\ UNCHANGED <<transport, mcpRuntime, mcpClosing, lane>> /\ Enter(c, "recovering")
      /\ link' = [link EXCEPT ![caller[c].server] = Closing(@)]
  BY DEF TransportFails, ProviderInvariant, ProviderTypes
<1>2. CASE authority' = Evicted(authority, {caller[c].server})
  BY <1>1, <1>2, EvictsQuietly DEF Bounded
<1>3. CASE authority' = authority
  BY <1>1, <1>3, EndsQuietly DEF Bounded, Standing
<1> QED BY <1>2, <1>3 DEF TransportFails
LEMMA RecoveredKeeps == ASSUME ProviderInvariant, NEW c \in Callers, Recovered(c) PROVE ProviderInvariant'
BY FailsQuietly DEF Recovered
LEMMA TerminateServerKeeps == ASSUME ProviderInvariant, NEW c \in Callers, TerminateServer(c) PROVE ProviderInvariant'
BY EvictsQuietly DEF TerminateServer, Bounded
LEMMA ServerTerminatedKeeps == ASSUME ProviderInvariant, NEW c \in Callers, ServerTerminated(c) PROVE ProviderInvariant'
BY FailsQuietly DEF ServerTerminated

LEMMA SnapshotKeeps == ASSUME ProviderInvariant, NEW c \in Callers, Snapshot(c) PROVE ProviderInvariant'
<1> DEFINE s == caller[c].server
           k == [caller[c] EXCEPT !.pc = "approving", !.approved = transport[s]]
<1>0. /\ ProviderTypes /\ LaneKept /\ s \in Servers /\ caller[c].pc = "runtime" /\ mcpRuntime = "ready" /\ mcpClosing.phase = "open"
      /\ UNCHANGED <<transport, mcpRuntime, mcpClosing, lane, raw, link>>
  BY DEF ProviderInvariant, ProviderTypes, Snapshot, Cancelled
<1>1. CASE Enter(c, "failed") /\ authority' = Evicted(authority, {s})
  BY <1>0, <1>1, EvictsQuietly
<1>2. CASE caller' = [caller EXCEPT ![c] = k] /\ UNCHANGED authority
  <2>1. /\ k \in CallerRecord /\ k.pc = "approving" /\ k.server = s
        /\ caller \in [Callers -> CallerRecord]
    <3>1. caller[c] \in CallerRecord /\ transport[s] \in Nat /\ "approving" \in CallStages
      BY <1>0 DEF ProviderTypes, CallStages, Attached
    <3> DEFINE v == transport[s]
               m == caller[c]
    <3>2. k = [m EXCEPT !.pc = "approving", !.approved = v] /\ s = m.server
      OBVIOUS
    <3>3. m \in CallerRecord /\ v \in Nat /\ caller \in [Callers -> CallerRecord]
      BY <1>0, <3>1 DEF ProviderTypes
    <3> HIDE DEF v, m, k, s
    <3> QED BY <3>1, <3>2, <3>3, Zenon DEF CallerRecord
  <2> HIDE DEF k
  <2>2. /\ caller' \in [Callers -> CallerRecord] /\ caller'[c].pc = "approving" /\ caller'[c].server = s
        /\ \A d \in Callers : d # c => caller'[d] = caller[d]
    BY <1>2, <2>1
  <2>3. raw[c] = None
    BY <1>0 DEF LaneKept
  <2>4. ProviderTypes'
    BY <1>0, <1>2, <2>2 DEF ProviderTypes
  <2>5. LanesStay
    <3>1. \A d \in Callers : Leased(d)' => Leased(d) /\ d # c
      BY <1>0, <2>2, <2>3 DEF Leased, Bounded
    <3> QED BY <1>0, <2>2, <2>3, <3>1 DEF LanesStay, LaneKept
  <2>6. LinksSettle
    <3>1. \A d \in Callers : raw[d] # None => caller[d].server \in Servers
      BY <1>0 DEF LaneKept, Leased, FirstOf
    <3> QED BY <1>0, <2>2, <2>3, <3>1 DEF LinksSettle
  <2>7. Dwindles(authority, authority')
    BY <1>0, <1>2, SameDwindles DEF ProviderTypes
  <2>8. Standings
    BY <1>0, <2>2 DEF Standings, Standing
  <2>9. Backstage
    BY <1>0, <2>2 DEF Backstage, Attached, Bounded
  <2> QED BY <2>4, <2>5, <2>6, <2>7, <2>8, <2>9, QuietKeeps DEF ProviderQuiet
<1> QED BY <1>1, <1>2 DEF Snapshot, CurrentTransport

LEMMA ApprovedKeeps == ASSUME ProviderInvariant, NEW c \in Callers, Approved(c) PROVE ProviderInvariant'
<1> DEFINE s == caller[c].server
<1>0. /\ ProviderTypes /\ LaneKept /\ CloseKept /\ s \in Servers /\ caller[c].pc = "approving" /\ mcpClosing.phase = "open"
      /\ UNCHANGED <<transport, mcpRuntime, mcpClosing, raw, link, authority>>
      /\ lane' = [lane EXCEPT ![s] = Append(@, c)] /\ lane \in [Servers -> Seq(Callers)]
  BY DEF ProviderInvariant, ProviderTypes, Approved, Cancelled
<1>1. Moved(c, "queued")
  BY <1>0, EnterMoves DEF Approved, CallStages, Attached
<1>2. /\ caller' \in [Callers -> CallerRecord] /\ caller'[c].pc = "queued" /\ caller'[c].server = s
      /\ \A d \in Callers : d # c => caller'[d] = caller[d]
      /\ \A d \in Callers : caller'[d].server = caller[d].server /\ caller'[d].approved = caller[d].approved
  BY <1>1 DEF Moved
<1> HIDE DEF s
<1>3. /\ Append(lane[s], c) \in Seq(Callers) /\ Len(Append(lane[s], c)) = Len(lane[s]) + 1 /\ Len(lane[s]) \in Nat
      /\ Append(lane[s], c)[Len(lane[s]) + 1] = c
      /\ \A i \in 1 .. Len(lane[s]) : Append(lane[s], c)[i] = lane[s][i]
      /\ lane[s] # <<>> => Head(Append(lane[s], c)) = Head(lane[s])
  BY <1>0
<1>4. lane' \in [Servers -> Seq(Callers)] /\ lane'[s] = Append(lane[s], c) /\ \A t \in Servers : t # s => lane'[t] = lane[t]
  BY <1>0, <1>3
<1>5. raw[c] = None
  BY <1>0 DEF LaneKept
<1>6. ProviderTypes'
  BY <1>0, <1>2, <1>4 DEF ProviderTypes, s
<1>7. LaneKept'
  <2>1. \A d \in Callers : Leased(d)' => Leased(d) /\ d # c
    BY <1>0, <1>2, <1>5 DEF Leased, Bounded
  <2>2. \A d \in Callers, t \in Servers : FirstOf(d, t) => lane'[t] # <<>> /\ Head(lane'[t]) = d
    <3> SUFFICES ASSUME NEW d \in Callers, NEW t \in Servers, FirstOf(d, t) PROVE lane'[t] # <<>> /\ Head(lane'[t]) = d
      OBVIOUS
    <3>1. CASE t = s
      <4>1. lane'[t] # <<>>
        BY <3>1, <1>3, <1>4
      <4> QED BY <3>1, <1>3, <1>4, <4>1 DEF FirstOf
    <3>2. CASE t # s
      BY <3>2, <1>4 DEF FirstOf
    <3> QED BY <3>1, <3>2
  <2>3. \A d \in Callers : Leased(d)' =>
          caller[d].server \in Servers /\ lane'[caller[d].server] # <<>> /\ Head(lane'[caller[d].server]) = d
    <3> SUFFICES ASSUME NEW d \in Callers, Leased(d)'
                 PROVE  caller[d].server \in Servers /\ lane'[caller[d].server] # <<>> /\ Head(lane'[caller[d].server]) = d
      OBVIOUS
    <3>1. FirstOf(d, caller[d].server)
      BY <2>1, <1>0 DEF LaneKept
    <3>2. caller[d].server \in Servers
      BY <3>1 DEF FirstOf
    <3> QED BY <2>2, <3>1, <3>2
  <2>4. ASSUME NEW d \in Callers, caller'[d].pc = "queued"
        PROVE  \E i \in 1 .. Len(lane'[caller'[d].server]) : lane'[caller'[d].server][i] = d
    <3>1. CASE d = c
      <4>1. Len(lane[s]) + 1 \in 1 .. Len(lane'[s]) /\ lane'[s][Len(lane[s]) + 1] = c
        BY <1>3, <1>4
      <4> QED BY <3>1, <4>1, <1>2
    <3>2. CASE d # c
      <4>1. caller[d].pc = "queued" /\ caller'[d] = caller[d] /\ caller[d].server \in Servers
        BY <3>2, <2>4, <1>2, <1>0 DEF ProviderTypes
      <4>2. PICK i \in 1 .. Len(lane[caller[d].server]) : lane[caller[d].server][i] = d
        BY <4>1, <1>0 DEF LaneKept
      <4> DEFINE t == caller[d].server
      <4>3. i \in 1 .. Len(lane'[t]) /\ lane'[t][i] = d
        <5>1. t \in Servers /\ i \in 1 .. Len(lane[t]) /\ lane[t][i] = d
          BY <4>1, <4>2
        <5> HIDE DEF t
        <5>2. CASE t = s
          BY <5>1, <5>2, <1>3, <1>4
        <5>3. CASE t # s
          BY <5>1, <5>3, <1>4
        <5> QED BY <5>2, <5>3
      <4> QED BY <4>1, <4>3
    <3> QED BY <3>1, <3>2
  <2>5. /\ \A d \in Callers : raw'[d] # None => caller'[d].pc \in {"listing", "calling", "terminating", "failed"}
        /\ \A d \in Callers : caller'[d].pc \in {"listing", "calling"} => raw'[d] # None
    BY <1>0, <1>2, <1>5 DEF LaneKept
  <2> QED BY <2>3, <2>4, <2>5, <1>2 DEF LaneKept, FirstOf
<1>8. LinksSettle
  <2>1. \A d \in Callers : raw[d] # None => caller[d].server \in Servers
    BY <1>0 DEF LaneKept, Leased, FirstOf
  <2> QED BY <1>0, <1>2, <2>1 DEF LinksSettle
<1>9. Dwindles(authority, authority')
  BY <1>0, SameDwindles DEF ProviderTypes
<1>10. Standings
  BY <1>0, <1>2 DEF Standings, Standing, s
<1>11. Backstage
  BY <1>0, <1>2 DEF Backstage, CloseKept, Attached, Bounded
<1> QED
  BY <1>6, <1>7, <1>8, <1>9, <1>10, <1>11, LinksKept, CatalogueLasts, CloseStays DEF ProviderInvariant

\* The server is contacted, or its old connection closed first.
LEMMA ConnectKeeps ==
  ASSUME ProviderInvariant, NEW c \in Callers, NEW s \in Servers, s = caller[c].server, Connect(c, s),
         caller[c].pc \in {"queued", "reclosing"}, FirstOf(c, s), mcpClosing.phase = "open",
         Dwindles(authority, authority'), UNCHANGED <<transport, mcpRuntime, mcpClosing, lane>>
  PROVE  ProviderInvariant'
<1>0. /\ ProviderTypes /\ LaneKept /\ LinkKept /\ CatalogueKept /\ CloseKept /\ mcpRuntime = "ready"
      /\ authority' \in AuthorityRecord
      /\ raw \in [Callers -> {None, "list", "tool"}] /\ link \in [Servers -> LinkRecord]
  BY DEF ProviderInvariant, ProviderTypes, CloseKept, Attached, Bounded, Dwindles
<1>1. ASSUME NEW p \in {"reclosing", "listing"}, Moved(c, p),
             IF p = "listing" THEN raw' = [raw EXCEPT ![c] = "list"] ELSE raw' = raw, link' \in [Servers -> LinkRecord], LinkKept'
      PROVE  ProviderInvariant'
  <2>0. /\ caller' \in [Callers -> CallerRecord] /\ caller'[c].pc = p /\ caller'[c].server = s
        /\ \A d \in Callers : d # c => caller'[d] = caller[d]
        /\ \A d \in Callers : caller'[d].server = caller[d].server
    BY <1>1 DEF Moved
  <2>1. /\ raw' \in [Callers -> {None, "list", "tool"}] /\ \A d \in Callers : d # c => raw'[d] = raw[d]
        /\ raw'[c] # None <=> p = "listing"
    BY <1>0, <1>1 DEF LaneKept, None
  <2>2. ProviderTypes'
    BY <1>0, <1>1, <2>0, <2>1 DEF ProviderTypes
  <2>3. LanesStay
    <3>1. \A d \in Callers : Leased(d)' => FirstOf(d, caller'[d].server)
      BY <1>0, <2>0, <2>1 DEF LaneKept, Leased
    <3> QED BY <1>0, <2>0, <2>1, <3>1 DEF LanesStay, LaneKept
  <2>4. Standings
    BY <2>0 DEF Standings, Standing
  <2>5. Backstage
    BY <1>0, <2>0 DEF Backstage
  <2> QED
    BY <1>0, <1>1, <2>2, <2>3, <2>4, <2>5, LanesKept, CatalogueLasts, CloseStays DEF ProviderInvariant
<1>2. CASE link[s].digest \notin {Absent, caller[c].approved}
  <2>1. Enter(c, "reclosing") /\ link' = [link EXCEPT ![s] = Closing(@)] /\ UNCHANGED raw
    BY <1>2 DEF Connect
  <2>2. Moved(c, "reclosing")
    BY <1>0, <2>1, EnterMoves DEF CallStages, Attached, Bounded
  <2>3. link' \in [Servers -> LinkRecord] /\ \A t \in Servers : link'[t].live = link[t].live /\ link'[t].digest = link[t].digest
    BY <1>0, <2>1, ClosingIs
  <2>4. \A d \in Callers : raw[d] # None => caller[d].server \in Servers
    BY <1>0 DEF LaneKept, Leased, FirstOf
  <2>5. LinkKept'
    <3>1. LinksSettle
      BY <2>1, <2>2, <2>3, <2>4 DEF LinksSettle, Moved
    <3> QED BY <3>1, <1>0, LinksKept
  <2> QED BY <1>1, <2>1, <2>2, <2>3, <2>5
<1>3. CASE link[s].digest \in {Absent, caller[c].approved}
  <2> DEFINE g == caller[c].approved
             w == IF link[s].live = Absent THEN g ELSE link[s].live
             l == [link[s] EXCEPT !.digest = g, !.live = w]
  <2>1. Enter(c, "listing") /\ raw' = [raw EXCEPT ![c] = "list"] /\ link' = [link EXCEPT ![s] = l]
    BY <1>3 DEF Connect
  <2>2. Moved(c, "listing")
    BY <1>0, <2>1, EnterMoves DEF CallStages, Attached, Bounded
  <2>3. g \in Nat /\ w = g
    BY <1>0, <1>3 DEF ProviderTypes, CallerRecord, LinkKept
  <2>4. l \in LinkRecord /\ l.digest = g /\ l.live = g
    <3> HIDE DEF g
    <3>1. link[s] \in LinkRecord /\ l = [link[s] EXCEPT !.digest = g, !.live = g]
      BY <1>0, <2>3
    <3> HIDE DEF l
    <3> QED BY <2>3, <3>1 DEF LinkRecord
  <2> HIDE DEF l
  <2>5. link' \in [Servers -> LinkRecord] /\ link'[s] = l /\ \A t \in Servers : t # s => link'[t] = link[t]
    BY <1>0, <2>1, <2>4
  <2>6. \A d \in Callers : d # c /\ raw'[d] # None => caller[d].server # s /\ caller[d].server \in Servers /\ raw[d] # None
    BY <1>0, <2>1 DEF LaneKept, Leased, FirstOf
  <2>7. LinkKept'
    <3>1. \A t \in Servers : link'[t].live \in {Absent, link'[t].digest}
      BY <1>0, <2>4, <2>5 DEF LinkKept
    <3>2. \A d \in Callers : raw'[d] # None => link'[caller'[d].server].live \in {Absent, caller'[d].approved}
      BY <1>0, <2>2, <2>4, <2>5, <2>6 DEF LinkKept, Moved
    <3> QED BY <3>1, <3>2 DEF LinkKept, Absent
  <2> QED BY <1>1, <2>1, <2>2, <2>5, <2>7
<1> QED BY <1>2, <1>3

LEMMA GrantKeeps == ASSUME ProviderInvariant, NEW c \in Callers, Grant(c) PROVE ProviderInvariant'
<1> DEFINE s == caller[c].server
           a == IF caller[c].kind = "call" THEN [authority EXCEPT !.fresh = @ \union {c}] ELSE authority
<1>0. /\ ProviderTypes /\ LaneKept /\ s \in Servers /\ caller[c].pc = "queued" /\ Head(lane[s]) = c /\ mcpClosing.phase = "open"
      /\ UNCHANGED <<transport, mcpRuntime, mcpClosing, lane>> /\ authority \in AuthorityRecord
      /\ lane[s] \in Seq(Callers)
  BY DEF ProviderInvariant, ProviderTypes, Grant, Cancelled
<1>1. FirstOf(c, s)
  <2>1. PICK i \in 1 .. Len(lane[s]) : lane[s][i] = c
    BY <1>0 DEF LaneKept
  <2> HIDE DEF s
  <2>2. lane[s] # <<>>
    BY <2>1, <1>0
  <2> QED BY <2>2, <1>0 DEF FirstOf
<1>2. Dwindles(authority, a)
  BY <1>0, FreshIs, SameDwindles
<1>3. CASE Enter(c, "failed") /\ UNCHANGED <<raw, link, authority>>
  BY <1>0, <1>3, EndsQuietly DEF Standing
<1>4. CASE OperationFails(c) /\ UNCHANGED <<raw, link>>
  BY <1>0, <1>4, FailsQuietly
<1>5. CASE authority' = [a EXCEPT !.reserved = @ \union {s}] /\ Connect(c, s)
  <2>1. a \in AuthorityRecord
    BY <1>2 DEF Dwindles
  <2> HIDE DEF a
  <2>2. Dwindles(authority, authority')
    BY <1>0, <1>2, <1>5, <2>1, ReservedIs, DwindlesOn
  <2> QED BY <1>0, <1>1, <1>5, <2>2, ConnectKeeps
<1> QED BY <1>3, <1>4, <1>5 DEF Grant
LEMMA ReconnectKeeps == ASSUME ProviderInvariant, NEW c \in Callers, Reconnect(c) PROVE ProviderInvariant'
<1> DEFINE s == caller[c].server
<1>0. /\ ProviderTypes /\ LaneKept /\ CloseKept /\ s \in Servers /\ caller[c].pc = "reclosing" /\ authority \in AuthorityRecord
      /\ UNCHANGED <<transport, mcpRuntime, mcpClosing, lane>>
  BY DEF ProviderInvariant, ProviderTypes, Reconnect
<1>1. FirstOf(c, s) /\ mcpClosing.phase = "open"
  BY <1>0 DEF LaneKept, Leased, Bounded, CloseKept
<1>2. CASE OperationFails(c) /\ UNCHANGED <<raw, link>>
  BY <1>0, <1>2, FailsQuietly
<1>3. CASE Connect(c, s) /\ UNCHANGED authority
  <2>1. Dwindles(authority, authority')
    BY <1>0, <1>3, SameDwindles
  <2> QED BY <1>0, <1>1, <1>3, <2>1, ConnectKeeps
<1> QED BY <1>2, <1>3 DEF Reconnect

\* What publishing leaves of the authority.
LEMMA PublishedIs ==
  ASSUME NEW a \in AuthorityRecord, NEW c \in Callers, NEW s \in Servers, NEW crowd \in SUBSET Servers, s \notin crowd
  PROVE  LET b == Published(a, c, s, crowd) IN
         /\ b \in AuthorityRecord /\ ~b.current /\ b.observed[s] = c
         /\ \A t \in Servers : t # s => b.observed[t] \in {a.observed[t], None}
         /\ \A d \in b.cursors : \/ d = c
                                 \/ d \in a.cursors /\ caller[d].server # s
                                    /\ (caller[d].server \in Servers => b.observed[caller[d].server] = a.observed[caller[d].server])
<1> DEFINE e == IF crowd = {} THEN a ELSE Evicted(a, crowd)
<1>1. Dwindles(a, e)
  BY EvictedDwindles, SameDwindles
<1> HIDE DEF e
<1> DEFINE o == [e.observed EXCEPT ![s] = c]
           k == {d \in e.cursors : caller[d].server # s} \union (IF caller[c].kind = "tools" THEN {c} ELSE {})
           b == [e EXCEPT !.observed = o, !.current = FALSE, !.cursors = k]
<1>2. Published(a, c, s, crowd) = b
  BY DEF Published, e
<1>3. e \in AuthorityRecord
  BY <1>1 DEF Dwindles
<1>4. e.observed \in Inventories /\ e.cursors \in SUBSET Callers
  BY <1>3 DEF AuthorityRecord
<1>5. o \in Inventories /\ o[s] = c /\ \A t \in Servers : t # s => o[t] = e.observed[t]
  BY <1>4 DEF Inventories
<1>6. k \in SUBSET Callers /\ \A d \in k : d = c \/ (d \in e.cursors /\ caller[d].server # s)
  BY <1>4
<1> HIDE DEF o, k
<1>7. b \in AuthorityRecord /\ b.observed = o /\ b.current = FALSE /\ b.cursors = k
  BY <1>3, <1>5, <1>6, Zenon DEF AuthorityRecord
<1> HIDE DEF b
<1>8. \A t \in Servers : t # s => b.observed[t] \in {a.observed[t], None}
  BY <1>1, <1>5, <1>7 DEF Dwindles
<1>9. ASSUME NEW d \in b.cursors
      PROVE  \/ d = c
             \/ d \in a.cursors /\ caller[d].server # s
                /\ (caller[d].server \in Servers => b.observed[caller[d].server] = a.observed[caller[d].server])
  BY <1>1, <1>5, <1>6, <1>7, <1>9 DEF Dwindles
<1> QED BY <1>2, <1>5, <1>7, <1>8, <1>9

\* A call that lists succeeds: it ends, or it goes on to its tool.
LEMMA PublishesKeeps ==
  ASSUME ProviderInvariant, NEW c \in Callers, caller[c].pc = "listing", NEW p \in {"ok", "calling"}, Moved(c, p),
         UNCHANGED <<transport, mcpRuntime, mcpClosing, lane, link>>,
         raw' = [raw EXCEPT ![c] = IF p = "calling" THEN "tool" ELSE None],
         NEW crowd \in SUBSET (Servers \ {caller[c].server}), NEW a, a = Published(authority, c, caller[c].server, crowd),
         authority' = a \/ authority' = Released(a, caller[c].server)
  PROVE  ProviderInvariant'
<1> DEFINE s == caller[c].server
<1>0. /\ ProviderTypes /\ LaneKept /\ LinkKept /\ CatalogueKept /\ CloseKept /\ s \in Servers /\ authority \in AuthorityRecord
      /\ \A d \in Callers : d # c => caller'[d] = caller[d]
      /\ caller'[c].pc = p /\ caller'[c].server = s /\ caller'[c].approved = caller[c].approved
      /\ caller' \in [Callers -> CallerRecord]
  BY DEF ProviderInvariant, ProviderTypes, Moved
<1>1. /\ a \in AuthorityRecord /\ ~a.current /\ a.observed[s] = c
      /\ \A t \in Servers : t # s => a.observed[t] \in {authority.observed[t], None}
      /\ \A d \in a.cursors : \/ d = c
                              \/ d \in authority.cursors /\ caller[d].server # s
                                 /\ (caller[d].server \in Servers => a.observed[caller[d].server] = authority.observed[caller[d].server])
  BY <1>0, PublishedIs
<1>2. authority' \in AuthorityRecord /\ authority'.cursors = a.cursors /\ authority'.observed = a.observed /\ authority'.current = a.current
  BY <1>0, <1>1, ReleasedIs
<1>3. /\ raw' \in [Callers -> {None, "list", "tool"}] /\ \A d \in Callers : raw'[d] # None => raw[d] # None
      /\ raw'[c] # None <=> p = "calling"
      /\ \A d \in Callers : d # c => raw'[d] = raw[d]
  BY <1>0 DEF ProviderTypes, LaneKept, None
<1>4. ProviderTypes'
  BY <1>0, <1>2, <1>3 DEF ProviderTypes
<1>5. LanesStay
  <2>1. \A d \in Callers : Leased(d)' => Leased(d)
    BY <1>0, <1>3 DEF Leased, Bounded
  <2> QED BY <1>0, <1>3, <2>1 DEF LanesStay, LaneKept
<1>6. LinksSettle
  <2>1. \A d \in Callers : raw[d] # None => caller[d].server \in Servers
    BY <1>0 DEF LaneKept, Leased, FirstOf
  <2> QED BY <1>0, <1>3, <2>1 DEF LinksSettle
<1>7. CatalogueKept'
  <2> HIDE DEF s
  <2>1. \A d \in authority'.cursors : caller'[d].pc # "idle" /\ authority'.observed[caller'[d].server] = d
    <3> SUFFICES ASSUME NEW d \in a.cursors PROVE caller'[d].pc # "idle" /\ authority'.observed[caller'[d].server] = d
      BY <1>2
    <3>1. CASE d = c
      BY <3>1, <1>0, <1>1, <1>2
    <3>2. CASE d # c
      <4>1. d \in authority.cursors /\ d \in Callers
        BY <3>2, <1>0, <1>1 DEF AuthorityRecord
      <4>2. caller[d].pc # "idle" /\ authority.observed[caller[d].server] = d /\ caller[d].server \in Servers
        BY <4>1, <1>0 DEF CatalogueKept, ProviderTypes
      <4> QED BY <3>2, <4>1, <4>2, <1>0, <1>1, <1>2
    <3> QED BY <3>1, <3>2
  <2>2. \A t \in Servers, d \in Callers : authority'.observed[t] = d => caller'[d].server = t /\ caller'[d].pc \in Standing
    <3> SUFFICES ASSUME NEW t \in Servers, NEW d \in Callers, a.observed[t] = d
                 PROVE  caller'[d].server = t /\ caller'[d].pc \in Standing
      BY <1>2
    <3>1. CASE t = s
      BY <3>1, <1>0, <1>1 DEF Standing
    <3>2. CASE t # s
      <4>1. authority.observed[t] = d
        BY <3>2, <1>1, AbsentIs
      <4>2. caller[d].server = t /\ caller[d].pc \in Standing
        BY <4>1, <1>0 DEF CatalogueKept
      <4>3. d # c
        BY <4>2 DEF Standing
      <4> QED BY <4>2, <4>3, <1>0
    <3> QED BY <3>1, <3>2
  <2> QED BY <2>1, <2>2, <1>1, <1>2 DEF CatalogueKept
<1>8. Backstage
  BY <1>0 DEF Backstage, Attached, Bounded
<1> QED
  BY <1>0, <1>4, <1>5, <1>6, <1>7, <1>8, LanesKept, LinksKept, CloseStays DEF ProviderInvariant

LEMMA ListedKeeps == ASSUME ProviderInvariant, NEW c \in Callers, Listed(c) PROVE ProviderInvariant'
<1> DEFINE s == caller[c].server
           others == {t \in Servers \ {s} : authority.observed[t] # None}
<1>0. /\ ProviderTypes /\ s \in Servers /\ caller[c].pc = "listing" /\ authority \in AuthorityRecord
      /\ UNCHANGED <<transport, mcpRuntime, mcpClosing, lane, link>>
  BY DEF ProviderInvariant, ProviderTypes, Listed
<1>1. CASE OperationFails(c) /\ raw' = [raw EXCEPT ![c] = None]
  BY <1>0, <1>1, FailsQuietly
<1>2. ASSUME NEW crowd \in MadeRoom(others), NEW a, a = Published(authority, c, s, crowd),
             \/ /\ Enter(c, "ok") /\ authority' = Released(a, s) /\ raw' = [raw EXCEPT ![c] = None]
             \/ /\ Enter(c, "calling") /\ authority' = a /\ raw' = [raw EXCEPT ![c] = "tool"]
             \/ /\ Enter(c, "failed") /\ authority' = Released(Evicted(a, {s}), s) /\ raw' = [raw EXCEPT ![c] = None]
      PROVE  ProviderInvariant'
  <2>0. crowd \in SUBSET (Servers \ {s})
    BY <1>2 DEF MadeRoom
  <2>1. CASE Enter(c, "ok") /\ authority' = Released(a, s) /\ raw' = [raw EXCEPT ![c] = None]
    <3>1. Moved(c, "ok")
      BY <1>0, <2>1, EnterMoves DEF CallStages
    <3> QED BY <1>0, <1>2, <2>0, <2>1, <3>1, PublishesKeeps
  <2>2. CASE Enter(c, "calling") /\ authority' = a /\ raw' = [raw EXCEPT ![c] = "tool"]
    <3>1. Moved(c, "calling")
      BY <1>0, <2>2, EnterMoves DEF CallStages, Attached, Bounded
    <3> QED BY <1>0, <1>2, <2>0, <2>2, <3>1, PublishesKeeps
  <2>3. CASE Enter(c, "failed") /\ authority' = Released(Evicted(a, {s}), s) /\ raw' = [raw EXCEPT ![c] = None]
    <3> HIDE DEF s
    <3>1. /\ a \in AuthorityRecord /\ ~a.current /\ a.observed[s] = c
          /\ \A t \in Servers : t # s => a.observed[t] \in {authority.observed[t], None}
          /\ \A d \in a.cursors : \/ d = c
                                  \/ d \in authority.cursors /\ caller[d].server # s
                                     /\ (caller[d].server \in Servers => a.observed[caller[d].server] = authority.observed[caller[d].server])
      BY <1>0, <1>2, <2>0, PublishedIs DEF s
    <3> DEFINE e == Evicted(a, {s})
    <3>2. {s} \in SUBSET Servers
      BY <1>0
    <3>3. /\ Dwindles(a, e) /\ e.cursors = {d \in a.cursors : caller[d].server \notin {s}}
          /\ \A t \in Servers : e.observed[t] = IF t \in {s} THEN None ELSE a.observed[t]
      BY <3>1, <3>2, EvictedDwindles
    <3> HIDE DEF e
    <3>4. /\ e \in AuthorityRecord /\ ~e.current
          /\ \A t \in Servers : e.observed[t] \in {authority.observed[t], None}
      BY <3>1, <3>3 DEF Dwindles
    <3>5. ASSUME NEW d \in e.cursors
          PROVE  d \in authority.cursors /\ (caller[d].server \in Servers => e.observed[caller[d].server] = authority.observed[caller[d].server])
      <4>1. d \in a.cursors /\ caller[d].server # s /\ d # c
        BY <3>3 DEF s
      <4> QED BY <4>1, <3>1, <3>3
    <3>6. Dwindles(authority, e)
      BY <3>4, <3>5 DEF Dwindles
    <3>7. /\ authority' \in AuthorityRecord /\ authority'.cursors = e.cursors /\ authority'.observed = e.observed
          /\ authority'.listed = e.listed /\ authority'.current = e.current
      BY <1>0, <2>3, <3>4, ReleasedIs DEF e
    <3>8. Dwindles(authority, authority')
      BY <1>0, <3>4, <3>6, <3>7, DwindlesOn
    <3>9. Moved(c, "failed")
      BY <1>0, <2>3, EnterMoves DEF CallStages
    <3>10. Departs(c, "failed")
      BY <1>0, <2>3, <3>8, <3>9 DEF Departs, Standing
    <3> QED BY <3>10, LeavesQuietly
  <2> QED BY <1>2, <2>1, <2>2, <2>3
<1>3. CASE \E crowd \in MadeRoom(others) :
             LET a == Published(authority, c, s, crowd) IN
             \/ /\ Enter(c, "ok") /\ authority' = Released(a, s) /\ raw' = [raw EXCEPT ![c] = None]
             \/ /\ Enter(c, "calling") /\ authority' = a /\ raw' = [raw EXCEPT ![c] = "tool"]
             \/ /\ Enter(c, "failed") /\ authority' = Released(Evicted(a, {s}), s) /\ raw' = [raw EXCEPT ![c] = None]
  BY <1>2, <1>3
<1> QED BY <1>1, <1>3 DEF Listed

\* Steps that leave the callers alone.
LEMMA CallersRest ==
  ASSUME ProviderInvariant, UNCHANGED <<caller, lane, mcpRuntime, mcpClosing>>, transport' \in [Servers -> Nat],
         raw' = raw \/ (\E c \in Callers : caller[c].pc \in {"terminating", "failed"} /\ raw' = [raw EXCEPT ![c] = None]),
         link' \in [Servers -> LinkRecord],
         \A s \in Servers : \/ link'[s].live = link[s].live /\ link'[s].digest = link[s].digest
                            \/ link'[s].live = Absent,
         Dwindles(authority, authority')
  PROVE  ProviderInvariant'
<1>0. ProviderTypes /\ LaneKept /\ authority' \in AuthorityRecord
  BY DEF ProviderInvariant, Dwindles
<1>1. /\ raw' \in [Callers -> {None, "list", "tool"}] /\ \A d \in Callers : raw'[d] # None => raw[d] # None
      /\ \A d \in Callers : caller[d].pc \notin {"terminating", "failed"} => raw'[d] = raw[d]
  BY <1>0 DEF ProviderTypes
<1>2. ProviderTypes'
  BY <1>0, <1>1 DEF ProviderTypes
<1>3. LanesStay
  <2>1. \A d \in Callers : Leased(d)' => Leased(d)
    BY <1>1 DEF Leased
  <2> QED BY <1>0, <1>1, <2>1 DEF LanesStay, LaneKept
<1>4. LinksSettle
  <2>1. \A d \in Callers : raw[d] # None => caller[d].server \in Servers
    BY <1>0 DEF LaneKept, Leased, FirstOf
  <2> QED BY <1>1, <2>1 DEF LinksSettle
<1>5. Standings /\ Backstage
  BY DEF Standings, Backstage
<1> QED BY <1>2, <1>3, <1>4, <1>5, QuietKeeps DEF ProviderQuiet

LEMMA RawSettlesKeeps == ASSUME ProviderInvariant, NEW c \in Callers, RawSettles(c) PROVE ProviderInvariant'
<1> DEFINE s == caller[c].server
<1>0. /\ ProviderTypes /\ s \in Servers /\ caller[c].pc \in {"terminating", "failed"} /\ authority \in AuthorityRecord
      /\ {s} \in SUBSET Servers
      /\ UNCHANGED <<transport, mcpRuntime, mcpClosing, caller, lane>> /\ raw' = [raw EXCEPT ![c] = None]
      /\ transport \in [Servers -> Nat] /\ link \in [Servers -> LinkRecord]
  BY DEF ProviderInvariant, ProviderTypes, RawSettles
<1>1. Dwindles(authority, authority) /\ Dwindles(authority, Evicted(authority, {s}))
  BY <1>0, SameDwindles, EvictedDwindles
<1>2. Dwindles(authority, authority')
  BY <1>1 DEF RawSettles
<1>3. link' \in [Servers -> LinkRecord] /\ \A t \in Servers : link'[t].live = link[t].live /\ link'[t].digest = link[t].digest
  <2>1. CASE UNCHANGED link
    BY <1>0, <2>1
  <2>2. CASE link' = [link EXCEPT ![s] = Closing(@)]
    BY <1>0, <2>2, ClosingIs
  <2> QED BY <2>1, <2>2 DEF RawSettles
<1> QED BY <1>0, <1>2, <1>3, CallersRest
LEMMA ServerClosedKeeps == ASSUME ProviderInvariant, NEW s \in Servers, ServerClosed(s) PROVE ProviderInvariant'
<1>0. /\ ProviderTypes /\ authority \in AuthorityRecord /\ {s} \in SUBSET Servers
      /\ UNCHANGED <<transport, mcpRuntime, mcpClosing, caller, lane, raw>>
      /\ transport \in [Servers -> Nat] /\ link \in [Servers -> LinkRecord]
  BY DEF ProviderInvariant, ProviderTypes, ServerClosed
<1>1. Dwindles(authority, authority) /\ Dwindles(authority, Evicted(authority, {s}))
  BY <1>0, SameDwindles, EvictedDwindles
<1>2. Dwindles(authority, authority')
  BY <1>1 DEF ServerClosed
<1>3. /\ link' \in [Servers -> LinkRecord]
      /\ \A t \in Servers : \/ link'[t].live = link[t].live /\ link'[t].digest = link[t].digest
                            \/ link'[t].live = Absent
  <2>1. CASE link' = [link EXCEPT ![s] = Unlinked]
    <3>1. Unlinked \in LinkRecord /\ Unlinked.live = Absent
      BY AbsentIs DEF Unlinked, LinkRecord
    <3> QED BY <1>0, <2>1, <3>1
  <2>2. CASE link' = [link EXCEPT ![s].state = "failed"]
    <3> DEFINE l == [link[s] EXCEPT !.state = "failed"]
    <3>1. l \in LinkRecord /\ l.live = link[s].live /\ l.digest = link[s].digest
      <4>1. link[s] \in LinkRecord
        BY <1>0
      <4> QED BY <4>1 DEF LinkRecord
    <3>2. link' = [link EXCEPT ![s] = l]
      BY <2>2
    <3> HIDE DEF l, LinkRecord
    <3> QED BY <1>0, <3>1, <3>2
  <2> QED BY <2>1, <2>2 DEF ServerClosed
<1> QED BY <1>0, <1>2, <1>3, CallersRest
LEMMA RetargetKeeps == ASSUME ProviderInvariant, NEW s \in Servers, Retarget(s) PROVE ProviderInvariant'
<1>0. /\ ProviderTypes /\ authority \in AuthorityRecord /\ link \in [Servers -> LinkRecord]
      /\ UNCHANGED <<mcpRuntime, mcpClosing, caller, lane, raw, link, authority>>
  BY DEF ProviderInvariant, ProviderTypes, Retarget
<1>1. transport' \in [Servers -> Nat]
  BY <1>0 DEF Retarget, ProviderTypes
<1> QED BY <1>0, <1>1, SameDwindles, CallersRest
LEMMA InvalidateKeeps == ASSUME ProviderInvariant, NEW s \in Servers, Invalidate(s) PROVE ProviderInvariant'
<1>0. /\ ProviderTypes /\ authority \in AuthorityRecord /\ {s} \in SUBSET Servers /\ authority' = Evicted(authority, {s})
      /\ UNCHANGED <<transport, mcpRuntime, mcpClosing, caller, lane, raw, link>>
      /\ transport \in [Servers -> Nat] /\ link \in [Servers -> LinkRecord]
  BY DEF ProviderInvariant, ProviderTypes, Invalidate
<1>1. Dwindles(authority, authority')
  BY <1>0, EvictedDwindles
<1> QED BY <1>0, <1>1, CallersRest

LEMMA HandOnKeeps == ASSUME ProviderInvariant, NEW c \in Callers, HandOn(c) PROVE ProviderInvariant'
<1> DEFINE s == caller[c].server
<1>0. /\ ProviderTypes /\ LaneKept /\ LinkKept /\ CatalogueKept /\ CloseKept /\ s \in Servers /\ caller[c].pc \in {"ok", "failed"}
      /\ raw[c] = None /\ lane[s] # <<>> /\ Head(lane[s]) = c /\ authority \in AuthorityRecord
      /\ UNCHANGED <<transport, mcpRuntime, mcpClosing, caller, raw, link, authority>>
      /\ lane' = [lane EXCEPT ![s] = Tail(@)] /\ lane \in [Servers -> Seq(Callers)]
  BY DEF ProviderInvariant, ProviderTypes, HandOn, Quiescent
<1> HIDE DEF s
<1>1. /\ Len(lane[s]) \in Nat /\ Len(lane[s]) >= 1 /\ lane[s][1] = c
      /\ Tail(lane[s]) \in Seq(Callers) /\ Len(Tail(lane[s])) = Len(lane[s]) - 1
      /\ \A i \in 1 .. Len(Tail(lane[s])) : Tail(lane[s])[i] = lane[s][i + 1]
  BY <1>0, HeadAndTail
<1>2. lane' \in [Servers -> Seq(Callers)] /\ lane'[s] = Tail(lane[s]) /\ \A t \in Servers : t # s => lane'[t] = lane[t]
  BY <1>0, <1>1
<1>3. ProviderTypes'
  BY <1>0, <1>2 DEF ProviderTypes
<1>4. LaneKept'
  <2>1. ASSUME NEW d \in Callers, Leased(d)
        PROVE  FirstOf(d, caller[d].server) /\ caller[d].server # s
    <3>1. FirstOf(d, caller[d].server) /\ d # c
      BY <2>1, <1>0 DEF LaneKept, Leased, Bounded
    <3> QED BY <3>1, <1>0 DEF FirstOf
  <2>2. ASSUME NEW d \in Callers, caller[d].pc = "queued"
        PROVE  \E i \in 1 .. Len(lane'[caller[d].server]) : lane'[caller[d].server][i] = d
    <3> DEFINE t == caller[d].server
    <3>1. t \in Servers /\ d # c
      BY <2>2, <1>0 DEF ProviderTypes
    <3>2. PICK i \in 1 .. Len(lane[t]) : lane[t][i] = d
      BY <2>2, <1>0 DEF LaneKept
    <3> HIDE DEF t
    <3>3. CASE t = s
      <4>1. i # 1
        BY <3>1, <3>2, <3>3, <1>1
      <4>2. i - 1 \in 1 .. Len(Tail(lane[s])) /\ Tail(lane[s])[i - 1] = lane[s][(i - 1) + 1]
        BY <4>1, <3>2, <3>3, <1>1
      <4>3. (i - 1) + 1 = i
        BY <3>2
      <4>4. i - 1 \in 1 .. Len(lane'[t]) /\ lane'[t][i - 1] = d
        BY <4>2, <4>3, <3>2, <3>3, <1>2
      <4> QED BY <4>4 DEF t
    <3>4. CASE t # s
      BY <3>1, <3>2, <3>4, <1>2 DEF t
    <3> QED BY <3>3, <3>4
  <2>3. \A d \in Callers : Leased(d) => caller[d].server \in Servers /\ lane'[caller[d].server] # <<>> /\ Head(lane'[caller[d].server]) = d
    BY <2>1, <1>2 DEF FirstOf
  <2> QED BY <2>2, <2>3, <1>0 DEF LaneKept, Leased, FirstOf
<1>5. LinksSettle
  <2>1. \A d \in Callers : raw[d] # None => caller[d].server \in Servers
    BY <1>0 DEF LaneKept, Leased, FirstOf
  <2> QED BY <1>0, <2>1 DEF LinksSettle
<1>6. Dwindles(authority, authority') /\ Standings
  BY <1>0, SameDwindles DEF Standings
<1>7. Backstage
  BY <1>0, <1>2 DEF Backstage
<1> QED
  BY <1>0, <1>3, <1>4, <1>5, <1>6, <1>7, LinksKept, CatalogueLasts, CloseStays DEF ProviderInvariant

LEMMA ReadCatalogueKeeps == ASSUME ProviderInvariant, ReadCatalogue PROVE ProviderInvariant'
<1> DEFINE o == authority.observed
           b == [authority EXCEPT !.listed = o, !.current = TRUE]
<1>0. /\ ProviderTypes /\ LaneKept /\ LinkKept /\ CatalogueKept /\ CloseKept /\ authority \in AuthorityRecord
      /\ UNCHANGED <<transport, mcpRuntime, mcpClosing, caller, lane, raw, link>> /\ authority' = b
  BY DEF ProviderInvariant, ProviderTypes, ReadCatalogue
<1>1. o \in Inventories /\ o = authority.observed
  BY <1>0 DEF AuthorityRecord
<1> HIDE DEF o
<1>2. b \in AuthorityRecord /\ b.listed = o /\ b.observed = authority.observed /\ b.cursors = authority.cursors
  BY <1>0, <1>1, Zenon DEF AuthorityRecord
<1> HIDE DEF b
<1>3. ProviderTypes'
  BY <1>0, <1>2 DEF ProviderTypes
<1>4. CatalogueKept'
  BY <1>0, <1>1, <1>2 DEF CatalogueKept
<1>5. LaneKept' /\ LinkKept' /\ CloseKept'
  BY <1>0 DEF LaneKept, LinkKept, CloseKept, Leased, FirstOf, Absent
<1> QED BY <1>3, <1>4, <1>5 DEF ProviderInvariant

LEMMA InvokeKeeps ==
  ASSUME ProviderInvariant, NEW c \in Callers, NEW s \in Servers, NEW k \in {"call", "tools"}, Invoke(c, s, k)
  PROVE  ProviderInvariant'
<1> DEFINE p == IF Cancelled THEN "failed" ELSE "runtime"
           v == [pc |-> p, server |-> s, kind |-> k, approved |-> 0]
<1>0. /\ ProviderTypes /\ LaneKept /\ LinkKept /\ CatalogueKept /\ CloseKept /\ authority \in AuthorityRecord
      /\ caller[c].pc = "idle" /\ caller' = [caller EXCEPT ![c] = v] /\ caller \in [Callers -> CallerRecord]
      /\ UNCHANGED <<transport, mcpClosing, lane, raw, link>>
  BY DEF ProviderInvariant, ProviderTypes, Invoke
<1>1. p \in {"failed", "runtime"} /\ p \in CallStages
  BY DEF CallStages
<1> HIDE DEF p
<1>2. v \in CallerRecord /\ v.pc = p /\ v.server = s
  BY <1>1 DEF CallerRecord
<1> HIDE DEF v
<1>3. /\ caller' \in [Callers -> CallerRecord] /\ caller'[c].pc = p /\ caller'[c].server = s
      /\ \A d \in Callers : d # c => caller'[d] = caller[d]
  BY <1>0, <1>2
<1>4. Dwindles(authority, authority')
  BY <1>0, SameDwindles, FreshIs DEF Invoke
<1>5. mcpRuntime' = mcpRuntime \/ (mcpClosing.phase = "open" /\ mcpRuntime = "none" /\ mcpRuntime' = "creating")
  BY DEF Invoke, Cancelled
<1>6. raw[c] = None
  BY <1>0 DEF LaneKept
<1>7. ProviderTypes'
  BY <1>0, <1>1, <1>3, <1>4, <1>5 DEF ProviderTypes, Dwindles, RuntimeStages
<1>8. LanesStay
  <2>1. \A d \in Callers : Leased(d)' => Leased(d) /\ d # c
    BY <1>0, <1>1, <1>3, <1>6 DEF Leased, Bounded
  <2> QED BY <1>0, <1>1, <1>3, <1>6, <2>1 DEF LanesStay, LaneKept
<1>9. LinksSettle
  <2>1. \A d \in Callers : raw[d] # None => caller[d].server \in Servers
    BY <1>0 DEF LaneKept, Leased, FirstOf
  <2> QED BY <1>0, <1>3, <1>6, <2>1 DEF LinksSettle
<1>10. Standings
  BY <1>0, <1>1, <1>3 DEF Standings, Standing
<1>11. CloseKept'
  <2>1. \A d \in Callers : caller'[d].pc \in Attached \union Bounded => caller'[d] = caller[d]
    BY <1>1, <1>3 DEF Attached, Bounded
  <2>2. CASE mcpRuntime' = mcpRuntime
    BY <1>0, <2>1, <2>2 DEF CloseKept, Absent
  <2>3. CASE mcpClosing.phase = "open" /\ mcpRuntime = "none" /\ mcpRuntime' = "creating"
    <3>1. \A d \in Callers : caller'[d].pc \notin Attached
      BY <1>0, <2>1, <2>3 DEF CloseKept
    <3> QED BY <1>0, <2>3, <3>1 DEF CloseKept, Absent
  <2> QED BY <1>5, <2>2, <2>3
<1> QED
  BY <1>0, <1>4, <1>7, <1>8, <1>9, <1>10, <1>11, LanesKept, LinksKept, CatalogueLasts DEF ProviderInvariant

LEMMA CreatedKeeps == ASSUME ProviderInvariant, Created PROVE ProviderInvariant'
<1>0. /\ ProviderTypes /\ LaneKept /\ LinkKept /\ CatalogueKept /\ CloseKept /\ authority \in AuthorityRecord
      /\ mcpRuntime = "creating" /\ caller \in [Callers -> CallerRecord]
      /\ UNCHANGED <<transport, mcpClosing, lane, raw, link, authority>>
  BY DEF ProviderInvariant, ProviderTypes, Created
<1>1. CASE mcpRuntime' = CreatedInTime /\ UNCHANGED caller
  <2>1. mcpRuntime' = IF mcpClosing.phase = "open" THEN "ready" ELSE "late"
    BY <1>1 DEF CreatedInTime
  <2>2. ProviderTypes'
    BY <1>0, <1>1, <2>1 DEF ProviderTypes, RuntimeStages
  <2>3. LaneKept' /\ LinkKept' /\ CatalogueKept'
    BY <1>0, <1>1 DEF LaneKept, LinkKept, CatalogueKept, Leased, FirstOf, Absent
  <2>4. mcpClosing.phase # "done"
    BY <1>0 DEF CloseKept
  <2>5. CloseKept'
    BY <1>0, <1>1, <2>1, <2>4 DEF CloseKept, Absent
  <2> QED BY <2>2, <2>3, <2>5 DEF ProviderInvariant
<1>2. CASE /\ mcpRuntime' = "none"
           /\ caller' = [c \in Callers |-> IF caller[c].pc = "runtime" THEN [caller[c] EXCEPT !.pc = "failed"] ELSE caller[c]]
  <2>1. \A c \in Callers : caller[c].pc # "runtime" => caller'[c] = caller[c]
    BY <1>2
  <2>2. \A c \in Callers : caller[c].pc = "runtime" =>
          /\ caller'[c] \in CallerRecord /\ caller'[c].pc = "failed" /\ caller'[c].server = caller[c].server
          /\ caller'[c].approved = caller[c].approved
    <3> TAKE c \in Callers
    <3> HAVE caller[c].pc = "runtime"
    <3>1. caller[c] \in CallerRecord /\ "failed" \in CallStages /\ caller'[c] = [caller[c] EXCEPT !.pc = "failed"]
      BY <1>0, <1>2 DEF CallStages
    <3> QED BY <3>1 DEF CallerRecord
  <2>3. caller' \in [Callers -> CallerRecord]
    <3>1. caller' = [c \in Callers |-> caller'[c]]
      BY <1>2
    <3>2. \A c \in Callers : caller'[c] \in CallerRecord
      BY <1>0, <2>1, <2>2
    <3> HIDE DEF CallerRecord
    <3> QED BY <3>1, <3>2
  <2>4. \A c \in Callers : caller'[c].server = caller[c].server /\ caller'[c].approved = caller[c].approved
    BY <2>1, <2>2
  <2>5. ProviderTypes'
    BY <1>0, <1>2, <2>1, <2>2, <2>3, <2>4 DEF ProviderTypes, RuntimeStages
  <2>6. \A c \in Callers : caller[c].pc = "runtime" => raw[c] = None
    BY <1>0 DEF LaneKept
  <2>7. LanesStay
    <3>1. \A d \in Callers : Leased(d)' => Leased(d)
      BY <1>0, <2>1, <2>2 DEF Leased, Bounded
    <3>2. \A d \in Callers : Leased(d)' => FirstOf(d, caller'[d].server)
      BY <1>0, <2>4, <3>1 DEF LaneKept
    <3>3. \A d \in Callers : caller'[d].pc = "queued" => caller[d].pc = "queued" /\ caller'[d].server = caller[d].server
      BY <2>1, <2>2
    <3>4. /\ \A d \in Callers : raw'[d] # None => caller'[d].pc \in {"listing", "calling", "terminating", "failed"}
          /\ \A d \in Callers : caller'[d].pc \in {"listing", "calling"} => raw'[d] # None
      BY <1>0, <2>1, <2>2 DEF LaneKept
    <3> QED BY <1>0, <3>2, <3>3, <3>4 DEF LanesStay
  <2>8. LinksSettle
    <3>1. \A d \in Callers : raw[d] # None => caller[d].server \in Servers
      BY <1>0 DEF LaneKept, Leased, FirstOf
    <3> QED BY <1>0, <2>4, <3>1 DEF LinksSettle
  <2>9. Standings
    BY <2>1, <2>2 DEF Standings, Standing
  <2>10. Dwindles(authority, authority')
    BY <1>0, SameDwindles
  <2>11. CloseKept'
    <3>1. \A d \in Callers : caller'[d].pc \in Attached \union Bounded => caller'[d] = caller[d]
      BY <2>1, <2>2 DEF Attached, Bounded
    <3>2. \A d \in Callers : mcpClosing.phase = "open" => caller'[d].pc \notin Attached
      BY <1>0, <3>1 DEF CloseKept
    <3>3. \A d \in Callers : mcpClosing.phase # "open" => caller'[d].pc \notin Bounded
      BY <1>0, <3>1 DEF CloseKept
    <3> QED BY <1>0, <1>2, <3>2, <3>3 DEF CloseKept, Absent
  <2> QED
    BY <1>0, <2>5, <2>7, <2>8, <2>9, <2>10, <2>11, LanesKept, LinksKept, CatalogueLasts DEF ProviderInvariant
<1> QED BY <1>1, <1>2 DEF Created

LEMMA CloseProviderKeeps == ASSUME ProviderInvariant, CloseProvider PROVE ProviderInvariant'
<1>0. /\ ProviderTypes /\ LaneKept /\ LinkKept /\ CatalogueKept /\ CloseKept /\ authority \in AuthorityRecord
      /\ mcpClosing.phase = "open" /\ mcpClosing' = [phase |-> "lanes", had |-> mcpRuntime] /\ caller \in [Callers -> CallerRecord]
      /\ authority' = Evicted(authority, Servers) /\ link \in [Servers -> LinkRecord]
      /\ caller' = [c \in Callers |-> IF caller[c].pc \in Bounded THEN [caller[c] EXCEPT !.pc = "terminating"] ELSE caller[c]]
      /\ UNCHANGED <<transport, mcpRuntime, lane, raw>>
  BY DEF ProviderInvariant, ProviderTypes, CloseProvider
<1>1. \A c \in Callers : caller[c].pc \notin Bounded => caller'[c] = caller[c]
  BY <1>0
<1>2. \A c \in Callers : caller[c].pc \in Bounded =>
        /\ caller'[c] \in CallerRecord /\ caller'[c].pc = "terminating" /\ caller'[c].server = caller[c].server
        /\ caller'[c].approved = caller[c].approved
  <2> TAKE c \in Callers
  <2> HAVE caller[c].pc \in Bounded
  <2>1. caller[c] \in CallerRecord /\ "terminating" \in CallStages /\ caller'[c] = [caller[c] EXCEPT !.pc = "terminating"]
    BY <1>0 DEF CallStages
  <2> QED BY <2>1 DEF CallerRecord
<1>3. caller' \in [Callers -> CallerRecord]
  <2>1. caller' = [c \in Callers |-> caller'[c]]
    BY <1>0
  <2>2. \A c \in Callers : caller'[c] \in CallerRecord
    BY <1>0, <1>1, <1>2
  <2> HIDE DEF CallerRecord
  <2> QED BY <2>1, <2>2
<1>4. \A c \in Callers : caller'[c].server = caller[c].server /\ caller'[c].approved = caller[c].approved
  BY <1>1, <1>2
<1>5. link' \in [Servers -> LinkRecord] /\ \A t \in Servers : link'[t].live = link[t].live /\ link'[t].digest = link[t].digest
  <2> DEFINE ends(s) == \E c \in Callers : caller[c].pc \in Bounded /\ caller[c].server = s
  <2>1. link' = [s \in Servers |-> IF ends(s) THEN Closing(link[s]) ELSE link[s]]
    BY DEF CloseProvider
  <2> HIDE DEF ends
  <2>2. \A t \in Servers : /\ Closing(link[t]) \in LinkRecord
                           /\ Closing(link[t]).live = link[t].live /\ Closing(link[t]).digest = link[t].digest
    <3> TAKE t \in Servers
    <3>1. link[t] \in LinkRecord
      BY <1>0
    <3> QED BY <3>1 DEF Closing, LinkRecord
  <2> HIDE DEF LinkRecord
  <2> QED BY <1>0, <2>1, <2>2
<1>6. /\ Dwindles(authority, authority')
      /\ \A s \in Servers : authority'.observed[s] = None
  BY <1>0, EvictedDwindles
<1>7. /\ mcpClosing' \in ClosingRecord /\ mcpClosing'.phase = "lanes" /\ mcpClosing'.had = mcpRuntime
  BY <1>0 DEF ClosingRecord, ProviderTypes
<1>8. ProviderTypes'
  BY <1>0, <1>1, <1>2, <1>3, <1>4, <1>5, <1>6, <1>7 DEF ProviderTypes, Dwindles, Bounded
<1>9. LanesStay
  <2>1. \A d \in Callers : Leased(d)' => Leased(d)
    BY <1>0, <1>1, <1>2 DEF Leased, Bounded
  <2>2. \A d \in Callers : Leased(d)' => FirstOf(d, caller'[d].server)
    BY <1>0, <1>4, <2>1 DEF LaneKept
  <2>3. \A d \in Callers : caller'[d].pc = "queued" => caller[d].pc = "queued" /\ caller'[d].server = caller[d].server
    BY <1>1, <1>2
  <2>4. /\ \A d \in Callers : raw'[d] # None => caller'[d].pc \in {"listing", "calling", "terminating", "failed"}
        /\ \A d \in Callers : caller'[d].pc \in {"listing", "calling"} => raw'[d] # None
    BY <1>0, <1>1, <1>2 DEF LaneKept
  <2> QED BY <1>0, <2>2, <2>3, <2>4 DEF LanesStay
<1>10. LinksSettle
  <2>1. \A d \in Callers : raw[d] # None => caller[d].server \in Servers
    BY <1>0 DEF LaneKept, Leased, FirstOf
  <2> QED BY <1>0, <1>4, <1>5, <2>1 DEF LinksSettle
<1>11. Standings
  <2>1. \A d \in Callers : caller[d].pc # "idle" => caller'[d].pc # "idle" /\ caller'[d].server = caller[d].server
    BY <1>1, <1>2
  <2>2. \A d \in Callers : caller[d].pc # "idle" => authority'.observed[caller[d].server] # d
    BY <1>0, <1>6, AbsentIs DEF ProviderTypes
  <2> QED BY <2>1, <2>2 DEF Standings, Standing
<1>12. CloseKept'
  <2>1. \A d \in Callers : caller'[d].pc \notin Bounded
    BY <1>1, <1>2 DEF Bounded
  <2> QED BY <1>0, <1>5, <1>7, <2>1 DEF CloseKept, Absent
<1> QED
  BY <1>0, <1>6, <1>8, <1>9, <1>10, <1>11, <1>12, LanesKept, LinksKept, CatalogueLasts DEF ProviderInvariant

\* The later steps of close: of callers, lanes and authority nothing changes.
LEMMA CloserKeeps ==
  ASSUME ProviderInvariant, LanesDrained \/ Dispose \/ CloseSettled
  PROVE  ProviderInvariant'
<1>0. /\ ProviderTypes /\ LaneKept /\ LinkKept /\ CatalogueKept /\ CloseKept
      /\ UNCHANGED <<transport, caller, lane, raw, authority>> /\ link \in [Servers -> LinkRecord] /\ mcpClosing \in ClosingRecord
  BY DEF ProviderInvariant, ProviderTypes, LanesDrained, Dispose, CloseSettled
<1>1. ASSUME mcpRuntime' \in RuntimeStages, mcpClosing' \in ClosingRecord, link' \in [Servers -> LinkRecord],
             UNCHANGED link \/ (\A s \in Servers : link'[s].live = Absent), CloseKept'
      PROVE  ProviderInvariant'
  <2>1. ProviderTypes'
    BY <1>0, <1>1 DEF ProviderTypes
  <2>2. LaneKept' /\ CatalogueKept'
    BY <1>0 DEF LaneKept, CatalogueKept, Leased, FirstOf
  <2>3. LinkKept'
    <3>1. \A d \in Callers : raw[d] # None => caller[d].server \in Servers
      BY <1>0 DEF LaneKept, Leased, FirstOf
    <3>2. LinksSettle
      BY <1>0, <1>1, <3>1 DEF LinksSettle
    <3> QED BY <1>0, <3>2, LinksKept
  <2> QED BY <1>1, <2>1, <2>2, <2>3 DEF ProviderInvariant
<1>2. CASE LanesDrained
  <2> DEFINE q == IF mcpClosing.had = "none" THEN "done" ELSE "runtime"
  <2>1. /\ mcpClosing.phase = "lanes" /\ \A s \in Servers : lane[s] = <<>>
        /\ mcpClosing' = [mcpClosing EXCEPT !.phase = q] /\ UNCHANGED <<mcpRuntime, link>>
    BY <1>2 DEF LanesDrained
  <2>2. mcpClosing' \in ClosingRecord /\ mcpClosing'.phase = q /\ mcpClosing'.had = mcpClosing.had
    BY <1>0, <2>1 DEF ClosingRecord
  <2>3. CloseKept'
    BY <1>0, <2>1, <2>2 DEF CloseKept, Absent
  <2> QED BY <1>0, <1>1, <2>1, <2>2, <2>3 DEF ProviderTypes
<1>3. CASE Dispose
  <2>1. /\ mcpRuntime = "late" \/ (mcpRuntime = "ready" /\ mcpClosing.phase = "runtime")
        /\ UNCHANGED mcpClosing /\ mcpRuntime' \in {"disposed", "undisposed"}
        /\ \/ mcpRuntime' = "disposed" /\ link' = [s \in Servers |-> Unlinked]
           \/ mcpRuntime' = "undisposed" /\ UNCHANGED link
    BY <1>3 DEF Dispose
  <2>2. Unlinked \in LinkRecord /\ Unlinked.live = Absent
    BY AbsentIs DEF Unlinked, LinkRecord
  <2>3. link' \in [Servers -> LinkRecord] /\ (UNCHANGED link \/ (\A s \in Servers : link'[s].live = Absent))
    BY <1>0, <2>1, <2>2
  <2>4. mcpRuntime' = "disposed" => \A s \in Servers : link'[s].live = Absent
    BY <2>1, <2>2
  <2>5. mcpClosing.phase # "open" /\ mcpClosing.phase # "done" /\ mcpClosing.had # "none"
    BY <1>0, <2>1 DEF CloseKept
  <2>6. CloseKept'
    BY <1>0, <2>1, <2>3, <2>4, <2>5 DEF CloseKept, Absent
  <2> QED BY <1>0, <1>1, <2>1, <2>3, <2>6 DEF RuntimeStages
<1>4. CASE CloseSettled
  <2>1. /\ mcpClosing.phase = "runtime" /\ UNCHANGED <<mcpRuntime, link>>
        /\ \E q \in {"done", "failed"} :
             /\ mcpClosing' = [mcpClosing EXCEPT !.phase = q]
             /\ q = "done" => mcpRuntime \in {"none", "disposed"}
             /\ q = "failed" => mcpRuntime = "undisposed" \/ mcpClosing.had = "creating"
    BY <1>4 DEF CloseSettled
  <2>2. PICK q \in {"done", "failed"} :
             /\ mcpClosing' = [mcpClosing EXCEPT !.phase = q]
             /\ q = "done" => mcpRuntime \in {"none", "disposed"}
             /\ q = "failed" => mcpRuntime = "undisposed" \/ mcpClosing.had = "creating"
    BY <2>1
  <2>3. mcpClosing' \in ClosingRecord /\ mcpClosing'.phase = q /\ mcpClosing'.had = mcpClosing.had
    BY <1>0, <2>2 DEF ClosingRecord
  <2>4. CloseKept'
    BY <1>0, <2>1, <2>2, <2>3 DEF CloseKept, Absent
  <2> QED BY <1>0, <1>1, <2>1, <2>3, <2>4 DEF ProviderTypes
<1> QED BY <1>2, <1>3, <1>4

LEMMA ProviderStep ==
  ASSUME ProviderInvariant, [McpNext]_mcpVars
  PROVE  ProviderInvariant'
<1>1. ASSUME NEW c \in Callers, McpCall(c) PROVE ProviderInvariant'
  BY <1>1, SnapshotKeeps, RefusedKeeps, ApprovedKeeps, WithdrawnKeeps, GrantKeeps, ReconnectKeeps, ListedKeeps, CalledKeeps,
     TransportFailsKeeps, RecoveredKeeps, TerminateServerKeeps, ServerTerminatedKeeps, RawSettlesKeeps, HandOnKeeps DEF McpCall
<1>2. ASSUME NEW s \in Servers, ServerClosed(s) \/ Retarget(s) \/ Invalidate(s) PROVE ProviderInvariant'
  BY <1>2, ServerClosedKeeps, RetargetKeeps, InvalidateKeeps
<1>3. CASE Created \/ CloseProvider \/ LanesDrained \/ Dispose \/ CloseSettled \/ ReadCatalogue
  BY <1>3, CreatedKeeps, CloseProviderKeeps, CloserKeeps, ReadCatalogueKeeps
<1>4. CASE UNCHANGED mcpVars
  BY SMTT(40), <1>4 DEF mcpVars, ProviderInvariant, ProviderTypes, LaneKept, LinkKept, CatalogueKept, CloseKept, Leased, FirstOf, Absent
<1> QED BY <1>1, <1>2, <1>3, <1>4, InvokeKeeps DEF McpNext

LEMMA ProviderSound ==
  ASSUME ProviderInvariant
  PROVE  LaneHoldsApproved /\ CatalogueHonest /\ ProviderAccounted
<1>0. ProviderTypes /\ LaneKept /\ LinkKept /\ CatalogueKept /\ CloseKept /\ authority \in AuthorityRecord
  BY DEF ProviderInvariant, ProviderTypes
<1>1. LaneHoldsApproved
  <2>1. \A c \in Callers : raw[c] # None => Head(lane[caller[c].server]) = c
    BY <1>0 DEF LaneKept, Leased, FirstOf
  <2>2. \A c \in Callers : raw[c] = "tool" => raw[c] # None
    BY DEF None
  <2> QED BY <1>0, <2>1, <2>2 DEF LaneHoldsApproved, LinkKept
<1>2. CatalogueHonest
  <2>1. authority.observed \in Inventories
    BY <1>0 DEF AuthorityRecord
  <2>2. \A s \in Servers : authority.observed[s] # None => authority.observed[s] \in Callers
    BY <2>1 DEF Inventories
  <2> QED BY <1>0, <2>2 DEF CatalogueHonest, CatalogueKept, Standing
<1>3. ProviderAccounted
  <2>1. ASSUME mcpClosing.phase = "done", NEW c \in Callers PROVE raw[c] = None
    BY <1>0, <2>1 DEF LaneKept, CloseKept, Leased, FirstOf
  <2> QED BY <1>0, <2>1 DEF CloseKept, ProviderAccounted
<1> QED BY <1>1, <1>2, <1>3

(* One call at a time works in a server's transport and only over one the     *)
(* user approved, what discovery published is current or withdrawn, close     *)
(* leaves nothing running, and what is loaded as the configuration is what    *)
(* was read, for any callers, servers and versions (ExternalMcpProvider, its  *)
(* configuration loader).                                                     *)
THEOREM ProviderHolds == McpSpec /\ ConfSpec => []ProviderKept
<1>1. ProviderInvariant /\ ConfigurationInvariant => ProviderKept
  BY ProviderSound, ConfigurationSound DEF ProviderKept
<1> QED
  BY <1>1, ProviderBegins, ProviderStep, ConfigurationBegins, ConfigurationStep, PTL DEF McpSpec, ConfSpec

-----------------------------------------------------------------------------
(* The host calls of executions.                                              *)

CallKinds == {"effect", "write", "read", "switch"}
CallPoints == {"unused", "chained", "preparing", "locking", "approving", "approved", "acting", "unlocking", "settled"}
RunRecord == [stage : {"running", "draining", "returned"}, cancelled : BOOLEAN, calls : Nat, active : Int, prompts : Nat,
              switching : BOOLEAN, working : BOOLEAN]
CallRecord == [kind : CallKinds \union {"none"}, resource : Resources \union {"none"}, pc : CallPoints, began : BOOLEAN,
               published : BOOLEAN, told : BOOLEAN, ok : BOOLEAN]
BridgeTypes == run \in [Executions -> RunRecord] /\ call \in [Ids -> CallRecord]
\* Calls are numbered as they come, and a number not reached yet is unused.
Numbered == \A c \in Ids : run[c[1]].calls < c[2] <=> call[c].pc = "unused"
Unmade == \A c \in Ids : call[c].pc = "unused" => call[c] = NoCall
\* An effect that has left the chain found every effect before it successful.
Through == {"preparing", "locking", "approving", "approved", "acting", "unlocking"}
ChainKept ==
  \A c, d \in Ids : Effect(c) /\ (call[c].began \/ call[c].pc \in Through) /\ d \in Before(c) =>
    call[d].pc = "settled" /\ call[d].ok
ReservationsApart ==
  \A c, d \in Ids : c # d /\ ReservedCalls(c) /\ ReservedCalls(d) => call[c].resource # call[d].resource
SwitchAlone ==
  /\ \A c \in Ids : call[c].kind = "switch" => run[c[1]].switching
  /\ \A c \in Ids : call[c].kind \notin {"switch", "none"} => run[c[1]].working
  /\ \A c, d \in Ids : c[1] = d[1] /\ call[c].kind = "switch" => d = c \/ call[d].kind = "none"
SettledFirst == \A c \in Ids : run[c[1]].stage = "returned" /\ Effect(c) => call[c].pc = "settled"
ToldOf == \A c \in Ids : Effect(c) /\ call[c].published => call[c].told
BridgeInvariant ==
  BridgeTypes /\ Numbered /\ Unmade /\ ChainKept /\ ReservationsApart /\ SwitchAlone /\ SettledFirst /\ ToldOf

LEMMA IdsAre ==
  /\ \A c \in Ids : c[1] \in Executions /\ c[2] \in Nat /\ 1 <= c[2] /\ c[2] <= MaxCalls[c[1]] /\ c = <<c[1], c[2]>>
  /\ \A e \in Executions, n \in Nat : 1 <= n /\ n <= MaxCalls[e] => <<e, n>> \in Ids
<1>1. \A e \in Executions : MaxCalls[e] \in Nat
  BY BridgeAssumption
<1> QED BY <1>1 DEF Ids

LEMMA BridgeBegins == BridgeInit => BridgeInvariant
<1> SUFFICES ASSUME BridgeInit PROVE BridgeInvariant
  OBVIOUS
<1> DEFINE r == [stage |-> "running", cancelled |-> FALSE, calls |-> 0, active |-> 0, prompts |-> 0,
                 switching |-> FALSE, working |-> FALSE]
<1>1. r \in RunRecord /\ r.calls = 0 /\ r.stage = "running"
  BY DEF RunRecord
<1>2. NoCall \in CallRecord /\ NoCall.pc = "unused" /\ NoCall.kind = "none" /\ NoCall.published = FALSE /\ NoCall.began = FALSE
  BY DEF NoCall, CallRecord, CallPoints
<1>3. run = [e \in Executions |-> r] /\ call = [c \in Ids |-> NoCall]
  BY DEF BridgeInit
<1> HIDE DEF r
<1>4. BridgeTypes
  BY <1>1, <1>2, <1>3 DEF BridgeTypes
<1>5. \A c \in Ids : run[c[1]] = r /\ call[c] = NoCall /\ c[2] >= 1 /\ c[2] \in Nat
  BY <1>3, IdsAre
<1>6. Numbered /\ Unmade
  BY <1>1, <1>2, <1>5 DEF Numbered, Unmade
<1>7. ChainKept /\ ReservationsApart /\ SwitchAlone /\ SettledFirst /\ ToldOf
  BY <1>1, <1>2, <1>5 DEF ChainKept, ReservationsApart, SwitchAlone, SettledFirst, ToldOf, Effect, ReservedCalls, WriteLike
<1> QED BY <1>4, <1>6, <1>7 DEF BridgeInvariant

\* A step of one admitted call: it keeps its kind and resource, leaves the
\* chain only after its predecessors, reserves only what is free and tells
\* what it published.
CallMoves(c) ==
  /\ call' \in [Ids -> CallRecord]
  /\ \A d \in Ids : d # c => call'[d] = call[d]
  /\ call[c].pc \notin {"unused", "settled"} /\ call'[c].pc # "unused"
  /\ call'[c].kind = call[c].kind /\ call'[c].resource = call[c].resource
  /\ call'[c].began => call[c].began \/ call[c].pc \in Through
  /\ call'[c].pc \in Through => call[c].pc \in Through \/ Chained(c)
  /\ ReservedCalls(c)' => ReservedCalls(c) \/ ~Overlapping(c)
  /\ Effect(c) /\ call'[c].published => call'[c].told \/ (call[c].published /\ call'[c].told = call[c].told)
RunsKeep ==
  /\ run' \in [Executions -> RunRecord]
  /\ \A e \in Executions :
       /\ run'[e].calls = run[e].calls /\ run'[e].stage = run[e].stage
       /\ run'[e].switching = run[e].switching /\ run'[e].working = run[e].working
LEMMA CallMovesKeeps ==
  ASSUME BridgeInvariant, NEW c \in Ids, CallMoves(c), RunsKeep
  PROVE  BridgeInvariant'
<1>0. /\ BridgeTypes /\ Numbered /\ Unmade /\ ChainKept /\ ReservationsApart /\ SwitchAlone /\ SettledFirst /\ ToldOf
      /\ \A d \in Ids : d[1] \in Executions
  BY IdsAre DEF BridgeInvariant
<1>1. \A d \in Ids : call'[d].kind = call[d].kind /\ call'[d].resource = call[d].resource
  BY DEF CallMoves
<1>2. \A d \in Ids : call[d].pc \in {"unused", "settled"} => call'[d] = call[d]
  BY DEF CallMoves
<1>3. \A d \in Ids : (call'[d].pc = "unused") <=> (call[d].pc = "unused")
  BY DEF CallMoves
<1>4. \A d \in Ids : /\ run'[d[1]].calls = run[d[1]].calls /\ run'[d[1]].stage = run[d[1]].stage
                     /\ run'[d[1]].switching = run[d[1]].switching /\ run'[d[1]].working = run[d[1]].working
  BY <1>0 DEF RunsKeep
<1>5. BridgeTypes'
  BY DEF BridgeTypes, CallMoves, RunsKeep
<1>6. Numbered'
  BY <1>0, <1>3, <1>4 DEF Numbered
<1>7. Unmade'
  BY <1>0, <1>2, <1>3 DEF Unmade
<1>8. ChainKept'
  <2> SUFFICES ASSUME NEW b \in Ids, NEW d \in Ids, Effect(b)', call'[b].began \/ call'[b].pc \in Through, d \in Before(b)'
               PROVE  call'[d].pc = "settled" /\ call'[d].ok
    BY DEF ChainKept
  <2>1. Effect(b) /\ d \in Before(b)
    BY <1>1 DEF Effect, Before
  <2>2. call[d].pc = "settled" /\ call[d].ok
    <3>1. CASE call[b].began \/ call[b].pc \in Through
      BY <2>1, <3>1, <1>0 DEF ChainKept
    <3>2. CASE ~(call[b].began \/ call[b].pc \in Through)
      BY <2>1, <3>2 DEF CallMoves, Chained, Free
    <3> QED BY <3>1, <3>2
  <2> QED BY <2>2, <1>2
<1>9. ReservationsApart'
  <2> SUFFICES ASSUME NEW b \in Ids, NEW d \in Ids, b # d, ReservedCalls(b)', ReservedCalls(d)'
               PROVE  call'[b].resource # call'[d].resource
    BY DEF ReservationsApart
  <2>1. \A x \in Ids : x # c => (ReservedCalls(x)' => ReservedCalls(x))
    BY DEF CallMoves, ReservedCalls, WriteLike
  <2>2. CASE b # c /\ d # c
    BY <2>1, <2>2, <1>0, <1>1 DEF ReservationsApart
  <2>3. CASE b = c
    <3>1. ReservedCalls(d) /\ (ReservedCalls(c) \/ ~Overlapping(c))
      BY <2>1, <2>3 DEF CallMoves
    <3> QED BY <2>3, <3>1, <1>0, <1>1 DEF ReservationsApart, Overlapping
  <2>4. CASE d = c
    <3>1. ReservedCalls(b) /\ (ReservedCalls(c) \/ ~Overlapping(c))
      BY <2>1, <2>4 DEF CallMoves
    <3> QED BY <2>4, <3>1, <1>0, <1>1 DEF ReservationsApart, Overlapping
  <2> QED BY <2>2, <2>3, <2>4
<1>10. SwitchAlone'
  BY <1>0, <1>1, <1>4 DEF SwitchAlone
<1>11. SettledFirst'
  BY <1>0, <1>1, <1>2, <1>4 DEF SettledFirst, Effect
<1>12. ToldOf'
  <2> SUFFICES ASSUME NEW d \in Ids, Effect(d)', call'[d].published PROVE call'[d].told
    BY DEF ToldOf
  <2>1. Effect(d)
    BY <1>1 DEF Effect
  <2>2. CASE d # c
    BY <2>1, <2>2, <1>0 DEF CallMoves, ToldOf
  <2>3. CASE d = c
    BY <2>1, <2>3, <1>0 DEF CallMoves, ToldOf
  <2> QED BY <2>2, <2>3
<1> QED BY <1>5, <1>6, <1>7, <1>8, <1>9, <1>10, <1>11, <1>12 DEF BridgeInvariant

\* The records of runs and calls under a step.
LEMMA ActiveFalls ==
  ASSUME BridgeTypes, NEW e \in Executions, run' = [run EXCEPT ![e].active = @ - 1]
  PROVE  RunsKeep
<1> DEFINE n == run[e].active - 1
           v == [run[e] EXCEPT !.active = n]
<1>1. run[e] \in RunRecord /\ n \in Int /\ run' = [run EXCEPT ![e] = v] /\ run \in [Executions -> RunRecord]
  BY DEF BridgeTypes, RunRecord
<1> HIDE DEF n
<1>2. /\ v \in RunRecord /\ v.calls = run[e].calls /\ v.stage = run[e].stage /\ v.switching = run[e].switching
      /\ v.working = run[e].working
  BY <1>1, Zenon DEF RunRecord
<1> HIDE DEF v, RunRecord
<1> QED BY <1>1, <1>2 DEF RunsKeep
LEMMA PromptsRise ==
  ASSUME BridgeTypes, NEW e \in Executions, run' = [run EXCEPT ![e].prompts = @ + 1]
  PROVE  RunsKeep
<1> DEFINE n == run[e].prompts + 1
           v == [run[e] EXCEPT !.prompts = n]
<1>1. run[e] \in RunRecord /\ n \in Nat /\ run' = [run EXCEPT ![e] = v] /\ run \in [Executions -> RunRecord]
  BY DEF BridgeTypes, RunRecord
<1> HIDE DEF n
<1>2. /\ v \in RunRecord /\ v.calls = run[e].calls /\ v.stage = run[e].stage /\ v.switching = run[e].switching
      /\ v.working = run[e].working
  BY <1>1, Zenon DEF RunRecord
<1> HIDE DEF v, RunRecord
<1> QED BY <1>1, <1>2 DEF RunsKeep
LEMMA RunsStay == ASSUME BridgeTypes, UNCHANGED run PROVE RunsKeep
BY DEF BridgeTypes, RunsKeep

LEMMA StepOf ==
  ASSUME BridgeTypes, NEW c \in Ids, NEW p \in CallPoints, call' = BridgeStep(c, p)
  PROVE  /\ call' \in [Ids -> CallRecord] /\ \A d \in Ids : d # c => call'[d] = call[d]
         /\ call'[c].pc = p /\ call'[c].kind = call[c].kind /\ call'[c].resource = call[c].resource
         /\ call'[c].began = call[c].began /\ call'[c].published = call[c].published /\ call'[c].told = call[c].told
<1> DEFINE v == [call[c] EXCEPT !.pc = p]
<1>1. call[c] \in CallRecord /\ call' = [call EXCEPT ![c] = v] /\ call \in [Ids -> CallRecord]
  BY DEF BridgeTypes, BridgeStep
<1>2. /\ v \in CallRecord /\ v.pc = p /\ v.kind = call[c].kind /\ v.resource = call[c].resource
      /\ v.began = call[c].began /\ v.published = call[c].published /\ v.told = call[c].told
  BY <1>1, Zenon DEF CallRecord
<1> HIDE DEF v, CallRecord
<1> QED BY <1>1, <1>2
LEMMA EndsMoves ==
  ASSUME BridgeTypes, NEW c \in Ids, NEW good \in BOOLEAN, Ends(c, good), call[c].pc \notin {"unused", "settled"}
  PROVE  CallMoves(c) /\ RunsKeep
<1> DEFINE v == [call[c] EXCEPT !.pc = "settled", !.ok = good]
<1>1. call[c] \in CallRecord /\ call' = [call EXCEPT ![c] = v] /\ call \in [Ids -> CallRecord] /\ "settled" \in CallPoints
  BY DEF BridgeTypes, Ends, CallPoints
<1>2. /\ v \in CallRecord /\ v.pc = "settled" /\ v.kind = call[c].kind /\ v.resource = call[c].resource
      /\ v.began = call[c].began /\ v.published = call[c].published /\ v.told = call[c].told
  BY <1>1, Zenon DEF CallRecord
<1> HIDE DEF v, CallRecord
<1>3. /\ call' \in [Ids -> CallRecord] /\ \A d \in Ids : d # c => call'[d] = call[d]
      /\ call'[c].pc = "settled" /\ call'[c].kind = call[c].kind /\ call'[c].resource = call[c].resource
      /\ call'[c].began = call[c].began /\ call'[c].published = call[c].published /\ call'[c].told = call[c].told
  BY <1>1, <1>2
<1>4. CallMoves(c)
  BY <1>3 DEF CallMoves, ReservedCalls, Through
<1>5. c[1] \in Executions
  BY IdsAre
<1>6. RunsKeep
  BY <1>5, ActiveFalls DEF Ends
<1> QED BY <1>4, <1>6

LEMMA UnchainKeeps == ASSUME BridgeInvariant, NEW c \in Ids, Unchain(c) PROVE BridgeInvariant'
<1>0. BridgeTypes /\ call[c].pc = "chained"
  BY DEF BridgeInvariant, Unchain
<1>1. CASE Chained(c) /\ call' = BridgeStep(c, "preparing") /\ UNCHANGED run
  <2>1. CallMoves(c)
    BY <1>0, <1>1, StepOf DEF CallPoints, CallMoves, ReservedCalls, Through
  <2> QED BY <1>0, <1>1, <2>1, RunsStay, CallMovesKeeps
<1>2. CASE Ends(c, FALSE)
  BY <1>0, <1>2, EndsMoves, CallMovesKeeps
<1> QED BY <1>1, <1>2 DEF Unchain
LEMMA PrepareKeeps == ASSUME BridgeInvariant, NEW c \in Ids, Prepare(c) PROVE BridgeInvariant'
<1>0. BridgeTypes /\ call[c].pc = "preparing"
  BY DEF BridgeInvariant, Prepare
<1>1. CASE ~(WriteLike(c) /\ Overlapping(c)) /\ call' = BridgeStep(c, "locking") /\ UNCHANGED run
  <2>1. CallMoves(c)
    BY <1>0, <1>1, StepOf DEF CallPoints, CallMoves, ReservedCalls, WriteLike, Through
  <2> QED BY <1>0, <1>1, <2>1, RunsStay, CallMovesKeeps
<1>2. CASE Ends(c, FALSE)
  BY <1>0, <1>2, EndsMoves, CallMovesKeeps
<1> QED BY <1>1, <1>2 DEF Prepare
\* Steps within a reservation.
LEMMA WithinKeeps ==
  ASSUME BridgeInvariant, NEW c \in Ids, call[c].pc \in {"locking", "approving", "approved", "acting"}, RunsKeep,
         NEW p \in {"approving", "approved", "unlocking"}, call' = BridgeStep(c, p)
  PROVE  BridgeInvariant'
<1>0. BridgeTypes
  BY DEF BridgeInvariant
<1>1. CallMoves(c)
  BY <1>0, StepOf DEF CallPoints, CallMoves, ReservedCalls, WriteLike, Through
<1> QED BY <1>1, CallMovesKeeps
LEMMA LockedKeeps == ASSUME BridgeInvariant, NEW c \in Ids, Locked(c) PROVE BridgeInvariant'
<1>0. BridgeTypes /\ call[c].pc = "locking" /\ c[1] \in Executions
  BY IdsAre DEF BridgeInvariant, Locked
<1>1. CASE Ends(c, FALSE)
  BY <1>0, <1>1, EndsMoves, CallMovesKeeps
<1>2. CASE call' = BridgeStep(c, "unlocking") /\ UNCHANGED run
  BY <1>0, <1>2, RunsStay, WithinKeeps
<1>3. CASE call' = BridgeStep(c, "approved") /\ UNCHANGED run
  BY <1>0, <1>3, RunsStay, WithinKeeps
<1>4. CASE call' = BridgeStep(c, "approving") /\ run' = [run EXCEPT ![c[1]].prompts = @ + 1]
  BY <1>0, <1>4, PromptsRise, WithinKeeps
<1> QED BY <1>1, <1>2, <1>3, <1>4 DEF Locked
LEMMA AnsweredKeeps == ASSUME BridgeInvariant, NEW c \in Ids, Answered(c) PROVE BridgeInvariant'
<1>0. BridgeTypes /\ call[c].pc = "approving" /\ UNCHANGED run
  BY DEF BridgeInvariant, Answered
<1>1. call' = BridgeStep(c, "approved") \/ call' = BridgeStep(c, "unlocking")
  BY DEF Answered
<1> QED BY <1>0, <1>1, RunsStay, WithinKeeps
LEMMA ActKeeps == ASSUME BridgeInvariant, NEW c \in Ids, Act(c) PROVE BridgeInvariant'
<1>0. BridgeTypes /\ call[c].pc = "approved" /\ UNCHANGED run
  BY DEF BridgeInvariant, Act
<1>1. CASE call' = BridgeStep(c, "unlocking")
  BY <1>0, <1>1, RunsStay, WithinKeeps
<1>2. CASE call' = [call EXCEPT ![c].pc = "acting", ![c].began = TRUE]
  <2> DEFINE v == [call[c] EXCEPT !.pc = "acting", !.began = TRUE]
  <2>1. call[c] \in CallRecord /\ call' = [call EXCEPT ![c] = v] /\ call \in [Ids -> CallRecord] /\ "acting" \in CallPoints
    BY <1>0, <1>2 DEF BridgeTypes, CallPoints
  <2>2. /\ v \in CallRecord /\ v.pc = "acting" /\ v.kind = call[c].kind /\ v.resource = call[c].resource
        /\ v.published = call[c].published /\ v.told = call[c].told
    BY <2>1, Zenon DEF CallRecord
  <2> HIDE DEF v, CallRecord
  <2>3. /\ call' \in [Ids -> CallRecord] /\ \A d \in Ids : d # c => call'[d] = call[d]
        /\ call'[c].pc = "acting" /\ call'[c].kind = call[c].kind /\ call'[c].resource = call[c].resource
        /\ call'[c].published = call[c].published /\ call'[c].told = call[c].told
    BY <2>1, <2>2
  <2>4. CallMoves(c)
    BY <1>0, <2>3 DEF CallMoves, ReservedCalls, WriteLike, Through
  <2> QED BY <1>0, <2>4, RunsStay, CallMovesKeeps
<1> QED BY <1>1, <1>2 DEF Act
\* The record of a call whose provider has settled.
ReturnedWith(r, done, said, good) == [r EXCEPT !.pc = "unlocking", !.published = done, !.told = said, !.ok = good]
IsReturned(x, r, done, said) ==
  /\ x \in CallRecord /\ x.pc = "unlocking" /\ x.kind = r.kind /\ x.resource = r.resource
  /\ x.began = r.began /\ x.published = done /\ x.told = said
LEMMA ReturnedIs ==
  ASSUME NEW B, B = BOOLEAN, NEW r \in CallRecord, NEW done \in B, NEW said \in B, NEW good \in B
  PROVE  IsReturned(ReturnedWith(r, done, said, good), r, done, said)
<1>1. "unlocking" \in CallPoints
  BY DEF CallPoints
<1> QED BY <1>1, Zenon DEF CallRecord, ReturnedWith, IsReturned
LEMMA ActedKeeps == ASSUME BridgeInvariant, NEW c \in Ids, Acted(c) PROVE BridgeInvariant'
<1>0. BridgeTypes /\ call[c].pc = "acting" /\ UNCHANGED run
  BY DEF BridgeInvariant, Acted
<1>1. PICK done \in BOOLEAN, good \in BOOLEAN :
        call' = [call EXCEPT ![c].pc = "unlocking", ![c].published = done, ![c].told = Acknowledged(c, done, good),
                             ![c].ok = good /\ ~Stopped(c)]
  BY DEF Acted
<1> DEFINE t == Acknowledged(c, done, good)
           k == good /\ ~Stopped(c)
           v == ReturnedWith(call[c], done, t, k)
<1>2. call[c] \in CallRecord /\ call' = [call EXCEPT ![c] = v] /\ call \in [Ids -> CallRecord]
  BY <1>0, <1>1 DEF BridgeTypes, ReturnedWith
<1>3. t \in BOOLEAN /\ k \in BOOLEAN /\ (Effect(c) /\ done => t)
  <2>1. t \in BOOLEAN
    BY Zenon DEF Acknowledged
  <2>2. k \in BOOLEAN
    BY Zenon
  <2>3. Effect(c) /\ done => t
    BY Zenon DEF Acknowledged
  <2> QED BY <2>1, <2>2, <2>3, Zenon
<1> HIDE DEF t, k
<1>4. /\ v \in CallRecord /\ v.pc = "unlocking" /\ v.kind = call[c].kind /\ v.resource = call[c].resource
      /\ v.began = call[c].began /\ v.published = done /\ v.told = t
  <2> DEFINE B == BOOLEAN
  <2>1. call[c] \in CallRecord /\ done \in B /\ t \in B /\ k \in B /\ B = BOOLEAN
    BY <1>2, <1>3, Zenon
  <2> HIDE DEF B
  <2>2. IsReturned(v, call[c], done, t)
    BY <2>1, ReturnedIs, Zenon
  <2> QED BY <2>2, Zenon DEF IsReturned
<1> HIDE DEF v, CallRecord
<1>5. /\ call' \in [Ids -> CallRecord] /\ \A d \in Ids : d # c => call'[d] = call[d]
      /\ call'[c].pc = "unlocking" /\ call'[c].kind = call[c].kind /\ call'[c].resource = call[c].resource
      /\ call'[c].began = call[c].began
  BY <1>2, <1>4
<1>6. Effect(c) /\ call'[c].published => call'[c].told
  <2>1. call'[c] = v
    BY <1>2, <1>4
  <2> QED BY <2>1, <1>3, <1>4, Zenon
<1>7. CallMoves(c)
  <2>1. ReservedCalls(c)' => ReservedCalls(c)
    BY <1>0, <1>5 DEF ReservedCalls, WriteLike
  <2> QED BY <1>0, <1>5, <1>6, <2>1 DEF CallMoves, Through
<1> QED BY <1>0, <1>7, RunsStay, CallMovesKeeps
LEMMA UnlockKeeps == ASSUME BridgeInvariant, NEW c \in Ids, Unlock(c) PROVE BridgeInvariant'
<1>0. BridgeTypes /\ call[c].pc = "unlocking"
  BY DEF BridgeInvariant, Unlock
<1>1. PICK released \in BOOLEAN : Ends(c, call[c].ok /\ released)
  BY DEF Unlock
<1> DEFINE good == call[c].ok /\ released
<1>2. good \in BOOLEAN
  BY Zenon
<1> HIDE DEF good
<1>3. Ends(c, good)
  BY <1>1 DEF good
<1> QED BY <1>0, <1>2, <1>3, EndsMoves, CallMovesKeeps

\* Cancellation, the guest's return and the report change only the run.
LEMMA RunStep ==
  ASSUME BridgeInvariant, NEW e \in Executions, Cancel(e) \/ ReturnGuest(e) \/ Report(e)
  PROVE  BridgeInvariant'
<1>0. /\ BridgeTypes /\ Numbered /\ Unmade /\ ChainKept /\ ReservationsApart /\ SwitchAlone /\ SettledFirst /\ ToldOf
      /\ \A d \in Ids : d[1] \in Executions
  BY IdsAre DEF BridgeInvariant
<1>1. ASSUME NEW v, v \in RunRecord, run' = [run EXCEPT ![e] = v], UNCHANGED call,
             v.calls = run[e].calls, v.switching = run[e].switching, v.working = run[e].working,
             v.stage = "returned" => run[e].stage = "returned" \/ DrainedCalls(e)
      PROVE  BridgeInvariant'
  <2>1. /\ run' \in [Executions -> RunRecord]
        /\ \A x \in Executions : /\ run'[x].calls = run[x].calls /\ run'[x].switching = run[x].switching
                                 /\ run'[x].working = run[x].working
                                 /\ run'[x].stage = "returned" => run[x].stage = "returned" \/ DrainedCalls(x)
    BY <1>0, <1>1 DEF BridgeTypes
  <2>2. BridgeTypes' /\ Numbered' /\ Unmade' /\ SwitchAlone'
    BY <1>0, <1>1, <2>1 DEF BridgeTypes, Numbered, Unmade, SwitchAlone
  <2>3. ChainKept' /\ ReservationsApart' /\ ToldOf'
    BY <1>0, <1>1 DEF ChainKept, ReservationsApart, ToldOf, Effect, Before, ReservedCalls, WriteLike
  <2>4. SettledFirst'
    BY <1>0, <1>1, <2>1 DEF SettledFirst, Effect, DrainedCalls, NeedsSettlement
  <2> QED BY <2>2, <2>3, <2>4 DEF BridgeInvariant
<1>2. run[e] \in RunRecord /\ {"draining", "returned"} \subseteq {"running", "draining", "returned"}
  BY <1>0 DEF BridgeTypes
<1>3. CASE Cancel(e)
  <2> DEFINE v == [run[e] EXCEPT !.cancelled = TRUE]
  <2>1. v \in RunRecord /\ v.calls = run[e].calls /\ v.switching = run[e].switching /\ v.working = run[e].working /\ v.stage = run[e].stage
    BY <1>2, Zenon DEF RunRecord
  <2>2. run' = [run EXCEPT ![e] = v] /\ UNCHANGED call
    BY <1>3 DEF Cancel
  <2> HIDE DEF v, RunRecord
  <2> QED BY <1>1, <2>1, <2>2
<1>4. CASE ReturnGuest(e)
  <2> DEFINE v == [run[e] EXCEPT !.stage = "draining"]
  <2>1. v \in RunRecord /\ v.calls = run[e].calls /\ v.switching = run[e].switching /\ v.working = run[e].working /\ v.stage = "draining"
    BY <1>2, Zenon DEF RunRecord
  <2>2. run' = [run EXCEPT ![e] = v] /\ UNCHANGED call
    BY <1>4 DEF ReturnGuest
  <2> HIDE DEF v, RunRecord
  <2> QED BY <1>1, <2>1, <2>2
<1>5. CASE Report(e)
  <2> DEFINE v == [run[e] EXCEPT !.stage = "returned"]
  <2>1. v \in RunRecord /\ v.calls = run[e].calls /\ v.switching = run[e].switching /\ v.working = run[e].working
    BY <1>2, Zenon DEF RunRecord
  <2>2. run' = [run EXCEPT ![e] = v] /\ UNCHANGED call /\ DrainedCalls(e)
    BY <1>5 DEF Report
  <2> HIDE DEF v, RunRecord
  <2> QED BY <1>1, <2>1, <2>2
<1> QED BY <1>3, <1>4, <1>5

\* The record of an execution that makes one more call.
Counted(r, n, m, s, w) == [r EXCEPT !.calls = n, !.active = m, !.switching = s, !.working = w]
IsCounted(x, r, n, s, w) == x \in RunRecord /\ x.calls = n /\ x.switching = s /\ x.working = w /\ x.stage = r.stage
LEMMA CountedIs ==
  ASSUME NEW B, B = BOOLEAN, NEW r \in RunRecord, NEW n \in Nat, NEW m \in Int, NEW s \in B, NEW w \in B
  PROVE  IsCounted(Counted(r, n, m, s, w), r, n, s, w)
BY Zenon DEF RunRecord, Counted, IsCounted
\* A call is made: it gets the next number.
LEMMA Numbers ==
  ASSUME BridgeInvariant, NEW e \in Executions, run[e].calls < MaxCalls[e], NEW c, c = <<e, run[e].calls + 1>>,
         NEW v, v \in CallRecord, v.pc # "unused", v.began = FALSE, v.published = FALSE, v.pc \notin Through \ {"preparing"},
         v.kind = "effect" => v.pc \notin Through,
         NEW s \in BOOLEAN, NEW w \in BOOLEAN,
         s <=> run[e].switching \/ v.kind = "switch",
         w <=> run[e].working \/ v.kind \notin {"switch", "none"},
         v.kind # "none" => run[e].stage = "running" /\ ~run[e].switching,
         v.kind = "switch" => ~run[e].working,
         NEW m \in Int, run' = [run EXCEPT ![e] = Counted(run[e], run[e].calls + 1, m, s, w)], call' = [call EXCEPT ![c] = v]
  PROVE  BridgeInvariant'
<1> DEFINE n == run[e].calls + 1
<1>0. /\ BridgeTypes /\ Numbered /\ Unmade /\ ChainKept /\ ReservationsApart /\ SwitchAlone /\ SettledFirst /\ ToldOf
      /\ \A d \in Ids : d[1] \in Executions /\ d[2] \in Nat /\ d = <<d[1], d[2]>>
  BY IdsAre DEF BridgeInvariant
<1>1. run[e] \in RunRecord /\ run[e].calls \in Nat /\ n \in Nat /\ MaxCalls[e] \in Nat
  BY <1>0, BridgeAssumption DEF BridgeTypes, RunRecord
<1>2. c \in Ids /\ c[1] = e /\ c[2] = n
  BY <1>1, IdsAre
<1>3. call[c].pc = "unused" /\ call[c] = NoCall
  BY <1>0, <1>1, <1>2 DEF Numbered, Unmade
<1>4. NoCall.kind = "none" /\ NoCall.pc = "unused"
  BY DEF NoCall
<1> DEFINE r == Counted(run[e], n, m, s, w)
<1>5. r \in RunRecord /\ r.calls = n /\ r.switching = s /\ r.working = w /\ r.stage = run[e].stage
  <2> DEFINE B == BOOLEAN
  <2>1. run[e] \in RunRecord /\ n \in Nat /\ m \in Int /\ s \in B /\ w \in B /\ B = BOOLEAN
    BY <1>1, Zenon
  <2> HIDE DEF B, n
  <2>2. IsCounted(r, run[e], n, s, w)
    BY <2>1, CountedIs, Zenon
  <2> QED BY <2>2, Zenon DEF IsCounted
<1> HIDE DEF r
<1>6. /\ run' \in [Executions -> RunRecord] /\ run'[e] = r /\ \A x \in Executions : x # e => run'[x] = run[x]
      /\ call' \in [Ids -> CallRecord] /\ call'[c] = v /\ \A d \in Ids : d # c => call'[d] = call[d]
  BY <1>0, <1>2, <1>5 DEF BridgeTypes, r
<1> HIDE DEF n
<1>7. BridgeTypes'
  BY <1>6 DEF BridgeTypes
<1>8. Numbered'
  <2> SUFFICES ASSUME NEW d \in Ids PROVE run'[d[1]].calls < d[2] <=> call'[d].pc = "unused"
    BY DEF Numbered
  <2>1. CASE d = c
    BY <2>1, <1>1, <1>2, <1>5, <1>6
  <2>2. CASE d # c /\ d[1] # e
    BY <2>2, <1>0, <1>6 DEF Numbered
  <2>3. CASE d # c /\ d[1] = e
    <3>1. d[2] # n /\ d[2] \in Nat
      BY <2>3, <1>0, <1>2
    <3>2. run[e].calls < d[2] <=> n < d[2]
      BY <3>1, <1>1 DEF n
    <3> QED BY <2>3, <3>2, <1>0, <1>5, <1>6 DEF Numbered
  <2> QED BY <2>1, <2>2, <2>3
<1>9. Unmade'
  BY <1>0, <1>6 DEF Unmade
<1>10. ChainKept'
  <2> SUFFICES ASSUME NEW b \in Ids, NEW d \in Ids, Effect(b)', call'[b].began \/ call'[b].pc \in Through, d \in Before(b)'
               PROVE  call'[d].pc = "settled" /\ call'[d].ok
    BY DEF ChainKept
  <2>1. b # c
    BY <1>6 DEF Effect
  <2>2. call'[b] = call[b] /\ call[b].pc # "unused"
    <3>1. call'[b] = call[b]
      BY <2>1, <1>6
    <3>2. call[b].kind = "effect"
      BY <3>1 DEF Effect
    <3> QED BY <3>1, <3>2, <1>0, <1>4 DEF Unmade
  <2>3. d[1] = b[1] /\ d[2] < b[2] /\ call'[d].kind = "effect"
    BY DEF Before, Effect
  <2>4. d # c
    <3>1. ~(run[b[1]].calls < b[2])
      BY <2>2, <1>0 DEF Numbered
    <3>2. b[1] = e => b[2] <= run[e].calls /\ b[2] \in Nat
      BY <3>1, <1>0, <1>1
    <3> QED BY <2>3, <3>2, <1>1, <1>2 DEF n
  <2>5. Effect(b) /\ d \in Before(b) /\ call'[d] = call[d]
    BY <2>2, <2>3, <2>4, <1>6 DEF Effect, Before
  <2> QED BY <2>2, <2>5, <1>0 DEF ChainKept
<1>11. ReservationsApart'
  <2>1. ~ReservedCalls(c)'
    BY <1>6 DEF ReservedCalls, Through
  <2>2. \A d \in Ids : d # c => (ReservedCalls(d)' => ReservedCalls(d)) /\ call'[d].resource = call[d].resource
    BY <1>6 DEF ReservedCalls, WriteLike
  <2> QED BY <2>1, <2>2, <1>0 DEF ReservationsApart
<1>12. SwitchAlone'
  <2>1. \A d \in Ids : call'[d].kind = "switch" => run'[d[1]].switching
    <3> TAKE d \in Ids
    <3>1. CASE d = c
      BY <3>1, <1>2, <1>5, <1>6
    <3>2. CASE d # c /\ d[1] # e
      BY <3>2, <1>0, <1>6 DEF SwitchAlone
    <3>3. CASE d # c /\ d[1] = e
      BY <3>3, <1>0, <1>5, <1>6 DEF SwitchAlone
    <3> QED BY <3>1, <3>2, <3>3
  <2>2. \A d \in Ids : call'[d].kind \notin {"switch", "none"} => run'[d[1]].working
    <3> TAKE d \in Ids
    <3>1. CASE d = c
      BY <3>1, <1>2, <1>5, <1>6
    <3>2. CASE d # c /\ d[1] # e
      BY <3>2, <1>0, <1>6 DEF SwitchAlone
    <3>3. CASE d # c /\ d[1] = e
      BY <3>3, <1>0, <1>5, <1>6 DEF SwitchAlone
    <3> QED BY <3>1, <3>2, <3>3
  <2>3. ASSUME NEW b \in Ids, NEW d \in Ids, b[1] = d[1], call'[b].kind = "switch", d # b
        PROVE  call'[d].kind = "none"
    <3>1. CASE b = c
      <4>1. d # c /\ d[1] = e /\ call'[d] = call[d]
        BY <2>3, <3>1, <1>2, <1>6
      <4>2. ~run[e].working /\ ~run[e].switching
        BY <2>3, <3>1, <1>6
      <4> QED BY <4>1, <4>2, <1>0 DEF SwitchAlone
    <3>2. CASE d = c
      <4>1. b # c /\ b[1] = e /\ call'[b] = call[b] /\ call[b].kind = "switch"
        BY <2>3, <3>2, <1>2, <1>6
      <4>2. run[e].switching
        BY <4>1, <1>0 DEF SwitchAlone
      <4> QED BY <4>2, <3>2, <1>6
    <3>3. CASE b # c /\ d # c
      BY <2>3, <3>3, <1>0, <1>6 DEF SwitchAlone
    <3> QED BY <3>1, <3>2, <3>3
  <2> QED BY <2>1, <2>2, <2>3 DEF SwitchAlone
<1>13. SettledFirst'
  <2> SUFFICES ASSUME NEW d \in Ids, run'[d[1]].stage = "returned", Effect(d)' PROVE call'[d].pc = "settled"
    BY DEF SettledFirst
  <2>1. run[d[1]].stage = "returned"
    BY <1>0, <1>5, <1>6
  <2>2. d # c
    BY <2>1, <1>2, <1>6 DEF Effect
  <2> QED BY <2>1, <2>2, <1>0, <1>6 DEF SettledFirst, Effect
<1>14. ToldOf'
  <2> SUFFICES ASSUME NEW d \in Ids, Effect(d)', call'[d].published PROVE call'[d].told
    BY DEF ToldOf
  <2>1. d # c
    BY <1>6
  <2> QED BY <2>1, <1>0, <1>6 DEF ToldOf, Effect
<1> QED BY <1>7, <1>8, <1>9, <1>10, <1>11, <1>12, <1>13, <1>14 DEF BridgeInvariant

LEMMA AdmitKeeps ==
  ASSUME BridgeInvariant, NEW e \in Executions, NEW k \in Kinds[e], NEW r \in Resources, Admit(e, k, r)
  PROVE  BridgeInvariant'
<1> DEFINE c == <<e, run[e].calls + 1>>
<1>0. /\ BridgeTypes /\ Numbered /\ Unmade /\ k \in CallKinds
      /\ run[e].stage = "running" /\ run[e].calls < MaxCalls[e]
      /\ \A n \in Nat : 1 <= n /\ n <= MaxCalls[e] => <<e, n>> \in Ids
  BY IdsAre, BridgeAssumption DEF BridgeInvariant, Admit, CallKinds
<1>1. /\ run[e] \in RunRecord /\ run[e].calls \in Nat /\ MaxCalls[e] \in Nat /\ run[e].active \in Int
      /\ run[e].switching \in BOOLEAN /\ run[e].working \in BOOLEAN
  BY <1>0, BridgeAssumption DEF BridgeTypes, RunRecord
<1>2. c \in Ids /\ call[c] = NoCall
  <2>1. c \in Ids /\ c[1] = e /\ c[2] = run[e].calls + 1
    BY <1>0, <1>1
  <2>2. call[c].pc = "unused"
    BY <2>1, <1>0, <1>1 DEF Numbered
  <2> QED BY <2>1, <2>2, <1>0 DEF Unmade
<1>3. NoCall \in CallRecord
  BY DEF NoCall, CallRecord, CallPoints
<1>4. CASE run' = [run EXCEPT ![e].calls = @ + 1] /\ call' = [call EXCEPT ![c].pc = "settled"]
  <2> DEFINE v == [NoCall EXCEPT !.pc = "settled"]
  <2>1. v \in CallRecord /\ v.pc = "settled" /\ v.kind = "none" /\ v.began = FALSE /\ v.published = FALSE
    BY DEF NoCall, CallRecord, CallPoints
  <2>2. call' = [call EXCEPT ![c] = v]
    BY <1>2, <1>4
  <2>3. run' = [run EXCEPT ![e] = Counted(run[e], run[e].calls + 1, run[e].active, run[e].switching, run[e].working)]
    <3> DEFINE x == run[e]
               n == run[e].calls + 1
    <3>1. [x EXCEPT !.calls = n] = [x EXCEPT !.calls = n, !.active = x.active, !.switching = x.switching, !.working = x.working]
      <4>1. x \in RunRecord
        BY <1>1
      <4> HIDE DEF x, n
      <4> QED BY <4>1 DEF RunRecord
    <3>2. run' = [run EXCEPT ![e] = [x EXCEPT !.calls = n]]
      BY <1>4
    <3> QED BY <3>1, <3>2 DEF Counted
  <2> HIDE DEF v, c
  <2> QED BY <1>0, <1>1, <2>1, <2>2, <2>3, Numbers DEF Through, c
<1>5. CASE /\ ~(run[e].switching \/ (k = "switch" /\ run[e].working))
           /\ call' = [call EXCEPT ![c] = [NoCall EXCEPT !.kind = k, !.resource = r, !.pc = IF k = "effect" THEN "chained" ELSE "preparing"]]
           /\ run' = [run EXCEPT ![e].calls = @ + 1, ![e].active = @ + 1, ![e].switching = @ \/ k = "switch",
                         ![e].working = @ \/ k # "switch"]
  <2> DEFINE p == IF k = "effect" THEN "chained" ELSE "preparing"
             v == [NoCall EXCEPT !.kind = k, !.resource = r, !.pc = p]
             s == run[e].switching \/ k = "switch"
             w == run[e].working \/ k # "switch"
             m == run[e].active + 1
  <2>1. p \in {"chained", "preparing"} /\ p \in CallPoints /\ (k = "effect" => p = "chained")
    BY DEF CallPoints
  <2> HIDE DEF p
  <2>2. v \in CallRecord /\ v.pc = p /\ v.kind = k /\ v.began = FALSE /\ v.published = FALSE
    BY <1>0, <2>1 DEF NoCall, CallRecord
  <2>3. call' = [call EXCEPT ![c] = v]
    BY <1>5 DEF p
  <2>4. run' = [run EXCEPT ![e] = Counted(run[e], run[e].calls + 1, m, s, w)]
    BY <1>5 DEF Counted
  <2>5. s \in BOOLEAN /\ w \in BOOLEAN /\ m \in Int
    <3>1. s \in BOOLEAN
      BY Zenon
    <3>2. w \in BOOLEAN
      BY Zenon
    <3> QED BY <3>1, <3>2, <1>1
  <2>6. /\ v.kind = k /\ k \in CallKinds /\ v.kind # "none" /\ v.pc \notin Through \ {"preparing"} /\ v.pc # "unused"
        /\ (v.kind = "effect" => v.pc \notin Through)
    BY <1>0, <2>1, <2>2 DEF Through, CallKinds
  <2>7. (s <=> run[e].switching \/ v.kind = "switch") /\ (w <=> run[e].working \/ v.kind \notin {"switch", "none"})
    <3>1. v.kind = k /\ k # "none"
      BY <2>6
    <3> HIDE DEF v
    <3> QED BY <3>1, Zenon
  <2>8. ~run[e].switching /\ (v.kind = "switch" => ~run[e].working)
    BY <1>5, <2>6
  <2> HIDE DEF v, c, s, w, m
  <2> QED BY <1>0, <1>1, <2>2, <2>3, <2>4, <2>5, <2>6, <2>7, <2>8, Numbers DEF c
<1> QED BY <1>4, <1>5 DEF Admit

LEMMA BridgeMoves ==
  ASSUME BridgeInvariant, [BridgeNext]_bridgeVars
  PROVE  BridgeInvariant'
<1>1. ASSUME NEW c \in Ids, Unchain(c) \/ Prepare(c) \/ Locked(c) \/ Answered(c) \/ Act(c) \/ Acted(c) \/ Unlock(c)
      PROVE  BridgeInvariant'
  BY <1>1, UnchainKeeps, PrepareKeeps, LockedKeeps, AnsweredKeeps, ActKeeps, ActedKeeps, UnlockKeeps
<1>2. CASE UNCHANGED bridgeVars
  BY <1>2 DEF bridgeVars, BridgeInvariant, BridgeTypes, Numbered, Unmade, ChainKept, ReservationsApart, SwitchAlone, SettledFirst,
              ToldOf, Effect, Before, ReservedCalls, WriteLike
<1> QED BY <1>1, <1>2, RunStep, AdmitKeeps DEF BridgeNext

LEMMA BridgeSound ==
  ASSUME BridgeInvariant
  PROVE  FailurePoisons /\ WritersExclude /\ ReportedIsSettled /\ PublicationTold
<1>0. ChainKept /\ ReservationsApart /\ SwitchAlone /\ SettledFirst /\ ToldOf
  BY DEF BridgeInvariant
<1>1. FailurePoisons
  BY <1>0 DEF FailurePoisons, ChainKept
<1>2. WritersExclude
  <2> SUFFICES ASSUME NEW c \in Ids, NEW d \in Ids, c # d, call[c].pc = "acting", call[d].pc = "acting"
               PROVE  /\ ~(Effect(c) /\ Effect(d) /\ c[1] = d[1])
                      /\ ~(WriteLike(c) /\ WriteLike(d) /\ call[c].resource = call[d].resource)
    BY DEF WritersExclude
  <2>1. ASSUME Effect(c), Effect(d), c[1] = d[1] PROVE FALSE
    <3>1. c[2] # d[2] /\ c[2] \in Nat /\ d[2] \in Nat
      BY <2>1, IdsAre
    <3>2. d \in Before(c) \/ c \in Before(d)
      BY <2>1, <3>1 DEF Before
    <3> QED BY <2>1, <3>2, <1>0 DEF ChainKept, Through
  <2>2. ~(WriteLike(c) /\ WriteLike(d) /\ call[c].resource = call[d].resource)
    BY <1>0 DEF ReservationsApart, ReservedCalls
  <2> QED BY <2>1, <2>2
<1>3. ReportedIsSettled
  BY <1>0 DEF ReportedIsSettled, SettledFirst, SwitchAlone
<1>4. PublicationTold
  BY <1>0 DEF PublicationTold, ToldOf
<1> QED BY <1>1, <1>2, <1>3, <1>4

-----------------------------------------------------------------------------
(* The guest's side of its host calls.                                        *)

\* The types of the guest's semaphore, of its calls and of its helper.
GuestTypes ==
  /\ sem \in [active : Nat, waiters : Seq(HostCalls), stopped : BOOLEAN]
  /\ host \in [HostCalls -> {"unused", "queued", "granted", "working", "done", "failed"}]
  /\ fan \in [width : Nat, cursor : 0 .. Items, stopped : BOOLEAN, outcome : {"none", "pending", "fulfilled", "rejected"},
              item : [1 .. Items -> {"unused", "running", "done", "failed"}]]

\* The helper takes its items in order, so those past the cursor were not begun.
ItemsInOrder ==
  /\ \A i \in 1 .. Items : fan.cursor < i <=> fan.item[i] = "unused"
  /\ \A i \in 1 .. Items : fan.cursor < i => host[i] = "unused"
  /\ fan.outcome = "none" => fan.cursor = 0

\* It stops when an item fails, and a failure is what rejects it.
StoppedByFailure == fan.stopped <=> fan.outcome = "rejected"

GuestInvariant == GuestTypes /\ PermitsHeld /\ ItemsInOrder /\ StoppedByFailure /\ ResultsComplete

\* The calls that hold a permit, and the queue call by call.
Permitted(h) == {c \in HostCalls : h[c] \in {"granted", "working"}}
InLine(w, h) ==
  /\ \A k \in 1 .. Len(w) : h[w[k]] = "queued"
  /\ \A c \in HostCalls : h[c] = "queued" => \E k \in 1 .. Len(w) : w[k] = c
  /\ \A j, k \in 1 .. Len(w) : w[j] = w[k] => j = k
Permits(s, h) ==
  /\ s.active = Cardinality(Permitted(h)) /\ s.active <= MaxParallel
  /\ InLine(s.waiters, h) /\ (s.waiters # <<>> => s.active = MaxParallel /\ ~s.stopped)
GuestRecord == [active : Nat, waiters : Seq(HostCalls), stopped : BOOLEAN]
HostStates == {"unused", "queued", "granted", "working", "done", "failed"}

LEMMA LineIs ==
  ASSUME NEW w \in Seq(HostCalls), NEW h
  PROVE  InLine(w, h) <=> Range(w) = {c \in HostCalls : h[c] = "queued"} /\ IsInjective(w)
<1>1. DOMAIN w = 1 .. Len(w) /\ \A k \in 1 .. Len(w) : w[k] \in HostCalls
  OBVIOUS
<1>2. Range(w) = {w[k] : k \in 1 .. Len(w)} /\ (IsInjective(w) <=> \A j, k \in 1 .. Len(w) : w[j] = w[k] => j = k)
  BY <1>1 DEF Range, IsInjective
<1> QED BY <1>1, <1>2 DEF InLine
LEMMA PermitsAre ==
  ASSUME sem \in GuestRecord
  PROVE  PermitsHeld <=> Permits(sem, host)
<1>1. sem.waiters \in Seq(HostCalls)
  BY DEF GuestRecord
<1> QED BY <1>1, LineIs DEF PermitsHeld, Permits, Permitted

\* Calls are finitely many: what holding one permit more or less does.
LEMMA PermittedCount ==
  ASSUME NEW h
  PROVE  IsFiniteSet(Permitted(h)) /\ Cardinality(Permitted(h)) \in Nat
<1>1. IsFiniteSet(HostCalls)
  BY GuestAssumption, FS_Interval DEF HostCalls
<1>2. Permitted(h) \in SUBSET HostCalls
  BY DEF Permitted
<1> QED BY <1>1, <1>2, FS_Subset, FS_CardinalityType
LEMMA OneMore ==
  ASSUME NEW h, NEW g, NEW c, c \notin Permitted(h), Permitted(g) = Permitted(h) \cup {c}
  PROVE  Cardinality(Permitted(g)) = Cardinality(Permitted(h)) + 1
BY PermittedCount, FS_AddElement
LEMMA OneLess ==
  ASSUME NEW h, NEW g, NEW c, c \in Permitted(h), Permitted(g) = Permitted(h) \ {c}
  PROVE  Cardinality(Permitted(g)) = Cardinality(Permitted(h)) - 1
BY PermittedCount, FS_RemoveElement
LEMMA HandedOver ==
  ASSUME NEW h, NEW g, NEW c, NEW d, c \in Permitted(h), d \notin Permitted(h), Permitted(g) = (Permitted(h) \ {c}) \cup {d}
  PROVE  Cardinality(Permitted(g)) = Cardinality(Permitted(h))
<1>1. IsFiniteSet(Permitted(h) \ {c}) /\ Cardinality(Permitted(h) \ {c}) = Cardinality(Permitted(h)) - 1
  BY PermittedCount, FS_RemoveElement
<1>2. d \notin Permitted(h) \ {c}
  OBVIOUS
<1>3. Cardinality((Permitted(h) \ {c}) \cup {d}) = Cardinality(Permitted(h) \ {c}) + 1
  BY <1>1, <1>2, FS_AddElement
<1> QED BY <1>1, <1>3, PermittedCount

\* A call asks for a permit: it holds one, waits last, or is refused.
LEMMA AcquireKeeps ==
  ASSUME sem \in GuestRecord, host \in [HostCalls -> HostStates], Permits(sem, host),
         NEW c \in HostCalls, host[c] = "unused", Acquire(c)
  PROVE  /\ sem' \in GuestRecord /\ host' \in [HostCalls -> HostStates] /\ Permits(sem', host')
         /\ \A d \in HostCalls \ {c} : host'[d] = host[d]
<1>1. sem.active \in Nat /\ sem.waiters \in Seq(HostCalls) /\ sem.stopped \in BOOLEAN /\ MaxParallel \in Nat
  BY GuestAssumption DEF GuestRecord
<1>2. c \notin Permitted(host) /\ \A k \in 1 .. Len(sem.waiters) : sem.waiters[k] # c /\ sem.waiters[k] \in HostCalls
  BY <1>1 DEF Permitted, Permits, InLine
<1>3. CASE sem.stopped
  <2>1. host' = [host EXCEPT ![c] = "failed"] /\ UNCHANGED sem
    BY <1>3 DEF Acquire
  <2>2. Permitted(host') = Permitted(host)
    BY <2>1, <1>2 DEF Permitted
  <2>3. InLine(sem.waiters, host')
    BY <2>1, <1>1, <1>2 DEF Permits, InLine
  <2> QED BY <2>1, <2>2, <2>3 DEF Permits, HostStates
<1>4. CASE ~sem.stopped /\ sem.active < MaxParallel
  <2>1. host' = [host EXCEPT ![c] = "granted"] /\ sem' = [sem EXCEPT !.active = @ + 1]
    BY <1>4 DEF Acquire
  <2>2. Permitted(host') = Permitted(host) \cup {c}
    BY <2>1 DEF Permitted
  <2>3. Cardinality(Permitted(host')) = sem.active + 1
    BY <2>2, <1>2, OneMore DEF Permits
  <2>4. sem'.active = sem.active + 1 /\ sem'.waiters = sem.waiters /\ sem'.stopped = sem.stopped /\ sem' \in GuestRecord
    BY <2>1, <1>1 DEF GuestRecord
  <2>5. InLine(sem.waiters, host')
    BY <2>1, <1>1, <1>2 DEF Permits, InLine
  <2>6. sem.waiters = <<>>
    BY <1>1, <1>4 DEF Permits
  <2> QED BY <1>1, <1>4, <2>1, <2>3, <2>4, <2>5, <2>6 DEF Permits, HostStates
<1>5. CASE ~sem.stopped /\ ~(sem.active < MaxParallel)
  <2>1. host' = [host EXCEPT ![c] = "queued"] /\ sem' = [sem EXCEPT !.waiters = Append(@, c)]
    BY <1>5 DEF Acquire
  <2> DEFINE w == sem.waiters
             x == Append(w, c)
  <2>2. Permitted(host') = Permitted(host)
    BY <2>1, <1>2 DEF Permitted
  <2>3. /\ w \in Seq(HostCalls) /\ x \in Seq(HostCalls) /\ Len(w) \in Nat /\ Len(x) = Len(w) + 1
        /\ (\A i \in 1 .. Len(w) : x[i] = w[i]) /\ x[Len(w) + 1] = c
    BY <1>1, Appended
  <2>4. sem'.active = sem.active /\ sem'.waiters = x /\ sem'.stopped = sem.stopped /\ sem' \in GuestRecord
    BY <2>1, <2>3, <1>1 DEF GuestRecord
  <2>5. /\ \A k \in 1 .. Len(w) : w[k] # c /\ w[k] \in HostCalls
        /\ InLine(w, host) /\ sem.active <= MaxParallel
    BY <1>2 DEF Permits
  <2> HIDE DEF w, x
  <2>6. host'[c] = "queued" /\ \A d \in HostCalls \ {c} : host'[d] = host[d]
    BY <2>1
  <2>7. \A k \in 1 .. Len(x) : (k \in 1 .. Len(w) /\ x[k] = w[k]) \/ (k = Len(w) + 1 /\ x[k] = c)
    BY <2>3
  <2>8. \A k \in 1 .. Len(x) : host'[x[k]] = "queued"
    BY <2>5, <2>6, <2>7 DEF InLine
  <2>9. \A d \in HostCalls : host'[d] = "queued" => \E k \in 1 .. Len(x) : x[k] = d
    <3> SUFFICES ASSUME NEW d \in HostCalls, host'[d] = "queued" PROVE \E k \in 1 .. Len(x) : x[k] = d
      OBVIOUS
    <3>1. CASE d = c
      BY <3>1, <2>3
    <3>2. CASE d # c
      <4>1. PICK k \in 1 .. Len(w) : w[k] = d
        BY <3>2, <2>5, <2>6 DEF InLine
      <4> QED BY <4>1, <2>3
    <3> QED BY <3>1, <3>2
  <2>10. \A j, k \in 1 .. Len(x) : x[j] = x[k] => j = k
    BY <2>5, <2>7 DEF InLine
  <2> QED
    BY SMTT(40), <1>1, <1>5, <2>1, <2>2, <2>4, <2>5, <2>6, <2>8, <2>9, <2>10 DEF Permits, InLine, HostStates
<1> QED BY <1>3, <1>4, <1>5

\* A call that held a permit ends: the first that waits gets it, or none does.
LEMMA ReleaseKeeps ==
  ASSUME sem \in GuestRecord, host \in [HostCalls -> HostStates], Permits(sem, host),
         NEW c \in HostCalls, host[c] \in {"granted", "working"}, NEW end \in {"done", "failed"}, ReleasedTo(c, end)
  PROVE  /\ sem' \in GuestRecord /\ host' \in [HostCalls -> HostStates] /\ Permits(sem', host')
         /\ \A d \in HostCalls : host[d] = "unused" => host'[d] = "unused"
<1>1. sem.active \in Nat /\ sem.waiters \in Seq(HostCalls) /\ sem.stopped \in BOOLEAN /\ MaxParallel \in Nat
  BY GuestAssumption DEF GuestRecord
<1>2. c \in Permitted(host) /\ \A k \in 1 .. Len(sem.waiters) : sem.waiters[k] # c /\ sem.waiters[k] \in HostCalls
  BY <1>1 DEF Permitted, Permits, InLine
<1>3. CASE ~sem.stopped /\ sem.waiters # <<>>
  <2> DEFINE w == sem.waiters
             d == Head(w)
             x == Tail(w)
  <2>1. host' = [host EXCEPT ![c] = end, ![d] = "granted"] /\ sem' = [sem EXCEPT !.waiters = x]
    BY <1>3 DEF ReleasedTo
  <2>2. /\ Len(w) \in Nat /\ Len(w) >= 1 /\ d = w[1] /\ d \in HostCalls /\ x \in Seq(HostCalls) /\ Len(x) = Len(w) - 1
        /\ \A i \in 1 .. Len(x) : x[i] = w[i + 1]
    BY <1>1, <1>3, HeadAndTail
  <2>3. /\ \A k \in 1 .. Len(w) : w[k] # c /\ w[k] \in HostCalls
        /\ InLine(w, host) /\ sem.active = MaxParallel /\ sem.active = Cardinality(Permitted(host))
    BY <1>2, <1>3 DEF Permits
  <2>4. sem'.active = sem.active /\ sem'.waiters = x /\ sem'.stopped = sem.stopped /\ sem' \in GuestRecord
    BY <2>1, <2>2, <1>1 DEF GuestRecord
  <2> HIDE DEF w, d, x
  <2>5. d # c /\ host[d] = "queued"
    BY <2>2, <2>3 DEF InLine
  <2>6. host'[c] = end /\ host'[d] = "granted" /\ \A a \in HostCalls \ {c, d} : host'[a] = host[a]
    BY <2>1, <2>2, <2>5
  <2>7. Permitted(host') = (Permitted(host) \ {c}) \cup {d} /\ d \notin Permitted(host)
    BY <2>2, <2>5, <2>6 DEF Permitted
  <2>8. Cardinality(Permitted(host')) = sem.active
    BY <1>2, <2>3, <2>7, HandedOver
  <2>9. \A i \in 1 .. Len(x) : i + 1 \in 1 .. Len(w) /\ x[i] = w[i + 1] /\ w[i + 1] # d
    BY <2>2, <2>3 DEF InLine
  <2>10. \A k \in 1 .. Len(x) : host'[x[k]] = "queued"
    BY <2>3, <2>6, <2>9 DEF InLine
  <2>11. \A a \in HostCalls : host'[a] = "queued" => \E k \in 1 .. Len(x) : x[k] = a
    <3> SUFFICES ASSUME NEW a \in HostCalls, host'[a] = "queued" PROVE \E k \in 1 .. Len(x) : x[k] = a
      OBVIOUS
    <3>1. a \notin {c, d} /\ host[a] = "queued"
      BY <2>6
    <3>2. PICK k \in 1 .. Len(w) : w[k] = a
      BY <3>1, <2>3 DEF InLine
    <3>3. k # 1
      BY <3>1, <3>2, <2>2
    <3>4. k - 1 \in 1 .. Len(x) /\ (k - 1) + 1 = k
      BY <3>3, <2>2
    <3> QED BY <3>2, <3>4, <2>2
  <2>12. \A j, k \in 1 .. Len(x) : x[j] = x[k] => j = k
    <3> SUFFICES ASSUME NEW j \in 1 .. Len(x), NEW k \in 1 .. Len(x), x[j] = x[k] PROVE j = k
      OBVIOUS
    <3>1. j + 1 = k + 1
      BY SMTT(40), <2>3, <2>9 DEF InLine
    <3> QED BY <3>1, <2>2
  <2>13. host' \in [HostCalls -> HostStates]
    BY <2>1 DEF HostStates
  <2>14. \A a \in HostCalls : host[a] = "unused" => host'[a] = "unused"
    BY <2>5, <2>6
  <2>15. InLine(x, host')
    BY <2>10, <2>11, <2>12 DEF InLine
  <2> QED BY <1>1, <1>3, <2>3, <2>4, <2>8, <2>13, <2>14, <2>15 DEF Permits
<1>4. CASE ~(~sem.stopped /\ sem.waiters # <<>>)
  <2>1. host' = [host EXCEPT ![c] = end] /\ sem' = [sem EXCEPT !.active = @ - 1]
    BY <1>4 DEF ReleasedTo
  <2>2. sem.waiters = <<>>
    BY <1>4 DEF Permits
  <2>3. Permitted(host') = Permitted(host) \ {c}
    BY <2>1 DEF Permitted
  <2>4. Cardinality(Permitted(host')) = sem.active - 1 /\ Cardinality(Permitted(host')) \in Nat
    BY <2>3, <1>2, OneLess, PermittedCount DEF Permits
  <2>5. sem'.active = sem.active - 1 /\ sem'.waiters = sem.waiters /\ sem'.stopped = sem.stopped /\ sem' \in GuestRecord
    BY <2>1, <2>4, <1>1 DEF GuestRecord
  <2>6. InLine(sem.waiters, host') /\ sem.active <= MaxParallel
    BY <2>1, <1>1, <1>2 DEF Permits, InLine
  <2> QED BY <1>1, <2>1, <2>2, <2>4, <2>5, <2>6 DEF Permits, HostStates
<1> QED BY <1>3, <1>4

FanRecord == [width : Nat, cursor : 0 .. Items, stopped : BOOLEAN, outcome : {"none", "pending", "fulfilled", "rejected"},
              item : [1 .. Items -> {"unused", "running", "done", "failed"}]]
\* What the helper's record alone must satisfy.
FanSound(f) ==
  /\ f \in FanRecord
  /\ \A i \in 1 .. Items : f.cursor < i <=> f.item[i] = "unused"
  /\ f.outcome = "none" => f.cursor = 0
  /\ f.stopped <=> f.outcome = "rejected"
  /\ f.outcome = "fulfilled" => \A i \in 1 .. Items : f.item[i] = "done"
  /\ f.outcome = "rejected" <=> \E i \in 1 .. Items : f.item[i] = "failed"
  /\ f.outcome = "pending" /\ ~(\E i \in 1 .. Items : f.item[i] = "running") => f.cursor < Items
UnbegunUnused(f, h) == \A i \in 1 .. Items : f.cursor < i => h[i] = "unused"
GuestParts ==
  /\ sem \in GuestRecord /\ host \in [HostCalls -> HostStates] /\ Permits(sem, host)
  /\ FanSound(fan) /\ UnbegunUnused(fan, host)
LEMMA GuestIs ==
  GuestInvariant <=> /\ sem \in GuestRecord /\ host \in [HostCalls -> HostStates] /\ Permits(sem, host)
                     /\ FanSound(fan) /\ UnbegunUnused(fan, host)
<1>1. RunningItems = {} <=> ~(\E i \in 1 .. Items : fan.item[i] = "running")
  BY DEF RunningItems
<1>2. GuestTypes <=> sem \in GuestRecord /\ host \in [HostCalls -> HostStates] /\ fan \in FanRecord
  BY Zenon DEF GuestTypes, GuestRecord, HostStates, FanRecord
<1>3. ItemsInOrder /\ StoppedByFailure /\ ResultsComplete /\ fan \in FanRecord <=> FanSound(fan) /\ UnbegunUnused(fan, host)
  BY <1>1, Zenon DEF ItemsInOrder, StoppedByFailure, ResultsComplete, FanSound, UnbegunUnused
<1>4. sem \in GuestRecord => (PermitsHeld <=> Permits(sem, host))
  BY PermitsAre
<1> QED BY <1>2, <1>3, <1>4, Zenon DEF GuestInvariant
LEMMA GuestSplit == GuestInvariant <=> GuestParts
BY GuestIs DEF GuestParts
LEMMA PartsSuffice == ASSUME GuestParts' PROVE GuestInvariant'
BY GuestSplit, PTL
LEMMA ItemsAreCalls == 1 .. Items \subseteq HostCalls /\ Items \in Nat /\ MaxParallel \in Nat
BY GuestAssumption DEF HostCalls

LEMMA GuestBegins == ASSUME GuestInit PROVE GuestInvariant
<1>1. sem \in GuestRecord /\ host \in [HostCalls -> HostStates] /\ sem.active = 0 /\ sem.waiters = <<>> /\ \A c \in HostCalls : host[c] = "unused"
  BY DEF GuestInit, GuestRecord, HostStates
<1>2. Permitted(host) = {} /\ Cardinality(Permitted(host)) = 0
  BY <1>1, FS_EmptySet DEF Permitted
<1>3. Permits(sem, host)
  BY <1>1, <1>2, ItemsAreCalls DEF Permits, InLine
<1>4. /\ fan.width = 0 /\ fan.cursor = 0 /\ fan.stopped = FALSE /\ fan.outcome = "none" /\ \A i \in 1 .. Items : fan.item[i] = "unused"
      /\ fan \in FanRecord
  BY ItemsAreCalls DEF GuestInit, FanRecord
<1>5. FanSound(fan) /\ UnbegunUnused(fan, host)
  BY <1>1, <1>4, ItemsAreCalls DEF FanSound, UnbegunUnused
<1> QED BY <1>1, <1>3, <1>5, GuestIs

\* A step of the calls that leaves the helper alone and begins no item's call.
LEMMA CallsMove ==
  ASSUME GuestInvariant, UNCHANGED fan, sem' \in GuestRecord, host' \in [HostCalls -> HostStates], Permits(sem', host'),
         UnbegunUnused(fan, host')
  PROVE  GuestInvariant'
<1>1. FanSound(fan)
  BY GuestIs
<1>2. FanSound(fan') /\ UnbegunUnused(fan', host')
  BY <1>1
<1> QED BY <1>2, PartsSuffice DEF GuestParts
\* A step of the helper alone, which never goes back.
LEMMA FanMoves ==
  ASSUME GuestInvariant, UNCHANGED <<sem, host>>, FanSound(fan'), fan'.cursor >= fan.cursor, fan.cursor \in Int
  PROVE  GuestInvariant'
<1>1. sem \in GuestRecord /\ host \in [HostCalls -> HostStates] /\ Permits(sem, host) /\ UnbegunUnused(fan, host)
  BY GuestIs
<1>2. UnbegunUnused(fan', host')
  BY <1>1, ItemsAreCalls DEF UnbegunUnused, FanSound, FanRecord
<1>3. sem' \in GuestRecord /\ host' \in [HostCalls -> HostStates] /\ Permits(sem', host')
  BY <1>1
<1> QED BY <1>2, <1>3, PartsSuffice DEF GuestParts

LEMMA CallDirectlyKeeps == ASSUME GuestInvariant, NEW c \in HostCalls, CallDirectly(c) PROVE GuestInvariant'
<1>1. sem \in GuestRecord /\ host \in [HostCalls -> HostStates] /\ Permits(sem, host) /\ UnbegunUnused(fan, host)
  BY GuestIs
<1>2. c > Items /\ host[c] = "unused" /\ Acquire(c) /\ UNCHANGED fan
  BY DEF CallDirectly
<1>3. /\ sem' \in GuestRecord /\ host' \in [HostCalls -> HostStates] /\ Permits(sem', host')
      /\ \A d \in HostCalls \ {c} : host'[d] = host[d]
  BY <1>1, <1>2, AcquireKeeps
<1>4. \A i \in 1 .. Items : i # c /\ i \in HostCalls
  BY <1>2, ItemsAreCalls
<1>5. UnbegunUnused(fan, host')
  BY <1>1, <1>3, <1>4 DEF UnbegunUnused
<1> QED BY <1>2, <1>3, <1>5, CallsMove
LEMMA EndsKeeps ==
  ASSUME GuestInvariant, NEW c \in HostCalls, host[c] \in {"granted", "working"}, UNCHANGED fan,
         NEW end \in {"done", "failed"}, ReleasedTo(c, end)
  PROVE  GuestInvariant'
<1>1. sem \in GuestRecord /\ host \in [HostCalls -> HostStates] /\ Permits(sem, host) /\ UnbegunUnused(fan, host)
  BY GuestIs
<1>2. /\ sem' \in GuestRecord /\ host' \in [HostCalls -> HostStates] /\ Permits(sem', host')
      /\ \A d \in HostCalls : host[d] = "unused" => host'[d] = "unused"
  BY <1>1, ReleaseKeeps
<1>3. UnbegunUnused(fan, host')
  BY <1>1, <1>2, ItemsAreCalls DEF UnbegunUnused
<1> QED BY <1>2, <1>3, CallsMove
LEMMA BridgeTakes == ASSUME GuestInvariant, NEW c \in HostCalls, Bridge(c) PROVE GuestInvariant'
<1>1. sem \in GuestRecord /\ host \in [HostCalls -> HostStates] /\ Permits(sem, host) /\ UnbegunUnused(fan, host)
  BY GuestIs
<1>2. host[c] = "granted" /\ UNCHANGED fan
  BY DEF Bridge
<1>3. CASE ReleasedTo(c, "failed")
  BY <1>2, <1>3, EndsKeeps
<1>4. CASE host' = [host EXCEPT ![c] = "working"] /\ UNCHANGED sem
  <2>1. host' \in [HostCalls -> HostStates] /\ host'[c] = "working" /\ \A d \in HostCalls \ {c} : host'[d] = host[d]
    BY <1>1, <1>4 DEF HostStates
  <2>2. Permitted(host') = Permitted(host)
    BY <1>2, <2>1 DEF Permitted
  <2>3. \A k \in 1 .. Len(sem.waiters) : sem.waiters[k] \in HostCalls
    BY <1>1 DEF GuestRecord
  <2>4. InLine(sem.waiters, host')
    BY <1>1, <1>2, <2>1, <2>3 DEF Permits, InLine
  <2>5. Permits(sem', host')
    BY <1>1, <1>4, <2>2, <2>4 DEF Permits
  <2>6. UnbegunUnused(fan, host')
    BY <1>1, <1>2, <2>1, ItemsAreCalls DEF UnbegunUnused
  <2> QED BY <1>1, <1>2, <1>4, <2>1, <2>5, <2>6, CallsMove
<1> QED BY <1>3, <1>4 DEF Bridge
LEMMA SettleKeeps == ASSUME GuestInvariant, NEW c \in HostCalls, Settle(c) PROVE GuestInvariant'
BY EndsKeeps DEF Settle
LEMMA CancelGuestKeeps == ASSUME GuestInvariant, CancelGuest PROVE GuestInvariant'
<1>1. sem \in GuestRecord /\ host \in [HostCalls -> HostStates] /\ Permits(sem, host) /\ UnbegunUnused(fan, host)
  BY GuestIs
<1>2. sem.active \in Nat /\ sem.waiters \in Seq(HostCalls)
  BY <1>1 DEF GuestRecord
<1>3. Range(sem.waiters) = {c \in HostCalls : host[c] = "queued"}
  BY <1>1, <1>2, LineIs DEF Permits
<1>4. /\ UNCHANGED fan /\ sem' = [sem EXCEPT !.stopped = TRUE, !.waiters = <<>>]
      /\ host' = [c \in HostCalls |-> IF host[c] = "queued" THEN "failed" ELSE host[c]]
  BY <1>3 DEF CancelGuest
<1>5. sem' \in GuestRecord /\ sem'.active = sem.active /\ sem'.waiters = <<>>
  <2>1. <<>> \in Seq(HostCalls)
    OBVIOUS
  <2> QED BY <1>1, <1>4, <2>1 DEF GuestRecord
<1>6. host' \in [HostCalls -> HostStates] /\ Permitted(host') = Permitted(host)
  BY <1>1, <1>4 DEF Permitted, HostStates
<1>7. InLine(<<>>, host')
  BY <1>4 DEF InLine
<1>8. Permits(sem', host')
  BY <1>1, <1>5, <1>6, <1>7 DEF Permits
<1>9. UnbegunUnused(fan, host')
  BY <1>1, <1>4, ItemsAreCalls DEF UnbegunUnused
<1> QED BY <1>4, <1>5, <1>6, <1>8, <1>9, CallsMove

LEMMA LeastOfThree ==
  ASSUME NEW a \in Nat, NEW b \in Nat, NEW c \in Nat
  PROVE  Min({a, b, c}) \in Nat
<1>1. \E x \in {a, b, c} : \A y \in {a, b, c} : x <= y
  OBVIOUS
<1> QED BY <1>1 DEF Min
LEMMA FanBegins == ASSUME GuestInvariant, NEW n \in Widths, Fan(n) PROVE GuestInvariant'
<1>1. FanSound(fan) /\ fan.cursor \in Int
  BY GuestIs, ItemsAreCalls DEF FanSound, FanRecord
<1> DEFINE w == Min({Items, MaxParallel, n})
<1>2. w \in Nat
  BY GuestAssumption, LeastOfThree
<1>3. fan' = [fan EXCEPT !.width = w, !.outcome = "pending"] /\ fan.outcome = "none" /\ Items > 0 /\ UNCHANGED <<sem, host>>
  BY DEF Fan
<1> HIDE DEF w
<1>4. /\ fan'.cursor = fan.cursor /\ fan'.stopped = fan.stopped /\ fan'.outcome = "pending" /\ fan'.item = fan.item
      /\ fan' \in FanRecord
  BY <1>1, <1>2, <1>3 DEF FanSound, FanRecord
<1>5. FanSound(fan')
  BY <1>1, <1>3, <1>4 DEF FanSound
<1> QED BY <1>1, <1>3, <1>4, <1>5, FanMoves
\* An item fails, whether it ran or was just taken.
LEMMA BrokenIs ==
  ASSUME NEW f \in FanRecord, NEW i \in 1 .. Items, \A j \in 1 .. Items : f.cursor < j <=> j # i /\ f.item[j] = "unused",
         f.outcome # "none" \/ f.cursor = 0
  PROVE  FanSound(Broken(f, i)) /\ Broken(f, i).cursor = f.cursor
<1> DEFINE b == Broken(f, i)
<1>1. /\ b \in FanRecord /\ b.cursor = f.cursor /\ b.stopped = TRUE /\ b.outcome = "rejected"
      /\ b.item[i] = "failed" /\ \A j \in 1 .. Items : j # i => b.item[j] = f.item[j]
  BY DEF Broken, FanRecord
<1> HIDE DEF b
<1> QED BY <1>1 DEF FanSound, b
LEMMA TakeKeeps == ASSUME GuestInvariant, Take PROVE GuestInvariant'
<1>1. /\ sem \in GuestRecord /\ host \in [HostCalls -> HostStates] /\ Permits(sem, host) /\ UnbegunUnused(fan, host)
      /\ FanSound(fan) /\ fan \in FanRecord /\ fan.cursor \in Int
  BY GuestIs, ItemsAreCalls DEF FanSound, FanRecord
<1> DEFINE i == fan.cursor + 1
           taken == [fan EXCEPT !.cursor = i, !.item[i] = "running"]
<1>2. /\ fan.outcome # "none" /\ ~fan.stopped /\ fan.cursor < Items
      /\ (Acquire(i) /\ fan' = taken) \/ (fan' = Broken(taken, i) /\ UNCHANGED <<sem, host>>)
  BY DEF Take
<1>3. i \in 1 .. Items /\ i \in HostCalls /\ fan.cursor < i /\ i \in 0 .. Items
  BY <1>1, <1>2, ItemsAreCalls DEF FanRecord
<1>4. /\ taken \in FanRecord /\ taken.cursor = i /\ taken.stopped = fan.stopped /\ taken.outcome = fan.outcome
      /\ taken.item[i] = "running" /\ \A j \in 1 .. Items : j # i => taken.item[j] = fan.item[j]
  <2>1. fan.item \in [1 .. Items -> {"unused", "running", "done", "failed"}]
    BY <1>1 DEF FanRecord
  <2> HIDE DEF i
  <2> QED BY <1>1, <1>3, <2>1 DEF FanRecord
<1>5. fan.item[i] = "unused" /\ host[i] = "unused"
  BY <1>1, <1>3 DEF FanSound, UnbegunUnused
<1>6. fan.outcome = "pending"
  BY <1>1, <1>2, <1>3, <1>5 DEF FanSound, FanRecord
<1>7. \A j \in 1 .. Items : i < j <=> fan.cursor < j /\ j # i
  BY <1>1
<1> HIDE DEF taken
<1>8. CASE Acquire(i) /\ fan' = taken
  <2> HIDE DEF i
  <2>1. /\ sem' \in GuestRecord /\ host' \in [HostCalls -> HostStates] /\ Permits(sem', host')
        /\ \A d \in HostCalls \ {i} : host'[d] = host[d]
    BY <1>1, <1>3, <1>5, <1>8, AcquireKeeps
  <2>2. FanSound(taken)
    BY <1>1, <1>2, <1>3, <1>4, <1>5, <1>6, <1>7 DEF FanSound
  <2>3. UnbegunUnused(taken, host')
    BY <1>1, <1>4, <1>7, <2>1, ItemsAreCalls DEF UnbegunUnused
  <2>4. FanSound(fan') /\ UnbegunUnused(fan', host')
    BY <1>8, <2>2, <2>3
  <2> QED BY <2>1, <2>4, PartsSuffice DEF GuestParts
<1>9. CASE fan' = Broken(taken, i) /\ UNCHANGED <<sem, host>>
  <2>1. \A j \in 1 .. Items : taken.cursor < j <=> j # i /\ taken.item[j] = "unused"
    BY <1>1, <1>4, <1>7 DEF FanSound
  <2>2. FanSound(Broken(taken, i)) /\ Broken(taken, i).cursor = i
    BY <1>3, <1>4, <1>6, <2>1, BrokenIs
  <2>3. FanSound(fan') /\ fan'.cursor >= fan.cursor
    BY <1>1, <1>9, <2>2
  <2> QED BY <1>1, <1>9, <2>3, FanMoves
<1> QED BY <1>2, <1>8, <1>9
LEMMA ItemEndsKeeps == ASSUME GuestInvariant, NEW i \in 1 .. Items, ItemEnds(i) PROVE GuestInvariant'
<1>1. FanSound(fan) /\ fan \in FanRecord /\ fan.cursor \in 0 .. Items /\ fan.cursor \in Int
  BY GuestIs, ItemsAreCalls DEF FanSound, FanRecord
<1>2. fan.item[i] = "running" /\ UNCHANGED <<sem, host>> /\ fan.outcome \notin {"none", "fulfilled"}
  <2>1. fan.item[i] = "running" /\ UNCHANGED <<sem, host>>
    BY DEF ItemEnds, RunningItems
  <2>2. ~(fan.cursor < i)
    BY <1>1, <2>1 DEF FanSound
  <2> QED BY <1>1, <2>1, <2>2 DEF FanSound
<1>3. CASE fan' = Broken(fan, i)
  <2>1. \A j \in 1 .. Items : fan.cursor < j <=> j # i /\ fan.item[j] = "unused"
    BY <1>1, <1>2 DEF FanSound
  <2> QED BY <1>1, <1>2, <1>3, <2>1, BrokenIs, FanMoves
<1> DEFINE f == [fan EXCEPT !.item[i] = "done"]
<1>4. /\ f \in FanRecord /\ f.cursor = fan.cursor /\ f.stopped = fan.stopped /\ f.outcome = fan.outcome
      /\ f.item[i] = "done" /\ \A j \in 1 .. Items : j # i => f.item[j] = fan.item[j]
  <2>1. fan.item \in [1 .. Items -> {"unused", "running", "done", "failed"}]
    BY <1>1 DEF FanRecord
  <2> QED BY <1>1, <2>1 DEF FanRecord
<1> HIDE DEF f
<1>5. CASE fan' = Decided(f)
  <2>1. \A j \in 1 .. Items : f.cursor < j <=> f.item[j] = "unused"
    BY <1>1, <1>2, <1>4 DEF FanSound
  <2>2. f.outcome = "rejected" <=> \E j \in 1 .. Items : f.item[j] = "failed"
    BY <1>1, <1>2, <1>4 DEF FanSound
  <2>3. (f.stopped <=> f.outcome = "rejected") /\ f.outcome \in {"pending", "rejected"}
    BY <1>1, <1>2, <1>4 DEF FanSound, FanRecord
  <2>4. CASE f.outcome = "pending" /\ ~(\E j \in 1 .. Items : f.item[j] = "running") /\ ~f.stopped /\ f.cursor = Items
    <3>1. fan' = [f EXCEPT !.outcome = "fulfilled"]
      BY <1>5, <2>4 DEF Decided
    <3>2. /\ fan' \in FanRecord /\ fan'.cursor = f.cursor /\ fan'.stopped = f.stopped /\ fan'.outcome = "fulfilled"
          /\ fan'.item = f.item
      BY <1>4, <3>1 DEF FanRecord
    <3>3. \A j \in 1 .. Items : f.item[j] = "done"
      <4> SUFFICES ASSUME NEW j \in 1 .. Items PROVE f.item[j] = "done"
        OBVIOUS
      <4>1. f.item[j] # "unused" /\ f.item[j] # "failed" /\ f.item[j] # "running"
        BY <2>1, <2>2, <2>4, ItemsAreCalls
      <4> QED BY <4>1, <1>4 DEF FanRecord
    <3>4. FanSound(fan')
      BY <2>1, <2>3, <2>4, <3>2, <3>3 DEF FanSound
    <3> QED BY <1>1, <1>2, <1>4, <3>2, <3>4, FanMoves
  <2>5. CASE ~(f.outcome = "pending" /\ ~(\E j \in 1 .. Items : f.item[j] = "running") /\ ~f.stopped /\ f.cursor = Items)
    <3>1. fan' = f
      BY <1>5, <2>5 DEF Decided
    <3>2. f.outcome = "pending" /\ ~(\E j \in 1 .. Items : f.item[j] = "running") => f.cursor < Items
      BY <2>3, <2>5, <1>1, <1>4, ItemsAreCalls
    <3>3. FanSound(f)
      BY <1>4, <2>1, <2>2, <2>3, <3>2 DEF FanSound
    <3> QED BY <1>1, <1>2, <1>4, <3>1, <3>3, FanMoves
  <2> QED BY <2>4, <2>5
<1> QED BY <1>3, <1>5 DEF ItemEnds, f
LEMMA GuestMoves == ASSUME GuestInvariant, [GuestNext]_guestVars PROVE GuestInvariant'
<1>1. ASSUME NEW c \in HostCalls, CallDirectly(c) \/ Bridge(c) \/ Settle(c) PROVE GuestInvariant'
  BY <1>1, CallDirectlyKeeps, BridgeTakes, SettleKeeps
<1>2. ASSUME NEW n \in Widths, Fan(n) PROVE GuestInvariant'
  BY <1>2, FanBegins
<1>3. ASSUME NEW i \in 1 .. Items, ItemEnds(i) PROVE GuestInvariant'
  BY <1>3, ItemEndsKeeps
<1>4. CASE Returns \/ UNCHANGED guestVars
  <2>1. UNCHANGED <<sem, host, fan>>
    BY <1>4 DEF Returns, guestVars
  <2>2. sem \in GuestRecord /\ host \in [HostCalls -> HostStates] /\ Permits(sem, host) /\ UnbegunUnused(fan, host)
    BY GuestIs
  <2> QED BY <2>1, <2>2, CallsMove
<1> QED BY <1>1, <1>2, <1>3, <1>4, TakeKeeps, CancelGuestKeeps DEF GuestNext

\* Calls of the host and of the guest: a failed effect is the last of its
\* execution and writers exclude each other, a report waits for every effect
\* and a publication is told; in the guest no permit of the semaphore is lost
\* or made up, and parallel() tells all results or a failure.
THEOREM BridgeHolds == BridgeSpec /\ GuestSpec => []BridgeKept
<1>1. BridgeInit => BridgeInvariant
  BY BridgeBegins
<1>2. BridgeInvariant /\ [BridgeNext]_bridgeVars => BridgeInvariant'
  BY BridgeMoves
<1>3. GuestInit => GuestInvariant
  BY GuestBegins
<1>4. GuestInvariant /\ [GuestNext]_guestVars => GuestInvariant'
  BY GuestMoves
<1>5. BridgeInvariant /\ GuestInvariant => BridgeKept
  BY BridgeSound DEF GuestInvariant, GuestKept, BridgeKept
<1> QED BY <1>1, <1>2, <1>3, <1>4, <1>5, PTL DEF BridgeSpec, GuestSpec

-----------------------------------------------------------------------------
(* The shared deadline.                                                       *)

\* What the loop of one thread knows while it holds its first load: the expiry
\* it read was built, and since then the expiry only rose or was forced.
LoadedKnows(t) ==
  pc[t] = "loaded" => prev[t] # 0 /\ (cell >= prev[t] \/ cell <= start)

\* The inductive invariant: a deadline in the middle of extendTo is built, it
\* was started in the past, and it is capped.
DeadlineInvariant ==
  /\ DeadlineTypeOK
  /\ cell # 0 => start <= now /\ cell <= start + Maximum
  /\ \A t \in Holders : built[t] => cell # 0
  /\ \A t \in Holders : ~built[t] => pc[t] = "idle"
  /\ \A t \in Holders : LoadedKnows(t)

\* A deadline begins without a value.
LEMMA InitialDeadline == DeadlineInit => DeadlineInvariant
BY DeadlineConstants DEF DeadlineInit, DeadlineInvariant, DeadlineTypeOK, LoadedKnows

\* The clock changes nothing of the deadline.
LEMMA TickStep == DeadlineInvariant /\ Tick => DeadlineInvariant'
BY DEF Tick, DeadlineInvariant, DeadlineTypeOK, LoadedKnows

\* The first construction starts the deadline while no thread can be in
\* extendTo; a later one leaves it alone.
LEMMA ConstructStep ==
  ASSUME NEW t \in Holders, DeadlineInvariant, Construct(t)
  PROVE  DeadlineInvariant'
<1>1. CASE cell = 0
  <2>1. \A u \in Holders : pc[u] = "idle"
    BY <1>1 DEF DeadlineInvariant, DeadlineTypeOK
  <2>2. /\ start' = now /\ cell' = now + Smaller(Maximum, Timeout)
        /\ built' = [built EXCEPT ![t] = TRUE] /\ UNCHANGED <<now, pc, prev, req>>
    BY <1>1 DEF Construct
  <2>3. Smaller(Maximum, Timeout) \in Nat \ {0} /\ Smaller(Maximum, Timeout) <= Maximum
    BY DeadlineConstants DEF Smaller
  <2>4. DeadlineTypeOK' /\ cell' # 0 /\ start' <= now' /\ cell' <= start' + Maximum
    BY <2>2, <2>3, DeadlineConstants DEF DeadlineInvariant, DeadlineTypeOK
  <2> QED BY <2>1, <2>2, <2>4 DEF DeadlineInvariant, DeadlineTypeOK, LoadedKnows
<1>2. CASE cell # 0
  BY <1>2 DEF Construct, DeadlineInvariant, DeadlineTypeOK, LoadedKnows
<1> QED BY <1>1, <1>2

\* extendTo begins with a request of at least one tick.
LEMMA ExtendStep ==
  ASSUME NEW t \in Holders, NEW floor \in Floors, DeadlineInvariant, Extend(t, floor)
  PROVE  DeadlineInvariant'
<1>1. Larger(1, floor) \in Nat \ {0}
  BY DeadlineConstants DEF Larger
<1>2. req' \in [Holders -> Nat \ {0}]
  BY <1>1 DEF Extend, DeadlineInvariant, DeadlineTypeOK
<1> QED BY <1>2 DEF Extend, DeadlineInvariant, DeadlineTypeOK, LoadedKnows

\* A load reads a deadline that is built.
LEMMA LoadStep ==
  ASSUME NEW t \in Holders, DeadlineInvariant, Load(t)
  PROVE  DeadlineInvariant'
<1>1. built[t] /\ cell # 0
  BY DEF Load, DeadlineInvariant, DeadlineTypeOK
<1> QED BY <1>1 DEF Load, DeadlineInvariant, DeadlineTypeOK, LoadedKnows

\* What the loop would store is capped and not below what it read, provided
\* that this is within the cap.
LEMMA RaisedBounds ==
  ASSUME NEW t \in Holders, DeadlineInvariant
  PROVE  /\ Raised(t) \in Int /\ Raised(t) <= start + Maximum
         /\ Raised(t) >= Smaller(maximumAt, Requested(t))
BY DeadlineConstants DEF Raised, Smaller, Larger, maximumAt, Requested, DeadlineInvariant, DeadlineTypeOK

\* An exchange that succeeds raises an expiry that had not passed, which is
\* later than the start; one that does not leaves the expiry alone.
LEMMA SwapStep ==
  ASSUME NEW t \in Holders, DeadlineInvariant, Swap(t)
  PROVE  /\ DeadlineInvariant'
         /\ start' = start
         /\ cell' = cell \/ (cell' > cell /\ cell > start /\ cell' # 0)
<1>1. pc[t] = "loaded" /\ prev[t] # 0 /\ cell # 0 /\ start <= now /\ built[t]
  BY DEF Swap, DeadlineInvariant, LoadedKnows, DeadlineTypeOK
<1>2. UNCHANGED <<now, start, built, prev, req>>
  BY DEF Swap
<1>3. pc' \in [Holders -> {"idle", "looping", "loaded", "accepting"}]
      /\ \A u \in Holders : pc'[u] = "loaded" => pc[u] = "loaded" /\ u # t
  BY DEF Swap, DeadlineInvariant, DeadlineTypeOK
<1>4. \A u \in Holders : ~built[u] => pc'[u] = "idle"
  BY <1>1 DEF Swap, DeadlineInvariant, DeadlineTypeOK
<1>5. CASE UNCHANGED cell
  BY <1>1, <1>2, <1>3, <1>4, <1>5 DEF DeadlineInvariant, DeadlineTypeOK, LoadedKnows
<1>6. CASE now < prev[t] /\ Raised(t) > prev[t] /\ cell = prev[t] /\ cell' = Raised(t)
  <2>1. cell' \in Int /\ cell' <= start + Maximum /\ cell' > cell /\ cell > start
    BY <1>1, <1>6, RaisedBounds DEF DeadlineInvariant, DeadlineTypeOK
  <2>2. cell' # 0
    BY <2>1 DEF DeadlineInvariant, DeadlineTypeOK
  <2>3. ASSUME NEW u \in Holders, pc'[u] = "loaded"
        PROVE  prev'[u] # 0 /\ cell' >= prev'[u]
    BY <1>2, <1>3, <2>1, <2>3 DEF DeadlineInvariant, DeadlineTypeOK, LoadedKnows
  <2>4. DeadlineTypeOK'
    BY <1>2, <1>3, <2>1 DEF DeadlineInvariant, DeadlineTypeOK
  <2>5. DeadlineInvariant'
    BY <1>1, <1>2, <1>4, <2>1, <2>2, <2>3, <2>4 DEF DeadlineInvariant, LoadedKnows
  <2> QED BY <1>2, <2>1, <2>2, <2>5
<1>7. UNCHANGED cell \/ (now < prev[t] /\ Raised(t) > prev[t] /\ cell = prev[t] /\ cell' = Raised(t))
  BY DEF Swap
<1> QED BY <1>5, <1>6, <1>7

\* The return of extendTo changes nothing of the deadline.
LEMMA AcceptStep ==
  ASSUME NEW t \in Holders, DeadlineInvariant, Accept(t)
  PROVE  DeadlineInvariant'
BY DEF Accept, DeadlineInvariant, DeadlineTypeOK, LoadedKnows

\* A forced expiry is at the start or before it, and not the mark of a
\* deadline that was never built.
LEMMA ExpireStep ==
  ASSUME NEW t \in Holders, DeadlineInvariant, ExpireNow(t)
  PROVE  /\ DeadlineInvariant'
         /\ start' = start /\ cell' <= start /\ cell' # 0
BY DeadlineConstants DEF ExpireNow, DeadlineInvariant, DeadlineTypeOK, LoadedKnows

\* The invariant is inductive.
LEMMA EveryStep == DeadlineInvariant /\ [DeadlineNext]_deadlineVars => DeadlineInvariant'
<1> SUFFICES ASSUME DeadlineInvariant, [DeadlineNext]_deadlineVars PROVE DeadlineInvariant'
  OBVIOUS
<1>1. CASE Tick
  BY <1>1, TickStep
<1>2. ASSUME NEW t \in Holders, Construct(t) PROVE DeadlineInvariant'
  BY <1>2, ConstructStep
<1>3. ASSUME NEW t \in Holders, DeadlineStep(t) PROVE DeadlineInvariant'
  BY <1>3, LoadStep, SwapStep, AcceptStep DEF DeadlineStep
<1>4. ASSUME NEW t \in Holders, ExpireNow(t) PROVE DeadlineInvariant'
  BY <1>4, ExpireStep
<1>5. ASSUME NEW t \in Holders, NEW floor \in Floors, Extend(t, floor) PROVE DeadlineInvariant'
  BY <1>5, ExtendStep
<1>6. CASE UNCHANGED deadlineVars
  BY <1>6 DEF deadlineVars, DeadlineInvariant, DeadlineTypeOK, LoadedKnows
<1> QED BY <1>1, <1>2, <1>3, <1>4, <1>5, <1>6 DEF DeadlineNext

\* The deadline's state is always as the inductive invariant says.
THEOREM DeadlineSafe == DeadlineSpec => []DeadlineInvariant
BY InitialDeadline, EveryStep, PTL DEF DeadlineSpec

\* No extension passes the configured maximum, for any threads and floors.
THEOREM DeadlineCapped == DeadlineSpec => []Capped
<1>1. DeadlineInvariant => Capped
  BY DEF DeadlineInvariant, Capped, maximumAt
<1> QED BY <1>1, DeadlineSafe, PTL

\* How one step moves the deadline once it is built.
LEMMA CellStep ==
  ASSUME DeadlineInvariant, [DeadlineNext]_deadlineVars, cell # 0
  PROVE  /\ start' = start /\ cell' # 0
         /\ cell' = cell \/ cell' <= start \/ (cell' > cell /\ cell > start)
<1>1. CASE \E t \in Holders : Swap(t)
  BY <1>1, SwapStep
<1>2. CASE \E t \in Holders : ExpireNow(t)
  BY <1>2, ExpireStep
<1>3. ASSUME NEW t \in Holders, Construct(t) \/ Load(t) \/ Accept(t) PROVE UNCHANGED <<start, cell>>
  BY <1>3 DEF Construct, Load, Accept
<1>4. ASSUME NEW t \in Holders, NEW floor \in Floors, Extend(t, floor) PROVE UNCHANGED <<start, cell>>
  BY <1>4 DEF Extend
<1>5. Tick \/ UNCHANGED deadlineVars => UNCHANGED <<start, cell>>
  BY DEF Tick, deadlineVars
<1> QED BY <1>1, <1>2, <1>3, <1>4, <1>5 DEF DeadlineNext, DeadlineStep

\* A deadline that was forced to expire stays expired.
THEOREM ForcedStays == DeadlineSpec => ForcedIsFinal
<1>1. DeadlineInvariant /\ [DeadlineNext]_deadlineVars => [cell # 0 /\ cell <= start => cell' <= start']_deadlineVars
  <2> SUFFICES ASSUME DeadlineInvariant, [DeadlineNext]_deadlineVars, cell # 0, cell <= start
               PROVE  cell' <= start'
    OBVIOUS
  <2>1. start \in Int /\ cell \in Int
    BY DEF DeadlineInvariant, DeadlineTypeOK
  <2> QED BY <2>1, CellStep
<1> QED BY <1>1, DeadlineSafe, PTL DEF DeadlineSpec, ForcedIsFinal

\* A deadline is built once and then moves forward or is forced.
THEOREM Forward == DeadlineSpec => MovesForward
<1>1. DeadlineInvariant /\ [DeadlineNext]_deadlineVars =>
        [cell # 0 => start' = start /\ cell' # 0 /\ (cell' >= cell \/ cell' <= start)]_deadlineVars
  <2> SUFFICES ASSUME DeadlineInvariant, [DeadlineNext]_deadlineVars, cell # 0
               PROVE  start' = start /\ cell' # 0 /\ (cell' >= cell \/ cell' <= start)
    OBVIOUS
  <2>1. cell \in Int /\ DeadlineInvariant'
    BY EveryStep DEF DeadlineInvariant, DeadlineTypeOK
  <2>2. cell' \in Int
    BY <2>1 DEF DeadlineInvariant, DeadlineTypeOK
  <2> QED BY <2>1, <2>2, CellStep
<1> QED BY <1>1, DeadlineSafe, PTL DEF DeadlineSpec, MovesForward

\* What extendTo was asked for holds when its loop ends, unless the deadline
\* was forced to expire or the expiry that was read had passed.
LEMMA LoopEnds ==
  ASSUME NEW t \in Holders, DeadlineInvariant, Swap(t), pc'[t] = "accepting"
  PROVE  \/ cell' >= Smaller(maximumAt, Requested(t))
         \/ cell' <= start
         \/ now >= prev[t]
<1>1. Smaller(maximumAt, Requested(t)) \in Int
  BY DeadlineConstants DEF Smaller, maximumAt, Requested, DeadlineInvariant, DeadlineTypeOK
<1>2. pc[t] = "loaded" /\ (cell >= prev[t] \/ cell <= start)
  BY DEF Swap, DeadlineInvariant, LoadedKnows
<1>3. CASE Raised(t) <= prev[t] /\ UNCHANGED cell
  BY <1>1, <1>2, <1>3, RaisedBounds DEF DeadlineInvariant, DeadlineTypeOK
<1>4. CASE cell' = Raised(t)
  BY <1>4, RaisedBounds
<1>5. CASE pc' = [pc EXCEPT ![t] = "looping"]
  BY <1>5 DEF DeadlineInvariant, DeadlineTypeOK
<1> QED BY <1>3, <1>4, <1>5 DEF Swap

\* Two threads that extend at once do not lose the longer request.
THEOREM ExtensionHolds == DeadlineSpec => ExtensionKept
<1> DEFINE Kept(t) == pc[t] = "loaded" /\ pc'[t] = "accepting" =>
                        \/ cell' >= Smaller(maximumAt, Requested(t))
                        \/ cell' <= start
                        \/ now >= prev[t]
<1>1. DeadlineInvariant /\ [DeadlineNext]_deadlineVars => [\A t \in Holders : Kept(t)]_deadlineVars
  <2> SUFFICES ASSUME DeadlineInvariant, [DeadlineNext]_deadlineVars, NEW t \in Holders,
                      pc[t] = "loaded", pc'[t] = "accepting"
               PROVE  Kept(t)
    OBVIOUS
  <2>1. pc \in [Holders -> {"idle", "looping", "loaded", "accepting"}]
    BY DEF DeadlineInvariant, DeadlineTypeOK
  <2>2. ASSUME NEW u \in Holders, DeadlineStep(u) PROVE u = t /\ Swap(t)
    BY <2>1, <2>2 DEF DeadlineStep, Load, Swap, Accept
  <2>3. ASSUME NEW u \in Holders, Construct(u) \/ ExpireNow(u) PROVE FALSE
    BY <2>1, <2>3 DEF Construct, ExpireNow
  <2>4. ASSUME NEW u \in Holders, NEW floor \in Floors, Extend(u, floor) PROVE FALSE
    BY <2>1, <2>4 DEF Extend
  <2>5. ~(Tick \/ UNCHANGED deadlineVars)
    BY <2>1 DEF Tick, deadlineVars
  <2>6. Swap(t)
    BY <2>2, <2>3, <2>4, <2>5 DEF DeadlineNext
  <2> QED BY <2>6, LoopEnds
<1> QED BY <1>1, DeadlineSafe, PTL DEF DeadlineSpec, ExtensionKept

\* Both together, for every number of threads and every sequence of floors.
THEOREM DeadlineHolds == DeadlineSpec => DeadlineKept
BY ForcedStays, ExtensionHolds, PTL DEF DeadlineKept

-----------------------------------------------------------------------------
(* The artifact store: quotas, files and handles whatever of a publication    *)
(* fails.  What an entry takes and which entries are left are recursive       *)
(* functions over positions; their equations come first, then each operation  *)
(* of the store, then the calls that use it.                                  *)

Entry == [id : Nat, size : Nat, old : BOOLEAN]

\* TotalChars adds the lengths up.
LEMMA CountDefined ==
  ASSUME NEW es \in Seq(Entry)
  PROVE  \E f \in [0..Len(es) -> Nat] :
           /\ f[0] = 0 /\ \A n \in 1..Len(es) : f[n] = f[n - 1] + es[n].size
           /\ TotalChars(es) = f[Len(es)]
<1> DEFINE N == Len(es)
           G == [p \in (1..N) \X Nat |-> p[2] + es[p[1]].size]
           Body(f) == [n \in 0..N |-> IF n = 0 THEN 0 ELSE f[n - 1] + es[n].size]
           upTo == CHOOSE f : f = Body(f)
<1>1. N \in Nat /\ \A n \in 1..N : es[n].size \in Nat
  <2>1. \A n \in 1..N : es[n] \in Entry
    BY ElementOfSeq
  <2> QED BY <2>1 DEF Entry
<1>2. \A n \in 1..N, s \in Nat : G[<<n, s>>] = s + es[n].size /\ G[<<n, s>>] \in Nat
  BY <1>1
<1>3. G \in [(1..N) \X Nat -> Nat]
  BY <1>1, <1>2
<1> HIDE DEF G
<1>4. PICK f : Follows(f, N, Nat, 0, G)
  BY <1>1, <1>3, RecursionExists
<1> USE <1>4 DEF Follows
<1>5. f = Body(f)
  <2>1. ASSUME NEW n \in 0..N PROVE f[n] = IF n = 0 THEN 0 ELSE f[n - 1] + es[n].size
    <3>1. CASE n = 0
      BY <3>1, <1>4
    <3>2. CASE n # 0
      <4>0. n \in 1..N /\ n - 1 \in 0..N
        BY <1>1, <3>2
      <4>1. f[n - 1] \in Nat
        <5>1. f \in [0..N -> Nat]
          BY <1>4 DEF Follows
        <5> HIDE DEF N
        <5> QED BY <4>0, <5>1
      <4>2. f[n] = f[n - 1] + es[n].size
        BY <4>0, <4>1, <1>2, <1>4
      <4> QED BY <4>2, <3>2
    <3> QED BY <3>1, <3>2
  <2>2. f = [n \in 0..N |-> f[n]]
    BY <1>4
  <2> QED BY <2>1, <2>2
<1>6. upTo = Body(upTo)
  <2> HIDE DEF Body
  <2> QED BY <1>5
<1>7. TotalChars(es) = upTo[N]
  BY DEF TotalChars
<1> HIDE DEF upTo
<1>8. DOMAIN upTo = 0..N /\ upTo[0] = 0 /\ \A n \in 1..N : upTo[n] = upTo[n - 1] + es[n].size
  BY <1>1, <1>6
<1>9. \A n \in Nat : n <= N => upTo[n] \in Nat
  <2> DEFINE S == {m \in Nat : m <= N => upTo[m] \in Nat}
  <2>1. 0 \in S
    BY <1>8
  <2>2. ASSUME NEW n \in Nat, n \in S PROVE n + 1 \in S
    <3>1. CASE n + 1 <= N
      <4>1. upTo[n] \in Nat /\ n + 1 \in 1..N /\ (n + 1) - 1 = n
        BY <2>2, <3>1, <1>1
      <4>2. upTo[n + 1] = upTo[n] + es[n + 1].size
        BY <4>1, <1>8
      <4> QED BY <4>1, <4>2, <1>1
    <3> QED BY <3>1
  <2> HIDE DEF S
  <2>3. \A n \in Nat : n \in S
    BY <2>1, <2>2, NumbersInduction
  <2> QED BY <2>3 DEF S
<1>10. upTo \in [0..N -> Nat]
  <2>1. \A n \in 0..N : upTo[n] \in Nat
    BY <1>9, <1>1
  <2>2. upTo = [n \in 0..N |-> upTo[n]]
    BY <1>6
  <2> QED BY <2>1, <2>2
<1> QED BY <1>7, <1>8, <1>10

\* The characters of the sequences a sequence is joined from add up.
LEMMA CountJoins ==
  ASSUME NEW s \in Seq(Entry), NEW t \in Seq(Entry)
  PROVE  TotalChars(s \o t) = TotalChars(s) + TotalChars(t) /\ TotalChars(s) \in Nat /\ TotalChars(t) \in Nat
<1> DEFINE N == Len(s)
           M == Len(t)
<1>1. /\ s \o t \in Seq(Entry) /\ N \in Nat /\ M \in Nat /\ Len(s \o t) = N + M
      /\ \A i \in 1..N : (s \o t)[i] = s[i]
      /\ \A i \in 1..M : (s \o t)[N + i] = t[i]
  BY ConcatProperties
<1>2. PICK f \in [0..(N + M) -> Nat] :
        /\ f[0] = 0 /\ \A n \in 1..(N + M) : f[n] = f[n - 1] + (s \o t)[n].size
        /\ TotalChars(s \o t) = f[N + M]
  BY <1>1, CountDefined
<1>3. PICK g \in [0..N -> Nat] :
        g[0] = 0 /\ (\A n \in 1..N : g[n] = g[n - 1] + s[n].size) /\ TotalChars(s) = g[N]
  BY <1>1, CountDefined
<1>4. PICK h \in [0..M -> Nat] :
        h[0] = 0 /\ (\A n \in 1..M : h[n] = h[n - 1] + t[n].size) /\ TotalChars(t) = h[M]
  BY <1>1, CountDefined
<1> HIDE DEF N, M
<1>5. \A n \in Nat : n <= N => f[n] = g[n]
  <2> DEFINE S == {n \in Nat : n <= N => f[n] = g[n]}
  <2>1. 0 \in S
    BY <1>2, <1>3
  <2>2. ASSUME NEW n \in Nat, n \in S PROVE n + 1 \in S
    <3>1. SUFFICES ASSUME n + 1 <= N PROVE f[n + 1] = g[n + 1]
      OBVIOUS
    <3>2. n + 1 \in 1..N /\ n + 1 \in 1..(N + M) /\ (n + 1) - 1 = n /\ f[n] = g[n]
      BY <2>2, <3>1, <1>1
    <3>3. f[n + 1] = f[n] + (s \o t)[n + 1].size /\ g[n + 1] = g[n] + s[n + 1].size
      BY <3>2, <1>2, <1>3
    <3> QED BY <3>2, <3>3, <1>1
  <2> HIDE DEF S
  <2>3. \A n \in Nat : n \in S
    BY <2>1, <2>2, NumbersInduction
  <2> QED BY <2>3 DEF S
<1>6. \A n \in Nat : n <= M => f[N + n] = g[N] + h[n]
  <2> DEFINE S == {n \in Nat : n <= M => f[N + n] = g[N] + h[n]}
  <2>1. 0 \in S
    BY <1>1, <1>3, <1>4, <1>5
  <2>2. ASSUME NEW n \in Nat, n \in S PROVE n + 1 \in S
    <3>1. SUFFICES ASSUME n + 1 <= M PROVE f[N + (n + 1)] = g[N] + h[n + 1]
      OBVIOUS
    <3>2. /\ n + 1 \in 1..M /\ N + (n + 1) \in 1..(N + M) /\ (n + 1) - 1 = n /\ (N + (n + 1)) - 1 = N + n
          /\ f[N + n] = g[N] + h[n]
      BY <2>2, <3>1, <1>1
    <3>3. f[N + (n + 1)] = f[N + n] + (s \o t)[N + (n + 1)].size /\ h[n + 1] = h[n] + t[n + 1].size
      BY <3>2, <1>2, <1>4
    <3>4. t[n + 1].size \in Nat /\ g[N] \in Nat /\ h[n] \in Nat
      <4>1. t[n + 1] \in Entry
        BY <3>2, ElementOfSeq DEF M
      <4>2. N \in 0..N /\ n \in 0..M
        BY <3>2, <1>1
      <4>3. t[n + 1].size \in Nat
        BY <4>1 DEF Entry
      <4> QED BY <4>3, <4>2, <1>3, <1>4
    <3>5. (s \o t)[N + (n + 1)] = t[n + 1]
      BY <3>2, <1>1
    <3>6. f[N + (n + 1)] = (g[N] + h[n]) + t[n + 1].size /\ h[n + 1] = h[n] + t[n + 1].size
      BY <3>2, <3>3, <3>5
    <3> HIDE DEF S
    <3> QED BY <3>4, <3>6
  <2> HIDE DEF S
  <2>3. \A n \in Nat : n \in S
    BY <2>1, <2>2, NumbersInduction
  <2> QED BY <2>3 DEF S
<1> QED BY <1>1, <1>2, <1>3, <1>4, <1>6

LEMMA CountOfOne ==
  ASSUME NEW e \in Entry
  PROVE  TotalChars(<<e>>) = e.size
<1>1. <<e>> \in Seq(Entry) /\ Len(<<e>>) = 1 /\ <<e>>[1] = e /\ e.size \in Nat
  BY DEF Entry
<1>2. PICK f \in [0..1 -> Nat] :
        f[0] = 0 /\ (\A n \in 1..1 : f[n] = f[n - 1] + <<e>>[n].size) /\ TotalChars(<<e>>) = f[1]
  BY <1>1, CountDefined
<1> QED BY <1>1, <1>2

LEMMA CountOfNone == TotalChars(<<>>) = 0
<1>1. <<>> \in Seq(Entry) /\ Len(<<>>) = 0
  OBVIOUS
<1>2. PICK f \in [0..0 -> Nat] : f[0] = 0 /\ TotalChars(<<>>) = f[0]
  BY <1>1, CountDefined
<1> QED BY <1>2

\* Without takes one entry after another.
LEMMA WithoutDefined ==
  ASSUME NEW es \in Seq(Entry), NEW ids
  PROVE  \E f \in [0..Len(es) -> Seq(Entry)] :
           /\ f[0] = <<>>
           /\ \A n \in 1..Len(es) : f[n] = IF es[n].id \in ids THEN f[n - 1] ELSE Append(f[n - 1], es[n])
           /\ Without(es, ids) = f[Len(es)]
<1> DEFINE N == Len(es)
           SE == Seq(Entry)
           G == [p \in (1..N) \X SE |-> IF es[p[1]].id \in ids THEN p[2] ELSE Append(p[2], es[p[1]])]
           Body(f) == [n \in 0..N |-> IF n = 0 THEN <<>> ELSE IF es[n].id \in ids THEN f[n - 1] ELSE Append(f[n - 1], es[n])]
           upTo == CHOOSE f : f = Body(f)
<1>1. N \in Nat /\ (\A n \in 1..N : es[n] \in Entry) /\ <<>> \in SE
      /\ \A s \in SE, e \in Entry : Append(s, e) \in SE
  BY ElementOfSeq, AppendProperties
<1> HIDE DEF SE
<1>2. \A n \in 1..N, s \in SE :
        G[<<n, s>>] = (IF es[n].id \in ids THEN s ELSE Append(s, es[n])) /\ G[<<n, s>>] \in SE
  BY <1>1
<1>3. G \in [(1..N) \X SE -> SE]
  BY <1>1, <1>2
<1> HIDE DEF G
<1>4. PICK f : Follows(f, N, SE, <<>>, G)
  BY <1>1, <1>3, RecursionExists
<1> USE <1>4 DEF Follows
<1>5. f = Body(f)
  <2>1. ASSUME NEW n \in 0..N
        PROVE  f[n] = IF n = 0 THEN <<>> ELSE IF es[n].id \in ids THEN f[n - 1] ELSE Append(f[n - 1], es[n])
    <3>1. CASE n = 0
      BY <3>1, <1>4
    <3>2. CASE n # 0
      <4>0. n \in 1..N /\ n - 1 \in 0..N
        BY <1>1, <3>2
      <4>1. f[n - 1] \in SE
        <5>1. f \in [0..N -> SE]
          BY <1>4 DEF Follows
        <5> HIDE DEF N, SE
        <5> QED BY <4>0, <5>1
      <4>2. f[n] = IF es[n].id \in ids THEN f[n - 1] ELSE Append(f[n - 1], es[n])
        BY <4>0, <4>1, <1>2, <1>4
      <4> QED BY <4>2, <3>2
    <3> QED BY <3>1, <3>2
  <2>2. f = [n \in 0..N |-> f[n]]
    BY <1>4
  <2> QED BY <2>1, <2>2
<1>6. upTo = Body(upTo)
  <2> HIDE DEF Body
  <2> QED BY <1>5
<1>7. Without(es, ids) = upTo[N]
  BY DEF Without
<1> HIDE DEF upTo
<1>8. /\ DOMAIN upTo = 0..N /\ upTo[0] = <<>>
      /\ \A n \in 1..N : upTo[n] = IF es[n].id \in ids THEN upTo[n - 1] ELSE Append(upTo[n - 1], es[n])
  <2>1. DOMAIN upTo = 0..N
    BY <1>6
  <2>2. ASSUME NEW n \in 0..N
        PROVE  upTo[n] = IF n = 0 THEN <<>> ELSE IF es[n].id \in ids THEN upTo[n - 1] ELSE Append(upTo[n - 1], es[n])
    BY <1>6
  <2> HIDE DEF Body
  <2>3. 0 \in 0..N /\ \A n \in 1..N : n \in 0..N /\ n # 0
    BY <1>1
  <2> QED BY <2>1, <2>2, <2>3
<1>9. \A n \in Nat : n <= N => upTo[n] \in SE
  <2> DEFINE S == {m \in Nat : m <= N => upTo[m] \in SE}
  <2>1. 0 \in S
    BY <1>1, <1>8
  <2>2. ASSUME NEW n \in Nat, n \in S PROVE n + 1 \in S
    <3>1. CASE n + 1 <= N
      <4>1. upTo[n] \in SE /\ n + 1 \in 1..N /\ (n + 1) - 1 = n
        BY <2>2, <3>1, <1>1
      <4>2. upTo[n + 1] = IF es[n + 1].id \in ids THEN upTo[n] ELSE Append(upTo[n], es[n + 1])
        BY <4>1, <1>8
      <4> QED BY <4>1, <4>2, <1>1
    <3> QED BY <3>1
  <2> HIDE DEF S
  <2>3. \A n \in Nat : n \in S
    BY <2>1, <2>2, NumbersInduction
  <2> QED BY <2>3 DEF S
<1>10. upTo \in [0..N -> SE]
  <2>1. \A n \in 0..N : upTo[n] \in SE
    BY <1>9, <1>1
  <2>2. upTo = [n \in 0..N |-> upTo[n]]
    BY <1>6
  <2> QED BY <2>1, <2>2
<1> QED BY <1>7, <1>8, <1>10 DEF SE

\* What is left without some entries: just the others, no more in number or in
\* length, and less by each entry that is gone.
LEMMA WithoutLeaves ==
  ASSUME NEW es \in Seq(Entry), NEW ids
  PROVE  /\ Without(es, ids) \in Seq(Entry)
         /\ ToSet(Without(es, ids)) = {e \in ToSet(es) : e.id \notin ids}
         /\ Len(Without(es, ids)) <= Len(es) /\ TotalChars(Without(es, ids)) <= TotalChars(es)
         /\ \A e \in ToSet(es) : e.id \in ids =>
              /\ Len(Without(es, ids)) + 1 <= Len(es)
              /\ TotalChars(Without(es, ids)) + e.size <= TotalChars(es)
<1> DEFINE N == Len(es)
<1>1. N \in Nat /\ (\A n \in 1..N : es[n] \in Entry /\ es[n].size \in Nat) /\ DOMAIN es = 1..N
  <2>1. \A n \in 1..N : es[n] \in Entry
    BY ElementOfSeq
  <2> QED BY <2>1, LenProperties DEF Entry
<1>2. PICK f \in [0..N -> Seq(Entry)] :
           /\ f[0] = <<>>
           /\ \A n \in 1..N : f[n] = IF es[n].id \in ids THEN f[n - 1] ELSE Append(f[n - 1], es[n])
           /\ Without(es, ids) = f[N]
  BY WithoutDefined
<1>3. PICK g \in [0..N -> Nat] :
        g[0] = 0 /\ (\A n \in 1..N : g[n] = g[n - 1] + es[n].size) /\ TotalChars(es) = g[N]
  BY CountDefined
<1> HIDE DEF N
<1> DEFINE Bounds(n) ==
             /\ ToSet(f[n]) = {es[i] : i \in {i \in 1..n : es[i].id \notin ids}}
             /\ Len(f[n]) <= n /\ TotalChars(f[n]) <= g[n]
             /\ \A i \in 1..n : es[i].id \in ids => Len(f[n]) + 1 <= n /\ TotalChars(f[n]) + es[i].size <= g[n]
           S == {n \in Nat : n <= N => Bounds(n)}
<1>4. 0 \in S
  <2>1. ToSet(<<>>) = {} /\ Len(<<>>) = 0 /\ TotalChars(<<>>) = 0
    BY CountOfNone DEF ToSet
  <2>2. Bounds(0)
    BY <2>1, <1>2, <1>3
  <2> QED BY <2>2
<1>5. ASSUME NEW n \in Nat, n \in S PROVE n + 1 \in S
  <2>1. SUFFICES ASSUME n + 1 <= N PROVE Bounds(n + 1)
    OBVIOUS
  <2>2. /\ n + 1 \in 1..N /\ (n + 1) - 1 = n /\ n \in 0..N /\ n + 1 \in 0..N /\ Bounds(n)
        /\ f[n] \in Seq(Entry) /\ g[n] \in Nat /\ es[n + 1] \in Entry /\ es[n + 1].size \in Nat
        /\ Len(f[n]) \in Nat /\ TotalChars(f[n]) \in Nat
    <3>0. n <= N => Bounds(n)
      BY <1>5
    <3> HIDE DEF Bounds, S
    <3>1. n + 1 \in 1..N /\ (n + 1) - 1 = n /\ n \in 0..N /\ n + 1 \in 0..N /\ Bounds(n)
      BY <1>1, <2>1, <3>0
    <3>2. f[n] \in Seq(Entry)
      BY <3>1, <1>2
    <3>3. TotalChars(f[n]) \in Nat
      BY <3>2, CountJoins
    <3> QED BY <3>1, <3>2, <3>3, <1>1, <1>3
  <2>3. g[n + 1] = g[n] + es[n + 1].size
    BY <2>2, <1>3
  <2>4. CASE es[n + 1].id \in ids
    <3>1. f[n + 1] = f[n]
      BY <2>4, <2>2, <1>2
    <3>2. ToSet(f[n + 1]) = {es[i] : i \in {i \in 1..(n + 1) : es[i].id \notin ids}}
      <4>1. {i \in 1..(n + 1) : es[i].id \notin ids} = {i \in 1..n : es[i].id \notin ids}
        BY <2>4
      <4> QED BY <4>1, <3>1, <2>2
    <3>3. ASSUME NEW i \in 1..(n + 1), es[i].id \in ids
          PROVE  Len(f[n + 1]) + 1 <= n + 1 /\ TotalChars(f[n + 1]) + es[i].size <= g[n + 1]
      <4>1. CASE i = n + 1
        <5>1. es[i].id \in ids /\ i = n + 1
          BY <4>1, <3>3
        <5>2. Len(f[n]) <= n /\ TotalChars(f[n]) <= g[n]
          BY <2>2
        <5>3. Len(f[n]) \in Nat /\ TotalChars(f[n]) \in Nat /\ g[n] \in Nat /\ es[n + 1].size \in Nat
          BY <2>2
        <5>4. Len(f[n]) + 1 <= n + 1 /\ TotalChars(f[n]) + es[n + 1].size <= g[n] + es[n + 1].size
          BY <5>2, <5>3
        <5> QED BY <4>1, <5>4, <3>1, <2>3
      <4>2. CASE i # n + 1
        <5>1. i \in 1..n /\ es[i].size \in Nat
          BY <4>2, <2>2, <1>1
        <5>2. Len(f[n]) + 1 <= n /\ TotalChars(f[n]) + es[i].size <= g[n]
          BY <5>1, <3>3, <2>2
        <5>3. Len(f[n]) \in Nat /\ TotalChars(f[n]) \in Nat /\ g[n] \in Nat /\ es[n + 1].size \in Nat
          BY <2>2
        <5> HIDE DEF Bounds, S
        <5>4. Len(f[n]) + 1 <= n + 1 /\ TotalChars(f[n]) + es[i].size <= g[n] + es[n + 1].size
          BY SMTT(40), <5>1, <5>2, <5>3
        <5> QED BY <5>4, <3>1, <2>3
      <4> QED BY <4>1, <4>2
    <3>4. Len(f[n + 1]) <= n + 1 /\ TotalChars(f[n + 1]) <= g[n + 1]
      BY <3>1, <2>2, <2>3
    <3> QED BY <3>2, <3>3, <3>4
  <2>5. CASE es[n + 1].id \notin ids
    <3>1. f[n + 1] = Append(f[n], es[n + 1])
      BY <2>5, <2>2, <1>2
    <3>2. /\ Len(f[n + 1]) = Len(f[n]) + 1 /\ TotalChars(f[n + 1]) = TotalChars(f[n]) + es[n + 1].size
          /\ ToSet(f[n + 1]) = ToSet(f[n]) \cup {es[n + 1]}
      <4>1. /\ Append(f[n], es[n + 1]) = f[n] \o <<es[n + 1]>> /\ <<es[n + 1]>> \in Seq(Entry)
        BY <2>2, AppendIsConcat
      <4>2. TotalChars(f[n + 1]) = TotalChars(f[n]) + es[n + 1].size
        <5>1. f[n] \in Seq(Entry) /\ es[n + 1] \in Entry /\ f[n + 1] = f[n] \o <<es[n + 1]>>
          BY <4>1, <3>1, <2>2
        <5> HIDE DEF Bounds, S
        <5>2. TotalChars(f[n] \o <<es[n + 1]>>) = TotalChars(f[n]) + TotalChars(<<es[n + 1]>>)
          BY <4>1, <5>1, CountJoins
        <5> QED BY <5>1, <5>2, CountOfOne
      <4>3. /\ Len(f[n + 1]) = Len(f[n]) + 1 /\ f[n + 1] \in Seq(Entry)
            /\ \A i \in 1..Len(f[n]) : f[n + 1][i] = f[n][i]
            /\ f[n + 1][Len(f[n]) + 1] = es[n + 1]
        BY <2>2, <3>1, AppendProperties
      <4>4. DOMAIN f[n + 1] = 1..(Len(f[n]) + 1) /\ DOMAIN f[n] = 1..Len(f[n])
        BY <4>3, <2>2, LenProperties
      <4>5. ToSet(f[n + 1]) = ToSet(f[n]) \cup {es[n + 1]}
        <5>1. 1..(Len(f[n]) + 1) = (1..Len(f[n])) \cup {Len(f[n]) + 1}
          BY <2>2
        <5>2. ToSet(f[n + 1]) = {f[n + 1][i] : i \in 1..Len(f[n])} \cup {f[n + 1][Len(f[n]) + 1]}
          BY <5>1, <4>4 DEF ToSet
        <5>3. {f[n + 1][i] : i \in 1..Len(f[n])} = ToSet(f[n])
          BY <4>3, <4>4 DEF ToSet
        <5> QED BY <5>2, <5>3, <4>3
      <4> QED BY <4>2, <4>3, <4>5
    <3>3. ToSet(f[n + 1]) = {es[i] : i \in {i \in 1..(n + 1) : es[i].id \notin ids}}
      <4>1. {i \in 1..(n + 1) : es[i].id \notin ids} = {i \in 1..n : es[i].id \notin ids} \cup {n + 1}
        BY <2>5, <2>2
      <4>2. ToSet(f[n]) = {es[i] : i \in {i \in 1..n : es[i].id \notin ids}}
        BY <2>2
      <4> QED BY <4>1, <4>2, <3>2
    <3>4. ASSUME NEW i \in 1..(n + 1), es[i].id \in ids
          PROVE  Len(f[n + 1]) + 1 <= n + 1 /\ TotalChars(f[n + 1]) + es[i].size <= g[n + 1]
      <4>1. i \in 1..n
        BY <3>4, <2>5
      <4>2. i \in 1..N
        BY <4>1, <2>2, <1>1
      <4>3. es[i].size \in Nat
        BY <4>2, <1>1
      <4>4. Len(f[n]) + 1 <= n /\ TotalChars(f[n]) + es[i].size <= g[n]
        BY <4>1, <3>4, <2>2
      <4>5. Len(f[n]) + 1 + 1 <= n + 1
        BY <4>4, <2>2
      <4>6. TotalChars(f[n]) + es[n + 1].size + es[i].size <= g[n] + es[n + 1].size
        <5>1. TotalChars(f[n]) \in Nat /\ g[n] \in Nat /\ es[n + 1].size \in Nat
          BY <2>2
        <5> QED BY SMTT(40), <5>1, <4>3, <4>4
      <4>7. /\ Len(f[n + 1]) = Len(f[n]) + 1 /\ TotalChars(f[n + 1]) = TotalChars(f[n]) + es[n + 1].size
            /\ g[n + 1] = g[n] + es[n + 1].size
        BY <3>2, <2>3
      <4> HIDE DEF Bounds, S
      <4> QED BY <4>5, <4>6, <4>7
    <3>5. Len(f[n + 1]) <= n + 1 /\ TotalChars(f[n + 1]) <= g[n + 1]
      BY <3>2, <2>2, <2>3
    <3> QED BY <3>3, <3>4, <3>5
  <2> QED BY <2>4, <2>5
<1> HIDE DEF S
<1>6. \A n \in Nat : n \in S
  BY <1>4, <1>5, NumbersInduction
<1>7. Bounds(N)
  <2> HIDE DEF Bounds
  <2>1. N \in S /\ N <= N
    BY <1>6, <1>1
  <2> QED BY <2>1 DEF S
<1>8. ToSet(es) = {es[i] : i \in 1..N}
  BY <1>1 DEF ToSet
<1>9. ToSet(Without(es, ids)) = {e \in ToSet(es) : e.id \notin ids}
  BY <1>7, <1>8, <1>2
<1>10. Without(es, ids) \in Seq(Entry) /\ Len(es) = N
  BY <1>1, <1>2 DEF N
<1> QED BY <1>2, <1>3, <1>7, <1>8, <1>9, <1>10

Fields == {"entries", "files", "residue", "unsure", "closed", "issued", "faults"}

StoreTyped(s) == DOMAIN s = Fields /\ s.entries \in Seq(Entry) /\ s.issued \in Nat
QuotaOf(s) == Len(s.entries) <= MaxArtifacts /\ TotalChars(s.entries) <= MaxTotalChars
Owned(s) == {k \in DOMAIN s.files : s.files[k] = "own"}
AccountOf(s) == (Owned(s) \subseteq Known(s) \union s.residue \/ s.unsure) /\ (s.closed => Owned(s) = {})
\* What every operation of the store keeps.
StoreSound(s) == StoreTyped(s) /\ QuotaOf(s) /\ AccountOf(s)

LEMMA KnownIs == \A s : Known(s) = {e.id : e \in ToSet(s.entries)}
BY DEF Known, ToSet
LEMMA YoungIs == \A s : Young(s) = {e.id : e \in {e \in ToSet(s.entries) : ~e.old}}
BY DEF Young, ToSet

LEMMA TotalIsNat == ASSUME NEW es \in Seq(Entry) PROVE TotalChars(es) \in Nat /\ Len(es) \in Nat
BY CountJoins

\* The part of a removal that was done: some first victims are gone, with
\* their files, which were the store's own.
LEMMA RemovingKeeps ==
  ASSUME NEW s, StoreSound(s), NEW victims, NEW w \in Removing(s, victims)
  PROVE  /\ StoreSound(w.s) /\ w.s.issued = s.issued /\ w.s.closed = s.closed
         /\ w.s.residue = s.residue /\ w.s.unsure = s.unsure
         /\ \E n \in 0..Len(victims) :
              /\ w.s.entries = Without(s.entries, {victims[k].id : k \in 1..n})
              /\ w.ok => n = Len(victims)
<1>1. PICK n \in 0..Len(victims) :
        /\ \A i \in {victims[k].id : k \in 1..n} : i \in DOMAIN s.files => s.files[i] = "own"
        /\ w = [s |-> [WithoutEntries(s, {victims[k].id : k \in 1..n}) EXCEPT !.files = UnlinkedFiles(@, {victims[k].id : k \in 1..n})],
                ok |-> n = Len(victims)]
  BY DEF Removing
<1> DEFINE ids == {victims[k].id : k \in 1..n}
<1> HIDE DEF ids
<1>2. DOMAIN s = Fields /\ s.entries \in Seq(Entry) /\ s.issued \in Nat
  BY DEF StoreSound, StoreTyped
<1>3. w = [s |-> [[s EXCEPT !.entries = Without(@, ids)] EXCEPT !.files = UnlinkedFiles(@, ids)], ok |-> n = Len(victims)]
  BY <1>1 DEF ids, WithoutEntries
<1>4. /\ DOMAIN w.s = Fields /\ w.s.entries = Without(s.entries, ids) /\ w.s.files = UnlinkedFiles(s.files, ids)
      /\ w.s.issued = s.issued /\ w.s.closed = s.closed /\ w.s.residue = s.residue /\ w.s.unsure = s.unsure
      /\ w.ok => n = Len(victims)
  BY <1>2, <1>3 DEF Fields
<1>5. /\ w.s.entries \in Seq(Entry)
      /\ ToSet(w.s.entries) = {e \in ToSet(s.entries) : e.id \notin ids}
      /\ Len(w.s.entries) <= Len(s.entries) /\ TotalChars(w.s.entries) <= TotalChars(s.entries)
  BY <1>2, <1>4, WithoutLeaves
<1>6. QuotaOf(w.s)
  <2>1. Len(w.s.entries) \in Nat /\ TotalChars(w.s.entries) \in Nat /\ Len(s.entries) \in Nat /\ TotalChars(s.entries) \in Nat
    BY <1>2, <1>5, TotalIsNat
  <2>2. MaxArtifacts \in Nat /\ MaxTotalChars \in Nat /\ Len(s.entries) <= MaxArtifacts /\ TotalChars(s.entries) <= MaxTotalChars
    BY ArtifactAssumption DEF StoreSound, QuotaOf
  <2> QED BY <2>1, <2>2, <1>5 DEF QuotaOf
<1>7. AccountOf(w.s)
  <2>1. Owned(w.s) = Owned(s) \ ids
    BY <1>4 DEF Owned, UnlinkedFiles
  <2>2. Known(w.s) = Known(s) \ ids
    BY <1>5, KnownIs
  <2> QED BY <2>1, <2>2, <1>4 DEF StoreSound, AccountOf
<1>8. StoreSound(w.s)
  BY <1>2, <1>4, <1>5, <1>6, <1>7 DEF StoreSound, StoreTyped
<1> QED BY <1>4, <1>8 DEF ids

\* What is young and spared stays through a removal of others.
LEMMA RemovingSpares ==
  ASSUME NEW s, StoreSound(s), NEW victims \in Seq(Entry), NEW w \in Removing(s, victims),
         NEW i \in Young(s), \A e \in ToSet(victims) : e.id # i
  PROVE  i \in Young(w.s)
<1>1. PICK n \in 0..Len(victims) :
        /\ w.s.entries = Without(s.entries, {victims[k].id : k \in 1..n})
        /\ w.ok => n = Len(victims)
  BY RemovingKeeps
<1>2. ToSet(w.s.entries) = {e \in ToSet(s.entries) : e.id \notin {victims[k].id : k \in 1..n}}
  BY <1>1, WithoutLeaves DEF StoreSound, StoreTyped
<1>3. i \notin {victims[k].id : k \in 1..n}
  <2>1. \A k \in 1..n : victims[k] \in ToSet(victims)
    BY LenProperties DEF ToSet
  <2> QED BY <2>1
<1> QED BY <1>2, <1>3, YoungIs

\* The sweep spares whatever is young.
LEMMA SweepKeeps ==
  ASSUME NEW s, StoreSound(s), NEW w \in Sweep(s)
  PROVE  /\ StoreSound(w.s) /\ w.s.issued = s.issued /\ w.s.closed = s.closed
         /\ w.s.residue = s.residue /\ w.s.unsure = s.unsure
         /\ Young(s) \subseteq Young(w.s)
<1> DEFINE victims == Without(s.entries, Young(s))
<1>1. w \in Removing(s, victims)
  BY DEF Sweep
<1>2. victims \in Seq(Entry) /\ ToSet(victims) = {e \in ToSet(s.entries) : e.id \notin Young(s)}
  BY WithoutLeaves DEF StoreSound, StoreTyped
<1> HIDE DEF victims
<1>3. ASSUME NEW i \in Young(s) PROVE i \in Young(w.s)
  BY <1>1, <1>2, RemovingSpares
<1> QED BY <1>1, <1>3, RemovingKeeps

\* Eviction that succeeds has made the room, and spared what was to be spared.
LEMMA EvictKeeps ==
  ASSUME NEW s, StoreSound(s), NEW size \in Nat, NEW spared, NEW w \in EvictOldest(s, size, spared)
  PROVE  /\ StoreSound(w.s) /\ w.s.issued = s.issued /\ w.s.closed = s.closed
         /\ w.s.residue = s.residue /\ w.s.unsure = s.unsure
         /\ \A i \in Young(s) : i \in spared => i \in Young(w.s)
         /\ w.ok => Fits(w.s, size)
<1> DEFINE v == Victims(s, spared)
           enough == {n \in 0..Len(v) : Fits(WithoutEntries(s, {v[k].id : k \in 1..n}), size)}
           least == CHOOSE n \in enough : \A m \in enough : n <= m
<1>1. CASE enough = {}
  <2>1. w = [s |-> s, ok |-> FALSE]
    BY <1>1 DEF EvictOldest
  <2> QED BY <2>1
<1>2. CASE enough # {}
  <2>1. w \in Removing(s, SubSeq(v, 1, least))
    BY <1>2 DEF EvictOldest
  <2>2. v \in Seq(Entry) /\ ToSet(v) = {e \in ToSet(s.entries) : e.id \notin spared}
    BY WithoutLeaves DEF StoreSound, StoreTyped, Victims
  <2>3. Len(v) \in Nat /\ \A k \in 1..Len(v) : v[k] \in Entry /\ v[k] \in ToSet(v)
    BY <2>2, LenProperties, ElementOfSeq DEF ToSet
  <2>4. least \in enough
    <3>1. enough \in SUBSET Nat
      BY <2>3
    <3> HIDE DEF enough
    <3> QED BY <1>2, <3>1, LeastNumber
  <2> HIDE DEF v, least
  <2>5. /\ SubSeq(v, 1, least) \in Seq(Entry) /\ Len(SubSeq(v, 1, least)) = least
        /\ \A k \in 1..least : SubSeq(v, 1, least)[k] = v[k]
    <3>1. least \in 0..Len(v) /\ least \in Int /\ \A k \in 1..least : v[k] \in Entry
      BY <2>3, <2>4
    <3>2. /\ SubSeq(v, 1, least) \in Seq(Entry)
          /\ Len(SubSeq(v, 1, least)) = IF 1 <= least THEN least - 1 + 1 ELSE 0
          /\ \A k \in 1..(least - 1 + 1) : SubSeq(v, 1, least)[k] = v[1 + k - 1]
      BY <3>1, SubSeqProperties
    <3> HIDE DEF enough
    <3>3. ASSUME NEW k \in 1..least PROVE SubSeq(v, 1, least)[k] = v[k]
      <4>1. k \in 1..(least - 1 + 1) /\ 1 + k - 1 = k
        BY <3>1
      <4> QED BY <4>1, <3>2
    <3> QED BY <3>1, <3>2, <3>3
  <2>6. ASSUME NEW i \in Young(s), i \in spared PROVE i \in Young(w.s)
    <3>1. \A e \in ToSet(SubSeq(v, 1, least)) : e.id # i
      <4>1. \A e \in ToSet(SubSeq(v, 1, least)) : e \in ToSet(v)
        <5>1. DOMAIN SubSeq(v, 1, least) = 1..least /\ least \in 0..Len(v)
          BY <2>5, <2>4, LenProperties
        <5>2. ToSet(SubSeq(v, 1, least)) = {SubSeq(v, 1, least)[k] : k \in 1..least}
          BY <5>1 DEF ToSet
        <5>3. \A k \in 1..least : k \in 1..Len(v)
          BY <5>1, <2>3
        <5> QED BY <5>2, <5>3, <2>3, <2>5
      <4> QED BY <4>1, <2>2, <2>6
    <3> HIDE DEF enough
    <3> QED BY <2>1, <2>5, <3>1, RemovingSpares
  <2>7. ASSUME w.ok PROVE Fits(w.s, size)
    <3>1. PICK n \in 0..Len(SubSeq(v, 1, least)) :
            /\ w.s.entries = Without(s.entries, {SubSeq(v, 1, least)[k].id : k \in 1..n})
            /\ w.ok => n = Len(SubSeq(v, 1, least))
      BY <2>1, RemovingKeeps
    <3>2. n = least
      BY <3>1, <2>7, <2>5
    <3>3. {SubSeq(v, 1, least)[k].id : k \in 1..n} = {v[k].id : k \in 1..least}
      BY <3>2, <2>5
    <3>4. Fits(WithoutEntries(s, {v[k].id : k \in 1..least}), size)
      BY <2>4
    <3>5. WithoutEntries(s, {v[k].id : k \in 1..least}).entries = Without(s.entries, {v[k].id : k \in 1..least})
      BY DEF WithoutEntries, StoreSound, StoreTyped, Fields
    <3> HIDE DEF enough
    <3> QED BY <3>1, <3>3, <3>4, <3>5 DEF Fits
  <2> HIDE DEF enough
  <2> QED BY <2>1, <2>6, <2>7, RemovingKeeps
<1> QED BY <1>1, <1>2

\* A new entry at the end, or before the last one.
LEMMA LatestAdds ==
  ASSUME NEW es \in Seq(Entry), NEW e \in Entry, NEW t \in Latest(es, e)
  PROVE  /\ t \in Seq(Entry) /\ Len(t) = Len(es) + 1 /\ TotalChars(t) = TotalChars(es) + e.size
         /\ ToSet(es) \cup {e} \subseteq ToSet(t)
<1>1. <<e>> \in Seq(Entry) /\ Len(<<e>>) = 1 /\ <<e>>[1] = e /\ TotalChars(<<e>>) = e.size
  BY CountOfOne
<1>2. Len(es) \in Nat /\ TotalChars(es) \in Nat /\ e.size \in Nat
  BY TotalIsNat DEF Entry
<1>3. CASE t = Append(es, e)
  <2>1. t = es \o <<e>>
    BY <1>3, AppendIsConcat
  <2>2. t \in Seq(Entry) /\ Len(t) = Len(es) + 1 /\ t[Len(es) + 1] = e /\ \A i \in 1..Len(es) : t[i] = es[i]
    BY <1>3, AppendProperties
  <2>3. TotalChars(t) = TotalChars(es) + e.size
    BY <2>1, <1>1, CountJoins
  <2>4. DOMAIN t = 1..(Len(es) + 1) /\ DOMAIN es = 1..Len(es)
    BY <2>2, LenProperties
  <2>5. ToSet(es) \cup {e} \subseteq ToSet(t)
    <3>1. \A i \in 1..Len(es) : i \in 1..(Len(es) + 1) /\ t[i] = es[i]
      BY <2>2, <1>2
    <3>2. Len(es) + 1 \in 1..(Len(es) + 1)
      BY <1>2
    <3> QED BY <3>1, <3>2, <2>2, <2>4 DEF ToSet
  <2> QED BY <2>2, <2>3, <2>5
<1>4. CASE es # <<>> /\ t = InsertAt(es, Len(es), e)
  <2> DEFINE n == Len(es)
             a == SubSeq(es, 1, n - 1)
             b == SubSeq(es, n, n)
  <2>1. t = (a \o <<e>>) \o b
    BY <1>4 DEF InsertAt
  <2>2. n \in Nat \ {0} /\ \A i \in 1..n : es[i] \in Entry
    BY <1>4, EmptySeq, ElementOfSeq
  <2>3. a \in Seq(Entry) /\ b \in Seq(Entry) /\ Len(a) = n - 1 /\ Len(b) = 1
        /\ (\A i \in 1..(n - 1) : a[i] = es[i]) /\ b[1] = es[n]
    <3> HIDE DEF n
    <3>1. 1 \in Int /\ n - 1 \in Int /\ n \in Int /\ (\A i \in 1..(n - 1) : es[i] \in Entry) /\ (\A i \in n..n : es[i] \in Entry)
      BY <2>2
    <3>2. /\ a \in Seq(Entry) /\ Len(a) = (IF 1 <= n - 1 THEN (n - 1) - 1 + 1 ELSE 0)
          /\ \A i \in 1..((n - 1) - 1 + 1) : a[i] = es[1 + i - 1]
      BY <3>1, SubSeqProperties
    <3>3. b = <<es[n]>>
      <4>1. n \in 1..Len(es) /\ n \in n..Len(es) /\ n + 1 \in Int /\ n < n + 1 /\ es[n] \in Entry
        BY <2>2 DEF n
      <4>2. SubSeq(es, n, n) = <<es[n]>> \o SubSeq(es, n + 1, n)
        BY <4>1, SubSeqRecursiveFirst
      <4>3. SubSeq(es, n + 1, n) = <<>>
        BY <4>1, SubSeqEmpty
      <4>4. <<es[n]>> \in Seq(Entry)
        BY <4>1
      <4>5. <<es[n]>> \o <<>> = <<es[n]>>
        BY <4>4, ConcatEmptySeq
      <4> QED BY <4>2, <4>3, <4>5
    <3>7. b \in Seq(Entry) /\ Len(b) = 1 /\ b[1] = es[n]
      BY <3>3, <2>2
    <3> HIDE DEF a, b
    <3>4. Len(a) = n - 1
      BY <2>2, <3>2
    <3>5. ASSUME NEW i \in 1..(n - 1) PROVE a[i] = es[i]
      <4>1. i \in 1..((n - 1) - 1 + 1) /\ 1 + i - 1 = i
        BY SMTT(40), <2>2
      <4> QED BY <4>1, <3>2
    <3> QED BY <3>2, <3>4, <3>5, <3>7
  <2>4. es = a \o b
    <3>1. SubSeq(es, 1, n - 1) \o SubSeq(es, (n - 1) + 1, n) = SubSeq(es, 1, n)
      <4>1. 1 \in 1..(Len(es) + 1) /\ n - 1 \in (1 - 1)..Len(es) /\ n \in (n - 1)..Len(es)
        BY <2>2
      <4> QED BY <4>1, ConcatAdjacentSubSeq
    <3>2. (n - 1) + 1 = n /\ SubSeq(es, 1, n) = es
      BY <2>2, SubSeqFull
    <3> QED BY <3>1, <3>2
  <2> HIDE DEF a, b, n
  <2>5. /\ a \o <<e>> \in Seq(Entry) /\ Len(a \o <<e>>) = n
        /\ (\A i \in 1..(n - 1) : (a \o <<e>>)[i] = es[i]) /\ (a \o <<e>>)[n] = e
    <3>1. /\ a \o <<e>> \in Seq(Entry) /\ Len(a \o <<e>>) = n - 1 + 1
          /\ \A i \in 1..(n - 1 + 1) : (a \o <<e>>)[i] = IF i <= n - 1 THEN a[i] ELSE <<e>>[i - (n - 1)]
      BY <2>3, <1>1, ConcatProperties
    <3>2. n - 1 + 1 = n /\ n \in 1..(n - 1 + 1) /\ ~(n <= n - 1) /\ n - (n - 1) = 1
      BY <2>2
    <3>3. \A i \in 1..(n - 1) : i \in 1..(n - 1 + 1) /\ i <= n - 1
      BY <2>2
    <3> QED BY <3>1, <3>2, <3>3, <2>3, <1>1
  <2>6. /\ t \in Seq(Entry) /\ Len(t) = n + 1
        /\ (\A i \in 1..(n - 1) : t[i] = es[i]) /\ t[n] = e /\ t[n + 1] = es[n]
    <3>0. /\ t \in Seq(Entry) /\ Len(t) = Len(a \o <<e>>) + Len(b)
          /\ \A i \in 1..(Len(a \o <<e>>) + Len(b)) : t[i] = IF i <= Len(a \o <<e>>) THEN (a \o <<e>>)[i] ELSE b[i - Len(a \o <<e>>)]
      BY <2>1, <2>3, <2>5, ConcatProperties
    <3>1. /\ t \in Seq(Entry) /\ Len(t) = n + 1
          /\ \A i \in 1..(n + 1) : t[i] = IF i <= n THEN (a \o <<e>>)[i] ELSE b[i - n]
      BY <3>0, <2>3, <2>5
    <3>2. n \in 1..(n + 1) /\ n + 1 \in 1..(n + 1) /\ ~(n + 1 <= n) /\ (n + 1) - n = 1 /\ n <= n
      BY <2>2
    <3>3. \A i \in 1..(n - 1) : i \in 1..(n + 1) /\ i <= n
      BY <2>2
    <3> QED BY <3>1, <3>2, <3>3, <2>3, <2>5
  <2>7. TotalChars(t) = TotalChars(es) + e.size
    <3>1. TotalChars(t) = TotalChars(a \o <<e>>) + TotalChars(b)
      BY <2>1, <2>3, <2>5, CountJoins
    <3>2. TotalChars(a \o <<e>>) = TotalChars(a) + TotalChars(<<e>>)
      BY <2>3, <1>1, CountJoins
    <3>3. TotalChars(es) = TotalChars(a) + TotalChars(b) /\ TotalChars(a) \in Nat /\ TotalChars(b) \in Nat
      BY <2>3, <2>4, CountJoins
    <3> QED BY <3>1, <3>2, <3>3, <1>1, <1>2
  <2>8. ToSet(es) \cup {e} \subseteq ToSet(t)
    <3>1. DOMAIN t = 1..(n + 1) /\ DOMAIN es = 1..n
      BY <2>6, LenProperties DEF n
    <3>2. ASSUME NEW i \in 1..n PROVE es[i] \in ToSet(t)
      <4>1. CASE i = n
        <5>1. n + 1 \in 1..(n + 1) /\ t[n + 1] = es[i]
          BY <4>1, <2>2, <2>6
        <5> QED BY <5>1, <3>1 DEF ToSet
      <4>2. CASE i # n
        <5>1. i \in 1..(n + 1) /\ t[i] = es[i]
          BY <4>2, <2>2, <2>6
        <5> QED BY <5>1, <3>1 DEF ToSet
      <4> QED BY <4>1, <4>2
    <3>3. n \in 1..(n + 1) /\ t[n] = e
      BY <2>2, <2>6
    <3> QED BY <3>1, <3>2, <3>3 DEF ToSet
  <2> QED BY <2>6, <2>7, <2>8 DEF n
<1> QED BY <1>3, <1>4 DEF Latest

\* A creation in a store with room keeps it sound; a handle that is given out is
\* known and young, and nothing young is lost.
LEMMA CreateKeeps ==
  ASSUME NEW s, StoreSound(s), ~s.closed, NEW size \in Nat, Fits(s, size), NEW r \in Create(s, size)
  PROVE  /\ StoreSound(r.s) /\ r.id \in Nat
         /\ r.id # 0 => r.id \in Young(r.s)
         /\ Young(s) \subseteq Young(r.s)
<1> DEFINE id == s.issued + 1
           next == [s EXCEPT !.issued = id]
           held == [k \in DOMAIN s.files \union {id} |-> IF k = id THEN "own" ELSE s.files[k]]
           made == [id |-> id, size |-> size, old |-> FALSE]
<1>1. DOMAIN s = Fields /\ s.entries \in Seq(Entry) /\ s.issued \in Nat
  BY DEF StoreSound, StoreTyped
<1>2. id \in Nat /\ made \in Entry /\ made.id = id /\ ~made.old
  BY <1>1 DEF Entry
<1>3. {k \in DOMAIN held : held[k] = "own"} = Owned(s) \cup {id}
  BY DEF Owned
<1>4. \/ r = [s |-> next, id |-> 0]
      \/ r = [s |-> [next EXCEPT !.files = held, !.residue = @ \union {id}], id |-> 0]
      \/ r = [s |-> [next EXCEPT !.files = held, !.unsure = TRUE], id |-> 0]
      \/ \E es \in Latest(s.entries, made) : r = [s |-> [next EXCEPT !.files = held, !.entries = es], id |-> id]
  BY DEF Create
<1> HIDE DEF id, held, made
<1>5. CASE r = [s |-> next, id |-> 0]
  BY <1>1, <1>2, <1>5 DEF StoreSound, StoreTyped, QuotaOf, AccountOf, Owned, Known, Young, Fields
<1>6. CASE r = [s |-> [next EXCEPT !.files = held, !.residue = @ \union {id}], id |-> 0]
  <2>1. /\ DOMAIN r.s = Fields /\ r.s.entries = s.entries /\ r.s.issued = id /\ r.s.files = held
        /\ r.s.residue = s.residue \cup {id} /\ r.s.unsure = s.unsure /\ r.s.closed = s.closed /\ r.id = 0
    BY <1>1, <1>6 DEF Fields
  <2> QED BY <2>1, <1>1, <1>2, <1>3 DEF StoreSound, StoreTyped, QuotaOf, AccountOf, Owned, Known, Young
<1>7. CASE r = [s |-> [next EXCEPT !.files = held, !.unsure = TRUE], id |-> 0]
  <2>1. /\ DOMAIN r.s = Fields /\ r.s.entries = s.entries /\ r.s.issued = id /\ r.s.files = held
        /\ r.s.residue = s.residue /\ r.s.unsure /\ r.s.closed = s.closed /\ r.id = 0
    BY <1>1, <1>7 DEF Fields
  <2> QED BY <2>1, <1>1, <1>2 DEF StoreSound, StoreTyped, QuotaOf, AccountOf, Owned, Known, Young
<1>8. CASE \E es \in Latest(s.entries, made) : r = [s |-> [next EXCEPT !.files = held, !.entries = es], id |-> id]
  <2>1. PICK es \in Latest(s.entries, made) : r = [s |-> [next EXCEPT !.files = held, !.entries = es], id |-> id]
    BY <1>8
  <2>2. /\ DOMAIN r.s = Fields /\ r.s.entries = es /\ r.s.issued = id /\ r.s.files = held
        /\ r.s.residue = s.residue /\ r.s.unsure = s.unsure /\ r.s.closed = s.closed /\ r.id = id
    BY <1>1, <2>1 DEF Fields
  <2>3. /\ es \in Seq(Entry) /\ Len(es) = Len(s.entries) + 1 /\ TotalChars(es) = TotalChars(s.entries) + made.size
        /\ ToSet(s.entries) \cup {made} \subseteq ToSet(es)
    BY <1>1, <1>2, LatestAdds
  <2>4. QuotaOf(r.s)
    <3>1. Len(s.entries) < MaxArtifacts /\ TotalChars(s.entries) + size <= MaxTotalChars
      BY DEF Fits
    <3>2. Len(s.entries) \in Nat /\ made.size = size /\ MaxArtifacts \in Nat
      BY <1>1, TotalIsNat, ArtifactAssumption DEF made
    <3> QED BY <3>1, <3>2, <2>2, <2>3 DEF QuotaOf
  <2>5. Young(s) \subseteq Young(r.s) /\ id \in Young(r.s)
    BY <1>2, <2>2, <2>3, YoungIs
  <2>6. Known(s) \cup {id} \subseteq Known(r.s)
    BY <1>2, <2>2, <2>3, KnownIs
  <2>7. Owned(r.s) = Owned(s) \cup {id}
    BY <1>3, <2>2 DEF Owned
  <2>8. AccountOf(r.s)
    BY <2>2, <2>6, <2>7 DEF AccountOf, StoreSound
  <2> QED BY <1>2, <2>2, <2>3, <2>4, <2>5, <2>8 DEF StoreSound, StoreTyped
<1> QED BY <1>4, <1>5, <1>6, <1>7, <1>8

\* A write, whatever of it fails: the store stays sound, a handle that is given
\* out is known and young, and what the write spares stays young.
LEMMA WriteKeeps ==
  ASSUME NEW s, StoreSound(s), NEW size \in Nat, NEW spared, NEW r \in Write(s, size, spared)
  PROVE  /\ StoreSound(r.s) /\ r.id \in Nat
         /\ r.id # 0 => r.id \in Young(r.s)
         /\ \A i \in spared : i \in Young(s) => i \in Young(r.s)
<1>1. CASE r = [s |-> s, id |-> 0]
  BY <1>1
<1>2. CASE \E w \in Sweep(s) : r = [s |-> w.s, id |-> 0]
  BY <1>2, SweepKeeps
<1>3. CASE /\ ~s.closed
           /\ \E w \in Sweep(s) : \E e \in EvictOldest(w.s, size, spared) : ~e.ok /\ r = [s |-> e.s, id |-> 0]
  <2>1. PICK w \in Sweep(s) : \E e \in EvictOldest(w.s, size, spared) : ~e.ok /\ r = [s |-> e.s, id |-> 0]
    BY <1>3
  <2>2. PICK e \in EvictOldest(w.s, size, spared) : r = [s |-> e.s, id |-> 0]
    BY <2>1
  <2>3. StoreSound(w.s) /\ Young(s) \subseteq Young(w.s)
    BY SweepKeeps
  <2>4. StoreSound(e.s) /\ \A i \in Young(w.s) : i \in spared => i \in Young(e.s)
    BY <2>3, EvictKeeps
  <2> QED BY <2>2, <2>3, <2>4
<1>4. CASE /\ ~s.closed
           /\ \E w \in Sweep(s) : \E e \in EvictOldest(w.s, size, spared) : e.ok /\ r \in Create(e.s, size)
  <2>1. PICK w \in Sweep(s) : \E e \in EvictOldest(w.s, size, spared) : e.ok /\ r \in Create(e.s, size)
    BY <1>4
  <2>2. PICK e \in EvictOldest(w.s, size, spared) : e.ok /\ r \in Create(e.s, size)
    BY <2>1
  <2>3. StoreSound(w.s) /\ Young(s) \subseteq Young(w.s) /\ w.s.closed = s.closed
    BY SweepKeeps
  <2>4. /\ StoreSound(e.s) /\ e.s.closed = w.s.closed /\ Fits(e.s, size)
        /\ \A i \in Young(w.s) : i \in spared => i \in Young(e.s)
    BY <2>2, <2>3, EvictKeeps
  <2>5. ~e.s.closed
    BY <1>4, <2>3, <2>4
  <2>6. /\ StoreSound(r.s) /\ r.id \in Nat /\ (r.id # 0 => r.id \in Young(r.s)) /\ Young(e.s) \subseteq Young(r.s)
    BY <2>2, <2>4, <2>5, CreateKeeps
  <2> QED BY <2>3, <2>4, <2>6
<1>5. \/ r = [s |-> s, id |-> 0]
      \/ \E w \in Sweep(s) : r = [s |-> w.s, id |-> 0]
      \/ ~s.closed /\ \E w \in Sweep(s) : \E e \in EvictOldest(w.s, size, spared) :
                        IF e.ok THEN r \in Create(e.s, size) ELSE r = [s |-> e.s, id |-> 0]
  <2>1. CASE s.closed \/ s.residue # {} \/ s.unsure \/ s.issued = MaxHandles \/ size > MaxTotalChars
    BY <2>1 DEF Write
  <2>2. CASE ~(s.closed \/ s.residue # {} \/ s.unsure \/ s.issued = MaxHandles \/ size > MaxTotalChars)
    <3>1. \E w \in Sweep(s) : r \in IF ~w.ok \/ ~Fits(WithoutEntries(w.s, Known(w.s) \ spared), size) THEN {[s |-> w.s, id |-> 0]}
             ELSE UNION {IF e.ok THEN Create(e.s, size) ELSE {[s |-> e.s, id |-> 0]} : e \in EvictOldest(w.s, size, spared)}
      BY <2>2, Zenon DEF Write
    <3>2. PICK w \in Sweep(s) : r \in IF ~w.ok \/ ~Fits(WithoutEntries(w.s, Known(w.s) \ spared), size) THEN {[s |-> w.s, id |-> 0]}
             ELSE UNION {IF e.ok THEN Create(e.s, size) ELSE {[s |-> e.s, id |-> 0]} : e \in EvictOldest(w.s, size, spared)}
      BY <3>1
    <3>3. r = [s |-> w.s, id |-> 0] \/ r \in UNION {IF e.ok THEN Create(e.s, size) ELSE {[s |-> e.s, id |-> 0]} : e \in EvictOldest(w.s, size, spared)}
      BY <3>2
    <3>4. r = [s |-> w.s, id |-> 0] \/ \E e \in EvictOldest(w.s, size, spared) : r \in IF e.ok THEN Create(e.s, size) ELSE {[s |-> e.s, id |-> 0]}
      BY <3>3
    <3> QED BY <2>2, <3>4
  <2> QED BY <2>1, <2>2
<1> QED BY <1>1, <1>2, <1>3, <1>4, <1>5

\* Sequences of entries that take the same lengths count the same.
LEMMA CountsSizes ==
  ASSUME NEW s \in Seq(Entry), NEW t \in Seq(Entry), Len(s) = Len(t), \A k \in 1..Len(s) : s[k].size = t[k].size
  PROVE  TotalChars(s) = TotalChars(t)
<1>1. PICK f \in [0..Len(s) -> Nat] :
        f[0] = 0 /\ (\A n \in 1..Len(s) : f[n] = f[n - 1] + s[n].size) /\ TotalChars(s) = f[Len(s)]
  BY CountDefined
<1>2. PICK g \in [0..Len(s) -> Nat] :
        g[0] = 0 /\ (\A n \in 1..Len(s) : g[n] = g[n - 1] + t[n].size) /\ TotalChars(t) = g[Len(s)]
  BY CountDefined
<1> DEFINE S == {n \in Nat : n <= Len(s) => f[n] = g[n]}
<1>3. 0 \in S
  BY <1>1, <1>2
<1>4. ASSUME NEW n \in Nat, n \in S PROVE n + 1 \in S
  <2>1. SUFFICES ASSUME n + 1 <= Len(s) PROVE f[n + 1] = g[n + 1]
    OBVIOUS
  <2>2. Len(s) \in Nat
    BY LenProperties
  <2>3. n + 1 \in 1..Len(s) /\ (n + 1) - 1 = n /\ f[n] = g[n]
    BY <1>4, <2>1, <2>2
  <2> QED BY <2>3, <1>1, <1>2
<1> HIDE DEF S
<1>5. Len(s) \in S
  BY <1>3, <1>4, NumbersInduction, LenProperties
<1> QED BY <1>1, <1>2, <1>5 DEF S

Publications == [Publishers -> [at : {"rest", "analysis", "told"}, receipt : Nat, output : Nat, told : SUBSET Nat]]

\* The store is sound between any two operations, and no call was misled.
ArtifactInvariant == StoreSound(store) /\ publishing \in Publications /\ ~misled

\* A publication: the receipt survives the output that follows it.
LEMMA ProjectKeeps ==
  ASSUME ArtifactInvariant, NEW p \in Publishers, NEW receipt \in BOOLEAN, NEW overflow \in BOOLEAN,
         Project(p, receipt, overflow)
  PROVE  ArtifactInvariant'
<1> USE DEF ArtifactInvariant
<1> DEFINE First == IF receipt THEN Write(store, 1, {}) ELSE {[s |-> store, id |-> 0]}
           Second(r) == IF overflow THEN Write(r.s, 2, {r.id}) ELSE {[s |-> r.s, id |-> 0]}
           Third(r, o) == IF overflow /\ o.id = 0 THEN Write(o.s, 1, {r.id}) ELSE {o}
<1>0. PICK r \in First : \E o \in Second(r) : \E c \in Third(r, o) :
        /\ store' = c.s
        /\ publishing' = [publishing EXCEPT ![p] = [at |-> "analysis", receipt |-> r.id, output |-> c.id, told |-> {}]]
        /\ misled' = (misled \/ (r.id # 0 /\ c.id # 0 /\ r.id \notin Known(c.s)))
  BY DEF Project
<1>o. PICK o \in Second(r) : \E c \in Third(r, o) :
        /\ store' = c.s
        /\ publishing' = [publishing EXCEPT ![p] = [at |-> "analysis", receipt |-> r.id, output |-> c.id, told |-> {}]]
        /\ misled' = (misled \/ (r.id # 0 /\ c.id # 0 /\ r.id \notin Known(c.s)))
  BY <1>0
<1>1. PICK c \in Third(r, o) :
        /\ store' = c.s
        /\ publishing' = [publishing EXCEPT ![p] = [at |-> "analysis", receipt |-> r.id, output |-> c.id, told |-> {}]]
        /\ misled' = (misled \/ (r.id # 0 /\ c.id # 0 /\ r.id \notin Known(c.s)))
  BY <1>o
<1>2. StoreSound(r.s) /\ r.id \in Nat /\ (r.id # 0 => r.id \in Young(r.s))
  <2>1. CASE receipt
    BY <2>1, WriteKeeps
  <2>2. CASE ~receipt
    BY <2>2
  <2> QED BY <2>1, <2>2
<1>3. StoreSound(o.s) /\ o.id \in Nat /\ (r.id # 0 => r.id \in Young(o.s))
  <2>1. CASE overflow
    <3>1. o \in Write(r.s, 2, {r.id})
      BY <2>1
    <3>2. /\ StoreSound(o.s) /\ o.id \in Nat
          /\ \A i \in {r.id} : i \in Young(r.s) => i \in Young(o.s)
      BY <3>1, <1>2, WriteKeeps
    <3> QED BY <3>2, <1>2
  <2>2. CASE ~overflow
    BY <2>2, <1>2
  <2> QED BY <2>1, <2>2
<1>4. StoreSound(c.s) /\ c.id \in Nat /\ (r.id # 0 => r.id \in Young(c.s))
  <2>1. CASE overflow /\ o.id = 0
    <3>1. c \in Write(o.s, 1, {r.id})
      BY <2>1
    <3>2. /\ StoreSound(c.s) /\ c.id \in Nat
          /\ \A i \in {r.id} : i \in Young(o.s) => i \in Young(c.s)
      BY <3>1, <1>3, WriteKeeps
    <3> QED BY <3>2, <1>3
  <2>2. CASE ~(overflow /\ o.id = 0)
    BY <2>2, <1>3
  <2> QED BY <2>1, <2>2
<1>5. r.id # 0 => r.id \in Known(c.s)
  BY <1>4 DEF Young, Known
<1>6. publishing' \in Publications
  <2>1. [at |-> "analysis", receipt |-> r.id, output |-> c.id, told |-> {}]
           \in [at : {"rest", "analysis", "told"}, receipt : Nat, output : Nat, told : SUBSET Nat]
    BY <1>2, <1>4
  <2> QED BY <1>1, <2>1 DEF Publications
<1> QED BY <1>1, <1>4, <1>5, <1>6

\* What is named was looked up after the sweep, in the same turn.
LEMMA TellKeeps ==
  ASSUME ArtifactInvariant, NEW p \in Publishers, Tell(p)
  PROVE  ArtifactInvariant'
<1> USE DEF ArtifactInvariant
<1>1. PICK w \in IF retired THEN {[s |-> store, ok |-> FALSE]} ELSE Sweep(store) :
        /\ store' = w.s
        /\ publishing' = [publishing EXCEPT ![p].at = "told", ![p].told = Named(p, w.s, w.ok)]
        /\ misled' = (misled \/ ~(publishing'[p].told \subseteq Known(w.s)))
  BY DEF Tell
<1>2. StoreSound(w.s)
  <2>1. CASE retired
    BY <1>1, <2>1
  <2>2. CASE ~retired
    BY <1>1, <2>2, SweepKeeps
  <2> QED BY <2>1, <2>2
<1>3. publishing[p] \in [at : {"rest", "analysis", "told"}, receipt : Nat, output : Nat, told : SUBSET Nat]
  BY DEF Publications
<1>4. Named(p, w.s, w.ok) \subseteq Nat /\ Named(p, w.s, w.ok) \subseteq Known(w.s)
  BY <1>3 DEF Named
<1>5. publishing' = [publishing EXCEPT ![p] = [publishing[p] EXCEPT !.at = "told", !.told = Named(p, w.s, w.ok)]]
  BY <1>1, <1>3 DEF Publications
<1>6. [publishing[p] EXCEPT !.at = "told", !.told = Named(p, w.s, w.ok)]
        \in [at : {"rest", "analysis", "told"}, receipt : Nat, output : Nat, told : SUBSET Nat]
  BY <1>3, <1>4
<1>7. publishing' \in Publications /\ publishing'[p].told = Named(p, w.s, w.ok)
  BY <1>3, <1>5, <1>6 DEF Publications
<1> QED BY <1>1, <1>2, <1>4, <1>7

\* A read that renews an entry changes its place and its age, not its length.
LEMMA ReadKeeps ==
  ASSUME ArtifactInvariant, NEW id, Read(id)
  PROVE  ArtifactInvariant'
<1> USE DEF ArtifactInvariant
<1> DEFINE Renewed(es) == Append(Without(es, {id}), [(CHOOSE e \in ToSet(es) : e.id = id) EXCEPT !.old = FALSE])
<1>1. PICK w \in Sweep(store) :
        store' = IF ~w.ok \/ id \notin Known(w.s) THEN w.s ELSE [w.s EXCEPT !.entries = Renewed(@)]
  BY DEF Read
<1>2. publishing' = publishing /\ misled' = misled
  BY DEF Read
<1>3. StoreSound(w.s)
  BY SweepKeeps
<1>4. CASE ~w.ok \/ id \notin Known(w.s)
  BY <1>1, <1>2, <1>3, <1>4
<1>5. CASE w.ok /\ id \in Known(w.s)
  <2> DEFINE es == w.s.entries
             e == CHOOSE e \in ToSet(es) : e.id = id
             fresh == [e EXCEPT !.old = FALSE]
             left == Without(es, {id})
  <2>1. es \in Seq(Entry) /\ DOMAIN w.s = Fields /\ w.s.issued \in Nat
    BY <1>3 DEF StoreSound, StoreTyped
  <2>2. e \in ToSet(es) /\ e.id = id
    BY <1>5, KnownIs
  <2>3. e \in Entry
    BY <2>1, <2>2, ElementOfSeq, LenProperties DEF ToSet
  <2> HIDE DEF e
  <2>4. fresh \in Entry /\ fresh.size = e.size /\ fresh.id = id
    BY <2>2, <2>3 DEF Entry
  <2>5. /\ left \in Seq(Entry) /\ Len(left) + 1 <= Len(es) /\ TotalChars(left) + e.size <= TotalChars(es)
        /\ ToSet(left) = {x \in ToSet(es) : x.id # id}
    BY <2>1, <2>2, WithoutLeaves
  <2>6. store' = [w.s EXCEPT !.entries = Append(left, fresh)]
    BY <1>1, <1>5 DEF e
  <2> HIDE DEF left, fresh, es
  <2>7. Append(left, fresh) \in Latest(left, fresh)
    BY DEF Latest
  <2>8. /\ Append(left, fresh) \in Seq(Entry) /\ Len(Append(left, fresh)) = Len(left) + 1
        /\ TotalChars(Append(left, fresh)) = TotalChars(left) + fresh.size
        /\ ToSet(left) \cup {fresh} \subseteq ToSet(Append(left, fresh))
    BY <2>4, <2>5, <2>7, LatestAdds
  <2>9. /\ DOMAIN store' = Fields /\ store'.entries = Append(left, fresh) /\ store'.files = w.s.files /\ store'.issued = w.s.issued
        /\ store'.residue = w.s.residue /\ store'.unsure = w.s.unsure /\ store'.closed = w.s.closed
    BY <2>1, <2>6 DEF Fields
  <2>10. QuotaOf(store')
    <3>1. Len(es) <= MaxArtifacts /\ TotalChars(es) <= MaxTotalChars
      BY <1>3 DEF StoreSound, QuotaOf, es
    <3>2. Len(es) \in Nat /\ Len(left) \in Nat /\ TotalChars(es) \in Nat /\ TotalChars(left) \in Nat /\ e.size \in Nat
      BY <2>1, <2>3, <2>5, TotalIsNat DEF es, Entry
    <3>3. MaxArtifacts \in Nat /\ MaxTotalChars \in Nat
      BY ArtifactAssumption
    <3> QED BY <3>1, <3>2, <3>3, <2>4, <2>5, <2>8, <2>9 DEF QuotaOf
  <2>11. Known(w.s) \subseteq Known(store')
    <3>1. ASSUME NEW x \in ToSet(es) PROVE \E y \in ToSet(store'.entries) : y.id = x.id
      BY <3>1, <2>4, <2>5, <2>8, <2>9
    <3> QED BY <3>1, KnownIs DEF es
  <2>12. Owned(store') = Owned(w.s)
    BY <2>9 DEF Owned
  <2>13. AccountOf(store')
    BY <1>3, <2>9, <2>11, <2>12 DEF AccountOf, StoreSound
  <2> QED BY <1>2, <2>1, <2>8, <2>9, <2>10, <2>13 DEF StoreSound, StoreTyped
<1> QED BY <1>4, <1>5

\* Time only marks an entry; a replaced file only leaves the store's own.
LEMMA AgeKeeps ==
  ASSUME ArtifactInvariant, Age
  PROVE  ArtifactInvariant'
<1> USE DEF ArtifactInvariant
<1>1. PICK k \in DOMAIN store.entries : store' = [store EXCEPT !.entries[k].old = TRUE]
  BY DEF Age
<1>2. publishing' = publishing /\ misled' = misled
  BY DEF Age
<1> DEFINE es == store.entries
           fs == [es EXCEPT ![k] = [es[k] EXCEPT !.old = TRUE]]
<1>3. es \in Seq(Entry) /\ DOMAIN store = Fields /\ store.issued \in Nat /\ k \in 1..Len(es) /\ es[k] \in Entry
  BY ElementOfSeq, LenProperties DEF StoreSound, StoreTyped
<1>4. store' = [store EXCEPT !.entries = fs]
  BY <1>1, <1>3 DEF Fields
<1> HIDE DEF es
<1>5. [es[k] EXCEPT !.old = TRUE] \in Entry /\ [es[k] EXCEPT !.old = TRUE].size = es[k].size /\ [es[k] EXCEPT !.old = TRUE].id = es[k].id
  BY <1>3 DEF Entry
<1>6. fs \in Seq(Entry) /\ Len(fs) = Len(es)
  BY <1>3, <1>5, ExceptSeq
<1>7. \A j \in 1..Len(es) : fs[j].size = es[j].size /\ fs[j].id = es[j].id
  <2>1. DOMAIN es = 1..Len(es)
    BY <1>3, LenProperties
  <2> QED BY <1>3, <1>5, <2>1
<1>8. TotalChars(fs) = TotalChars(es)
  BY <1>3, <1>6, <1>7, CountsSizes
<1> HIDE DEF fs
<1>9. /\ DOMAIN store' = Fields /\ store'.entries = fs /\ store'.files = store.files /\ store'.issued = store.issued
      /\ store'.residue = store.residue /\ store'.unsure = store.unsure /\ store'.closed = store.closed
  BY <1>3, <1>4 DEF Fields
<1>10. Known(store') = Known(store)
  <2>1. DOMAIN es = 1..Len(es) /\ DOMAIN fs = 1..Len(es)
    BY <1>3, <1>6, LenProperties
  <2> QED BY <1>7, <1>9, <2>1 DEF Known, es
<1>11. Owned(store') = Owned(store)
  BY <1>9 DEF Owned
<1> QED BY <1>2, <1>3, <1>6, <1>8, <1>9, <1>10, <1>11 DEF StoreSound, StoreTyped, QuotaOf, AccountOf, es

LEMMA ReplacedKeeps ==
  ASSUME ArtifactInvariant, Replaced
  PROVE  ArtifactInvariant'
<1> USE DEF ArtifactInvariant
<1>1. PICK k \in DOMAIN store.files : store' = [store EXCEPT !.files[k] = "foreign", !.faults = @ + 1]
  BY DEF Replaced
<1>2. publishing' = publishing /\ misled' = misled
  BY DEF Replaced
<1>3. DOMAIN store = Fields
  BY DEF StoreSound, StoreTyped
<1>4. /\ DOMAIN store' = Fields /\ store'.entries = store.entries /\ store'.issued = store.issued
      /\ store'.files = [store.files EXCEPT ![k] = "foreign"]
      /\ store'.residue = store.residue /\ store'.unsure = store.unsure /\ store'.closed = store.closed
  BY <1>1, <1>3 DEF Fields
<1>5. Owned(store') \subseteq Owned(store)
  BY <1>4 DEF Owned
<1>6. Known(store') = Known(store)
  BY <1>4 DEF Known
<1> QED BY <1>2, <1>4, <1>5, <1>6 DEF StoreSound, StoreTyped, QuotaOf, AccountOf

\* The close of a retired owner keeps every entry and residue whose file it
\* could not remove.
LEMMA CloseStoreKeeps ==
  ASSUME ArtifactInvariant, CloseStore
  PROVE  ArtifactInvariant'
<1> USE DEF ArtifactInvariant
<1>1. PICK kept \in SUBSET (Known(store) \union store.residue) :
        LET gone == (Known(store) \union store.residue) \ kept
        IN store' = [WithoutEntries(store, gone) EXCEPT !.files = UnlinkedFiles(@, gone), !.residue = @ \intersect kept, !.closed = kept = {} /\ ~store.unsure]
  BY DEF CloseStore
<1> DEFINE gone == (Known(store) \union store.residue) \ kept
<1>2. publishing' = publishing /\ misled' = misled
  BY DEF CloseStore
<1>3. DOMAIN store = Fields /\ store.entries \in Seq(Entry) /\ store.issued \in Nat
  BY DEF StoreSound, StoreTyped
<1>4. /\ DOMAIN store' = Fields /\ store'.entries = Without(store.entries, gone) /\ store'.issued = store.issued
      /\ store'.files = UnlinkedFiles(store.files, gone)
      /\ store'.residue = store.residue \cap kept /\ store'.unsure = store.unsure /\ store'.closed = (kept = {} /\ ~store.unsure)
  BY <1>1, <1>3 DEF Fields, WithoutEntries
<1>5. /\ store'.entries \in Seq(Entry) /\ Len(store'.entries) <= Len(store.entries) /\ TotalChars(store'.entries) <= TotalChars(store.entries)
      /\ ToSet(store'.entries) = {e \in ToSet(store.entries) : e.id \notin gone}
  BY <1>3, <1>4, WithoutLeaves
<1>6. QuotaOf(store')
  <2>1. Len(store.entries) <= MaxArtifacts /\ TotalChars(store.entries) <= MaxTotalChars
    BY DEF StoreSound, QuotaOf
  <2>2. /\ Len(store.entries) \in Nat /\ TotalChars(store.entries) \in Nat
        /\ Len(store'.entries) \in Nat /\ TotalChars(store'.entries) \in Nat /\ MaxArtifacts \in Nat /\ MaxTotalChars \in Nat
    BY <1>3, <1>5, TotalIsNat, ArtifactAssumption
  <2> QED BY <2>1, <2>2, <1>5 DEF QuotaOf
<1>7. Owned(store') = Owned(store) \ gone
  BY <1>4 DEF Owned, UnlinkedFiles
<1>8. Known(store') = Known(store) \ gone
  BY <1>5, KnownIs
<1>9. AccountOf(store')
  <2>1. store.unsure \/ Owned(store) \subseteq Known(store) \cup store.residue
    BY DEF StoreSound, AccountOf
  <2> QED BY <1>4, <1>7, <1>8, <2>1 DEF AccountOf
<1> QED BY SMTT(40), <1>2, <1>3, <1>4, <1>5, <1>6, <1>9 DEF StoreSound, StoreTyped

\* The quotas, the files and the handles of the artifact store hold together
\* whatever fails, for any number of publishers and any bounds.
THEOREM ArtifactsHold == ArtifactSpec => []ArtifactsKept
<1>1. ArtifactInit => ArtifactInvariant
  <2>1. SUFFICES ASSUME ArtifactInit PROVE ArtifactInvariant
    OBVIOUS
  <2>2. /\ DOMAIN store = Fields /\ store.entries = <<>> /\ store.files = <<>> /\ store.issued = 0 /\ ~store.closed
    BY <2>1 DEF ArtifactInit, Fields
  <2>3. <<>> \in Seq(Entry) /\ Len(<<>>) = 0 /\ DOMAIN <<>> = {}
    BY EmptySeq
  <2>4. Owned(store) = {}
    BY <2>2, <2>3 DEF Owned
  <2>5. QuotaOf(store)
    BY <2>2, <2>3, CountOfNone, ArtifactAssumption DEF QuotaOf
  <2>6. publishing \in Publications /\ ~misled
    BY <2>1 DEF ArtifactInit, Publications
  <2> QED BY <2>2, <2>3, <2>4, <2>5, <2>6 DEF ArtifactInvariant, StoreSound, StoreTyped, AccountOf
<1>2. ArtifactInvariant /\ [ArtifactNext]_artifactVars => ArtifactInvariant'
  <2> SUFFICES ASSUME ArtifactInvariant, [ArtifactNext]_artifactVars PROVE ArtifactInvariant'
    OBVIOUS
  <2>1. CASE UNCHANGED artifactVars
    BY <2>1 DEF artifactVars, ArtifactInvariant
  <2>2. ASSUME NEW p \in Publishers, Again(p) PROVE ArtifactInvariant'
    <3>1. [at |-> "rest", receipt |-> 0, output |-> 0, told |-> {}]
            \in [at : {"rest", "analysis", "told"}, receipt : Nat, output : Nat, told : SUBSET Nat]
      OBVIOUS
    <3>2. publishing' \in Publications /\ store' = store /\ misled' = misled
      BY <2>2, <3>1 DEF Again, ArtifactInvariant, Publications
    <3> QED BY <3>2 DEF ArtifactInvariant
  <2>3. CASE Revoke
    BY <2>3 DEF Revoke, ArtifactInvariant
  <2> QED BY <2>1, <2>2, <2>3, ProjectKeeps, TellKeeps, ReadKeeps, AgeKeeps, ReplacedKeeps, CloseStoreKeeps DEF ArtifactNext
<1>3. ArtifactInvariant => ArtifactsKept
  BY DEF ArtifactInvariant, StoreSound, QuotaOf, AccountOf, Owned, ArtifactsKept, QuotaKept, FilesAccounted, HandlesHonest
<1> QED BY <1>1, <1>2, <1>3, PTL DEF ArtifactSpec

-----------------------------------------------------------------------------
(* The trace: what the lines that wait take is a recursive function over      *)
(* them, of which it is enough that it is a number, and none of no lines.     *)

\* SizeOf adds the lengths up.
LEMMA SizeIsNat ==
  ASSUME NEW lines \in Seq(Nat)
  PROVE  SizeOf(lines) \in Nat /\ (lines = <<>> => SizeOf(lines) = 0)
<1> DEFINE N == Len(lines)
           G == [p \in (1..N) \X Nat |-> p[2] + lines[p[1]]]
           Body(f) == [n \in 0..N |-> IF n = 0 THEN 0 ELSE f[n - 1] + lines[n]]
           upTo == CHOOSE f : f = Body(f)
<1>1. N \in Nat /\ \A n \in 1..N : lines[n] \in Nat
  BY ElementOfSeq
<1>2. \A n \in 1..N, s \in Nat : G[<<n, s>>] = s + lines[n] /\ G[<<n, s>>] \in Nat
  BY <1>1
<1>3. G \in [(1..N) \X Nat -> Nat]
  BY <1>1, <1>2
<1> HIDE DEF G
<1>4. PICK f : Follows(f, N, Nat, 0, G)
  BY <1>1, <1>3, RecursionExists
<1>5. f = Body(f)
  <2>1. ASSUME NEW n \in 0..N PROVE f[n] = IF n = 0 THEN 0 ELSE f[n - 1] + lines[n]
    <3>1. CASE n = 0
      BY <3>1, <1>4 DEF Follows
    <3>2. CASE n # 0
      <4>0. n \in 1..N /\ n - 1 \in 0..N
        BY <1>1, <3>2
      <4>1. f[n - 1] \in Nat
        <5>1. f \in [0..N -> Nat]
          BY <1>4 DEF Follows
        <5> HIDE DEF N
        <5> QED BY <4>0, <5>1
      <4>2. f[n] = f[n - 1] + lines[n]
        BY <4>0, <4>1, <1>2, <1>4 DEF Follows
      <4> QED BY <4>2, <3>2
    <3> QED BY <3>1, <3>2
  <2>2. f = [n \in 0..N |-> f[n]]
    BY <1>4 DEF Follows
  <2> QED BY <2>1, <2>2
<1>6. upTo = Body(upTo)
  <2> HIDE DEF Body
  <2> QED BY <1>5
<1>7. SizeOf(lines) = upTo[N]
  BY DEF SizeOf
<1> HIDE DEF upTo
<1>8. upTo[0] = 0 /\ \A n \in 1..N : upTo[n] = upTo[n - 1] + lines[n]
  <2>1. \A n \in 0..N : upTo[n] = IF n = 0 THEN 0 ELSE upTo[n - 1] + lines[n]
    BY <1>6
  <2>2. 0 \in 0..N /\ \A n \in 1..N : n \in 0..N /\ n # 0
    BY <1>1
  <2> QED BY ONLY <2>1, <2>2, Z3
<1> HIDE DEF N
<1> DEFINE S == {m \in Nat : m <= N => upTo[m] \in Nat}
<1>9. \A n \in Nat : n \in S
  <2>1. 0 \in S
    BY <1>8
  <2>2. ASSUME NEW n \in Nat, n \in S PROVE n + 1 \in S
    <3>1. CASE n + 1 <= N
      <4>1. upTo[n] \in Nat /\ n + 1 \in 1..N /\ (n + 1) - 1 = n
        BY <2>2, <3>1, <1>1
      <4>2. upTo[n + 1] = upTo[n] + lines[n + 1]
        BY <4>1, <1>8
      <4> QED BY <4>1, <4>2, <1>1
    <3> QED BY <3>1
  <2> HIDE DEF S
  <2> QED BY <2>1, <2>2, NumbersInduction
<1>10. upTo[N] \in Nat
  BY <1>9, <1>1
<1>11. lines = <<>> => N = 0
  BY DEF N
<1> QED BY <1>7, <1>8, <1>10, <1>11

\* A line that fits the buffer at all fits it when enough of the oldest went,
\* and what waits after it are lines again.
LEMMA DroppedMakesRoom ==
  ASSUME NEW ring \in Seq(Nat), NEW size \in Nat, size <= MaxBufferBytes
  PROVE  /\ Dropped(ring, size) \in 0..Len(ring)
         /\ Append(SubSeq(ring, Dropped(ring, size) + 1, Len(ring)), size) \in Seq(Nat)
         /\ Len(Append(SubSeq(ring, Dropped(ring, size) + 1, Len(ring)), size)) = Len(ring) - Dropped(ring, size) + 1
<1>1. Len(ring) \in Nat /\ MaxBufferLines \in Nat /\ MaxBufferLines > 0 /\ MaxBufferBytes \in Nat
  BY LenProperties, TraceAssumption
<1>2. SubSeq(ring, Len(ring) + 1, Len(ring)) = <<>>
  BY <1>1, SubSeqProperties
<1>3. Len(ring) \in Enough(ring, size)
  <2>1. <<>> \in Seq(Nat)
    OBVIOUS
  <2>2. SizeOf(SubSeq(ring, Len(ring) + 1, Len(ring))) = 0
    BY <1>2, <2>1, SizeIsNat
  <2>3. Len(ring) \in 0..Len(ring) /\ Len(ring) - Len(ring) < MaxBufferLines /\ 0 + size <= MaxBufferBytes
    BY <1>1
  <2> QED BY <2>2, <2>3 DEF Enough
<1>4. Enough(ring, size) \in SUBSET Nat /\ Enough(ring, size) \subseteq 0..Len(ring)
  BY <1>1 DEF Enough
<1>5. PICK n : n = Dropped(ring, size)
  OBVIOUS
<1>6. n \in 0..Len(ring)
  <2>1. \E m \in Enough(ring, size) : \A k \in Enough(ring, size) : m <= k
    BY <1>3, <1>4, LeastNumber
  <2> HIDE DEF Enough
  <2>2. n \in Enough(ring, size)
    BY <1>5, <2>1 DEF Dropped
  <2> QED BY <2>2, <1>4
<1>7. PICK rest : rest = SubSeq(ring, n + 1, Len(ring))
  OBVIOUS
<1>8. rest \in Seq(Nat) /\ Len(rest) = Len(ring) - n
  <2>1. n + 1 \in 1..Len(ring) + 1 /\ Len(ring) \in n .. Len(ring)
    BY <1>1, <1>6
  <2>2. \A k \in n + 1 .. Len(ring) : ring[k] \in Nat
    <3>1. \A k \in 1..Len(ring) : ring[k] \in Nat
      BY ElementOfSeq
    <3>2. \A k \in n + 1 .. Len(ring) : k \in 1..Len(ring)
      BY <1>1, <1>6
    <3> QED BY <3>1, <3>2
  <2> QED BY <1>1, <1>6, <1>7, <2>1, <2>2, SubSeqProperties
<1>9. Append(rest, size) \in Seq(Nat) /\ Len(Append(rest, size)) = Len(ring) - n + 1
  BY <1>8, AppendProperties
<1> QED BY <1>5, <1>6, <1>7, <1>9

TraceRecords == [ring : Seq(Nat), bytes : Nat, whole : Nat, torn : BOOLEAN, dropped : Nat, given : Nat,
                 disabled : BOOLEAN, closed : BOOLEAN]
TraceSound(t) ==
  /\ t \in TraceRecords /\ t.given <= t.whole + Len(t.ring) + t.dropped
  /\ t.bytes <= MaxFileBytes /\ (~t.disabled => t.bytes + Marker <= MaxFileBytes)
  /\ (t.torn => t.disabled) /\ (t.disabled => t.ring = <<>>)

LEMMA TraceIs ==
  ASSUME NEW t \in TraceRecords
  PROVE  /\ t = [ring |-> t.ring, bytes |-> t.bytes, whole |-> t.whole, torn |-> t.torn,
                 dropped |-> t.dropped, given |-> t.given, disabled |-> t.disabled, closed |-> t.closed]
         /\ t.ring \in Seq(Nat) /\ t.bytes \in Nat /\ t.whole \in Nat /\ t.torn \in BOOLEAN
         /\ t.dropped \in Nat /\ t.given \in Nat /\ t.disabled \in BOOLEAN /\ t.closed \in BOOLEAN
BY DEF TraceRecords

\* A line is taken, with those it displaces counted.
LEMMA LineKeeps ==
  ASSUME NEW size \in Nat, TraceSound(trace), TraceLine(size)
  PROVE  TraceSound(trace')
<1>1. PICK line : line = Truncated(size) /\ line \in Nat
  BY DEF Truncated, Marker
<1>2. /\ trace \in TraceRecords /\ trace.ring \in Seq(Nat) /\ Len(trace.ring) \in Nat /\ ~trace.disabled
      /\ trace.given \in Nat /\ trace.whole \in Nat /\ trace.dropped \in Nat
      /\ trace.given <= trace.whole + Len(trace.ring) + trace.dropped
  BY LenProperties DEF TraceSound, TraceRecords, TraceLine
<1>3. CASE line > MaxBufferBytes
  <2>1. trace' = [trace EXCEPT !.given = @ + 1, !.dropped = @ + 1]
    BY <1>1, <1>3 DEF TraceLine
  <2>2. trace' \in TraceRecords /\ trace'.given = trace.given + 1 /\ trace'.dropped = trace.dropped + 1
        /\ trace'.ring = trace.ring /\ trace'.whole = trace.whole /\ trace'.bytes = trace.bytes
        /\ trace'.torn = trace.torn /\ trace'.disabled = trace.disabled
    <3>1. trace' = [ring |-> trace.ring, bytes |-> trace.bytes, whole |-> trace.whole, torn |-> trace.torn,
              dropped |-> trace.dropped + 1, given |-> trace.given + 1, disabled |-> trace.disabled, closed |-> trace.closed]
      BY <1>2, <2>1 DEF TraceRecords
    <3> QED BY <3>1, <1>2, TraceIs DEF TraceRecords
  <2> QED BY <1>2, <2>2, SMTT(40) DEF TraceSound
<1>4. CASE ~(line > MaxBufferBytes)
  <2>1. PICK n, r : n = Dropped(trace.ring, line) /\ r = Append(SubSeq(trace.ring, n + 1, Len(trace.ring)), line)
    OBVIOUS
  <2>2. n \in 0..Len(trace.ring) /\ r \in Seq(Nat) /\ Len(r) = Len(trace.ring) - n + 1
    <3>1. line <= MaxBufferBytes
      BY <1>1, <1>4, TraceAssumption
    <3> QED BY <3>1, <2>1, <1>1, <1>2, DroppedMakesRoom
  <2>3. trace' = [trace EXCEPT !.given = @ + 1, !.dropped = @ + n, !.ring = r]
    BY <1>1, <1>4, <2>1 DEF TraceLine
  <2>4. trace' \in TraceRecords /\ trace'.given = trace.given + 1 /\ trace'.dropped = trace.dropped + n
        /\ trace'.ring = r /\ trace'.whole = trace.whole /\ trace'.bytes = trace.bytes
        /\ trace'.torn = trace.torn /\ trace'.disabled = trace.disabled
    <3>1. trace' = [ring |-> r, bytes |-> trace.bytes, whole |-> trace.whole, torn |-> trace.torn,
              dropped |-> trace.dropped + n, given |-> trace.given + 1, disabled |-> trace.disabled, closed |-> trace.closed]
      BY <1>2, <2>3 DEF TraceRecords
    <3>2. trace.dropped + n \in Nat /\ trace.given + 1 \in Nat
      <4>1. n \in Nat /\ trace.dropped \in Nat /\ trace.given \in Nat
        BY ONLY <1>2, <2>2
      <4> QED BY ONLY <4>1
    <3> QED BY <3>1, <3>2, <1>2, <2>2, TraceIs DEF TraceRecords
  <2>5. trace'.given <= trace'.whole + Len(trace'.ring) + trace'.dropped
    <3>1. PICK g, w, l, d : g = trace.given /\ w = trace.whole /\ l = Len(trace.ring) /\ d = trace.dropped
      OBVIOUS
    <3>2. g \in Nat /\ w \in Nat /\ l \in Nat /\ d \in Nat /\ n \in Nat /\ g <= w + l + d
      BY <3>1, <1>2, <2>2
    <3>3. g + 1 <= w + (l - n + 1) + (d + n)
      BY ONLY <3>2
    <3> QED BY <3>1, <3>3, <2>2, <2>4
  <2> QED BY <1>2, <2>4, <2>5 DEF TraceSound
<1> QED BY <1>3, <1>4

\* A flush writes what waits, or counts it as dropped and is the last.
LEMMA FlushKeeps ==
  ASSUME NEW t, TraceSound(t), NEW u \in Flushed(t)
  PROVE  TraceSound(u)
<1>1. /\ t \in TraceRecords /\ t.ring \in Seq(Nat) /\ Len(t.ring) \in Nat /\ t.bytes \in Nat
      /\ t.given \in Nat /\ t.whole \in Nat /\ t.dropped \in Nat /\ MaxFileBytes \in Nat
      /\ t.given <= t.whole + Len(t.ring) + t.dropped /\ SizeOf(t.ring) \in Nat
  BY LenProperties, SizeIsNat, TraceAssumption DEF TraceSound, TraceRecords
<1>2. CASE t.closed \/ t.ring = <<>>
  BY <1>2 DEF Flushed
<1>3. CASE ~(t.closed \/ t.ring = <<>>)
  <2>1. ~t.disabled /\ ~t.torn /\ t.bytes + Marker <= MaxFileBytes /\ t.torn \in BOOLEAN /\ t.disabled \in BOOLEAN
    BY <1>3 DEF TraceSound, TraceRecords
  <2>2. PICK n, size : n = Len(t.ring) /\ size = SizeOf(t.ring) /\ n \in Nat /\ size \in Nat
    BY <1>1
  <2>3. PICK full : full = [[t EXCEPT !.ring = <<>>] EXCEPT !.dropped = @ + n, !.disabled = TRUE]
    OBVIOUS
  <2>4. PICK drained : drained = [t EXCEPT !.ring = <<>>]
    OBVIOUS
  <2>5. \/ u = [full EXCEPT !.bytes = @ + Marker, !.whole = @ + 1]
        \/ u = full
        \/ ~Over(t) /\ u = [drained EXCEPT !.bytes = @ + size, !.whole = @ + n]
        \/ ~Over(t) /\ \E b \in 0..size : u = [drained EXCEPT !.bytes = @ + b, !.torn = b # 0, !.dropped = @ + n, !.disabled = TRUE]
    BY <1>3, <2>2, <2>3, <2>4 DEF Flushed
  <2>6. <<>> \in Seq(Nat) /\ Len(<<>>) = 0
    OBVIOUS
  <2>7. ~Over(t) => t.bytes + size + Marker <= MaxFileBytes
    BY <1>1, <2>2 DEF Over, Marker
  <2>8. /\ full \in TraceRecords /\ full.ring = <<>> /\ full.dropped = t.dropped + n /\ full.disabled
        /\ full.bytes = t.bytes /\ full.whole = t.whole /\ full.torn = t.torn /\ full.given = t.given
    <3>1. full = [ring |-> <<>>, bytes |-> t.bytes, whole |-> t.whole, torn |-> t.torn,
              dropped |-> t.dropped + n, given |-> t.given, disabled |-> TRUE, closed |-> t.closed]
      <4>1. full = [t EXCEPT !.ring = <<>>, !.dropped = @ + n, !.disabled = TRUE]
        BY <1>1, <2>3 DEF TraceRecords
      <4> QED BY <1>1, <4>1 DEF TraceRecords
    <3>2. t.dropped + n \in Nat
      BY <1>1, <2>2
    <3> QED BY <3>1, <3>2, <1>1, <2>6, TraceIs DEF TraceRecords
  <2>9. /\ drained \in TraceRecords /\ drained.ring = <<>> /\ drained.dropped = t.dropped /\ drained.disabled = t.disabled
        /\ drained.bytes = t.bytes /\ drained.whole = t.whole /\ drained.torn = t.torn /\ drained.given = t.given
    BY <1>1, <2>4, <2>6 DEF TraceRecords
  <2>10. CASE u = [full EXCEPT !.bytes = @ + Marker, !.whole = @ + 1]
    <3>1. /\ u \in TraceRecords /\ u.ring = <<>> /\ u.dropped = t.dropped + n /\ u.disabled
          /\ u.bytes = t.bytes + Marker /\ u.whole = t.whole + 1 /\ u.torn = t.torn /\ u.given = t.given
      <4>1. u = [ring |-> full.ring, bytes |-> full.bytes + Marker, whole |-> full.whole + 1, torn |-> full.torn,
                dropped |-> full.dropped, given |-> full.given, disabled |-> full.disabled, closed |-> full.closed]
        BY <2>8, <2>10 DEF TraceRecords
      <4>2. full.bytes + Marker \in Nat /\ full.whole + 1 \in Nat
        BY <2>8, <1>1 DEF Marker
      <4> QED BY <4>1, <4>2, <2>8, TraceIs DEF TraceRecords
    <3> QED BY <3>1, <1>1, <2>1, <2>2, <2>6, SMTT(40) DEF TraceSound
  <2>11. CASE u = full
    <3>1. u.bytes <= MaxFileBytes
      BY <2>1, <2>8, <2>11, <1>1 DEF Marker
    <3> QED BY <3>1, <1>1, <2>1, <2>2, <2>6, <2>8, <2>11 DEF TraceSound
  <2>12. CASE ~Over(t) /\ u = [drained EXCEPT !.bytes = @ + size, !.whole = @ + n]
    <3>1. /\ u \in TraceRecords /\ u.ring = <<>> /\ u.dropped = t.dropped /\ u.disabled = t.disabled
          /\ u.bytes = t.bytes + size /\ u.whole = t.whole + n /\ u.torn = t.torn /\ u.given = t.given
      <4>1. u = [ring |-> drained.ring, bytes |-> drained.bytes + size, whole |-> drained.whole + n, torn |-> drained.torn,
                dropped |-> drained.dropped, given |-> drained.given, disabled |-> drained.disabled, closed |-> drained.closed]
        BY <2>9, <2>12 DEF TraceRecords
      <4>2. drained.bytes + size \in Nat /\ drained.whole + n \in Nat
        BY <2>9, <2>2, <1>1, SMTT(40)
      <4> QED BY <4>1, <4>2, <2>9, TraceIs DEF TraceRecords
    <3>2. u.bytes + Marker <= MaxFileBytes /\ u.bytes <= MaxFileBytes
      BY <3>1, <2>7, <2>12, <1>1, <2>2 DEF Marker
    <3> QED BY <3>1, <3>2, <1>1, <2>1, <2>2, <2>6 DEF TraceSound
  <2>13. ASSUME ~Over(t), NEW b \in 0..size, u = [drained EXCEPT !.bytes = @ + b, !.torn = b # 0, !.dropped = @ + n, !.disabled = TRUE]
         PROVE  TraceSound(u)
    <3>0. (b # 0) \in BOOLEAN /\ b \in Nat /\ b <= size
      BY <2>2
    <3>1. /\ u \in TraceRecords /\ u.ring = <<>> /\ u.dropped = t.dropped + n /\ u.disabled
          /\ u.bytes = t.bytes + b /\ u.whole = t.whole /\ u.given = t.given
      <4>1. u = [ring |-> drained.ring, bytes |-> drained.bytes + b, whole |-> drained.whole, torn |-> b # 0,
                dropped |-> drained.dropped + n, given |-> drained.given, disabled |-> TRUE, closed |-> drained.closed]
        BY <2>9, <2>13 DEF TraceRecords
      <4>2. drained.bytes + b \in Nat /\ drained.dropped + n \in Nat
        BY <2>9, <2>2, <3>0, <1>1, SMTT(40)
      <4> QED BY <4>1, <4>2, <3>0, <2>9, TraceIs DEF TraceRecords
    <3>2. u.bytes <= MaxFileBytes
      BY <3>0, <3>1, <2>7, <2>13, <1>1, <2>2 DEF Marker
    <3> QED BY <3>1, <3>2, <1>1, <2>1, <2>2, <2>6 DEF TraceSound
  <2> QED BY <2>5, <2>10, <2>11, <2>12, <2>13
<1> QED BY <1>2, <1>3

\* No line of the trace is lost in silence, the file keeps its cap and a torn
\* line is its end.
LEMMA TraceHolds == TraceSpec => []TraceKept
<1>1. TraceInit => TraceSound(trace)
  <2>1. SUFFICES ASSUME TraceInit PROVE TraceSound(trace)
    OBVIOUS
  <2>2. trace \in TraceRecords /\ trace.ring = <<>> /\ Len(<<>>) = 0 /\ trace.bytes = 0 /\ ~trace.torn /\ ~trace.disabled
        /\ trace.given = 0 /\ trace.whole = 0 /\ trace.dropped = 0
    BY <2>1 DEF TraceInit, TraceRecords
  <2> QED BY <2>2, TraceAssumption DEF TraceSound, Marker
<1>2. TraceSound(trace) /\ [TraceNext]_traceVars => TraceSound(trace')
  <2> SUFFICES ASSUME TraceSound(trace), [TraceNext]_traceVars PROVE TraceSound(trace')
    OBVIOUS
  <2>1. ASSUME NEW n \in 1..MaxLineBytes + 1, TraceLine(n) PROVE TraceSound(trace')
    <3>1. n \in Nat
      BY TraceAssumption
    <3> QED BY <2>1, <3>1, LineKeeps
  <2>2. CASE Flush
    BY <2>2, FlushKeeps DEF Flush
  <2>3. CASE CloseTrace
    <3>1. PICK t \in Flushed(trace) : trace' = [t EXCEPT !.closed = TRUE]
      BY <2>3 DEF CloseTrace
    <3>2. TraceSound(t)
      BY <3>1, FlushKeeps
    <3>3. trace' \in TraceRecords /\ trace'.ring = t.ring /\ trace'.bytes = t.bytes /\ trace'.torn = t.torn
          /\ trace'.disabled = t.disabled /\ trace'.given = t.given /\ trace'.whole = t.whole /\ trace'.dropped = t.dropped
      BY <3>1, <3>2 DEF TraceSound, TraceRecords
    <3> QED BY <3>2, <3>3 DEF TraceSound
  <2>4. CASE UNCHANGED traceVars
    BY <2>4 DEF traceVars
  <2> QED BY <2>1, <2>2, <2>3, <2>4 DEF TraceNext
<1>3. TraceSound(trace) => TraceKept
  BY DEF TraceSound, TraceKept, NoSilentLoss, FileBounded, TornIsLast
<1>4. TraceSound(trace)' <=> TraceSound(trace')
  BY DEF TraceSound
<1> DEFINE I == TraceSound(trace)
<1>5. TraceInit => I
  BY <1>1
<1>6. I /\ [TraceNext]_traceVars => I'
  BY <1>2, <1>4
<1>7. I => TraceKept
  BY <1>3
<1> HIDE DEF I
<1> QED BY <1>5, <1>6, <1>7, PTL DEF TraceSpec

-----------------------------------------------------------------------------
(* The catalogs: bytes are counted as a set of units, so that they add up;    *)
(* every operation but a reservation and a publication only takes snapshots   *)
(* away.  Then what a reader of one catalog still has to follow.              *)

CatalogSnapshot == [on : SUBSET Authorities, entries : Catalogs \cup {OnlyReserved}, bytes : 0 .. ReservationBytes, stale : BOOLEAN]
SnapsSound(s, last) == DOMAIN s \subseteq 1 .. last /\ \A k \in DOMAIN s : s[k] \in CatalogSnapshot
UnitsIn(s) == UNION {{k} \X (1 .. s[k].bytes) : k \in DOMAIN s}
WithinPartition(s) == Cardinality(DOMAIN s) <= MaxSnapshots /\ BytesOf(s) <= MaxBytes
\* A caller's reservation is its own, and takes the room that was reserved.
ReservesSound(s, res, last) ==
  /\ res \in [CatalogCallers -> 0 .. last]
  /\ \A c, d \in CatalogCallers : res[c] = res[d] /\ res[c] # 0 => c = d
  /\ \A c \in CatalogCallers : res[c] \in DOMAIN s => s[res[c]].bytes = ReservationBytes
\* Snapshots were taken away, those that are left hold what they held.
Fewer(s, t) ==
  /\ DOMAIN t \subseteq DOMAIN s
  /\ \A k \in DOMAIN t : t[k].entries = s[k].entries /\ t[k].bytes = s[k].bytes

LEMMA SnapshotsFinite ==
  ASSUME NEW last \in Nat, NEW s, SnapsSound(s, last)
  PROVE  /\ IsFiniteSet(DOMAIN s) /\ Cardinality(DOMAIN s) \in Nat
         /\ IsFiniteSet(UnitsIn(s)) /\ BytesOf(s) = Cardinality(UnitsIn(s)) /\ BytesOf(s) \in Nat
         /\ \A k \in DOMAIN s : s[k].bytes \in Nat /\ s[k].bytes <= ReservationBytes
         /\ \A u : u \in UnitsIn(s) <=> u[1] \in DOMAIN s /\ u = <<u[1], u[2]>> /\ u[2] \in 1 .. s[u[1]].bytes
<1>1. ReservationBytes \in Nat /\ 1 \in Int /\ last \in Int /\ ReservationBytes \in Int
  BY CatalogAssumption
<1>2. IsFiniteSet(1 .. last) /\ IsFiniteSet(1 .. ReservationBytes)
  BY <1>1, FS_Interval
<1>3. IsFiniteSet(DOMAIN s) /\ Cardinality(DOMAIN s) \in Nat
  BY <1>2, FS_Subset, FS_CardinalityType DEF SnapsSound
<1>4. ASSUME NEW k \in DOMAIN s PROVE s[k].bytes \in Nat /\ s[k].bytes <= ReservationBytes
  BY <1>1 DEF SnapsSound, CatalogSnapshot
<1>5. ASSUME NEW u
      PROVE  u \in UnitsIn(s) <=> u[1] \in DOMAIN s /\ u = <<u[1], u[2]>> /\ u[2] \in 1 .. s[u[1]].bytes
  <2>1. ASSUME u \in UnitsIn(s) PROVE u[1] \in DOMAIN s /\ u = <<u[1], u[2]>> /\ u[2] \in 1 .. s[u[1]].bytes
    <3>1. PICK k \in DOMAIN s : u \in {k} \X (1 .. s[k].bytes)
      BY <2>1 DEF UnitsIn
    <3> QED BY <3>1
  <2>2. ASSUME u[1] \in DOMAIN s, u = <<u[1], u[2]>>, u[2] \in 1 .. s[u[1]].bytes PROVE u \in UnitsIn(s)
    <3>1. u \in {u[1]} \X (1 .. s[u[1]].bytes)
      BY <2>2
    <3> QED BY <3>1, <2>2 DEF UnitsIn
  <2> QED BY <2>1, <2>2
<1>6. UnitsIn(s) \subseteq (1 .. last) \X (1 .. ReservationBytes)
  <2>1. ASSUME NEW u \in UnitsIn(s) PROVE u \in (1 .. last) \X (1 .. ReservationBytes)
    <3>1. u[1] \in DOMAIN s /\ u = <<u[1], u[2]>> /\ u[2] \in 1 .. s[u[1]].bytes
      BY <1>5
    <3>2. u[1] \in 1 .. last
      BY <3>1 DEF SnapsSound
    <3>3. u[2] \in 1 .. ReservationBytes
      BY <3>1, <1>1, <1>4
    <3> QED BY <3>1, <3>2, <3>3
  <2> QED BY <2>1
<1>7. IsFiniteSet((1 .. last) \X (1 .. ReservationBytes))
  BY <1>2, FS_Product
<1>8. IsFiniteSet(UnitsIn(s)) /\ Cardinality(UnitsIn(s)) \in Nat
  BY <1>6, <1>7, FS_Subset, FS_CardinalityType
<1>9. BytesOf(s) = Cardinality(UnitsIn(s))
  BY DEF BytesOf, UnitsIn
<1> QED BY <1>3, <1>4, <1>5, <1>8, <1>9

\* Fewer and lighter snapshots stay within the partition.
LEMMA PartitionShrinks ==
  ASSUME NEW last \in Nat, NEW s, SnapsSound(s, last), NEW t, SnapsSound(t, last),
         DOMAIN t \subseteq DOMAIN s, \A k \in DOMAIN t : t[k].bytes <= s[k].bytes, WithinPartition(s)
  PROVE  WithinPartition(t)
<1>1. UnitsIn(t) \subseteq UnitsIn(s)
  <2>1. ASSUME NEW u \in UnitsIn(t) PROVE u \in UnitsIn(s)
    <3>1. u[1] \in DOMAIN t /\ u = <<u[1], u[2]>> /\ u[2] \in 1 .. t[u[1]].bytes
      BY SnapshotsFinite
    <3>2. t[u[1]].bytes \in Nat /\ s[u[1]].bytes \in Nat /\ t[u[1]].bytes <= s[u[1]].bytes
      BY <3>1, SnapshotsFinite
    <3>3. u[1] \in DOMAIN s /\ u[2] \in 1 .. s[u[1]].bytes
      BY <3>1, <3>2
    <3> QED BY <3>1, <3>3, SnapshotsFinite
  <2> QED BY <2>1
<1>2. IsFiniteSet(UnitsIn(s)) /\ IsFiniteSet(DOMAIN s)
  BY SnapshotsFinite
<1>3. Cardinality(UnitsIn(t)) <= Cardinality(UnitsIn(s)) /\ Cardinality(DOMAIN t) <= Cardinality(DOMAIN s)
  BY <1>1, <1>2, FS_Subset
<1>4. /\ BytesOf(t) = Cardinality(UnitsIn(t)) /\ BytesOf(s) = Cardinality(UnitsIn(s)) /\ BytesOf(t) \in Nat /\ BytesOf(s) \in Nat
      /\ Cardinality(DOMAIN t) \in Nat /\ Cardinality(DOMAIN s) \in Nat /\ MaxSnapshots \in Nat /\ MaxBytes \in Nat
  BY SnapshotsFinite, CatalogAssumption
<1> QED BY <1>3, <1>4 DEF WithinPartition

\* A reservation takes the room there is.
LEMMA ReservationFits ==
  ASSUME NEW last \in Nat, NEW s, SnapsSound(s, last), Room(s), NEW t, SnapsSound(t, last + 1),
         DOMAIN t = DOMAIN s \cup {last + 1}, \A k \in DOMAIN s : t[k] = s[k], t[last + 1].bytes = ReservationBytes
  PROVE  WithinPartition(t)
<1> DEFINE New == {last + 1} \X (1 .. ReservationBytes)
<1>1. /\ ReservationBytes \in Nat /\ MaxSnapshots \in Nat /\ MaxBytes \in Nat
      /\ IsFiniteSet(DOMAIN s) /\ Cardinality(DOMAIN s) \in Nat /\ Cardinality(DOMAIN t) \in Nat
      /\ IsFiniteSet(UnitsIn(s)) /\ BytesOf(s) = Cardinality(UnitsIn(s)) /\ BytesOf(s) \in Nat
      /\ BytesOf(t) = Cardinality(UnitsIn(t)) /\ BytesOf(t) \in Nat
  <2>1. last + 1 \in Nat
    OBVIOUS
  <2> QED BY <2>1, SnapshotsFinite, CatalogAssumption
<1>2. IsFiniteSet(New) /\ Cardinality(New) = ReservationBytes
  <2>1. IsFiniteSet(1 .. ReservationBytes) /\ Cardinality(1 .. ReservationBytes) = ReservationBytes
    <3>1. 1 \in Int /\ ReservationBytes \in Int /\ (1 > ReservationBytes => ReservationBytes = 0) /\ ReservationBytes - 1 + 1 = ReservationBytes
      BY <1>1
    <3> QED BY <3>1, FS_Interval
  <2>2. IsFiniteSet({last + 1}) /\ Cardinality({last + 1}) = 1
    BY FS_Singleton
  <2>3. \A S, T : IsFiniteSet(S) /\ IsFiniteSet(T) =>
                   IsFiniteSet(S \X T) /\ Cardinality(S \X T) = Cardinality(S) * Cardinality(T)
    BY FS_Product
  <2>4. IsFiniteSet(New) /\ Cardinality(New) = Cardinality({last + 1}) * Cardinality(1 .. ReservationBytes)
    BY ONLY <2>1, <2>2, <2>3, Zenon
  <2> QED BY <2>1, <2>2, <2>4, <1>1
<1>3. UnitsIn(t) \subseteq UnitsIn(s) \cup New
  <2>1. ASSUME NEW u \in UnitsIn(t) PROVE u \in UnitsIn(s) \cup New
    <3>0. last + 1 \in Nat
      OBVIOUS
    <3>1. u[1] \in DOMAIN t /\ u = <<u[1], u[2]>> /\ u[2] \in 1 .. t[u[1]].bytes
      BY <3>0, SnapshotsFinite
    <3>2. CASE u[1] \in DOMAIN s
      BY <3>1, <3>2, SnapshotsFinite
    <3>3. CASE u[1] = last + 1
      BY <3>1, <3>3
    <3> QED BY <3>1, <3>2, <3>3
  <2> QED BY <2>1
<1> HIDE DEF New
<1>4. Cardinality(UnitsIn(t)) <= Cardinality(UnitsIn(s)) + Cardinality(New)
  <2>1. IsFiniteSet(UnitsIn(s) \cup New) /\ IsFiniteSet(UnitsIn(s) \cap New)
    BY <1>1, <1>2, FS_Union, FS_Intersection
  <2>2. Cardinality(UnitsIn(s) \cup New) = Cardinality(UnitsIn(s)) + Cardinality(New) - Cardinality(UnitsIn(s) \cap New)
    BY <1>1, <1>2, FS_Union
  <2>3. Cardinality(UnitsIn(t)) <= Cardinality(UnitsIn(s) \cup New)
    BY <1>3, <2>1, FS_Subset
  <2>4. Cardinality(UnitsIn(s) \cap New) \in Nat /\ Cardinality(UnitsIn(s) \cup New) \in Nat /\ Cardinality(UnitsIn(t)) \in Nat
    BY <2>1, <1>1, FS_CardinalityType
  <2> QED BY <2>2, <2>3, <2>4, <1>1, <1>2
<1>5. Cardinality(DOMAIN t) = Cardinality(DOMAIN s) + 1
  <2>1. last + 1 \notin DOMAIN s
    BY DEF SnapsSound
  <2> QED BY <2>1, <1>1, FS_AddElement
<1>6. Cardinality(DOMAIN s) < MaxSnapshots /\ BytesOf(s) + ReservationBytes <= MaxBytes
  BY DEF Room
<1> QED BY <1>1, <1>2, <1>4, <1>5, <1>6 DEF WithinPartition

LEMMA DroppingIs ==
  ASSUME NEW last, NEW s, SnapsSound(s, last), NEW ids
  PROVE  SnapsSound(Dropping(s, ids), last) /\ Fewer(s, Dropping(s, ids))
BY DEF SnapsSound, Fewer, Dropping

LEMMA PrunedIs ==
  ASSUME NEW last, NEW s, SnapsSound(s, last)
  PROVE  /\ SnapsSound(Pruned(s), last) /\ Fewer(s, Pruned(s))
         /\ \A k \in DOMAIN Pruned(s) : s[k].on \subseteq currentOf
BY DEF SnapsSound, Fewer, Pruned, Dropping

\* What a page takes: it moves on, and what it holds whole is of what it passed.
LEMMA PageIs ==
  ASSUME NEW entries \in Seq(Nat \ {0}), NEW position \in 0 .. Len(entries), NEW budget \in Nat,
         NEW p, p = PageFrom(entries, position, budget)
  PROVE  p.next \in position .. Len(entries) /\ p.whole \subseteq position + 1 .. p.next
<1> DEFINE N == Len(entries) - position
           Pages == [next : Nat, room : Nat, whole : SUBSET Nat]
           base == [next |-> position, room |-> budget, whole |-> {}]
           G == [q \in (1 .. N) \X Pages |-> Takes(q[2], position + q[1], entries[position + q[1]])]
           Body(f) == [n \in 0 .. N |-> IF n = 0 THEN base ELSE Takes(f[n - 1], position + n, entries[position + n])]
           page == CHOOSE f : f = Body(f)
<1>1. N \in Nat /\ position \in Nat /\ Len(entries) \in Nat
  BY LenProperties
<1>2. ASSUME NEW n \in 1 .. N PROVE entries[position + n] \in Nat /\ position + n \in Nat
  <2>1. position + n \in 1 .. Len(entries)
    BY <1>1
  <2>2. entries[position + n] \in Nat \ {0}
    BY <2>1, ElementOfSeq
  <2> QED BY <2>1, <2>2
<1>3. ASSUME NEW q \in Pages, NEW n \in Nat, NEW size \in Nat
      PROVE  /\ Takes(q, n, size) \in Pages
             /\ \/ Takes(q, n, size) = q
                \/ /\ q.next = n - 1 /\ Takes(q, n, size).next = n
                   /\ Takes(q, n, size).whole \subseteq q.whole \cup {n} 
  <2>1. q.next \in Nat /\ q.room \in Nat /\ q.whole \subseteq Nat
    OBVIOUS
  <2>2. CASE q.next # n - 1
    BY <2>2 DEF Takes
  <2>3. CASE q.next = n - 1 /\ size <= q.room
    <3>1. Takes(q, n, size) = [next |-> n, room |-> q.room - size, whole |-> q.whole \cup {n}]
      BY <2>3 DEF Takes
    <3>2. q.room - size \in Nat
      BY <2>1, <2>3
    <3> QED BY <3>1, <3>2, <2>1, <2>3
  <2>4. CASE q.next = n - 1 /\ ~(size <= q.room) /\ q.room > 0
    <3>1. Takes(q, n, size) = [next |-> n, room |-> q.room - 1, whole |-> q.whole]
      BY <2>4 DEF Takes
    <3>2. q.room - 1 \in Nat
      BY <2>1, <2>4
    <3> QED BY <3>1, <3>2, <2>1, <2>4
  <2>5. CASE q.next = n - 1 /\ ~(size <= q.room) /\ ~(q.room > 0)
    BY <2>5 DEF Takes
  <2> QED BY <2>2, <2>3, <2>4, <2>5
<1>4. base \in Pages
  BY <1>1
<1> HIDE DEF Pages, base
<1>5. G \in [(1 .. N) \X Pages -> Pages]
  <2>1. ASSUME NEW n \in 1 .. N, NEW q \in Pages PROVE Takes(q, position + n, entries[position + n]) \in Pages
    BY <1>2, <1>3
  <2> HIDE DEF N
  <2> QED BY <2>1
<1>6. \A n \in 1 .. N : \A q \in Pages : G[<<n, q>>] = Takes(q, position + n, entries[position + n])
  OBVIOUS
<1> HIDE DEF G, N
<1>7. PICK f : Follows(f, N, Pages, base, G)
  BY <1>1, <1>4, <1>5, RecursionExists
<1>8. f \in [0 .. N -> Pages] /\ f[0] = base /\ \A n \in 1 .. N : f[n] = G[<<n, f[n - 1]>>]
  BY <1>7 DEF Follows
<1>9. ASSUME NEW n \in 1 .. N PROVE f[n] = Takes(f[n - 1], position + n, entries[position + n])
  <2>1. n - 1 \in 0 .. N
    BY <1>1
  <2>2. f[n - 1] \in Pages
    BY <1>8, <2>1
  <2> QED BY <2>2, <1>6, <1>8
<1>10. f = Body(f)
  <2>1. ASSUME NEW n \in 0 .. N PROVE f[n] = Body(f)[n]
    <3>1. CASE n = 0
      BY <3>1, <1>8
    <3>2. CASE n # 0
      <4>1. n \in 1 .. N
        BY <3>2, <1>1
      <4>2. f[n] = Takes(f[n - 1], position + n, entries[position + n])
        BY <4>1, <1>9
      <4>3. Body(f)[n] = Takes(f[n - 1], position + n, entries[position + n])
        BY <3>2, Zenon
      <4> QED BY ONLY <4>2, <4>3
    <3> QED BY <3>1, <3>2
  <2> QED BY <2>1, <1>8
<1>11. page = Body(page)
  <2> HIDE DEF Body
  <2> QED BY <1>10
<1>12. p = page[N]
  BY DEF PageFrom, N, base
<1> HIDE DEF page
<1>13. page[0] = base /\ \A n \in 1 .. N : page[n] = Takes(page[n - 1], position + n, entries[position + n])
  <2>1. \A n \in 0 .. N : page[n] = IF n = 0 THEN base ELSE Takes(page[n - 1], position + n, entries[position + n])
    BY <1>11
  <2>2. 0 \in 0 .. N /\ \A n \in 1 .. N : n \in 0 .. N /\ n # 0
    BY <1>1
  <2> QED BY ONLY <2>1, <2>2, Z3
<1> HIDE DEF Body
<1> DEFINE Good(n) == /\ page[n] \in Pages /\ page[n].next \in position .. position + n
                      /\ page[n].whole \subseteq position + 1 .. page[n].next
           S == {n \in Nat : n <= N => Good(n)}
<1>14. 0 \in S
  <2>1. page[0].next = position /\ page[0].whole = {}
    BY <1>13 DEF base
  <2> QED BY <2>1, <1>1, <1>4, <1>13
<1>15. ASSUME NEW n \in Nat, n \in S PROVE n + 1 \in S
  <2>1. SUFFICES ASSUME n + 1 <= N PROVE Good(n + 1)
    OBVIOUS
  <2>2. Good(n) /\ n + 1 \in 1 .. N /\ (n + 1) - 1 = n
    BY <1>15, <2>1, <1>1
  <2>3. PICK q, r, k, size : q = page[n] /\ r = page[n + 1] /\ k = position + (n + 1) /\ size = entries[position + (n + 1)]
    OBVIOUS
  <2>4. r = Takes(q, k, size)
    BY <2>2, <2>3, <1>13
  <2>5. q \in Pages /\ k \in Nat /\ size \in Nat
    BY <2>2, <2>3, <1>2
  <2>6. r \in Pages /\ (r = q \/ (q.next = k - 1 /\ r.next = k /\ r.whole \subseteq q.whole \cup {k}))
    BY <2>4, <2>5, <1>3, ZenonT(60)
  <2>7. q.next \in position .. position + n /\ q.whole \subseteq position + 1 .. q.next
    BY <2>2, <2>3
  <2>8. CASE r = q
    <3>1. q.next \in position .. position + (n + 1)
      BY <2>7, <1>1
    <3> QED BY <3>1, <2>3, <2>6, <2>7, <2>8
  <2>9. CASE q.next = k - 1 /\ r.next = k /\ r.whole \subseteq q.whole \cup {k}
    <3>1. r.next \in position .. position + (n + 1)
      BY <2>3, <2>9, <1>1
    <3>2. r.whole \subseteq position + 1 .. r.next
      <4>1. ASSUME NEW m \in q.whole PROVE m \in position + 1 .. r.next
        <5>1. m \in position + 1 .. q.next
          BY <2>7
        <5> QED BY <5>1, <2>5, <2>9, <1>1
      <4>2. k \in position + 1 .. r.next
        BY <2>3, <2>5, <2>9, <1>1
      <4> QED BY <4>1, <4>2, <2>9
    <3> QED BY <3>1, <3>2, <2>3, <2>6
  <2> QED BY <2>6, <2>8, <2>9
<1> HIDE DEF S
<1>16. N \in S
  BY <1>1, <1>14, <1>15, NumbersInduction
<1>17. Good(N)
  BY <1>1, <1>16 DEF S
<1>18. position + N = Len(entries)
  BY <1>1 DEF N
<1> QED BY <1>12, <1>17, <1>18

\* What a reader has to follow: each descriptor is on a page to come, has one
\* cursor at the end of what was got of it, or was got in full.
Chunk == [from : Nat, to : Nat]
Cursors == [id : Nat, descriptor : Int, position : Nat]
Readers == [of : Catalogs \cup {OnlyReserved}, open : SUBSET Cursors, got : [Descriptors -> Seq(Chunk)]]
EndOf(g) == IF g = <<>> THEN 0 ELSE g[Len(g)].to
Seamless(g) == \A k \in DOMAIN g : g[k].from = IF k = 1 THEN 0 ELSE g[k - 1].to
OnPage(c, n) == c.descriptor = -1 /\ c.position < n
DescriptorSound(f, n) ==
  /\ Seamless(f.got[n])
  /\ \A c \in f.open : c.descriptor = n => c.position = EndOf(f.got[n])
  /\ \A c \in f.open : OnPage(c, n) => f.got[n] = <<>> /\ \A d \in f.open : d.descriptor # n
  /\ n <= Len(f.of) /\ (\A c \in f.open : c.descriptor # n /\ ~OnPage(c, n)) => f.got[n] # <<>> /\ EndOf(f.got[n]) = f.of[n]
  /\ n > Len(f.of) => f.got[n] = <<>>
CursorSound(f, c) == \/ c.descriptor = -1 /\ c.position <= Len(f.of)
                     \/ c.descriptor \in 1 .. Len(f.of) /\ c.position < f.of[c.descriptor]
ReaderTold(f) ==
  /\ f \in Readers
  /\ f.of = OnlyReserved => f.open = {} /\ \A n \in Descriptors : f.got[n] = <<>>
  /\ \A c \in f.open : CursorSound(f, c)
  /\ \A c, d \in f.open : c.descriptor = d.descriptor => c = d
  /\ f.of # OnlyReserved => \A n \in Descriptors : DescriptorSound(f, n)
\* A cursor names the snapshot it was issued for, while that lasts.
OfSnapshots(f, s, last) ==
  \A c \in f.open : c.id \in 1 .. last /\ (c.id \in DOMAIN s => s[c.id].entries = f.of)

LEMMA CatalogIs ==
  ASSUME NEW e \in Catalogs
  PROVE  /\ e # OnlyReserved /\ e \in Seq(Nat \ {0}) /\ Len(e) \in Nat
         /\ \A n \in 1 .. Len(e) : n \in Descriptors /\ e[n] \in Nat /\ e[n] > 0
<1>1. e \in Seq(Nat \ {0}) /\ Len(e) \in Nat
  BY CatalogAssumption, LenProperties
<1>2. ASSUME NEW n \in 1 .. Len(e) PROVE n \in Descriptors /\ e[n] \in Nat /\ e[n] > 0
  <2>1. e[n] \in Nat \ {0}
    BY <1>1, ElementOfSeq
  <2> QED BY <2>1 DEF Descriptors
<1>3. e # OnlyReserved
  <2>1. SUFFICES ASSUME e = OnlyReserved PROVE FALSE
    OBVIOUS
  <2>2. Len(e) = 1 /\ e[1] = 0
    BY <2>1 DEF OnlyReserved
  <2> QED BY <2>2, <1>2
<1> QED BY <1>1, <1>2, <1>3

LEMMA DescriptorsAre == \A n \in Descriptors : n \in Nat /\ n > 0
<1>1. ASSUME NEW n \in Descriptors PROVE n \in Nat /\ n > 0
  <2>1. PICK e \in Catalogs : n \in 1 .. Len(e)
    BY DEF Descriptors
  <2> QED BY <2>1, CatalogIs
<1> QED BY <1>1

\* A chunk that begins where the ones before ended leaves no gap.
LEMMA ChunkJoins ==
  ASSUME NEW g \in Seq(Chunk), Seamless(g), NEW a \in Nat, NEW b \in Nat, a = EndOf(g),
         NEW h, h = Append(g, [from |-> a, to |-> b])
  PROVE  h \in Seq(Chunk) /\ Seamless(h) /\ h # <<>> /\ EndOf(h) = b
<1>1. PICK x, n : x = [from |-> a, to |-> b] /\ n = Len(g) /\ n \in Nat
  BY LenProperties
<1>2. x \in Chunk /\ x.from = a /\ x.to = b
  BY <1>1 DEF Chunk
<1>3. h \in Seq(Chunk) /\ Len(h) = n + 1 /\ (\A k \in 1 .. n : h[k] = g[k]) /\ h[n + 1] = x
  BY <1>1, <1>2, AppendProperties
<1>4. h # <<>>
  BY <1>1, <1>3, EmptySeq
<1>5. EndOf(h) = b
  BY <1>2, <1>3, <1>4 DEF EndOf
<1>6. DOMAIN h = 1 .. n + 1 /\ DOMAIN g = 1 .. n
  BY <1>1, <1>3, LenProperties
<1>7. ASSUME NEW k \in 1 .. n + 1 PROVE h[k].from = IF k = 1 THEN 0 ELSE h[k - 1].to
  <2>1. CASE k \in 1 .. n
    <3>1. h[k] = g[k] /\ g[k].from = IF k = 1 THEN 0 ELSE g[k - 1].to
      BY <2>1, <1>3, <1>6 DEF Seamless
    <3>2. k # 1 => k - 1 \in 1 .. n
      BY <2>1, <1>1
    <3> QED BY <3>1, <3>2, <1>3
  <2>2. CASE k = n + 1 /\ n = 0
    <3>1. g = <<>>
      BY <2>2, <1>1, EmptySeq
    <3> QED BY <3>1, <2>2, <1>2, <1>3 DEF EndOf
  <2>3. CASE k = n + 1 /\ n # 0
    <3>1. g # <<>>
      BY <2>3, <1>1, EmptySeq
    <3>2. a = g[n].to
      BY <3>1, <1>1 DEF EndOf
    <3>3. n \in 1 .. n /\ k # 1 /\ k - 1 = n
      BY <2>3, <1>1
    <3> QED BY <3>2, <3>3, <2>3, <1>2, <1>3
  <2> QED BY <2>1, <2>2, <2>3, <1>1
<1>8. Seamless(h)
  BY <1>6, <1>7 DEF Seamless
<1> QED BY <1>3, <1>4, <1>5, <1>8

LEMMA NothingYet == <<>> \in Seq(Chunk) /\ Seamless(<<>>) /\ EndOf(<<>>) = 0
<1>1. <<>> \in Seq(Chunk) /\ DOMAIN <<>> = {}
  BY EmptySeq
<1> QED BY <1>1 DEF Seamless, EndOf

\* A catalog was published: nothing was got of it, and one cursor leads to all.
LEMMA PublishedIsTold ==
  ASSUME NEW e \in Catalogs, NEW c \in Cursors, c.position = 0, c.descriptor = -1 \/ (c.descriptor = 1 /\ Len(e) = 1),
         NEW g \in [Descriptors -> Seq(Chunk)], \A n \in Descriptors : g[n] = <<>>,
         NEW f, f = [of |-> e, open |-> {c}, got |-> g]
  PROVE  ReaderTold(f)
<1>2. f.of = e /\ f.open = {c} /\ \A n \in Descriptors : f.got[n] = <<>>
  OBVIOUS
<1>3. /\ e # OnlyReserved /\ Len(e) \in Nat
      /\ \A n \in 1 .. Len(e) : n \in Descriptors /\ e[n] \in Nat /\ e[n] > 0
  BY CatalogIs
<1>4. c.descriptor \in Int
  BY DEF Cursors
<1>5. f \in Readers
  BY DEF Readers
<1>6. CursorSound(f, c)
  <2>1. CASE c.descriptor = -1
    BY <2>1, <1>2, <1>3, <1>4 DEF CursorSound
  <2>2. CASE c.descriptor = 1 /\ Len(e) = 1
    <3>1. 1 \in 1 .. Len(e)
      BY <2>2
    <3>2. e[1] > 0 /\ e[1] \in Nat
      BY <3>1, <1>3
    <3>3. c.descriptor \in 1 .. Len(f.of) /\ c.position < f.of[c.descriptor]
      BY <2>2, <3>1, <3>2, <1>2
    <3> QED BY <3>3 DEF CursorSound
  <2> QED BY <2>1, <2>2
<1>7. ASSUME NEW n \in Descriptors PROVE DescriptorSound(f, n)
  <2>1. n \in Nat /\ n > 0 /\ f.got[n] = <<>> /\ Seamless(f.got[n]) /\ EndOf(f.got[n]) = 0
    BY <1>2, DescriptorsAre, NothingYet
  <2>2. OnPage(c, n) <=> c.descriptor = -1
    BY <2>1, <1>4 DEF OnPage
  <2>3. n <= Len(f.of) => c.descriptor = n \/ OnPage(c, n)
    <3>1. CASE c.descriptor = 1 /\ Len(e) = 1
      <4>1. Len(f.of) = 1 /\ c.descriptor = 1 /\ n \in Nat /\ n > 0
        BY <3>1, <2>1, <1>2
      <4>2. n <= 1 => c.descriptor = n
        BY ONLY <4>1
      <4> QED BY ONLY <4>1, <4>2
    <3> QED BY <3>1, <2>2
  <2>4. OnPage(c, n) => c.descriptor # n
    BY <2>1, <1>4 DEF OnPage
  <2> QED BY <2>1, <2>3, <2>4, <1>2, <1>4 DEF DescriptorSound
<1> QED BY <1>2, <1>3, <1>4, <1>5, <1>6, <1>7 DEF ReaderTold

LEMMA FirstChunk ==
  ASSUME NEW b \in Nat, NEW h, h = Append(<<>>, [from |-> 0, to |-> b])
  PROVE  h \in Seq(Chunk) /\ Seamless(h) /\ h # <<>> /\ EndOf(h) = b
<1>1. PICK z, a : z = <<>> /\ a = 0 /\ z \in Seq(Chunk) /\ Seamless(z) /\ a = EndOf(z) /\ a \in Nat
  BY NothingYet
<1>2. h = Append(z, [from |-> a, to |-> b])
  BY <1>1
<1>3. \A g \in Seq(Chunk) : Seamless(g) => \A x \in Nat, y \in Nat : x = EndOf(g) =>
          \A k : k = Append(g, [from |-> x, to |-> y]) => k \in Seq(Chunk) /\ Seamless(k) /\ k # <<>> /\ EndOf(k) = y
  BY ChunkJoins
<1>4. z \in Seq(Chunk) /\ Seamless(z) /\ a \in Nat /\ b \in Nat /\ a = EndOf(z)
  BY <1>1
<1>5. \A x \in Nat, y \in Nat : x = EndOf(z) =>
          \A k : k = Append(z, [from |-> x, to |-> y]) => k \in Seq(Chunk) /\ Seamless(k) /\ k # <<>> /\ EndOf(k) = y
  BY ONLY <1>3, <1>4, Zenon
<1>6. \A k : k = Append(z, [from |-> a, to |-> b]) => k \in Seq(Chunk) /\ Seamless(k) /\ k # <<>> /\ EndOf(k) = b
  BY ONLY <1>5, <1>4, Zenon
<1> QED BY ONLY <1>2, <1>6, Zenon

\* By cursor c a page passed the descriptors from P to N of L, took W whole and
\* left the rest: what is told of each of them by the cursors that are then held.
PagePassed(f, g, c, P, N, L, W, rest) ==
  /\ P \in Nat /\ N \in Nat /\ L \in Nat /\ P = c.position /\ L = Len(f.of) /\ P <= N /\ N <= L /\ W \subseteq P + 1 .. N
  /\ f.of # OnlyReserved /\ g.of = f.of /\ c \in f.open /\ c.descriptor = -1 /\ rest.descriptor = -1 /\ rest.position = N
  /\ \A n \in P + 1 .. L : f.got[n] = <<>> /\ \A d \in f.open : d.descriptor # n
  /\ \A d \in f.open : d # c => d.descriptor # -1 /\ d \in g.open
  /\ N < L => rest \in g.open
  /\ \A n \in (P + 1 .. N) \ W : \E d \in g.open : d.descriptor = n
  /\ \A d \in g.open : \/ d \in f.open /\ d.descriptor \in 1 .. P
                       \/ d.descriptor \in (P + 1 .. N) \ W /\ d.position = 0
                       \/ d = rest /\ N < L
  /\ \A n \in W : Seamless(g.got[n]) /\ g.got[n] # <<>> /\ EndOf(g.got[n]) = f.of[n]
  /\ \A n \in Descriptors : n \notin W => g.got[n] = f.got[n]
LEMMA PageTold ==
  ASSUME NEW f, ReaderTold(f), NEW g, NEW c, NEW P, NEW N, NEW L, NEW W, NEW rest, PagePassed(f, g, c, P, N, L, W, rest),
         NEW n \in Descriptors
  PROVE  DescriptorSound(g, n)
<1>0. /\ P \in Nat /\ N \in Nat /\ L \in Nat /\ P = c.position /\ L = Len(f.of) /\ P <= N /\ N <= L /\ W \subseteq P + 1 .. N
      /\ f.of # OnlyReserved /\ g.of = f.of /\ c \in f.open /\ c.descriptor = -1 /\ rest.descriptor = -1 /\ rest.position = N
      /\ \A k \in P + 1 .. L : f.got[k] = <<>> /\ \A d \in f.open : d.descriptor # k
      /\ \A d \in f.open : d # c => d.descriptor # -1 /\ d \in g.open
      /\ N < L => rest \in g.open
      /\ \A k \in (P + 1 .. N) \ W : \E d \in g.open : d.descriptor = k
      /\ \A d \in g.open : \/ d \in f.open /\ d.descriptor \in 1 .. P
                           \/ d.descriptor \in (P + 1 .. N) \ W /\ d.position = 0
                           \/ d = rest /\ N < L
      /\ n \in W => Seamless(g.got[n]) /\ g.got[n] # <<>> /\ EndOf(g.got[n]) = f.of[n]
      /\ n \notin W => g.got[n] = f.got[n]
  BY DEF PagePassed
<1>1. n \in Nat /\ n > 0 /\ DescriptorSound(f, n)
  BY <1>0, DescriptorsAre DEF ReaderTold
<1>2. Len(g.of) = L
  BY <1>0
<1>3. ASSUME NEW d \in g.open, d.descriptor = -1 PROVE d = rest /\ N < L
  <2>1. ~(d.descriptor \in 1 .. P) /\ ~(d.descriptor \in (P + 1 .. N) \ W)
    BY <1>0, <1>3
  <2> QED BY <1>0, <2>1
<1>4. ASSUME NEW d \in g.open, OnPage(d, n) PROVE N < n /\ N < L
  BY <1>0, <1>4, <1>3 DEF OnPage
<1>5. ASSUME NEW d \in g.open, d.descriptor = n
      PROVE  (d \in f.open /\ n \in 1 .. P) \/ (n \in (P + 1 .. N) \ W /\ d.position = 0)
  BY <1>0, <1>5, <1>1
<1>6. CASE n > L
  <2>1. n \notin W /\ ~(n \in P + 1 .. N) /\ ~(n \in 1 .. P)
    BY <1>0, <1>1, <1>6
  <2>2. g.got[n] = <<>>
    BY <1>0, <2>1, <1>1, <1>6 DEF DescriptorSound
  <2>3. Seamless(g.got[n])
    BY <2>2, NothingYet
  <2>4. \A d \in g.open : d.descriptor # n
    BY <1>0, <2>1, <1>5
  <2>5. ~(n <= Len(g.of))
    BY <1>0, <1>1, <1>2, <1>6
  <2> QED BY <1>0, <2>2, <2>3, <2>4, <2>5 DEF DescriptorSound
<1>7. CASE n \in W
  <2>1. ~(n \in (P + 1 .. N) \ W) /\ ~(n \in 1 .. P) /\ n <= N /\ n <= L
    BY <1>0, <1>7
  <2>2. Seamless(g.got[n]) /\ g.got[n] # <<>> /\ EndOf(g.got[n]) = g.of[n]
    BY <1>0, <1>7
  <2>3. \A d \in g.open : d.descriptor # n
    BY <1>0, <2>1, <1>5
  <2>4. \A d \in g.open : ~OnPage(d, n)
    BY <1>0, <2>1, <1>1, <1>4
  <2>5. ~(n > Len(g.of))
    BY <1>0, <2>1, <1>1, <1>2
  <2> QED BY <1>0, <2>2, <2>3, <2>4, <2>5 DEF DescriptorSound
<1>8. CASE n \in (P + 1 .. N) \ W
  <2>1. ~(n \in 1 .. P) /\ n <= N /\ n <= L /\ n \in P + 1 .. L /\ n \notin W
    BY <1>0, <1>8
  <2>2. g.got[n] = <<>>
    BY <1>0, <2>1
  <2>3. Seamless(g.got[n]) /\ EndOf(g.got[n]) = 0
    BY <2>2, NothingYet
  <2>4. \A d \in g.open : d.descriptor = n => d.position = 0
    BY <1>0, <2>1, <1>5
  <2>5. \A d \in g.open : ~OnPage(d, n)
    BY <1>0, <2>1, <1>1, <1>4
  <2>6. ~(n > Len(g.of)) /\ ~(\A d \in g.open : d.descriptor # n /\ ~OnPage(d, n))
    BY <1>0, <1>8, <2>1, <1>1, <1>2
  <2> QED BY <1>0, <2>3, <2>4, <2>5, <2>6 DEF DescriptorSound
<1>9. CASE n \in N + 1 .. L
  <2>1. ~(n \in 1 .. P) /\ ~(n \in P + 1 .. N) /\ n <= L /\ n > N /\ N < L /\ n \in P + 1 .. L /\ n \notin W
    BY <1>0, <1>9
  <2>2. g.got[n] = <<>>
    BY <1>0, <2>1
  <2>3. Seamless(g.got[n])
    BY <2>2, NothingYet
  <2>4. \A d \in g.open : d.descriptor # n
    BY <1>0, <2>1, <1>5
  <2>5. rest \in g.open /\ OnPage(rest, n)
    BY <1>0, <2>1 DEF OnPage
  <2>6. ~(n > Len(g.of))
    BY <1>0, <2>1, <1>1, <1>2
  <2> QED BY <1>0, <2>2, <2>3, <2>4, <2>5, <2>6 DEF DescriptorSound
<1>10. CASE n \in 1 .. P
  <2>1. ~(n \in (P + 1 .. N) \ W) /\ n <= P /\ n <= N /\ n <= L /\ n \notin W
    BY <1>0, <1>10
  <2>2. g.got[n] = f.got[n]
    BY <1>0, <2>1
  <2>3. \A d \in g.open : d.descriptor = n => d \in f.open
    BY <1>0, <2>1, <1>5
  <2>4. \A d \in g.open : ~OnPage(d, n)
    BY <1>0, <2>1, <1>1, <1>4
  <2>5. ASSUME NEW d \in f.open, d.descriptor = n \/ OnPage(d, n) PROVE d \in g.open /\ d.descriptor = n
    <3>1. d # c
      BY <1>0, <2>5, <2>1, <1>1 DEF OnPage
    <3>2. d \in g.open /\ d.descriptor # -1
      BY <1>0, <3>1
    <3> QED BY <1>0, <3>2, <2>5 DEF OnPage
  <2>6. ~(n > Len(g.of)) /\ n <= Len(f.of)
    BY <1>0, <2>1, <1>1, <1>2
  <2> QED BY <1>0, <2>2, <2>3, <2>4, <2>5, <2>6, <1>1 DEF DescriptorSound
<1>11. n > L \/ n \in W \/ n \in (P + 1 .. N) \ W \/ n \in N + 1 .. L \/ n \in 1 .. P
  BY <1>0, <1>1
<1> QED BY <1>6, <1>7, <1>8, <1>9, <1>10, <1>11

\* A page of the catalog was read: what it passed is held whole or has a cursor
\* of its own, the rest is on the page that is left.
PageRead(f, c, budget, p, rest, open, h, g) ==
  /\ c \in f.open /\ c.descriptor = -1 /\ budget \in Nat
  /\ p = PageFrom(f.of, c.position, budget) /\ rest = [c EXCEPT !.position = p.next]
  /\ open = (f.open \ {c}) \cup {Token(c.id, n) : n \in (c.position + 1 .. p.next) \ p.whole}
               \cup (IF p.next < Len(f.of) THEN {rest} ELSE {})
  /\ h = [n \in Descriptors |-> IF n \in p.whole THEN Append(f.got[n], [from |-> 0, to |-> f.of[n]]) ELSE f.got[n]]
  /\ g = [of |-> f.of, open |-> open, got |-> h]
LEMMA PageReads ==
  ASSUME NEW f, ReaderTold(f), NEW c, NEW budget, NEW p, NEW rest, NEW open, NEW h, NEW g,
         PageRead(f, c, budget, p, rest, open, h, g)
  PROVE  ReaderTold(g) /\ g.of = f.of /\ \A d \in g.open : d.id = c.id \/ d \in f.open
<1> USE DEF PageRead
<1>1. /\ f.of \in Catalogs \cup {OnlyReserved} /\ f.open \subseteq Cursors /\ f.got \in [Descriptors -> Seq(Chunk)]
      /\ f.of # OnlyReserved
  BY DEF ReaderTold, Readers
<1>2. f.of \in Catalogs
  BY <1>1
<1>3. /\ f.of \in Seq(Nat \ {0}) /\ Len(f.of) \in Nat
      /\ \A n \in 1 .. Len(f.of) : n \in Descriptors /\ f.of[n] \in Nat /\ f.of[n] > 0
  BY <1>2, CatalogIs
<1>4. c.id \in Nat /\ c.position \in 0 .. Len(f.of) /\ c = [id |-> c.id, descriptor |-> c.descriptor, position |-> c.position]
  <2>1. c \in Cursors /\ CursorSound(f, c)
    BY <1>1 DEF ReaderTold
  <2>2. c.id \in Nat /\ c.position \in Nat /\ c = [id |-> c.id, descriptor |-> c.descriptor, position |-> c.position]
    BY <2>1 DEF Cursors
  <2>3. c.position <= Len(f.of)
    BY <2>1 DEF CursorSound
  <2> QED BY <2>2, <2>3, <1>3
<1>5. PICK P, N, W, L : /\ P = c.position /\ N = p.next /\ W = p.whole /\ L = Len(f.of)
                        /\ P \in Nat /\ N \in Nat /\ L \in Nat /\ P <= N /\ N <= L /\ W \subseteq P + 1 .. N
  <2>1. p.next \in c.position .. Len(f.of) /\ p.whole \subseteq c.position + 1 .. p.next
    BY <1>3, <1>4, PageIs
  <2>2. c.position \in Nat /\ p.next \in Nat /\ c.position <= p.next /\ p.next <= Len(f.of)
    BY <2>1, <1>3, <1>4
  <2> QED BY <2>1, <2>2, <1>3
<1>6. rest = [id |-> c.id, descriptor |-> -1, position |-> N]
  BY <1>4, <1>5
<1>7. rest.id = c.id /\ rest.descriptor = -1 /\ rest.position = N /\ rest \in Cursors
  BY <1>6, <1>4, <1>5 DEF Cursors
<1>8. ASSUME NEW n \in P + 1 .. N
      PROVE  /\ Token(c.id, n) \in Cursors /\ Token(c.id, n).id = c.id
             /\ Token(c.id, n).descriptor = n /\ Token(c.id, n).position = 0
  <2>1. n \in Int
    OBVIOUS
  <2> QED BY <2>1, <1>4 DEF Token, Cursors
<1>9. g.of = f.of /\ g.open = open /\ g.got = h
  OBVIOUS
\* What the page had before it was not begun.
<1>10. ASSUME NEW n \in P + 1 .. L
       PROVE  n \in Descriptors /\ f.got[n] = <<>> /\ \A d \in f.open : d.descriptor # n
  <2>1. n \in 1 .. Len(f.of) /\ n > c.position
    BY <1>5
  <2>2. n \in Descriptors /\ OnPage(c, n)
    BY <2>1, <1>3 DEF OnPage
  <2> QED BY <2>2, <1>1 DEF ReaderTold, DescriptorSound
<1>11. ASSUME NEW d \in f.open, d # c PROVE d.descriptor \in 1 .. P /\ d \in Cursors
  <2>1. d.descriptor # -1 /\ CursorSound(f, d) /\ d \in Cursors
    BY <1>11, <1>1 DEF ReaderTold
  <2>2. d.descriptor \in 1 .. L
    BY <2>1, <1>5 DEF CursorSound
  <2>3. ~(d.descriptor \in P + 1 .. L)
    BY <1>10
  <2> QED BY <2>1, <2>2, <2>3, <1>5
<1>12. ASSUME NEW d \in open
       PROVE  \/ d \in f.open /\ d # c /\ d.descriptor \in 1 .. P
              \/ d.descriptor \in (P + 1 .. N) \ W /\ d = Token(c.id, d.descriptor) /\ d.position = 0
              \/ d = rest /\ N < L
  <2>1. CASE d \in f.open \ {c}
    BY <2>1, <1>11
  <2>2. CASE d \in {Token(c.id, n) : n \in (c.position + 1 .. p.next) \ p.whole}
    <3>1. PICK n \in (P + 1 .. N) \ W : d = Token(c.id, n)
      BY <2>2, <1>5
    <3> QED BY <3>1, <1>8
  <2>3. CASE d \in IF p.next < Len(f.of) THEN {rest} ELSE {}
    BY <2>3, <1>5
  <2> QED BY <2>1, <2>2, <2>3
<1>13. ASSUME NEW d \in open PROVE d \in Cursors /\ (d.id = c.id \/ d \in f.open) /\ CursorSound(g, d)
  <2>1. CASE d \in f.open /\ d # c
    <3>1. CursorSound(f, d)
      BY <2>1 DEF ReaderTold
    <3> QED BY <3>1, <2>1, <1>1, <1>9 DEF CursorSound
  <2>2. CASE d.descriptor \in (P + 1 .. N) \ W /\ d = Token(c.id, d.descriptor) /\ d.position = 0
    <3>1. PICK n \in P + 1 .. N : d.descriptor = n /\ d = Token(c.id, n)
      BY <2>2
    <3>2. n \in 1 .. L
      BY <1>5
    <3>3. n \in 1 .. Len(g.of) /\ g.of[n] > 0
      BY <3>2, <1>5, <1>3, <1>9
    <3>4. CursorSound(g, d)
      BY <3>3, <3>1, <2>2 DEF CursorSound
    <3> QED BY <3>1, <3>4, <1>8
  <2>3. CASE d = rest /\ N < L
    <3>1. CursorSound(g, d)
      BY <2>3, <1>7, <1>5, <1>9 DEF CursorSound
    <3> QED BY <3>1, <2>3, <1>7
  <2> QED BY <2>1, <2>2, <2>3, <1>12
<1>14. ASSUME NEW d \in open, NEW e \in open, d.descriptor = e.descriptor PROVE d = e
  <2>1. CASE d = rest
    <3>1. d.descriptor = -1
      BY <2>1, <1>7
    <3>2. ~(e.descriptor \in 1 .. P) /\ ~(e.descriptor \in (P + 1 .. N) \ W)
      BY <3>1, <1>14, <1>5
    <3> QED BY <3>2, <2>1, <1>12
  <2>2. CASE e = rest
    <3>1. e.descriptor = -1
      BY <2>2, <1>7
    <3>2. ~(d.descriptor \in 1 .. P) /\ ~(d.descriptor \in (P + 1 .. N) \ W)
      BY <3>1, <1>14, <1>5
    <3> QED BY <3>2, <2>2, <1>12
  <2>3. CASE d # rest /\ e # rest /\ d.descriptor \in 1 .. P
    <3>1. ~(d.descriptor \in (P + 1 .. N) \ W)
      BY <2>3, <1>5
    <3>2. d \in f.open /\ e \in f.open
      BY <3>1, <2>3, <1>14, <1>12
    <3> QED BY <3>2, <1>14 DEF ReaderTold
  <2>4. CASE d # rest /\ e # rest /\ ~(d.descriptor \in 1 .. P)
    <3>1. d = Token(c.id, d.descriptor) /\ e = Token(c.id, e.descriptor)
      BY <2>4, <1>14, <1>12
    <3> QED BY <3>1, <1>14
  <2> QED BY <2>1, <2>2, <2>3, <2>4
<1>15. ASSUME NEW n \in Descriptors
       PROVE  /\ n \in Nat /\ n > 0 /\ f.got[n] \in Seq(Chunk) /\ DescriptorSound(f, n)
              /\ n \in W => h[n] = Append(f.got[n], [from |-> 0, to |-> f.of[n]])
              /\ n \notin W => h[n] = f.got[n]
  <2>1. h[n] = IF n \in W THEN Append(f.got[n], [from |-> 0, to |-> f.of[n]]) ELSE f.got[n]
    BY <1>5
  <2>2. DescriptorSound(f, n) /\ f.got[n] \in Seq(Chunk)
    BY <1>1 DEF ReaderTold
  <2> QED BY <2>1, <2>2, DescriptorsAre
<1>16. ASSUME NEW n \in W
       PROVE  h[n] \in Seq(Chunk) /\ Seamless(h[n]) /\ h[n] # <<>> /\ EndOf(h[n]) = f.of[n]
  <2>1. n \in P + 1 .. L /\ n \in 1 .. Len(f.of)
    BY <1>5
  <2>2. n \in Descriptors /\ f.got[n] = <<>> /\ f.of[n] \in Nat
    BY <2>1, <1>3, <1>10
  <2>3. h[n] = Append(<<>>, [from |-> 0, to |-> f.of[n]])
    BY <2>2, <1>15
  <2> QED BY <2>2, <2>3, FirstChunk
<1>17. h \in [Descriptors -> Seq(Chunk)]
  <2>1. ASSUME NEW n \in Descriptors PROVE h[n] \in Seq(Chunk)
    BY <1>15, <1>16
  <2>2. h = [n \in Descriptors |-> h[n]]
    OBVIOUS
  <2> QED BY <2>1, <2>2
<1>18. g \in Readers
  <2>1. open \subseteq Cursors
    BY <1>13
  <2> QED BY <2>1, <1>1, <1>17 DEF Readers
<1>19. \A d \in f.open : d # c => d.descriptor # -1 /\ d \in g.open
  BY <1>11, <1>9, <1>5
<1>20. N < L => rest \in g.open
  BY <1>5, <1>9
<1>21. \A n \in (P + 1 .. N) \ W : \E d \in g.open : d.descriptor = n
  <2>1. ASSUME NEW n \in (P + 1 .. N) \ W PROVE \E d \in g.open : d.descriptor = n
    BY <1>5, <1>8, <1>9
  <2> QED BY <2>1
<1>22. \A d \in g.open : \/ d \in f.open /\ d.descriptor \in 1 .. P
                         \/ d.descriptor \in (P + 1 .. N) \ W /\ d.position = 0
                         \/ d = rest /\ N < L
  BY <1>12, <1>9
<1>23. ASSUME NEW n \in Descriptors PROVE DescriptorSound(g, n)
  <2>1. \A k \in W : Seamless(g.got[k]) /\ g.got[k] # <<>> /\ EndOf(g.got[k]) = f.of[k]
    BY <1>9, <1>16
  <2>2. \A k \in Descriptors : k \notin W => g.got[k] = f.got[k]
    BY <1>9, <1>15
  <2>3. \A k \in P + 1 .. L : f.got[k] = <<>> /\ \A d \in f.open : d.descriptor # k
    BY <1>10
  <2>4. PagePassed(f, g, c, P, N, L, W, rest)
    BY <1>1, <1>5, <1>7, <1>9, <1>19, <1>20, <1>21, <1>22, <2>1, <2>2, <2>3, Zenon DEF PagePassed
  <2> QED BY <2>4, PageTold, Zenon
<1>24. g.of # OnlyReserved /\ \A d, e \in g.open : d.descriptor = e.descriptor => d = e
  BY <1>1, <1>9, <1>14
<1>25. \A d \in g.open : CursorSound(g, d) /\ (d.id = c.id \/ d \in f.open)
  BY <1>9, <1>13
<1>26. ReaderTold(g)
  BY <1>18, <1>23, <1>24, <1>25, Zenon DEF ReaderTold
<1> QED BY <1>9, <1>25, <1>26

\* A chunk of a descriptor was read: it joins what was got, and the rest has a
\* cursor while there is a rest.
DescriptorPassed(f, g, c, end, rest) ==
  /\ f.of # OnlyReserved /\ g.of = f.of /\ c \in f.open /\ c.descriptor \in 1 .. Len(f.of) /\ Len(f.of) \in Nat
  /\ end \in Nat /\ end <= f.of[c.descriptor] /\ f.of[c.descriptor] \in Nat
  /\ rest.descriptor = c.descriptor /\ rest.position = end
  /\ \A d \in f.open : d # c => d.descriptor # c.descriptor /\ d \in g.open
  /\ end < f.of[c.descriptor] => rest \in g.open
  /\ \A d \in g.open : \/ d \in f.open /\ d # c
                       \/ d = rest /\ end < f.of[c.descriptor]
  /\ Seamless(g.got[c.descriptor]) /\ g.got[c.descriptor] # <<>> /\ EndOf(g.got[c.descriptor]) = end
  /\ \A n \in Descriptors : n # c.descriptor => g.got[n] = f.got[n]
LEMMA DescriptorTold ==
  ASSUME NEW f, ReaderTold(f), NEW g, NEW c, NEW end, NEW rest, DescriptorPassed(f, g, c, end, rest), NEW n \in Descriptors
  PROVE  DescriptorSound(g, n)
<1>0. /\ f.of # OnlyReserved /\ g.of = f.of /\ c \in f.open /\ c.descriptor \in 1 .. Len(f.of) /\ Len(f.of) \in Nat
      /\ end \in Nat /\ end <= f.of[c.descriptor] /\ f.of[c.descriptor] \in Nat
      /\ rest.descriptor = c.descriptor /\ rest.position = end
      /\ \A d \in f.open : d # c => d.descriptor # c.descriptor /\ d \in g.open
      /\ end < f.of[c.descriptor] => rest \in g.open
      /\ \A d \in g.open : (d \in f.open /\ d # c) \/ (d = rest /\ end < f.of[c.descriptor])
      /\ Seamless(g.got[c.descriptor]) /\ g.got[c.descriptor] # <<>> /\ EndOf(g.got[c.descriptor]) = end
      /\ n # c.descriptor => g.got[n] = f.got[n]
  BY DEF DescriptorPassed
<1>1. n \in Nat /\ n > 0 /\ DescriptorSound(f, n)
  BY <1>0, DescriptorsAre DEF ReaderTold
<1>2. c.descriptor # -1 /\ c.descriptor \in Int
  BY <1>0
<1>3. ~OnPage(c, n) /\ ~OnPage(rest, n)
  BY <1>0, <1>2 DEF OnPage
<1>4. CASE n = c.descriptor
  <2>1. n <= Len(f.of) /\ ~(n > Len(f.of))
    BY <1>0, <1>4
  <2>2. \A d \in f.open : ~OnPage(d, n)
    BY <1>0, <1>1, <1>4 DEF DescriptorSound
  <2>3. \A d \in g.open : ~OnPage(d, n)
    BY <1>0, <2>2, <1>3
  <2>4. ASSUME NEW d \in g.open, d.descriptor = n PROVE d.position = end /\ d = rest /\ end < f.of[n]
    BY <1>0, <1>4, <2>4
  <2>5. (\A d \in g.open : d.descriptor # n) => end = f.of[n]
    BY <1>0, <1>4
  <2> QED BY <1>0, <1>4, <2>1, <2>3, <2>4, <2>5 DEF DescriptorSound
<1>5. CASE n # c.descriptor
  <2>1. g.got[n] = f.got[n]
    BY <1>0, <1>5
  <2>2. \A d \in g.open : d.descriptor = n => d \in f.open
    BY <1>0, <1>5
  <2>3. ASSUME NEW d \in g.open, OnPage(d, n) PROVE d \in f.open
    BY <1>0, <1>3, <2>3
  <2>4. ASSUME NEW d \in f.open, d.descriptor = n \/ OnPage(d, n) PROVE d \in g.open
    BY <1>0, <1>3, <1>5, <2>4
  <2>5. ASSUME NEW d \in g.open, OnPage(d, n) PROVE f.got[n] = <<>> /\ \A e \in g.open : e.descriptor # n
    <3>1. f.got[n] = <<>> /\ \A e \in f.open : e.descriptor # n
      BY <2>3, <2>5, <1>1 DEF DescriptorSound
    <3> QED BY <3>1, <2>2
  <2>6. \A d \in g.open : d.descriptor = n => d.position = EndOf(f.got[n])
    BY <2>2, <1>1 DEF DescriptorSound
  <2>7. n <= Len(f.of) /\ (\A d \in g.open : d.descriptor # n /\ ~OnPage(d, n)) => f.got[n] # <<>> /\ EndOf(f.got[n]) = f.of[n]
    BY <2>4, <1>1 DEF DescriptorSound
  <2>8. Seamless(f.got[n]) /\ (n > Len(f.of) => f.got[n] = <<>>) /\ g.of = f.of
    BY <1>0, <1>1 DEF DescriptorSound
  <2> QED BY <2>1, <2>5, <2>6, <2>7, <2>8 DEF DescriptorSound
<1> QED BY <1>4, <1>5

DescriptorRead(f, c, budget, end, rest, open, h, g) ==
  /\ c \in f.open /\ c.descriptor > 0 /\ budget \in Nat /\ budget > 0
  /\ end = IF c.position + budget < f.of[c.descriptor] THEN c.position + budget ELSE f.of[c.descriptor]
  /\ rest = [c EXCEPT !.position = end]
  /\ open = (f.open \ {c}) \cup (IF end < f.of[c.descriptor] THEN {rest} ELSE {})
  /\ h = [f.got EXCEPT ![c.descriptor] = Append(@, [from |-> c.position, to |-> end])]
  /\ g = [of |-> f.of, open |-> open, got |-> h]
LEMMA DescribeReads ==
  ASSUME NEW f, ReaderTold(f), NEW c, NEW budget, NEW end, NEW rest, NEW open, NEW h, NEW g,
         DescriptorRead(f, c, budget, end, rest, open, h, g)
  PROVE  ReaderTold(g) /\ g.of = f.of /\ \A d \in g.open : d.id = c.id \/ d \in f.open
<1> USE DEF DescriptorRead
<1>1. /\ f.of \in Catalogs \cup {OnlyReserved} /\ f.open \subseteq Cursors /\ f.got \in [Descriptors -> Seq(Chunk)]
      /\ f.of # OnlyReserved
  BY DEF ReaderTold, Readers
<1>2. f.of \in Catalogs
  BY <1>1
<1>3. /\ f.of \in Seq(Nat \ {0}) /\ Len(f.of) \in Nat
      /\ \A n \in 1 .. Len(f.of) : n \in Descriptors /\ f.of[n] \in Nat /\ f.of[n] > 0
  BY <1>2, CatalogIs
<1>4. /\ c.id \in Nat /\ c.position \in Nat /\ c = [id |-> c.id, descriptor |-> c.descriptor, position |-> c.position]
      /\ c.descriptor \in Int /\ c.descriptor \in 1 .. Len(f.of) /\ c.position < f.of[c.descriptor]
  <2>1. c \in Cursors /\ CursorSound(f, c)
    BY <1>1 DEF ReaderTold
  <2>2. c.id \in Nat /\ c.position \in Nat /\ c.descriptor \in Int /\ c = [id |-> c.id, descriptor |-> c.descriptor, position |-> c.position]
    BY <2>1 DEF Cursors
  <2>3. c.descriptor # -1
    BY <2>2
  <2> QED BY <2>1, <2>2, <2>3 DEF CursorSound
<1>5. PICK m, size, a : m = c.descriptor /\ size = f.of[c.descriptor] /\ a = c.position
  OBVIOUS
<1>6. m \in 1 .. Len(f.of) /\ m \in Descriptors /\ size = f.of[m] /\ size \in Nat /\ a \in Nat /\ a < size
  BY <1>3, <1>4, <1>5
<1>7. end \in Nat /\ end <= size
  BY <1>5, <1>6
<1>8. rest = [id |-> c.id, descriptor |-> m, position |-> end]
  BY <1>4, <1>5
<1>9. rest.id = c.id /\ rest.descriptor = m /\ rest.position = end /\ rest \in Cursors
  BY <1>8, <1>4, <1>5, <1>7 DEF Cursors
<1>10. g.of = f.of /\ g.open = open /\ g.got = h
  OBVIOUS
<1>11. ASSUME NEW d \in f.open, d # c PROVE d.descriptor # m /\ d \in open
  BY <1>5, <1>11 DEF ReaderTold
<1>12. \A d \in open : \/ d \in f.open /\ d # c
                       \/ d = rest /\ end < size
  BY <1>5
<1>13. end < size => rest \in open
  BY <1>5
<1>14. f.got[m] \in Seq(Chunk) /\ Seamless(f.got[m]) /\ a = EndOf(f.got[m])
  <2>1. DescriptorSound(f, m)
    BY <1>1, <1>6 DEF ReaderTold
  <2> QED BY <2>1, <1>1, <1>5, <1>6 DEF DescriptorSound
<1>15. h[m] = Append(f.got[m], [from |-> a, to |-> end]) /\ \A n \in Descriptors : n # m => h[n] = f.got[n]
  BY <1>1, <1>5, <1>6
<1>16. h[m] \in Seq(Chunk) /\ Seamless(h[m]) /\ h[m] # <<>> /\ EndOf(h[m]) = end
  <2>1. \A s \in Seq(Chunk) : Seamless(s) => \A x \in Nat, y \in Nat : x = EndOf(s) =>
            \A k : k = Append(s, [from |-> x, to |-> y]) => k \in Seq(Chunk) /\ Seamless(k) /\ k # <<>> /\ EndOf(k) = y
    BY ChunkJoins
  <2>2. \A x \in Nat, y \in Nat : x = EndOf(f.got[m]) =>
            \A k : k = Append(f.got[m], [from |-> x, to |-> y]) => k \in Seq(Chunk) /\ Seamless(k) /\ k # <<>> /\ EndOf(k) = y
    BY ONLY <2>1, <1>14, Zenon
  <2>3. \A k : k = Append(f.got[m], [from |-> a, to |-> end]) => k \in Seq(Chunk) /\ Seamless(k) /\ k # <<>> /\ EndOf(k) = end
    BY ONLY <2>2, <1>14, <1>6, <1>7, Zenon
  <2> QED BY ONLY <2>3, <1>15, Zenon
<1>17. h \in [Descriptors -> Seq(Chunk)]
  <2>1. h = [n \in Descriptors |-> h[n]]
    BY <1>1
  <2>2. ASSUME NEW n \in Descriptors PROVE h[n] \in Seq(Chunk)
    BY <1>1, <1>15, <1>16
  <2> QED BY <2>1, <2>2
<1>18. g \in Readers
  <2>1. open \subseteq Cursors
    BY <1>1, <1>9, <1>12
  <2> QED BY <2>1, <1>1, <1>17 DEF Readers
<1>19. ASSUME NEW d \in open PROVE CursorSound(g, d) /\ (d.id = c.id \/ d \in f.open)
  <2>1. CASE d \in f.open /\ d # c
    <3>1. CursorSound(f, d)
      BY <2>1 DEF ReaderTold
    <3> QED BY <3>1, <2>1, <1>10 DEF CursorSound
  <2>2. CASE d = rest /\ end < size
    <3>1. rest.descriptor \in 1 .. Len(g.of) /\ rest.position < g.of[rest.descriptor]
      BY <2>2, <1>6, <1>9, <1>10
    <3> QED BY <3>1, <2>2, <1>9 DEF CursorSound
  <2> QED BY <2>1, <2>2, <1>12
<1>20. ASSUME NEW d \in open, NEW e \in open, d.descriptor = e.descriptor PROVE d = e
  <2>1. CASE d = rest
    BY <2>1, <1>20, <1>9, <1>11, <1>12
  <2>2. CASE e = rest
    BY <2>2, <1>20, <1>9, <1>11, <1>12
  <2>3. CASE d # rest /\ e # rest
    <3>1. d \in f.open /\ e \in f.open
      BY <2>3, <1>12
    <3> QED BY <3>1, <1>20 DEF ReaderTold
  <2> QED BY <2>1, <2>2, <2>3
<1>21. ASSUME NEW n \in Descriptors PROVE DescriptorSound(g, n)
  <2>1. DescriptorPassed(f, g, c, end, rest)
    <3>1. c \in f.open /\ Len(f.of) \in Nat
      BY <1>3
    <3>2. \A d \in f.open : d # c => d.descriptor # m /\ d \in g.open
      BY <1>10, <1>11
    <3>3. (end < size => rest \in g.open) /\ \A d \in g.open : \/ d \in f.open /\ d # c
                                                               \/ d = rest /\ end < size
      BY <1>10, <1>12, <1>13
    <3>4. Seamless(g.got[m]) /\ g.got[m] # <<>> /\ EndOf(g.got[m]) = end /\ \A k \in Descriptors : k # m => g.got[k] = f.got[k]
      BY <1>10, <1>15, <1>16
    <3> QED BY ONLY <1>1, <1>5, <1>6, <1>7, <1>9, <1>10, <3>1, <3>2, <3>3, <3>4, Zenon DEF DescriptorPassed
  <2> QED BY <2>1, DescriptorTold, Zenon
<1>22. g.of # OnlyReserved /\ \A d, e \in g.open : d.descriptor = e.descriptor => d = e
  BY <1>1, <1>10, <1>20
<1>23. \A d \in g.open : CursorSound(g, d) /\ (d.id = c.id \/ d \in f.open)
  BY <1>10, <1>19
<1>24. ReaderTold(g)
  BY <1>18, <1>21, <1>22, <1>23, Zenon DEF ReaderTold
<1> QED BY <1>10, <1>23, <1>24

LEMMA FewerKeeps ==
  ASSUME NEW last \in Nat, NEW s, SnapsSound(s, last), NEW t, SnapsSound(t, last), Fewer(s, t), WithinPartition(s),
         NEW res, ReservesSound(s, res, last), NEW f, OfSnapshots(f, s, last)
  PROVE  WithinPartition(t) /\ ReservesSound(t, res, last) /\ OfSnapshots(f, t, last)
<1>1. DOMAIN t \subseteq DOMAIN s /\ \A k \in DOMAIN t : t[k].entries = s[k].entries /\ t[k].bytes = s[k].bytes
  BY DEF Fewer
<1>2. \A k \in DOMAIN t : t[k].bytes <= s[k].bytes
  <2>1. \A k \in DOMAIN s : s[k].bytes \in Nat
    BY SnapshotsFinite
  <2> QED BY <2>1, <1>1
<1>3. WithinPartition(t)
  BY <1>1, <1>2, PartitionShrinks
<1>4. ReservesSound(t, res, last)
  BY <1>1 DEF ReservesSound
<1>5. OfSnapshots(f, t, last)
  BY <1>1 DEF OfSnapshots
<1> QED BY <1>3, <1>4, <1>5

LEMMA Releases ==
  ASSUME NEW last \in Nat, NEW s, SnapsSound(s, last), NEW res, ReservesSound(s, res, last), NEW c \in CatalogCallers
  PROVE  ReservesSound(s, [res EXCEPT ![c] = 0], last)
<1>1. 0 \notin DOMAIN s
  BY DEF SnapsSound
<1>2. PICK r : r = [res EXCEPT ![c] = 0]
  OBVIOUS
<1>3. res \in [CatalogCallers -> 0 .. last]
  BY DEF ReservesSound
<1>4. r \in [CatalogCallers -> 0 .. last] /\ r[c] = 0 /\ \A d \in CatalogCallers : d # c => r[d] = res[d]
  BY <1>2, <1>3
<1>5. \A d, e \in CatalogCallers : r[d] = r[e] /\ r[d] # 0 => d = e
  BY <1>4 DEF ReservesSound
<1>6. \A d \in CatalogCallers : r[d] \in DOMAIN s => s[r[d]].bytes = ReservationBytes
  BY <1>1, <1>4 DEF ReservesSound
<1>7. ReservesSound(s, r, last)
  BY <1>4, <1>5, <1>6 DEF ReservesSound
<1> QED BY <1>2, <1>7

-----------------------------------------------------------------------------
(* The steps of the catalog store.                                            *)

Counts == [last : Nat, closed : BOOLEAN, wrong : BOOLEAN]
CatalogInvariant ==
  /\ catalog \in Counts /\ ~catalog.wrong /\ currentOf \subseteq Authorities
  /\ SnapsSound(snapshots, catalog.last) /\ WithinPartition(snapshots)
  /\ ReservesSound(snapshots, reserving, catalog.last)
  /\ ReaderTold(follow) /\ OfSnapshots(follow, snapshots, catalog.last)

LEMMA CatalogStarts == CatalogInit => CatalogInvariant
<1> SUFFICES ASSUME CatalogInit PROVE CatalogInvariant
  OBVIOUS
<1>1. catalog \in Counts /\ ~catalog.wrong /\ catalog.last = 0 /\ currentOf \subseteq Authorities
  BY DEF CatalogInit, Counts
<1>2. snapshots = <<>> /\ DOMAIN snapshots = {}
  BY EmptySeq DEF CatalogInit
<1>3. SnapsSound(snapshots, catalog.last)
  BY <1>2 DEF SnapsSound
<1>4. WithinPartition(snapshots)
  <2>1. UNION {{k} \X (1 .. snapshots[k].bytes) : k \in DOMAIN snapshots} = {}
    BY <1>2
  <2>2. BytesOf(snapshots) = 0 /\ Cardinality(DOMAIN snapshots) = 0
    BY <2>1, <1>2, FS_EmptySet DEF BytesOf
  <2> QED BY <2>2, CatalogAssumption DEF WithinPartition
<1>5. ReservesSound(snapshots, reserving, catalog.last)
  <2>1. reserving = [c \in CatalogCallers |-> 0]
    BY DEF CatalogInit
  <2>2. 0 \in 0 .. catalog.last
    BY <1>1
  <2>3. reserving \in [CatalogCallers -> 0 .. catalog.last] /\ \A c \in CatalogCallers : reserving[c] = 0
    BY <2>1, <2>2
  <2> QED BY <2>3, <1>2 DEF ReservesSound
<1>6. /\ follow.of = OnlyReserved /\ follow.open = {} /\ \A n \in Descriptors : follow.got[n] = <<>>
      /\ follow \in Readers
  <2> DEFINE g == [n \in Descriptors |-> <<>>]
  <2>1. follow = [of |-> OnlyReserved, open |-> {}, got |-> g]
    BY DEF CatalogInit, Reading
  <2>2. g \in [Descriptors -> Seq(Chunk)]
    BY NothingYet
  <2>3. \A n \in Descriptors : g[n] = <<>>
    OBVIOUS
  <2> HIDE DEF g
  <2> QED BY <2>1, <2>2, <2>3 DEF Readers
<1>7. ReaderTold(follow) /\ OfSnapshots(follow, snapshots, catalog.last)
  BY <1>6 DEF ReaderTold, OfSnapshots
<1> QED BY <1>1, <1>3, <1>4, <1>5, <1>7 DEF CatalogInvariant

\* Taking snapshots away, and nothing else of the store but what the count says.
LEMMA OnlyFewer ==
  ASSUME CatalogInvariant, SnapsSound(snapshots', catalog.last), Fewer(snapshots, snapshots'),
         currentOf' \subseteq currentOf, UNCHANGED <<reserving, follow>>,
         catalog' \in Counts, catalog'.last = catalog.last, ~catalog'.wrong
  PROVE  CatalogInvariant'
<1>1. catalog.last \in Nat
  BY DEF CatalogInvariant, Counts
<1>2. WithinPartition(snapshots') /\ ReservesSound(snapshots', reserving, catalog.last) /\ OfSnapshots(follow, snapshots', catalog.last)
  BY <1>1, FewerKeeps DEF CatalogInvariant
<1> QED BY <1>2 DEF CatalogInvariant

LEMMA PrunedKeeps ==
  ASSUME CatalogInvariant
  PROVE  /\ SnapsSound(Pruned(snapshots), catalog.last) /\ WithinPartition(Pruned(snapshots))
         /\ ReservesSound(Pruned(snapshots), reserving, catalog.last) /\ OfSnapshots(follow, Pruned(snapshots), catalog.last)
         /\ Fewer(snapshots, Pruned(snapshots)) /\ catalog.last \in Nat
<1>1. catalog.last \in Nat
  BY DEF CatalogInvariant, Counts
<1>2. SnapsSound(Pruned(snapshots), catalog.last) /\ Fewer(snapshots, Pruned(snapshots))
  BY PrunedIs DEF CatalogInvariant
<1> QED BY <1>1, <1>2, FewerKeeps DEF CatalogInvariant

LEMMA ReserveRoomKeeps ==
  ASSUME CatalogInvariant, NEW c \in CatalogCallers, NEW on \in SUBSET Authorities, ReserveRoom(c, on)
  PROVE  CatalogInvariant'
<1>0. PICK v \in Evicts(Pruned(snapshots)) :
        snapshots' = [k \in DOMAIN Dropping(Pruned(snapshots), v) \union {catalog.last + 1} |->
                        IF k = catalog.last + 1 THEN [on |-> on, entries |-> OnlyReserved, bytes |-> ReservationBytes, stale |-> FALSE]
                        ELSE Dropping(Pruned(snapshots), v)[k]]
        /\ reserving' = [reserving EXCEPT ![c] = catalog.last + 1] /\ catalog' = [catalog EXCEPT !.last = catalog.last + 1]
  BY DEF ReserveRoom
<1>1. PICK id, left :
         /\ id = catalog.last + 1 /\ left = Dropping(Pruned(snapshots), v)
         /\ snapshots' = [k \in DOMAIN left \union {id} |->
                            IF k = id THEN [on |-> on, entries |-> OnlyReserved, bytes |-> ReservationBytes, stale |-> FALSE] ELSE left[k]]
         /\ reserving' = [reserving EXCEPT ![c] = id] /\ catalog' = [catalog EXCEPT !.last = id]
         /\ UNCHANGED <<currentOf, follow>>
  <2>1. UNCHANGED <<currentOf, follow>>
    BY DEF ReserveRoom
  <2> QED BY <1>0, <2>1
<1>2. PICK last : last = catalog.last /\ last \in Nat /\ id = last + 1 /\ id \in Nat
  BY <1>1 DEF CatalogInvariant, Counts
<1>3. /\ SnapsSound(left, last) /\ WithinPartition(left) /\ ReservesSound(left, reserving, last)
      /\ OfSnapshots(follow, left, last) /\ Room(left)
  <2>1. /\ SnapsSound(Pruned(snapshots), last) /\ WithinPartition(Pruned(snapshots))
        /\ ReservesSound(Pruned(snapshots), reserving, last) /\ OfSnapshots(follow, Pruned(snapshots), last)
    BY <1>2, PrunedKeeps
  <2>2. SnapsSound(left, last) /\ Fewer(Pruned(snapshots), left)
    BY <2>1, <1>1, DroppingIs
  <2>3. Room(left)
    BY <1>1 DEF Evicts
  <2> QED BY <2>1, <2>2, <2>3, <1>2, FewerKeeps
<1>4. DOMAIN left \subseteq 1 .. last /\ id \notin DOMAIN left
  BY <1>2, <1>3 DEF SnapsSound
<1> DEFINE new == [on |-> on, entries |-> OnlyReserved, bytes |-> ReservationBytes, stale |-> FALSE]
<1>5. new \in CatalogSnapshot /\ new.bytes = ReservationBytes
  BY CatalogAssumption DEF CatalogSnapshot
<1> HIDE DEF new
<1>6. DOMAIN snapshots' = DOMAIN left \cup {id} /\ snapshots'[id] = new /\ \A k \in DOMAIN left : snapshots'[k] = left[k]
  BY <1>1, <1>4 DEF new
<1>7. SnapsSound(snapshots', id)
  <2>1. DOMAIN left \cup {id} \subseteq 1 .. id
    BY <1>2, <1>4
  <2> QED BY <2>1, <1>3, <1>5, <1>6 DEF SnapsSound
<1>8. WithinPartition(snapshots')
  BY <1>2, <1>3, <1>5, <1>6, <1>7, ReservationFits
<1>9. /\ reserving'[c] = id /\ (\A d \in CatalogCallers : d # c => reserving'[d] = reserving[d])
      /\ reserving' \in [CatalogCallers -> 0 .. id]
  <2>1. reserving \in [CatalogCallers -> 0 .. last]
    BY <1>3 DEF ReservesSound
  <2>2. id \in 0 .. id /\ 0 .. last \subseteq 0 .. id
    BY <1>2
  <2>3. reserving' = [reserving EXCEPT ![c] = id]
    BY <1>1
  <2> QED BY ONLY <2>1, <2>2, <2>3, c \in CatalogCallers
<1>10. \A d \in CatalogCallers : reserving[d] \in 0 .. last /\ reserving[d] # id
  <2>1. reserving \in [CatalogCallers -> 0 .. last]
    BY <1>3 DEF ReservesSound
  <2> QED BY <2>1, <1>2
<1>11. ReservesSound(snapshots', reserving', id)
  <2>1. ASSUME NEW d \in CatalogCallers, NEW e \in CatalogCallers, reserving'[d] = reserving'[e], reserving'[d] # 0 PROVE d = e
    BY <2>1, <1>3, <1>9, <1>10 DEF ReservesSound
  <2>2. ASSUME NEW d \in CatalogCallers, reserving'[d] \in DOMAIN snapshots' PROVE snapshots'[reserving'[d]].bytes = ReservationBytes
    <3>1. CASE d = c
      BY <3>1, <1>5, <1>6, <1>9
    <3>2. CASE d # c
      <4>1. reserving'[d] = reserving[d] /\ reserving[d] \in DOMAIN left
        BY <2>2, <3>2, <1>6, <1>9, <1>10
      <4> QED BY <4>1, <1>3, <1>6 DEF ReservesSound
    <3> QED BY <3>1, <3>2
  <2> QED BY <2>1, <2>2, <1>9 DEF ReservesSound
<1>12. OfSnapshots(follow, snapshots', id)
  <2>1. ASSUME NEW d \in follow.open PROVE d.id \in 1 .. id /\ (d.id \in DOMAIN snapshots' => snapshots'[d.id].entries = follow.of)
    <3>1. d.id \in 1 .. last /\ (d.id \in DOMAIN left => left[d.id].entries = follow.of)
      BY <1>3 DEF OfSnapshots
    <3>2. d.id # id /\ d.id \in 1 .. id
      BY <3>1, <1>2
    <3> QED BY <3>1, <3>2, <1>6
  <2> QED BY <2>1 DEF OfSnapshots
<1>13. catalog' \in Counts /\ catalog'.last = id /\ ~catalog'.wrong
  <2>1. catalog \in Counts /\ ~catalog.wrong
    BY DEF CatalogInvariant
  <2>2. /\ catalog = [last |-> catalog.last, closed |-> catalog.closed, wrong |-> catalog.wrong]
        /\ catalog.closed \in BOOLEAN /\ catalog.wrong \in BOOLEAN
    BY <2>1 DEF Counts
  <2>3. catalog' = [last |-> id, closed |-> catalog.closed, wrong |-> catalog.wrong]
    BY <2>2, <1>1
  <2> QED BY <2>1, <2>2, <2>3, <1>2 DEF Counts
<1>14. ReaderTold(follow) /\ currentOf \subseteq Authorities
  BY DEF CatalogInvariant
<1> QED BY <1>1, <1>7, <1>8, <1>11, <1>12, <1>13, <1>14 DEF CatalogInvariant

LEMMA DependKeeps ==
  ASSUME CatalogInvariant, NEW c \in CatalogCallers, NEW on \in SUBSET Authorities, Depend(c, on)
  PROVE  CatalogInvariant'
<1>1. PICK last, s : last = catalog.last /\ last \in Nat /\ s = Pruned(snapshots)
  BY DEF CatalogInvariant, Counts
<1>2. SnapsSound(s, last) /\ Fewer(snapshots, s)
  BY <1>1, PrunedKeeps
<1>3. PICK id, t : /\ id = reserving[c] /\ id \in DOMAIN s /\ t = [s EXCEPT ![id].on = @ \union on] /\ snapshots' = Pruned(t)
                   /\ UNCHANGED <<currentOf, reserving, follow, catalog>>
  BY <1>1 DEF Depend, Held
<1>4. SnapsSound(t, last) /\ Fewer(s, t)
  <2>1. s[id] \in CatalogSnapshot
    BY <1>2, <1>3 DEF SnapsSound
  <2>2. PICK x, y : x = s[id] /\ x \in CatalogSnapshot /\ y = [x EXCEPT !.on = @ \union on]
    BY <2>1
  <2>3. /\ x.on \subseteq Authorities /\ x.entries \in Catalogs \cup {OnlyReserved} /\ x.bytes \in 0 .. ReservationBytes /\ x.stale \in BOOLEAN
        /\ y = [on |-> x.on \union on, entries |-> x.entries, bytes |-> x.bytes, stale |-> x.stale]
    BY <2>2 DEF CatalogSnapshot
  <2>4. y \in CatalogSnapshot /\ y.entries = x.entries /\ y.bytes = x.bytes
    <3>1. x.on \union on \subseteq Authorities
      BY <2>3
    <3> QED BY <3>1, <2>3 DEF CatalogSnapshot
  <2>5. DOMAIN t = DOMAIN s /\ t[id] = y /\ \A k \in DOMAIN s : k # id => t[k] = s[k]
    <3>1. t = [s EXCEPT ![id] = [s[id] EXCEPT !.on = @ \union on]]
      BY <1>3
    <3>2. t = [s EXCEPT ![id] = y]
      BY <3>1, <2>2
    <3>3. DOMAIN t = DOMAIN s /\ \A k \in DOMAIN s : t[k] = IF k = id THEN y ELSE s[k]
      BY <3>2
    <3> QED BY <3>3, <1>3
  <2>6. SnapsSound(t, last)
    BY <2>4, <2>5, <1>2 DEF SnapsSound
  <2>7. Fewer(s, t)
    BY <2>2, <2>4, <2>5 DEF Fewer
  <2> QED BY <2>6, <2>7
<1>5. SnapsSound(snapshots', last) /\ Fewer(t, snapshots')
  BY <1>3, <1>4, PrunedIs
<1>6. Fewer(snapshots, snapshots')
  BY <1>2, <1>4, <1>5 DEF Fewer
<1>7. catalog \in Counts /\ ~catalog.wrong
  BY DEF CatalogInvariant
<1> QED BY <1>1, <1>3, <1>5, <1>6, <1>7, OnlyFewer

LEMMA ReservationReleased ==
  ASSUME CatalogInvariant, NEW c \in CatalogCallers, ReleaseReservation(c)
  PROVE  CatalogInvariant'
<1>1. PICK last, s : last = catalog.last /\ last \in Nat /\ s = snapshots' /\ s = Dropping(snapshots, {reserving[c]})
  BY DEF CatalogInvariant, Counts, ReleaseReservation
<1>2. SnapsSound(s, last) /\ Fewer(snapshots, s)
  BY <1>1, DroppingIs DEF CatalogInvariant
<1>3. WithinPartition(s) /\ ReservesSound(s, reserving, last) /\ OfSnapshots(follow, s, last)
  BY <1>1, <1>2, FewerKeeps DEF CatalogInvariant
<1>4. ReservesSound(s, reserving', last)
  BY <1>1, <1>2, <1>3, Releases DEF ReleaseReservation
<1>5. UNCHANGED <<currentOf, follow, catalog>>
  BY DEF ReleaseReservation
<1> QED BY <1>1, <1>2, <1>3, <1>4, <1>5 DEF CatalogInvariant

LEMMA PublishKeeps ==
  ASSUME CatalogInvariant, NEW c \in CatalogCallers, NEW entries \in Catalogs, PublishCatalog(c, entries)
  PROVE  CatalogInvariant'
<1>1. PICK last, s : last = catalog.last /\ last \in Nat /\ s = Pruned(snapshots)
  BY DEF CatalogInvariant, Counts
<1>2. SnapsSound(s, last) /\ WithinPartition(s) /\ ReservesSound(s, reserving, last)
  BY <1>1, PrunedKeeps
<1>3. PICK id, b : /\ id = reserving[c] /\ id # 0 /\ id \in DOMAIN s /\ b \in 1 .. ReservationBytes
                   /\ snapshots' = [s EXCEPT ![id].entries = entries, ![id].bytes = b]
  BY <1>1 DEF PublishCatalog, Held
<1>4. PICK first \in IF Len(entries) = 1 THEN {-1, 1} ELSE {-1} : follow' = Reading(entries, {Token(reserving[c], first)})
  BY DEF PublishCatalog
<1>5. reserving' = [reserving EXCEPT ![c] = 0] /\ UNCHANGED <<currentOf, catalog>>
  BY DEF PublishCatalog
<1>6. /\ DOMAIN snapshots' = DOMAIN s /\ (\A k \in DOMAIN s : k # id => snapshots'[k] = s[k])
      /\ snapshots'[id] \in CatalogSnapshot /\ snapshots'[id].entries = entries /\ snapshots'[id].bytes = b
  <2>1. PICK x, y : x = s[id] /\ x \in CatalogSnapshot /\ y = [[x EXCEPT !.entries = entries] EXCEPT !.bytes = b]
    BY <1>2, <1>3 DEF SnapsSound
  <2>2. /\ x.on \subseteq Authorities /\ x.stale \in BOOLEAN
        /\ y = [on |-> x.on, entries |-> entries, bytes |-> b, stale |-> x.stale]
    BY <2>1 DEF CatalogSnapshot
  <2>3. b \in 0 .. ReservationBytes
    BY <1>3, CatalogAssumption
  <2>4. y \in CatalogSnapshot /\ y.entries = entries /\ y.bytes = b
    BY <2>2, <2>3 DEF CatalogSnapshot
  <2>5. DOMAIN snapshots' = DOMAIN s /\ snapshots'[id] = y /\ \A k \in DOMAIN s : k # id => snapshots'[k] = s[k]
    BY <2>1, <1>3
  <2> QED BY <2>4, <2>5
<1>7. id \in 1 .. last /\ s[id].bytes = ReservationBytes
  BY <1>2, <1>3 DEF SnapsSound, ReservesSound
<1>8. SnapsSound(snapshots', last)
  BY <1>2, <1>6 DEF SnapsSound
<1>9. WithinPartition(snapshots')
  <2>1. \A k \in DOMAIN s : s[k].bytes \in Nat
    BY <1>1, <1>2, SnapshotsFinite
  <2>2. ASSUME NEW k \in DOMAIN s PROVE snapshots'[k].bytes <= s[k].bytes
    <3>1. CASE k = id
      BY <3>1, <1>3, <1>6, <1>7, CatalogAssumption
    <3>2. CASE k # id
      BY <3>2, <2>1, <1>6
    <3> QED BY <3>1, <3>2
  <2> QED BY <2>2, <1>1, <1>2, <1>6, <1>8, PartitionShrinks
<1>10. ReservesSound(snapshots', reserving', last)
  <2>1. ReservesSound(s, reserving', last)
    BY <1>1, <1>2, <1>5, Releases
  <2>2. ASSUME NEW d \in CatalogCallers PROVE reserving'[d] # id
    <3>1. reserving \in [CatalogCallers -> 0 .. last]
      BY <1>2 DEF ReservesSound
    <3>2. CASE d = c
      BY <3>1, <3>2, <1>3, <1>5
    <3>3. CASE d # c
      BY <3>1, <3>3, <1>2, <1>3, <1>5 DEF ReservesSound
    <3> QED BY <3>2, <3>3
  <2> QED BY <2>1, <2>2, <1>6 DEF ReservesSound
<1>11. PICK cursor, g : /\ cursor = Token(id, first) /\ g = [n \in Descriptors |-> <<>>]
                        /\ follow' = [of |-> entries, open |-> {cursor}, got |-> g]
  <2> DEFINE cursor == Token(reserving[c], first)
             g == [n \in Descriptors |-> <<>>]
  <2>1. follow' = [of |-> entries, open |-> {cursor}, got |-> g]
    BY <1>4 DEF Reading
  <2>2. cursor = Token(id, first) /\ g = [n \in Descriptors |-> <<>>]
    BY <1>3
  <2> HIDE DEF cursor, g
  <2> QED BY <2>1, <2>2
<1>12. first = -1 \/ (first = 1 /\ Len(entries) = 1)
  BY <1>4
<1>13. cursor \in Cursors /\ cursor.id = id /\ cursor.descriptor = first /\ cursor.position = 0
  <2>1. id \in Nat /\ first \in Int
    BY <1>7, <1>12
  <2> QED BY <2>1, <1>11 DEF Token, Cursors
<1>14. g \in [Descriptors -> Seq(Chunk)] /\ \A n \in Descriptors : g[n] = <<>>
  BY <1>11, NothingYet
<1>15. ReaderTold(follow')
  <2>1. PICK f : f = follow' /\ f = [of |-> entries, open |-> {cursor}, got |-> g]
    BY <1>11
  <2>2. entries \in Catalogs
    OBVIOUS
  <2>3. cursor.descriptor = -1 \/ (cursor.descriptor = 1 /\ Len(entries) = 1)
    BY <1>12, <1>13
  <2>4. ReaderTold(f)
    BY ONLY <2>1, <2>2, <2>3, <1>13, <1>14, PublishedIsTold
  <2> QED BY <2>1, <2>4
<1>16. OfSnapshots(follow', snapshots', last)
  BY <1>6, <1>7, <1>11, <1>13 DEF OfSnapshots
<1>17. catalog \in Counts /\ ~catalog.wrong /\ currentOf \subseteq Authorities
  BY DEF CatalogInvariant
<1> QED BY <1>1, <1>5, <1>8, <1>9, <1>10, <1>15, <1>16, <1>17 DEF CatalogInvariant

\* A cursor that is served is of a catalog that holds, and of the reader's own.
LEMMA ServedIs ==
  ASSUME CatalogInvariant, NEW c \in follow.open, Authentic(c), Served(c)
  PROVE  /\ snapshots[c.id].entries = follow.of /\ catalog' \in Counts /\ catalog'.last = catalog.last /\ ~catalog'.wrong
<1>1. c.id \in DOMAIN Pruned(snapshots)
  BY DEF Authentic
<1>2. c.id \in DOMAIN snapshots /\ snapshots[c.id].on \subseteq currentOf
  BY <1>1 DEF Pruned, Dropping
<1>3. snapshots[c.id].entries = follow.of
  BY <1>2 DEF CatalogInvariant, OfSnapshots
<1>4. catalog \in Counts /\ ~catalog.wrong
  BY DEF CatalogInvariant
<1>5. catalog' = [catalog EXCEPT !.wrong = FALSE]
  BY <1>2, <1>4 DEF Served, Counts
<1>6. /\ catalog = [last |-> catalog.last, closed |-> catalog.closed, wrong |-> catalog.wrong]
      /\ catalog.closed \in BOOLEAN /\ catalog.last \in Nat
  BY <1>4 DEF Counts
<1>7. catalog' = [last |-> catalog.last, closed |-> catalog.closed, wrong |-> FALSE]
  BY <1>5, <1>6
<1> QED BY <1>3, <1>6, <1>7 DEF Counts

\* What is left of the catalogs after a page, given what the reader has then.
LEMMA ServedKeeps ==
  ASSUME CatalogInvariant, NEW c \in follow.open, snapshots' = Pruned(snapshots), UNCHANGED <<currentOf, reserving>>,
         catalog' \in Counts, catalog'.last = catalog.last, ~catalog'.wrong,
         ReaderTold(follow'), follow'.of = follow.of, \A d \in follow'.open : d.id = c.id \/ d \in follow.open
  PROVE  CatalogInvariant'
<1>1. PICK s, last : s = Pruned(snapshots) /\ last = catalog.last /\ last \in Nat
  BY DEF CatalogInvariant, Counts
<1>2. SnapsSound(s, last) /\ WithinPartition(s) /\ ReservesSound(s, reserving, last) /\ OfSnapshots(follow, s, last)
  BY <1>1, PrunedKeeps
<1>3. OfSnapshots(follow', s, last)
  <2>1. ASSUME NEW d \in follow'.open PROVE \E e \in follow.open : d.id = e.id
    OBVIOUS
  <2> QED BY <2>1, <1>2 DEF OfSnapshots
<1>4. currentOf \subseteq Authorities
  BY DEF CatalogInvariant
<1> QED BY <1>1, <1>2, <1>3, <1>4 DEF CatalogInvariant

LEMMA FollowIs ==
  ASSUME CatalogInvariant
  PROVE  follow = [of |-> follow.of, open |-> follow.open, got |-> follow.got] /\ follow.got \in [Descriptors -> Seq(Chunk)]
BY DEF CatalogInvariant, ReaderTold, Readers

LEMMA CatalogPageKeeps ==
  ASSUME CatalogInvariant, NEW c \in follow.open, NEW budget \in 1 .. 3, CatalogPage(c, budget)
  PROVE  CatalogInvariant'
<1>1. /\ c.descriptor = -1 /\ Authentic(c) /\ Served(c) /\ snapshots' = Pruned(snapshots) /\ UNCHANGED <<currentOf, reserving>>
  BY DEF CatalogPage
<1>2. snapshots[c.id].entries = follow.of /\ catalog' \in Counts /\ catalog'.last = catalog.last /\ ~catalog'.wrong
  BY <1>1, ServedIs
<1> DEFINE p == PageFrom(follow.of, c.position, budget)
           rest == [c EXCEPT !.position = p.next]
           deferred == {Token(c.id, n) : n \in (c.position + 1 .. p.next) \ p.whole}
           left == IF p.next < Len(follow.of) THEN {rest} ELSE {}
           open == (follow.open \ {c}) \cup deferred \cup left
           h == [n \in Descriptors |-> IF n \in p.whole THEN Append(follow.got[n], [from |-> 0, to |-> follow.of[n]]) ELSE follow.got[n]]
<1>3. follow' = [follow EXCEPT !.open = open, !.got = h]
  BY <1>2, Zenon DEF CatalogPage
<1> HIDE DEF open, h
<1>4. follow' = [of |-> follow.of, open |-> open, got |-> h]
  BY <1>3, FollowIs
<1>5. PICK f, g : f = follow /\ g = follow' /\ g = [of |-> f.of, open |-> open, got |-> h] /\ ReaderTold(f) /\ c \in f.open
  BY <1>4 DEF CatalogInvariant
<1>6. budget \in Nat /\ p = PageFrom(f.of, c.position, budget) /\ rest = [c EXCEPT !.position = p.next]
  BY <1>5
<1>7. /\ open = (f.open \ {c}) \cup {Token(c.id, n) : n \in (c.position + 1 .. p.next) \ p.whole}
                   \cup (IF p.next < Len(f.of) THEN {rest} ELSE {})
      /\ h = [n \in Descriptors |-> IF n \in p.whole THEN Append(f.got[n], [from |-> 0, to |-> f.of[n]]) ELSE f.got[n]]
  BY <1>5 DEF open, h
<1> HIDE DEF p, rest
<1>8. PageRead(f, c, budget, p, rest, open, h, g)
  BY <1>1, <1>5, <1>6, <1>7, Zenon DEF PageRead
<1>9. ReaderTold(g) /\ g.of = f.of /\ \A d \in g.open : d.id = c.id \/ d \in f.open
  <2>1. ReaderTold(f)
    BY <1>5
  <2> QED BY ONLY <2>1, <1>8, PageReads
<1> QED BY <1>1, <1>2, <1>5, <1>9, ServedKeeps

LEMMA DescribePageKeeps ==
  ASSUME CatalogInvariant, NEW c \in follow.open, NEW budget \in 1 .. 3, DescribePage(c, budget)
  PROVE  CatalogInvariant'
<1>1. /\ c.descriptor > 0 /\ Authentic(c) /\ Served(c) /\ snapshots' = Pruned(snapshots) /\ UNCHANGED <<currentOf, reserving>>
  BY DEF DescribePage
<1>2. snapshots[c.id].entries = follow.of /\ catalog' \in Counts /\ catalog'.last = catalog.last /\ ~catalog'.wrong
  BY <1>1, ServedIs
<1> DEFINE end == IF c.position + budget < follow.of[c.descriptor] THEN c.position + budget ELSE follow.of[c.descriptor]
           rest == [c EXCEPT !.position = end]
           open == (follow.open \ {c}) \cup (IF end < follow.of[c.descriptor] THEN {rest} ELSE {})
           h == [follow.got EXCEPT ![c.descriptor] = Append(@, [from |-> c.position, to |-> end])]
<1>3. follow' = [follow EXCEPT !.open = open, !.got = h]
  BY <1>2 DEF DescribePage
<1> HIDE DEF open, h
<1>4. follow' = [of |-> follow.of, open |-> open, got |-> h]
  BY <1>3, FollowIs
<1>5. PICK f, g : f = follow /\ g = follow' /\ g = [of |-> f.of, open |-> open, got |-> h] /\ ReaderTold(f) /\ c \in f.open
  BY <1>4 DEF CatalogInvariant
<1>6. /\ budget \in Nat /\ budget > 0 /\ rest = [c EXCEPT !.position = end]
      /\ end = IF c.position + budget < f.of[c.descriptor] THEN c.position + budget ELSE f.of[c.descriptor]
  BY <1>5
<1>7. /\ open = (f.open \ {c}) \cup (IF end < f.of[c.descriptor] THEN {rest} ELSE {})
      /\ h = [f.got EXCEPT ![c.descriptor] = Append(@, [from |-> c.position, to |-> end])]
  BY <1>5 DEF open, h
<1> HIDE DEF end, rest
<1>8. DescriptorRead(f, c, budget, end, rest, open, h, g)
  BY <1>1, <1>5, <1>6, <1>7, Zenon DEF DescriptorRead
<1>9. ReaderTold(g) /\ g.of = f.of /\ \A d \in g.open : d.id = c.id \/ d \in f.open
  <2>1. ReaderTold(f)
    BY <1>5
  <2> QED BY ONLY <2>1, <1>8, DescribeReads
<1> QED BY <1>1, <1>2, <1>5, <1>9, ServedKeeps

LEMMA RestKeeps ==
  ASSUME CatalogInvariant,
         (\E a \in Authorities : Revoked(a)) \/ (\E k \in 1 .. MaxIds : GrowsOld(k)) \/ InvalidateCatalogs \/ UNCHANGED catalogVars
  PROVE  CatalogInvariant'
<1>0. /\ SnapsSound(snapshots, catalog.last) /\ catalog \in Counts /\ ~catalog.wrong /\ Fewer(snapshots, snapshots)
      /\ catalog = [last |-> catalog.last, closed |-> catalog.closed, wrong |-> catalog.wrong]
  BY DEF CatalogInvariant, Counts, Fewer
<1>1. CASE \E a \in Authorities : Revoked(a)
  BY <1>0, <1>1, OnlyFewer DEF Revoked
<1>2. CASE \E k \in 1 .. MaxIds : GrowsOld(k)
  <2>1. PICK k \in DOMAIN snapshots : snapshots' = [snapshots EXCEPT ![k].stale = TRUE] /\ UNCHANGED <<currentOf, reserving, follow, catalog>>
    BY <1>2 DEF GrowsOld
  <2>2. PICK x, y : x = snapshots[k] /\ x \in CatalogSnapshot /\ y = [x EXCEPT !.stale = TRUE]
    BY <1>0 DEF SnapsSound
  <2>3. /\ x.on \subseteq Authorities /\ x.entries \in Catalogs \cup {OnlyReserved} /\ x.bytes \in 0 .. ReservationBytes
        /\ y = [on |-> x.on, entries |-> x.entries, bytes |-> x.bytes, stale |-> TRUE]
    BY <2>2 DEF CatalogSnapshot
  <2>4. y \in CatalogSnapshot /\ y.entries = x.entries /\ y.bytes = x.bytes
    BY <2>3 DEF CatalogSnapshot
  <2>5. DOMAIN snapshots' = DOMAIN snapshots /\ snapshots'[k] = y /\ \A j \in DOMAIN snapshots : j # k => snapshots'[j] = snapshots[j]
    BY <2>1, <2>2
  <2>6. SnapsSound(snapshots', catalog.last) /\ Fewer(snapshots, snapshots')
    BY <2>2, <2>4, <2>5, <1>0 DEF SnapsSound, Fewer
  <2> QED BY <2>1, <2>6, <1>0, OnlyFewer
<1>3. CASE InvalidateCatalogs
  <2>1. DOMAIN snapshots' = {} /\ catalog' = [catalog EXCEPT !.closed = TRUE] /\ UNCHANGED <<currentOf, reserving, follow>>
    BY <1>3, EmptySeq DEF InvalidateCatalogs
  <2>2. catalog' = [last |-> catalog.last, closed |-> TRUE, wrong |-> catalog.wrong]
    BY <2>1, <1>0
  <2>3. catalog' \in Counts /\ catalog'.last = catalog.last /\ ~catalog'.wrong
    BY <2>2, <1>0 DEF Counts
  <2>4. SnapsSound(snapshots', catalog.last) /\ Fewer(snapshots, snapshots')
    BY <2>1 DEF SnapsSound, Fewer
  <2> QED BY <2>1, <2>3, <2>4, OnlyFewer
<1>4. CASE UNCHANGED catalogVars
  BY <1>0, <1>4, OnlyFewer DEF catalogVars
<1> QED BY <1>1, <1>2, <1>3, <1>4

LEMMA CatalogGoesOn == CatalogInvariant /\ [CatalogNext]_catalogVars => CatalogInvariant'
<1> SUFFICES ASSUME CatalogInvariant, [CatalogNext]_catalogVars PROVE CatalogInvariant'
  OBVIOUS
<1>1. ASSUME NEW c \in CatalogCallers, ReleaseReservation(c) PROVE CatalogInvariant'
  BY <1>1, ReservationReleased
<1>2. ASSUME NEW c \in CatalogCallers, NEW on \in SUBSET Authorities, ReserveRoom(c, on) \/ Depend(c, on) PROVE CatalogInvariant'
  BY <1>2, ReserveRoomKeeps, DependKeeps
<1>3. ASSUME NEW c \in CatalogCallers, NEW e \in Catalogs, PublishCatalog(c, e) PROVE CatalogInvariant'
  BY <1>3, PublishKeeps
<1>4. ASSUME NEW c \in follow.open, NEW b \in 1 .. 3, CatalogPage(c, b) \/ DescribePage(c, b) PROVE CatalogInvariant'
  BY <1>4, CatalogPageKeeps, DescribePageKeeps
<1>5. CASE (\E a \in Authorities : Revoked(a)) \/ (\E k \in 1 .. MaxIds : GrowsOld(k)) \/ InvalidateCatalogs \/ UNCHANGED catalogVars
  BY <1>5, RestKeeps
<1> QED BY <1>1, <1>2, <1>3, <1>4, <1>5 DEF CatalogNext

LEMMA CatalogShows == CatalogInvariant => CatalogKept
<1> SUFFICES ASSUME CatalogInvariant PROVE CatalogKept
  OBVIOUS
<1>1. CatalogBounded /\ NothingRevokedServed
  BY DEF CatalogInvariant, WithinPartition, CatalogBounded, NothingRevokedServed
<1>2. ReaderTold(follow)
  BY DEF CatalogInvariant
<1>3. ASSUME NEW n \in Descriptors PROVE Seamless(follow.got[n])
  <2>1. CASE follow.of = OnlyReserved
    <3>1. follow.got[n] = <<>>
      BY <1>2, <2>1 DEF ReaderTold
    <3> QED BY <3>1, NothingYet
  <2>2. CASE follow.of # OnlyReserved
    BY <1>2, <2>2 DEF ReaderTold, DescriptorSound
  <2> QED BY <2>1, <2>2
<1>4. ASSUME follow.of # OnlyReserved, follow.open = {}, NEW n \in Descriptors
      PROVE  IF n > Len(follow.of) THEN follow.got[n] = <<>>
             ELSE follow.got[n] # <<>> /\ follow.got[n][Len(follow.got[n])].to = follow.of[n]
  <2>1. DescriptorSound(follow, n)
    BY <1>2, <1>4 DEF ReaderTold
  <2>2. follow.of \in Catalogs /\ n \in Nat
    BY <1>2, <1>4, DescriptorsAre DEF ReaderTold, Readers
  <2>3. Len(follow.of) \in Nat
    BY <2>2, CatalogIs
  <2>4. n <= Len(follow.of) => follow.got[n] # <<>> /\ EndOf(follow.got[n]) = follow.of[n]
    BY <2>1, <1>4 DEF DescriptorSound
  <2>5. n > Len(follow.of) => follow.got[n] = <<>>
    BY <2>1 DEF DescriptorSound
  <2>6. n <= Len(follow.of) => follow.got[n] # <<>> /\ follow.got[n][Len(follow.got[n])].to = follow.of[n]
    BY <2>4 DEF EndOf
  <2>7. n > Len(follow.of) \/ n <= Len(follow.of)
    BY <2>2, <2>3
  <2> QED BY <2>2, <2>3, <2>5, <2>6, <2>7
<1>5. ReadInFull
  BY <1>3, <1>4 DEF ReadInFull, Seamless
<1> QED BY <1>1, <1>5 DEF CatalogKept

LEMMA CatalogHolds == CatalogSpec => []CatalogKept
<1>1. CatalogSpec => []CatalogInvariant
  BY CatalogStarts, CatalogGoesOn, PTL DEF CatalogSpec
<1> QED BY <1>1, CatalogShows, PTL

\* Traces stay within their bounds and lose nothing unreported; catalogs stay
\* within their partition, nothing is served on an authority that has ended,
\* and whoever follows the cursors, in any order, reads a catalog in full.
THEOREM StoresHold == CatalogSpec /\ TraceSpec => []StoresKept
<1>1. CatalogKept /\ TraceKept => StoresKept
  BY DEF StoresKept
<1> QED BY <1>1, CatalogHolds, TraceHolds, PTL
=============================================================================
