--------------------------- MODULE McpConnection ---------------------------
(* One isolated connection to an external server, kiro/mcp-provider.ts: the  *)
(* provider's half (IsolatedMcpConnection), the worker's half                *)
(* (runMcpConnectionWorker) and the messages between them, which arrive in   *)
(* order.  Requests are "connect", the calls in Requests, and "close".       *)
EXTENDS Naturals, Sequences, FiniteSets
CONSTANTS WorkerRequests
ASSUME ConnectionAssumption == WorkerRequests # {} /\ {"connect", "close"} \intersect WorkerRequests = {}
VARIABLES asked,      \* the requests made so far: each is made once
          waiting,    \* #pending
          answered,   \* [request |-> "none" | "result" | "error"] as its caller saw it
          shut,       \* "open" | "closing" | "closed" | "failed": #closing, #closed
          broken,     \* #failure
          inbox, outbox, \* requests on their way to the worker, responses on their way back
          worker,     \* [alive, connected, closing, tearing]
          active,     \* the operations running in the worker
          children    \* it has child processes
connVars == <<asked, waiting, answered, shut, broken, inbox, outbox, worker, active, children>>

Wire == WorkerRequests \union {"connect", "close"}
ConnInit ==
  /\ asked = {} /\ waiting = {} /\ answered = [r \in Wire |-> "none"] /\ shut = "open" /\ broken = FALSE
  /\ inbox = <<>> /\ outbox = <<>> /\ active = {} /\ children = FALSE
  /\ worker = [alive |-> TRUE, connected |-> FALSE, closing |-> FALSE, tearing |-> FALSE]

(* #request: refused once the connection has failed or is closing.           *)
Ask(r) ==
  /\ r \notin asked /\ (r \in WorkerRequests => answered["connect"] = "result") /\ asked' = asked \union {r}
  /\ IF broken \/ (shut # "open" /\ r # "close")
       THEN answered' = [answered EXCEPT ![r] = "error"] /\ UNCHANGED <<waiting, inbox>>
       ELSE waiting' = waiting \union {r} /\ inbox' = Append(inbox, r) /\ UNCHANGED answered
  /\ shut' = IF r = "close" THEN (IF broken THEN "failed" ELSE "closing") ELSE shut
  /\ UNCHANGED <<broken, outbox, worker, active, children>>
(* A response arrives; the answer to close ends the worker.                  *)
AnswerRequest == LET m == Head(outbox) IN
  /\ outbox # <<>> /\ outbox' = Tail(outbox)
  /\ IF m.id \in waiting
       THEN /\ waiting' = waiting \ {m.id} /\ answered' = [answered EXCEPT ![m.id] = m.outcome]
            /\ shut' = IF m.id # "close" THEN shut ELSE IF m.outcome = "result" THEN "closed" ELSE "failed"
            /\ worker' = IF m.id = "close" /\ m.outcome = "result" THEN [worker EXCEPT !.alive = FALSE] ELSE worker
       ELSE UNCHANGED <<waiting, answered, shut, worker>>
  /\ UNCHANGED <<asked, broken, inbox, active, children>>
(* The worker fails or exits: #fail rejects everything that waits.           *)
Crash ==
  /\ worker.alive /\ worker' = [worker EXCEPT !.alive = FALSE] /\ broken' = TRUE
  /\ answered' = [r \in Wire |-> IF r \in waiting THEN "error" ELSE answered[r]] /\ waiting' = {}
  /\ shut' = IF shut = "closing" THEN "failed" ELSE shut
  /\ active' = {} /\ inbox' = <<>> /\ outbox' = <<>> /\ UNCHANGED <<asked, children>>

WorkerReplies(r, o) == outbox' = Append(outbox, [id |-> r, outcome |-> o])
(* The worker's message handler.                                             *)
Receive == LET r == Head(inbox) IN
  /\ worker.alive /\ inbox # <<>> /\ inbox' = Tail(inbox)
  /\ \/ /\ r = "close" /\ worker' = [worker EXCEPT !.closing = TRUE, !.tearing = TRUE] /\ UNCHANGED <<active, outbox>>
     \/ /\ r # "close" /\ (worker.closing \/ (r # "connect" /\ ~worker.connected))
        /\ WorkerReplies(r, "error") /\ UNCHANGED <<worker, active>>
     \/ /\ r # "close" /\ ~worker.closing /\ (r = "connect" \/ worker.connected)
        /\ active' = active \union {r} /\ UNCHANGED <<worker, outbox>>
  /\ UNCHANGED <<asked, waiting, answered, shut, broken, children>>
(* An operation of the worker ends; connecting may start child processes.    *)
FinishRequest(r) ==
  /\ worker.alive /\ r \in active /\ active' = active \ {r}
  /\ \E o \in {"result", "error"} : WorkerReplies(r, o) /\ worker' = [worker EXCEPT !.connected = @ \/ (r = "connect" /\ o = "result")]
  /\ children' \in (IF r = "connect" THEN BOOLEAN ELSE {children})
  /\ UNCHANGED <<asked, waiting, answered, shut, broken, inbox>>
(* runtime.close() has ended the server's processes, or has not.             *)
TearDown ==
  /\ worker.alive /\ worker.tearing /\ worker' = [worker EXCEPT !.tearing = FALSE]
  /\ children' \in {FALSE, children} /\ UNCHANGED <<asked, waiting, answered, shut, broken, inbox, outbox, active>>
(* The worker answers close only after its other operations have settled.    *)
\* As if the other operations were not waited for.
SettledAtOnce == worker.closing /\ ~worker.tearing
Settled == worker.closing /\ ~worker.tearing /\ active = {}
Closed ==
  /\ worker.alive /\ Settled /\ "close" \in waiting /\ ~\E i \in DOMAIN outbox : outbox[i].id = "close"
  /\ \/ WorkerReplies("close", IF children THEN "error" ELSE "result")
     \/ WorkerReplies("close", "error")
  /\ UNCHANGED <<asked, waiting, answered, shut, broken, inbox, worker, active, children>>
ConnNext == \/ \E r \in Wire : Ask(r) \/ FinishRequest(r)
            \/ AnswerRequest \/ Crash \/ Receive \/ TearDown \/ Closed
ConnSpec == ConnInit /\ [][ConnNext]_connVars

(* A connection that reports itself closed strands nobody and leaves no      *)
(* process behind: every request has been answered, and the server's child   *)
(* processes have ended.  Nor does a failed worker leave a request waiting.  *)
ClosedIsQuiet ==
  /\ shut = "closed" => waiting = {} /\ active = {} /\ ~children
  /\ broken => waiting = {}
  /\ \A r \in Wire : answered[r] = "none" => r \notin asked \/ r \in waiting
============================================================================
