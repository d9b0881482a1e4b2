---------------------------- MODULE McpProvider ----------------------------
(* The provider of external MCP servers, kiro/mcp-provider.ts: one runtime,  *)
(* created on first use, one connection per server, and calls that discover  *)
(* a server's tools and then call one of them.  Calls of one server pass     *)
(* through a lane in the order of arrival; cancelling a call ends it for its *)
(* caller, not for the transport, so the lane is handed on only when the raw *)
(* work has settled.  A transport is the version of the files and settings   *)
(* it was approved with, which may change at any time.  Payloads, schemas    *)
(* and unknown names are left out; so is the time that passes (a timeout is  *)
(* a step that may be taken at any moment).                                  *)
EXTENDS Naturals, Sequences, FiniteSets
CONSTANTS Callers, Servers, MaxVersions, MaxObserved
ASSUME McpAssumption == /\ MaxVersions \in Nat /\ MaxObserved \in Nat \ {0}
                        /\ "none" \notin Callers
VARIABLES transport,  \* [server |-> version of its executable, files and settings]
          mcpRuntime, \* "none" | "creating" | "ready" | "late" | "disposed" | "undisposed"
          mcpClosing, \* [phase, had]: close(), and the runtime it found
          caller,     \* [caller |-> [pc, server, kind, approved]]
          lane,       \* [server |-> the callers in the order of #serverTails]
          raw,        \* [caller |-> its work still in the transport]
          link,       \* [server |-> [digest, live, state]] connection and its closure
          authority   \* what discovery has published and which tickets are current
mcpVars == <<transport, mcpRuntime, mcpClosing, caller, lane, raw, link, authority>>

None == "none"
Idle == [pc |-> "idle", server |-> None, kind |-> None, approved |-> 0]
Bounded == {"reclosing", "listing", "calling", "recovering"}   \* inside #bounded
Absent == MaxVersions + 1                                      \* no version: no connection
Unlinked == [digest |-> Absent, live |-> Absent, state |-> "idle"]
McpInit ==
  /\ transport = [s \in Servers |-> 0] /\ mcpRuntime = "none"
  /\ mcpClosing = [phase |-> "open", had |-> "none"]
  /\ caller = [c \in Callers |-> Idle] /\ lane = [s \in Servers |-> <<>>]
  /\ raw = [c \in Callers |-> None] /\ link = [s \in Servers |-> Unlinked]
  /\ authority = [fresh |-> {}, reserved |-> {}, invalid |-> {}, cursors |-> {},
                  observed |-> [s \in Servers |-> None], listed |-> [s \in Servers |-> None], current |-> TRUE]

(* #evict: revoke the tickets and the inventory of these servers, and the    *)
(* aggregate catalogue with them.                                            *)
EvictedQuietly(a, S) == [a EXCEPT !.fresh = {c \in @ : caller[c].server \notin S},
  !.cursors = {c \in @ : caller[c].server \notin S}, !.invalid = @ \union (a.reserved \intersect S),
  !.observed = [s \in Servers |-> IF s \in S THEN None ELSE @[s]]]
Evicted(a, S) == [EvictedQuietly(a, S) EXCEPT !.current = FALSE]
Released(a, s) == [a EXCEPT !.reserved = @ \ {s}, !.invalid = @ \ {s}]
Closing(l) == IF l.state = "idle" THEN [l EXCEPT !.state = "closing"] ELSE l
(* The snapshot of a transport and its comparison with the approved one.     *)
CurrentTransport(s) == transport[s]
Unchanged(c) == CurrentTransport(caller[c].server) = caller[c].approved
Cancelled == mcpClosing.phase # "open"
Enter(c, pc) == caller' = [caller EXCEPT ![c].pc = pc]
(* The operation of a lease throws: its catch evicts, its finally releases.  *)
OperationFails(c) == LET s == caller[c].server IN
  Enter(c, "failed") /\ authority' = Released(Evicted(authority, {s}), s)

(* invoke and prepareArguments up to the runtime.                            *)
Invoke(c, s, k) ==
  /\ caller[c].pc = "idle"
  /\ caller' = [caller EXCEPT ![c] = [pc |-> IF Cancelled THEN "failed" ELSE "runtime", server |-> s, kind |-> k, approved |-> 0]]
  /\ authority' = IF Cancelled THEN authority ELSE [authority EXCEPT !.fresh = @ \union {c}]
  /\ mcpRuntime' = IF ~Cancelled /\ mcpRuntime = "none" THEN "creating" ELSE mcpRuntime
  /\ UNCHANGED <<transport, mcpClosing, lane, raw, link>>
(* The runtime is there: the transport to be approved is read.               *)
Snapshot(c) == LET s == caller[c].server IN
  /\ caller[c].pc = "runtime" /\ mcpRuntime = "ready" /\ ~Cancelled
  /\ IF link[s].state = "failed"
       THEN Enter(c, "failed") /\ authority' = Evicted(authority, {s})
       ELSE caller' = [caller EXCEPT ![c].pc = "approving", ![c].approved = CurrentTransport(s)] /\ UNCHANGED authority
  /\ UNCHANGED <<transport, mcpRuntime, mcpClosing, lane, raw, link>>
(* #approveExecution is refused, or the call is cancelled while it asks.     *)
Refused(c) ==
  /\ caller[c].pc = "approving" /\ Enter(c, "failed") /\ authority' = Evicted(authority, {caller[c].server})
  /\ UNCHANGED <<transport, mcpRuntime, mcpClosing, lane, raw, link>>
Approved(c) ==
  /\ caller[c].pc = "approving" /\ ~Cancelled /\ Enter(c, "queued")
  /\ lane' = [lane EXCEPT ![caller[c].server] = Append(@, c)]
  /\ UNCHANGED <<transport, mcpRuntime, mcpClosing, raw, link, authority>>
(* Cancelled before its turn: it keeps its place in the lane.                *)
Withdrawn(c) ==
  /\ caller[c].pc \in {"runtime", "queued"} /\ Enter(c, "failed")
  /\ UNCHANGED <<transport, mcpRuntime, mcpClosing, lane, raw, link, authority>>

(* #listRawTools: a connection opened for another transport is closed first. *)
Connect(c, s) ==
  IF link[s].digest \notin {Absent, caller[c].approved}
    THEN Enter(c, "reclosing") /\ link' = [link EXCEPT ![s] = Closing(@)] /\ UNCHANGED raw
    ELSE /\ Enter(c, "listing") /\ raw' = [raw EXCEPT ![c] = "list"]
         /\ link' = [link EXCEPT ![s].digest = caller[c].approved,
                                 ![s].live = IF @ = Absent THEN caller[c].approved ELSE @]
(* The lease is granted: tickets, reservation and transport are looked at    *)
(* again before the server is contacted.                                     *)
Grant(c) == LET s == caller[c].server
                a == IF caller[c].kind = "call" THEN [authority EXCEPT !.fresh = @ \union {c}] ELSE authority IN
  /\ caller[c].pc = "queued" /\ Head(lane[s]) = c /\ ~Cancelled
  /\ \/ link[s].state = "failed" /\ Enter(c, "failed") /\ UNCHANGED <<raw, link, authority>>
     \/ /\ link[s].state # "failed" /\ (c \notin a.fresh \/ ~Unchanged(c))
        /\ OperationFails(c) /\ UNCHANGED <<raw, link>>
     \/ /\ link[s].state # "failed" /\ c \in a.fresh /\ Unchanged(c)
        /\ authority' = [a EXCEPT !.reserved = @ \union {s}] /\ Connect(c, s)
  /\ UNCHANGED <<transport, mcpRuntime, mcpClosing, lane>>
Reconnect(c) == LET s == caller[c].server IN
  /\ caller[c].pc = "reclosing" /\ link[s].state # "closing"
  /\ IF link[s].state = "failed" \/ ~Unchanged(c)
       THEN OperationFails(c) /\ UNCHANGED <<raw, link>>
       ELSE Connect(c, s) /\ UNCHANGED authority
  /\ UNCHANGED <<transport, mcpRuntime, mcpClosing, lane>>

(* A complete listing is published: others make room for it, older pages of  *)
(* this server and the aggregate lose their authority.                       *)
Published(a, c, s, crowd) == LET b == IF crowd = {} THEN a ELSE Evicted(a, crowd) IN
  [b EXCEPT !.observed[s] = c, !.current = FALSE,
     !.cursors = {d \in @ : caller[d].server # s} \union (IF caller[c].kind = "tools" THEN {c} ELSE {})]
(* The oldest inventories that have to go before one more is retained.       *)
MadeRoom(others) == {w \in SUBSET others : Cardinality(w) =
  IF Cardinality(others) < MaxObserved THEN 0 ELSE Cardinality(others) + 1 - MaxObserved}
Listed(c) == LET s == caller[c].server
                 others == {t \in Servers \ {s} : authority.observed[t] # None} IN
  /\ caller[c].pc = "listing"
  /\ IF ~Unchanged(c) \/ c \notin authority.fresh \/ s \in authority.invalid
       THEN OperationFails(c) /\ raw' = [raw EXCEPT ![c] = None]
       ELSE \E crowd \in MadeRoom(others) :
            LET a == Published(authority, c, s, crowd) IN
            \/ /\ caller[c].kind = "tools" /\ Enter(c, "ok") /\ authority' = Released(a, s)
               /\ raw' = [raw EXCEPT ![c] = None]
            \/ /\ caller[c].kind = "call" /\ Enter(c, "calling") /\ authority' = a
               /\ raw' = [raw EXCEPT ![c] = "tool"]
            \/ \* the tool is not there, has changed, or its arguments are refused
               /\ Enter(c, "failed") /\ authority' = Released(Evicted(a, {s}), s) /\ raw' = [raw EXCEPT ![c] = None]
  /\ UNCHANGED <<transport, mcpRuntime, mcpClosing, lane, link>>
Called(c) == LET s == caller[c].server IN
  /\ caller[c].pc = "calling" /\ raw' = [raw EXCEPT ![c] = None]
  /\ \/ Enter(c, "ok") /\ authority' = Released(authority, s)
     \/ OperationFails(c)                                  \* the result is an error or does not fit
  /\ UNCHANGED <<transport, mcpRuntime, mcpClosing, lane, link>>
(* The transport fails: the connection is closed before the call fails.      *)
TransportFails(c) == LET s == caller[c].server IN
  /\ caller[c].pc \in {"listing", "calling"} /\ Enter(c, "recovering") /\ raw' = [raw EXCEPT ![c] = None]
  /\ link' = [link EXCEPT ![s] = Closing(@)]
  /\ authority' = IF raw[c] = "list" THEN Evicted(authority, {s}) ELSE authority
  /\ UNCHANGED <<transport, mcpRuntime, mcpClosing, lane>>
Recovered(c) ==
  /\ caller[c].pc = "recovering" /\ link[caller[c].server].state # "closing" /\ OperationFails(c)
  /\ UNCHANGED <<transport, mcpRuntime, mcpClosing, lane, raw, link>>

(* terminate(): a timeout, or the caller's abort.                            *)
TerminateServer(c) == LET s == caller[c].server IN
  /\ caller[c].pc \in Bounded /\ Enter(c, "terminating")
  /\ authority' = Evicted(authority, {s}) /\ link' = [link EXCEPT ![s] = Closing(@)]
  /\ UNCHANGED <<transport, mcpRuntime, mcpClosing, lane, raw>>
(* The caller hears of it when the closure has settled or the grace is over. *)
ServerTerminated(c) ==
  /\ caller[c].pc = "terminating" /\ OperationFails(c)
  /\ UNCHANGED <<transport, mcpRuntime, mcpClosing, lane, raw, link>>
(* The raw work of a terminated call settles; a failure closes once more.    *)
RawSettles(c) == LET s == caller[c].server IN
  /\ raw[c] # None /\ caller[c].pc \in {"terminating", "failed"} /\ raw' = [raw EXCEPT ![c] = None]
  /\ \/ UNCHANGED <<link, authority>>
     \/ /\ link' = [link EXCEPT ![s] = Closing(@)]
        /\ authority' = IF raw[c] = "list" THEN Evicted(authority, {s}) ELSE authority
  /\ UNCHANGED <<transport, mcpRuntime, mcpClosing, caller, lane>>
(* The lease ends: predecessor, raw work and closure have all settled.       *)
Quiescent(c) == raw[c] = None /\ link[caller[c].server].state # "closing"
HandOn(c) == LET s == caller[c].server IN
  /\ caller[c].pc \in {"ok", "failed"} /\ lane[s] # <<>> /\ Head(lane[s]) = c /\ Quiescent(c)
  /\ lane' = [lane EXCEPT ![s] = Tail(@)]
  /\ UNCHANGED <<transport, mcpRuntime, mcpClosing, caller, raw, link, authority>>
(* #closeServer settles; its failure makes the server unusable for good.     *)
ServerClosed(s) ==
  /\ link[s].state = "closing"
  /\ \/ link' = [link EXCEPT ![s] = Unlinked] /\ UNCHANGED authority
     \/ link' = [link EXCEPT ![s].state = "failed"] /\ authority' = Evicted(authority, {s})
  /\ UNCHANGED <<transport, mcpRuntime, mcpClosing, caller, lane, raw>>

(* #getRuntime: creation settles, perhaps after close has begun.             *)
CreatedAnyhow == "ready"                                \* as if close were not looked at
CreatedInTime == IF mcpClosing.phase = "open" THEN "ready" ELSE "late"
Created ==
  /\ mcpRuntime = "creating"
  /\ \/ mcpRuntime' = CreatedInTime /\ UNCHANGED caller
     \/ /\ mcpRuntime' = "none"
        /\ caller' = [c \in Callers |-> IF caller[c].pc = "runtime" THEN [caller[c] EXCEPT !.pc = "failed"] ELSE caller[c]]
  /\ UNCHANGED <<transport, mcpClosing, lane, raw, link, authority>>
(* close(): revoke, abort every call, then wait for the lanes.               *)
CloseProvider ==
  /\ mcpClosing.phase = "open" /\ mcpClosing' = [phase |-> "lanes", had |-> mcpRuntime]
  /\ authority' = Evicted(authority, Servers)
  /\ caller' = [c \in Callers |-> IF caller[c].pc \in Bounded THEN [caller[c] EXCEPT !.pc = "terminating"] ELSE caller[c]]
  /\ link' = [s \in Servers |-> IF \E c \in Callers : caller[c].pc \in Bounded /\ caller[c].server = s THEN Closing(link[s]) ELSE link[s]]
  /\ UNCHANGED <<transport, mcpRuntime, lane, raw>>
LanesDrained ==
  /\ mcpClosing.phase = "lanes" /\ \A s \in Servers : lane[s] = <<>>
  /\ mcpClosing' = [mcpClosing EXCEPT !.phase = IF mcpClosing.had = "none" THEN "done" ELSE "runtime"]
  /\ UNCHANGED <<transport, mcpRuntime, caller, lane, raw, link, authority>>
(* #disposeRuntime: once the closures have settled, the runtime is closed.   *)
Dispose ==
  /\ mcpRuntime = "late" \/ (mcpRuntime = "ready" /\ mcpClosing.phase = "runtime")
  /\ \A s \in Servers : link[s].state # "closing"
  /\ \/ /\ \A s \in Servers : link[s].state # "failed"
        /\ mcpRuntime' = "disposed" /\ link' = [s \in Servers |-> Unlinked]
     \/ mcpRuntime' = "undisposed" /\ UNCHANGED link
  /\ UNCHANGED <<transport, mcpClosing, caller, lane, raw, authority>>
CloseSettled ==
  /\ mcpClosing.phase = "runtime"
  /\ \/ /\ mcpRuntime \in {"none", "disposed", "undisposed"}
        /\ mcpClosing' = [mcpClosing EXCEPT !.phase = IF mcpRuntime = "undisposed" THEN "failed" ELSE "done"]
     \/ /\ mcpClosing.had = "creating" /\ mcpRuntime \in {"creating", "ready", "late"}   \* the grace is over
        /\ mcpClosing' = [mcpClosing EXCEPT !.phase = "failed"]
  /\ UNCHANGED <<transport, mcpRuntime, caller, lane, raw, link, authority>>

(* Environment: the approved files change; a caller invalidates discovery;   *)
(* a reader takes the ticket of the aggregate catalogue.                     *)
Retarget(s) ==
  /\ transport[s] < MaxVersions /\ transport' = [transport EXCEPT ![s] = @ + 1]
  /\ UNCHANGED <<mcpRuntime, mcpClosing, caller, lane, raw, link, authority>>
Invalidate(s) ==
  /\ authority.observed[s] # None /\ authority' = Evicted(authority, {s})
  /\ UNCHANGED <<transport, mcpRuntime, mcpClosing, caller, lane, raw, link>>
ReadCatalogue ==
  /\ ~authority.current /\ ~Cancelled /\ authority' = [authority EXCEPT !.listed = authority.observed, !.current = TRUE]
  /\ UNCHANGED <<transport, mcpRuntime, mcpClosing, caller, lane, raw, link>>

McpCall(c) == \/ Snapshot(c) \/ Refused(c) \/ Approved(c) \/ Withdrawn(c) \/ Grant(c) \/ Reconnect(c) \/ Listed(c) \/ Called(c)
              \/ TransportFails(c) \/ Recovered(c) \/ TerminateServer(c) \/ ServerTerminated(c) \/ RawSettles(c) \/ HandOn(c)
McpNext == \/ \E c \in Callers : McpCall(c) \/ \E s \in Servers, k \in {"call", "tools"} : Invoke(c, s, k)
           \/ \E s \in Servers : ServerClosed(s) \/ Retarget(s) \/ Invalidate(s)
           \/ Created \/ CloseProvider \/ LanesDrained \/ Dispose \/ CloseSettled \/ ReadCatalogue
McpSpec == McpInit /\ [][McpNext]_mcpVars

(* One call at a time works in a server's transport, a cancelled call whose  *)
(* work has not settled included, and a tool is called only over a           *)
(* connection that was opened for the transport the user approved.           *)
LaneHoldsApproved ==
  /\ \A c, d \in Callers : c # d /\ raw[c] # None /\ raw[d] # None => caller[c].server # caller[d].server
  /\ \A c \in Callers : raw[c] = "tool" => link[caller[c].server].live \in {Absent, caller[c].approved}
(* A page handed out is current only while its inventory is the observed     *)
(* one; a call that failed leaves no inventory; and a reader's aggregate     *)
(* ticket is current only while the catalogue is the one it read.            *)
CatalogueHonest ==
  /\ \A c \in authority.cursors : authority.observed[caller[c].server] = c
  /\ \A s \in Servers : authority.observed[s] # None => caller[authority.observed[s]].pc # "failed"
  /\ authority.current => authority.listed = authority.observed
(* Close reports success only when no work is left in any transport and the  *)
(* runtime, one that arrived late included, has been disposed of; after a    *)
(* failed close no runtime is left that nobody disposes of.                  *)
ProviderAccounted ==
  /\ mcpClosing.phase = "done" =>
       /\ mcpRuntime \in {"none", "disposed"}
       /\ \A c \in Callers : raw[c] = None
       /\ \A s \in Servers : link[s].live = Absent
  /\ mcpClosing.phase = "failed" => mcpRuntime # "ready"
============================================================================
