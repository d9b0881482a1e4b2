------------------------------ MODULE MCHosts ------------------------------
(* Small instances of the modules around a running program: its deadline,     *)
(* its host calls on both sides, the registry, the providers it reaches, the  *)
(* stores that keep what they return, the client's roots and the process.     *)
(* They share no state: the initial state chooses one part, only that part    *)
(* moves, and the others rest where they begin.                               *)
EXTENDS Deadline, HostBridge, GuestBridge, WorkspaceContext, ServerProcess, ActionRegistry, CatalogStore, ArtifactStore, TraceWriter,
        McpProvider, McpConnection, McpConfiguration,
        LocalWorkspace, LocalShell, LocalText, TLC

CONSTANTS u1, u2, res1

VARIABLE part

\* Two of whatever acts: threads, queries, callers, runtimes.  Each part treats
\* its two alike.
Two == {u1, u2}
Interchangeable == Permutations(Two)
\* One program makes two effects or switches at once, another one writes.
KindsOf == ("e1" :> {"effect", "switch"}) @@ ("e2" :> {"write"})
CallsOf == ("e1" :> 2) @@ ("e2" :> 1)
\* Descriptors that fit a page and that need several.
SmallCatalogs == {<<>>, <<4>>, <<1, 3, 1>>}
\* Floors below, inside and above what the maximum allows.
ShortAndLong == {0, 3, 6}

Parts == {"deadline", "bridge", "guest", "context", "process", "registry", "catalog", "artifacts",
          "trace", "provider", "connection", "configuration", "workspace", "shell", "pages", "text"}

\* The initial states of a part that has several; of the others' it has one.
Rest(p, Begins, rests) == IF part = p THEN Begins ELSE rests
NoEdits == [text |-> <<>>, edits |-> [k \in 1..2 |-> [old |-> <<1>>, new |-> <<>>, all |-> FALSE]]]

HostsInit ==
  /\ part \in Parts
  /\ DeadlineInit /\ (part # "deadline" => now = 0)
  /\ BridgeInit /\ GuestInit /\ ContextInit /\ ProcessInit /\ RegInit /\ CatalogInit /\ ArtifactInit /\ TraceInit
  /\ McpInit /\ ConnInit /\ ConfInit
  /\ LocalInit /\ ShellInit
  /\ PagesInit /\ (part # "pages" => reading.asked = <<>>)
  /\ Rest("text", TextInit, edit = NoEdits)

OthersRest(p) ==
  /\ UNCHANGED part
  /\ p # "deadline" => UNCHANGED deadlineVars
  /\ p # "bridge" => UNCHANGED bridgeVars
  /\ p # "guest" => UNCHANGED guestVars
  /\ p # "context" => UNCHANGED contextVars
  /\ p # "process" => UNCHANGED processVars
  /\ p # "registry" => UNCHANGED regVars
  /\ p # "catalog" => UNCHANGED catalogVars
  /\ p # "artifacts" => UNCHANGED artifactVars
  /\ p # "trace" => UNCHANGED traceVars
  /\ p # "provider" => UNCHANGED mcpVars
  /\ p # "connection" => UNCHANGED connVars
  /\ p # "configuration" => UNCHANGED confVars
  /\ p # "workspace" => UNCHANGED localVars
  /\ p # "shell" => UNCHANGED shellVars
  /\ p # "pages" => UNCHANGED pageVars
  /\ p # "text" => UNCHANGED textVars

HostsNext ==
  \/ part = "deadline" /\ OthersRest("deadline") /\ DeadlineNext
  \/ part = "bridge" /\ OthersRest("bridge") /\ BridgeNext
  \/ part = "guest" /\ OthersRest("guest") /\ GuestNext
  \/ part = "context" /\ OthersRest("context") /\ ContextNext
  \/ part = "process" /\ OthersRest("process") /\ ProcessNext
  \/ part = "registry" /\ OthersRest("registry") /\ RegNext
  \/ part = "catalog" /\ OthersRest("catalog") /\ CatalogNext
  \/ part = "artifacts" /\ OthersRest("artifacts") /\ ArtifactNext
  \/ part = "trace" /\ OthersRest("trace") /\ TraceNext
  \/ part = "provider" /\ OthersRest("provider") /\ McpNext
  \/ part = "connection" /\ OthersRest("connection") /\ ConnNext
  \/ part = "configuration" /\ OthersRest("configuration") /\ ConfNext
  \/ part = "workspace" /\ OthersRest("workspace") /\ LocalNext
  \/ part = "shell" /\ OthersRest("shell") /\ ShellNext
  \/ part = "pages" /\ OthersRest("pages") /\ PagesNext
  \/ part = "text" /\ OthersRest("text") /\ TextNext

hostsVars ==
  <<part, deadlineVars, bridgeVars, guestVars, contextVars, processVars, regVars, catalogVars, artifactVars, traceVars, mcpVars,
    connVars, confVars, localVars, shellVars, pageVars, textVars>>

HostsSpec == HostsInit /\ [][HostsNext]_hostsVars

(* Configured servers: one call at a time works over an approved transport,   *)
(* no catalogue is served that was replaced or changed, and whatever begins   *)
(* or outlives close is disposed.  What is left of the private copy of the    *)
(* configuration is what was found different or could not be removed.         *)
ProviderKept == LaneHoldsApproved /\ CatalogueHonest /\ ProviderAccounted /\ SnapshotAccounted

(* Around the session: nobody is told of roots older than its question, and   *)
(* the process leaves with everything it started cleaned up, users first.     *)
SurroundingsKept == ContextKept /\ ProcessKept

(* Host calls of concurrent executions: a failed effect is the last of its    *)
(* execution, writers exclude each other, a report waits for every call, and  *)
(* a lost acknowledgement is told as unknown.  In the guest no permit of its  *)
(* semaphore is lost, and parallel() tells all results or a failure.          *)
BridgeKept == FailurePoisons /\ WritersExclude /\ ReportedIsSettled /\ PublicationTold /\ GuestKept

(* The local provider: effects replace what was approved, a shell result is   *)
(* told when its group is over, pages lose and repeat nothing, and what a     *)
(* review shows is what is written.                                           *)
LocalProviderKept == LocalSafe /\ ShellSafe /\ PagesKept /\ TextTrue

(* Catalogue snapshots and the trace: no page of a withdrawn authority or of  *)
(* another snapshot, and no trace line lost in silence.                       *)
StoresKept == CatalogKept /\ TraceKept
=============================================================================
