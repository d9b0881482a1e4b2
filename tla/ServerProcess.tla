--------------------------- MODULE ServerProcess ---------------------------
(* The server process: createKiroMcpServer of kiro/mcp-server.ts and          *)
(* runKiroMcpProcess of kiro/mcp-entry.ts.  Start-up acquires one part after  *)
(* another and lists its cleanup; whatever ends the process first has the     *)
(* list run once, each cleanup though others fail, and waits a limited time.  *)
(* A part that fails to start stands for every throw of the start-up.         *)
EXTENDS Naturals, Sequences, FiniteSets, SequencesExt
CONSTANT Codes                                   \* exit codes of what may end the process
ASSUME ProcessAssumption == Codes \subseteq Nat
VARIABLES server,  \* parts started, cleanup, stage, the cleanups left, tried and failed
          entry    \* the waiting process: stage, code, exit
processVars == <<server, entry>>

Starts == <<"server", "data", "tracer", "navigator", "delivery", "session", "transport">>
ProcessInit ==
  /\ server = [started |-> 0, cleanup |-> <<>>, stage |-> "starting", left |-> <<>>, tried |-> <<>>, failed |-> {}]
  /\ entry = [stage |-> "starting", code |-> 0, exit |-> 0]

(* A part's cleanup goes before those of the parts it uses; the directories   *)
(* need none, and the transport ends with its server.                         *)
CleanupListed(part, list) == CASE part \in {"server", "tracer"} -> Append(list, part)
                               [] part \in {"navigator", "delivery", "session"} -> <<part>> \o list
                               [] OTHER -> list
(* close: its one task, whoever asks.                                         *)
CloseStarted(s) == IF s.stage \in {"closing", "closed"} THEN s ELSE [s EXCEPT !.stage = "closing", !.left = s.cleanup]
StartPart == /\ server.stage = "starting" /\ server.started < Len(Starts) /\ UNCHANGED entry
             /\ LET part == Starts[server.started + 1] IN
                server' = [server EXCEPT !.started = @ + 1, !.cleanup = CleanupListed(part, @)]
StartFails == /\ server.stage = "starting" /\ server.started < Len(Starts)
              /\ server' = CloseStarted(server) /\ entry' = [entry EXCEPT !.stage = "failing"]
TransportCloses == /\ server.started = Len(Starts) /\ server.stage \in {"starting", "serving"}
                   /\ server' = CloseStarted(server) /\ UNCHANGED entry
Serves == /\ entry.stage = "starting" /\ server.started = Len(Starts)
          /\ server' = IF server.stage = "starting" THEN [server EXCEPT !.stage = "serving"] ELSE server
          /\ entry' = [entry EXCEPT !.stage = "waiting"]
CleanUp == /\ server.stage = "closing" /\ server.left # <<>> /\ UNCHANGED entry
           /\ LET part == Head(server.left) IN \E bad \in {{}, {part}} :
              server' = [server EXCEPT !.left = Tail(@), !.tried = Append(@, part), !.failed = @ \union bad]
AllClosed == /\ server.stage = "closing" /\ server.left = <<>> /\ UNCHANGED entry
          /\ server' = [server EXCEPT !.stage = "closed"]
(* A signal, the end of the input, an error of it or the parent's death: the  *)
(* first one gives the exit code.                                             *)
EndsWith(code) == /\ entry.stage = "waiting"
              /\ server' = CloseStarted(server) /\ entry' = [entry EXCEPT !.stage = "closing", !.code = code]
Leaves(code) == entry' = [entry EXCEPT !.stage = "ended", !.exit = code] /\ UNCHANGED server
Exit == \/ entry.stage = "failing" /\ server.stage = "closed" /\ Leaves(1)
        \/ entry.stage = "closing" /\ server.stage = "closed" /\ Leaves(IF server.failed = {} THEN entry.code ELSE 1)
        \/ entry.stage = "closing" /\ server.stage = "closing" /\ Leaves(1)                 \* the time is over
ProcessNext == StartPart \/ StartFails \/ TransportCloses \/ Serves \/ CleanUp \/ AllClosed \/ Exit
               \/ \E code \in Codes : EndsWith(code)
ProcessSpec == ProcessInit /\ [][ProcessNext]_processVars

(* Whatever was started is cleaned up once, even if start-up fails half-way,  *)
(* two causes end the process or a cleanup fails, and a part is cleaned up    *)
(* before those it uses; an exit code other than 1 says that all succeeded.   *)
Uses == {<<"session", "navigator">>, <<"session", "delivery">>, <<"delivery", "server">>,
         <<"navigator", "tracer">>, <<"session", "tracer">>, <<"session", "server">>}
Begun == {Starts[i] : i \in 1..server.started} \ {"data", "transport"}
ProcessKept ==
  /\ IsInjective(server.tried) /\ Range(server.tried) \subseteq Begun
  /\ server.stage = "closed" => Range(server.tried) = Begun
  /\ \A u \in Uses : u[2] \in Range(server.tried) /\ u[1] \in Begun =>
       \E i, j \in DOMAIN server.tried : i < j /\ server.tried[i] = u[1] /\ server.tried[j] = u[2]
  /\ entry.stage = "ended" /\ entry.exit # 1 => server.stage = "closed" /\ server.failed = {}
=============================================================================
