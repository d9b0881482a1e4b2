-------------------------- MODULE ServiceLifecycle --------------------------
(* Admission, compilation, execution and shutdown of the executions of one    *)
(* FabricExecutionService, composed with its compiler pool:                   *)
(* execution-service.ts, execute and the frame of #execute, and close.  What  *)
(* a running execution does in its sandbox is modelled elsewhere; here it     *)
(* ends, and its local effects settle, at some later time.                    *)
EXTENDS CompilerPool

\* The service compiles with the pool's own workers.
ASSUME ServiceRequests == IsFiniteSet(Requests) /\ Custom = {}

VARIABLES
  stage,      \* of an execution: "none", "admitted", "compiling", "running",
              \* "settling" or "returned"
  status,     \* what it returned: a result status, "refused", or "none"
  cancelled,  \* the executions whose caller's signal is aborted
  revoked,    \* #closeController is aborted
  awaited,    \* the executions close took from #executions
  shutdown    \* of close: "open", "called", "draining", "runtime",
              \* "registry" or "done"

serviceVars == <<stage, status, cancelled, revoked, awaited, shutdown>>

ServiceInit ==
  /\ Init
  /\ stage = [r \in Requests |-> "none"]
  /\ status = [r \in Requests |-> "none"]
  /\ cancelled = {} /\ revoked = FALSE /\ awaited = {} /\ shutdown = "open"

\* #active counts an execution from its admission until it has returned.
Active == {r \in Requests : stage[r] \notin {"none", "returned"}}

\* AbortSignal.any of the caller's signal and the service's own.
Aborted(r) == revoked \/ r \in cancelled

Return(r, how) ==
  /\ stage' = [stage EXCEPT ![r] = "returned"]
  /\ status' = [status EXCEPT ![r] = how]

\* Mutant: a closed service still admits.
UnavailableFull == Cardinality(Active) >= MaxWorkers

Unavailable == revoked \/ Cardinality(Active) >= MaxWorkers

ExecuteRefused(r) ==
  /\ stage[r] = "none" /\ Unavailable
  /\ Return(r, "refused")
  /\ UNCHANGED <<cancelled, revoked, awaited, shutdown, vars>>

\* Admission; #execute itself starts in a later turn.
Execute(r) ==
  /\ stage[r] = "none" /\ ~Unavailable
  /\ stage' = [stage EXCEPT ![r] = "admitted"]
  /\ UNCHANGED <<status, cancelled, revoked, awaited, shutdown, vars>>

\* The source or a payload exceeds its limit.
StartOversized(r) ==
  /\ stage[r] = "admitted"
  /\ Return(r, "failed")
  /\ UNCHANGED <<cancelled, revoked, awaited, shutdown, vars>>

\* #execute calls the compiler with the combined signal.
Start(r) ==
  /\ stage[r] = "admitted"
  /\ Check(r)
  /\ verdict'[r] = "aborted" => Aborted(r)
  /\ Aborted(r) => Refuse(r)
  /\ stage' = [stage EXCEPT ![r] = "compiling"]
  /\ UNCHANGED <<status, cancelled, revoked, awaited, shutdown>>

\* The compilation has settled: run the program, or return its errors.
Compiled(r) ==
  /\ stage[r] = "compiling" /\ phase[r] = "done"
  /\ IF verdict[r] \in {"hit", "miss", "bypass"}
     THEN \/ stage' = [stage EXCEPT ![r] = "running"] /\ UNCHANGED status
          \/ verdict[r] # "hit" /\ Return(r, "failed")
     ELSE Return(r, IF Aborted(r) THEN "aborted"
                    ELSE IF verdict[r] = "timeout" THEN "timed_out" ELSE "failed")
  /\ UNCHANGED <<cancelled, revoked, awaited, shutdown, vars>>

\* The sandbox has returned; local effects may still be settling.
SandboxEnds(r) ==
  /\ stage[r] = "running"
  /\ stage' = [stage EXCEPT ![r] = "settling"]
  /\ UNCHANGED <<status, cancelled, revoked, awaited, shutdown, vars>>

\* Mutant: a completion is published though its signal was aborted meanwhile.
FinishLate(r) ==
  /\ stage[r] = "settling"
  /\ \E how \in {"succeeded", "failed", "timed_out", "aborted"} :
       /\ Return(r, how)
       /\ how = "aborted" => Aborted(r)
  /\ UNCHANGED <<cancelled, revoked, awaited, shutdown, vars>>

\* Local effects have settled; a signal aborted by now turns a completion into
\* a cancellation.
Finish(r) ==
  /\ stage[r] = "settling"
  /\ \E how \in {"succeeded", "failed", "timed_out", "aborted"} :
       /\ Return(r, IF how = "succeeded" /\ Aborted(r) THEN "aborted" ELSE how)
       /\ how = "aborted" => Aborted(r)
  /\ UNCHANGED <<cancelled, revoked, awaited, shutdown, vars>>

\* The abort listeners of the compilations that wait run with the abort.
AbortCompilations(S) == Stop({w \in Threads : pending[w] \in S}, "aborted")

CallerAborts(r) ==
  /\ stage[r] # "returned" /\ r \notin cancelled
  /\ cancelled' = cancelled \cup {r}
  /\ AbortCompilations({r})
  /\ UNCHANGED <<stage, status, revoked, awaited, shutdown, thread, posted, cacheVars, closing>>

-----------------------------------------------------------------------------
(* close                                                                      *)

\* close installs its promise and aborts every execution in the same turn.
ServiceClose ==
  /\ shutdown = "open"
  /\ shutdown' = "called" /\ revoked' = TRUE
  /\ AbortCompilations(Requests)
  /\ UNCHANGED <<stage, status, cancelled, awaited, thread, posted, cacheVars, closing>>

\* The next turn takes the executions to await and closes the compiler.
Drain ==
  /\ shutdown = "called"
  /\ shutdown' = "draining"
  /\ awaited' = Active
  /\ Close
  /\ UNCHANGED <<stage, status, cancelled, revoked>>

\* Executions and compiler settled: close the sandbox runtime, then the
\* registry, then resolve.
Advance(from, to) ==
  /\ shutdown = from /\ shutdown' = to
  /\ UNCHANGED <<stage, status, cancelled, revoked, awaited, vars>>

Drained == closing = "closed" /\ awaited \cap Active = {}

CloseRuntime == Drained /\ Advance("draining", "runtime")
CloseRegistry == Advance("runtime", "registry")
ShutdownDone == Advance("registry", "done")

\* The pool's own steps; its close and the abort of a signal are the service's.
PoolEvent == /\ \/ \E w \in Threads : \/ Reply(w) \/ ErrorEvent(w) \/ Exit(w)
                                      \/ Terminated(w) \/ IdleTimer(w) \/ Expire(w)
                \/ CloseDone
             /\ UNCHANGED serviceVars

Step(r) == \/ ExecuteRefused(r) \/ Execute(r) \/ StartOversized(r) \/ Start(r)
           \/ Compiled(r) \/ SandboxEnds(r) \/ Finish(r) \/ CallerAborts(r)

ServiceNext == \/ \E r \in Requests : Step(r)
               \/ ServiceClose \/ Drain \/ CloseRuntime \/ CloseRegistry \/ ShutdownDone
               \/ PoolEvent

allVars == <<vars, serviceVars>>

ServiceSpec == ServiceInit /\ [][ServiceNext]_allVars

-----------------------------------------------------------------------------
(* Properties                                                                 *)

\* An admitted execution is never refused by the compiler pool: the service's
\* admission leaves a worker for each of its executions, though the pool
\* counts workers and the service counts executions.
AdmittedIsServed == \A r \in Requests : verdict[r] # "limit"

\* No execution survives the drain that precedes the close of the sandbox
\* runtime and of the providers: none was admitted after close took its list.
NothingOutlivesDrain == shutdown \in {"runtime", "registry", "done"} => Active = {}

\* The service and its pool agree on who may enter: who was admitted is never
\* refused a compiler, and nobody is admitted behind the back of close.
ServiceKept == AdmittedIsServed /\ NothingOutlivesDrain

\* When close resolves every compiler thread of the service has exited.
ServiceClosedStops ==
  shutdown = "done" => \A w \in Threads : thread[w] # "running"

\* A cancellation is never reported as a success, in whichever stage the signal
\* was aborted, and a compilation it ended returns "aborted" rather than the
\* failure the pool raised.
CancellationReported ==
  [][\A r \in Requests : stage'[r] = "returned" /\ stage[r] # "returned" =>
       /\ Aborted(r) => status'[r] # "succeeded"
       /\ stage[r] = "compiling" /\ verdict[r] = "aborted" => status'[r] = "aborted"]_allVars

\* Every admitted execution returns.
ExecutionsReturn == \A r \in Requests : (stage[r] = "admitted") ~> (stage[r] = "returned")

=============================================================================
