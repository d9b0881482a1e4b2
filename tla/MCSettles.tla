----------------------------- MODULE MCSettles -----------------------------
(* What must end ends: small instances of everything that promises an answer, *)
(* under the fairness each module justifies.  They share no state: the        *)
(* initial state chooses one part, and only that part moves.  At rest no part *)
(* has a step that its fairness asks for.                                     *)
EXTENDS ServiceLifecycle, TLC

CONSTANTS r1, r2, w1, w2, kA,                  \* executions, compiler threads, a cache key
          c1, c2, Session, d1, NoRoot,         \* calls of a session, and its directory
          i1, cA, l1, NoJob,                   \* a Navigator invocation, conversation and root
          h1, h2                               \* threads that share a deadline

VARIABLES
  part,
  setup, disk, changes, candidates, binding, autobind, advertised, blocked,
  runtime, identity, runtimes, tail, calls, active, failed, closer,
  child, generation, kid, started, stopping, failure, exhausted, crashes, shut,
  closeTask, cleanup, retained, request, lease, controls, retirements, queue,
  running, inv, observed, version, covered, stored, claims, hostClosing,
  shell,
  now, startedAt, cell, built, pc, prev, req

-----------------------------------------------------------------------------
(* The parts.                                                                 *)

\* Every program is the same, so that a miss, a hit and concurrent misses occur.
MCKeyOf == [r \in Requests |-> kA]
MCChars == [k \in Keys |-> 1]

\* One directory, everything may fail, and the session may close.
SettlingSetups ==
  {[roots |-> {d1}, launch |-> NoRoot, injected |-> FALSE,
    kinds |-> {"exec", "workspace"}, switches |-> {"detach"},
    fail |-> TRUE, close |-> TRUE]}
M == INSTANCE McpSession
     WITH Calls <- {c1, c2}, Roots <- {d1}, Setups <- SettlingSetups, MaxRuntimes <- 2, MaxIdentity <- 1, MaxChanges <- 0

\* One invocation and the retirement of its conversation.
SomeKinds == i1 :> {"sync", "reload", "reset", "context"}
OneRoot == l1 :> cA
N == INSTANCE NavigatorHost
     WITH start <- started, retiring <- retirements, Roots <- {l1}, OwnerOf <- OneRoot,
          Invocations <- {i1}, Owners <- {cA}, Jobs <- {i1, cA}, Operations <- SomeKinds,
          CrashBudget <- 1, MaxGenerations <- 2, MaxQueue <- 1, MaxObservations <- 0

S == INSTANCE LocalShell
ShellResting == [at |-> "told", leader |-> "gone", code |-> "zero", member |-> "none",
                 closed |-> TRUE, cancelled |-> FALSE, stop |-> FALSE, doubt |-> FALSE, told |-> "ok"]

D == INSTANCE Deadline
     WITH start <- startedAt, Holders <- {h1, h2}, Timeout <- 1, Maximum <- 2,
          Floors <- {0, 3}, MaxNow <- 2

-----------------------------------------------------------------------------
Init1(p, Begins, rests) == IF part = p THEN Begins ELSE rests

SettlesInit ==
  /\ part \in {"service", "session", "navigator", "shell", "deadline"}
  /\ ServiceInit /\ M!Init /\ N!NavigatorInit
  /\ Init1("shell", S!ShellInit, shell = ShellResting)
  /\ D!DeadlineInit /\ (part # "deadline" => now = 0)

sessionVars ==
  <<setup, disk, changes, candidates, binding, autobind, advertised, blocked,
    runtime, identity, runtimes, tail, calls, active, failed, closer>>
hostsVars ==
  <<child, generation, kid, started, stopping, failure, exhausted, crashes, shut,
    closeTask, cleanup, retained, request, lease, controls, retirements, queue,
    running, inv, observed, version, covered, stored, claims, hostClosing>>
clockVars == <<now, startedAt, cell, built, pc, prev, req>>

OthersRest(p) ==
  /\ UNCHANGED part
  /\ p # "service" => UNCHANGED allVars
  /\ p # "session" => UNCHANGED sessionVars
  /\ p # "navigator" => UNCHANGED hostsVars
  /\ p # "shell" => UNCHANGED shell
  /\ p # "deadline" => UNCHANGED clockVars

SettlesNext ==
  \/ part = "service" /\ OthersRest("service") /\ ServiceNext
  \/ part = "session" /\ OthersRest("session") /\ M!Next
  \/ part = "navigator" /\ OthersRest("navigator") /\ N!NavigatorNext
  \/ part = "shell" /\ OthersRest("shell") /\ S!ShellNext
  \/ part = "deadline" /\ OthersRest("deadline") /\ D!DeadlineNext

settlesVars == <<part, allVars, sessionVars, hostsVars, shell, clockVars>>

\* The fairness of each module, asked for while its part is the one that moves.
ServiceIsFair ==
  /\ \A r \in Requests :
       /\ WF_allVars(part = "service" /\ Start(r)) /\ WF_allVars(part = "service" /\ Compiled(r))
       /\ WF_allVars(part = "service" /\ SandboxEnds(r)) /\ WF_allVars(part = "service" /\ Finish(r))
  /\ \A w \in Threads :
       /\ WF_allVars(part = "service" /\ Expire(w) /\ UNCHANGED serviceVars)
       /\ WF_allVars(part = "service" /\ termination[w] = "begun" /\ Exit(w) /\ UNCHANGED serviceVars)
       /\ WF_allVars(part = "service" /\ Terminated(w) /\ UNCHANGED serviceVars)
  /\ WF_allVars(part = "service" /\ ((CloseDone /\ UNCHANGED serviceVars) \/ Drain \/ CloseRuntime \/ CloseRegistry \/ ShutdownDone))
SessionIsFair ==
  /\ \A c \in {c1, c2} :
       /\ WF_sessionVars(part = "session" /\ (M!Observe(c) \/ M!Sync(c) \/ M!Refused(c) \/ M!StartExec(c) \/ M!StartInfo(c)
                                           \/ M!StartWorkspace(c) \/ M!Prompted(c) \/ M!Obtain(c) \/ M!Made(c)
                                           \/ M!Discarded(c) \/ M!Mutate(c) \/ M!Deferred(c) \/ M!Resume(c) \/ M!End(c)
                                           \/ M!Project(c) \/ M!Return(c)))
  /\ \A r \in M!Runtimes : WF_sessionVars(part = "session" /\ M!Drained(r)) /\ WF_sessionVars(part = "session" /\ M!RuntimeClosed(r))
  /\ WF_sessionVars(part = "session" /\ (M!CloseRuntime \/ M!CloseDrained \/ M!Closed))

SettlesSpec ==
  /\ SettlesInit /\ [][SettlesNext]_settlesVars
  /\ ServiceIsFair /\ SessionIsFair
  /\ WF_hostsVars(part = "navigator" /\ N!HostSteps)
  /\ WF_shell(part = "shell" /\ S!ShellHost)
  /\ \A t \in {h1, h2} : WF_clockVars(part = "deadline" /\ D!DeadlineStep(t))

-----------------------------------------------------------------------------
(* Properties.                                                                *)

\* What is promised, by part: two answers and an end.
Promises == {"first", "second", "end"}
Asked(p) ==
  \/ part = "service" /\ p = "end" /\ shutdown = "called"
  \/ part = "session" /\ \/ p = "first" /\ calls[c1].at # "idle"
                         \/ p = "second" /\ calls[c2].at # "idle"
                         \/ p = "end" /\ closer # "open"
  \/ part = "navigator" /\ \/ p = "first" /\ inv[i1].pc = "admitting"
                           \/ p = "second" /\ retirements[cA] = "pending"
                           \/ p = "end" /\ hostClosing # "open"
  \/ part = "shell" /\ p = "end"
  \/ part = "deadline" /\ ((p = "first" /\ pc[h1] # "idle") \/ (p = "second" /\ pc[h2] # "idle"))
Kept(p) ==
  \/ part = "service" /\ shutdown = "done"
  \/ part = "session" /\ \/ p = "first" /\ calls[c1].at = "done"
                         \/ p = "second" /\ calls[c2].at = "done"
                         \/ p = "end" /\ closer \in {"resolved", "rejected"}
  \/ part = "navigator" /\ \/ p = "first" /\ inv[i1].pc = "returned"
                           \/ p = "second" /\ retirements[cA] # "pending"
                           \/ p = "end" /\ hostClosing \in {"removed", "kept"}
  \/ part = "shell" /\ S!ShellAt("told")
  \/ part = "deadline" /\ ((p = "first" /\ pc[h1] = "idle") \/ (p = "second" /\ pc[h2] = "idle"))

\* Whoever waits is answered.  A close of the service resolves although its
\* compilers hang; every tool call returns and a close of the session settles,
\* whatever fails, is aborted or is drained meanwhile; a Navigator invocation,
\* a retirement and a close settle although the child hangs; a host command is
\* told over although its group stays; and an extension of the deadline returns
\* although another thread exchanges first.
PromisesKept == \A p \in Promises : Asked(p) ~> Kept(p)
=============================================================================
