------------------------------ MODULE Sandbox ------------------------------
(* The transport between the host and its sandbox threads: the slots of       *)
(* QuickJsRuntime (runtime/quickjs-runtime.ts) and the protocol handler of a  *)
(* worker (runtime/sandbox-worker-entry.ts).  Host and worker exchange        *)
(* messages over one ordered channel each way; a guest computes for as long   *)
(* as it likes.  Deadlines and floors are modelled in Deadline; here a timer  *)
(* of the host may fire at any time after it was set.  Definitions named      *)
(* "A ... that" in their comment are defective variants of the one below.     *)
EXTENDS Naturals, Sequences, FiniteSets

CONSTANTS Executions,  \* calls of execute
          Threads,     \* worker threads, in the order they may be spawned
          Nil,
          Stuck,       \* threads whose terminate() rejects
          Ends,        \* how guests end, of the termination reasons
          MaxCalls     \* host calls a guest makes (bounds the model)

Reasons == {"completed", "runtime_error", "timed_out", "aborted"}

ASSUME SandboxNames == Nil \notin Executions \cup Threads /\ Stuck \subseteq Threads
ASSUME SandboxBound == MaxCalls \in Nat
ASSUME SandboxEnds == "aborted" \in Ends /\ Ends \subseteq Reasons

VARIABLES
  (* host *)
  slots,        \* #slots
  idle,         \* #idle, or Nil
  termination,  \* slot.termination: "none", "begun", "settled" or "failed"
  closed,       \* #closed
  closing,      \* the promise of close: "open", "draining", "closed", "rejected"
  awaited,      \* the terminations close took
  run,          \* "new", "serving", "sealed" (settled), "ending" or "returned"
  on,           \* the thread of an execution, or Nil
  report,       \* what finish was called with: a termination reason or "fault"
  kill,         \* finish's terminate
  outcome,      \* the termination reason execute returned, or "none"
  signal,       \* options.signal is aborted
  ended,        \* controller.signal is aborted: providers are told to stop
  calls,        \* hostCalls: [id, dispatched] of the calls that have not settled
  (* shared memory and channels *)
  flag,         \* cancellation
  toWorker, toHost,
  (* worker *)
  thread,       \* "unborn", "running", "crashed" or "exited"
  active,       \* the execution of the worker, or Nil
  guest,        \* "none", "running" or "teardown"
  verdict,      \* the termination reason the VM will report
  pending,      \* state.pending: ids of calls that wait for a reply
  nextId,       \* nextCallId, never reset while the thread lives
  called        \* calls this execution made; its signal is attached from the first

slotVars == <<slots, idle, termination>>
closeVars == <<closed, closing, awaited>>
runVars == <<run, on, report, kill, outcome>>
hostVars == <<slotVars, closeVars, runVars, signal, ended, calls, flag>>
vmVars == <<active, guest, verdict, pending, nextId, called>>
vars == <<hostVars, toWorker, toHost, thread, vmVars>>

Init ==
  /\ slots = {} /\ idle = Nil /\ termination = [w \in Threads |-> "none"]
  /\ closed = FALSE /\ closing = "open" /\ awaited = {}
  /\ run = [x \in Executions |-> "new"] /\ on = [x \in Executions |-> Nil]
  /\ report = [x \in Executions |-> "none"] /\ kill = [x \in Executions |-> FALSE]
  /\ outcome = [x \in Executions |-> "none"]
  /\ signal = [x \in Executions |-> FALSE] /\ ended = [x \in Executions |-> FALSE]
  /\ calls = [x \in Executions |-> {}] /\ flag = [x \in Executions |-> FALSE]
  /\ toWorker = [w \in Threads |-> <<>>] /\ toHost = [w \in Threads |-> <<>>]
  /\ thread = [w \in Threads |-> "unborn"]
  /\ active = [w \in Threads |-> Nil] /\ guest = [w \in Threads |-> "none"]
  /\ verdict = [w \in Threads |-> "none"] /\ pending = [w \in Threads |-> {}]
  /\ nextId = [w \in Threads |-> 0] /\ called = [w \in Threads |-> 0]

-----------------------------------------------------------------------------
(* Slots                                                                      *)

Message(kind, x, body) == [kind |-> kind, ex |-> x, body |-> body]
Post(channel, w, m) == [channel EXCEPT ![w] = Append(@, m)]

Serving(w) == {x \in Executions : on[x] = w /\ run[x] = "serving"}

\* #terminate of every slot of S, and #drop with it.
Terminate(S) ==
  LET fresh == {w \in S : termination[w] = "none"} IN
  /\ slots' = slots \ fresh
  /\ idle' = IF idle \in fresh THEN Nil ELSE idle
  /\ termination' = [w \in Threads |-> IF w \in fresh THEN "begun" ELSE termination[w]]

\* finish, for every execution of X that has not settled, together with the
\* termination of the slots in T: the execution is sealed and its providers are
\* told to stop; an execution whose signal is aborted always terminates.
Finish(X, how, terminate, T) ==
  LET open == {x \in X : run[x] = "serving"}
      dead == {x \in open : terminate \/ signal[x]}
  IN /\ run' = [x \in Executions |-> IF x \in open THEN "sealed" ELSE run[x]]
     /\ report' = [x \in Executions |-> IF x \in open THEN how ELSE report[x]]
     /\ kill' = [x \in Executions |-> IF x \in open THEN x \in dead ELSE kill[x]]
     /\ ended' = [x \in Executions |-> ended[x] \/ x \in open]
     /\ Terminate(T \cup {on[x] : x \in dead})
     /\ UNCHANGED <<on, outcome, signal, calls, flag>>

\* #release: retain one warm slot; otherwise the thread is terminated, and
\* nobody waits for that but close.
Release(w) ==
  IF closed \/ w \notin slots \/ idle # Nil
  THEN Terminate({w})
  ELSE idle' = w /\ UNCHANGED <<slots, termination>>

-----------------------------------------------------------------------------
(* execute                                                                    *)

\* Refused before a thread is paid for: cancelled, oversized or closed.
ExecuteRefused(x) ==
  /\ run[x] = "new"
  /\ \E how \in {"aborted", "runtime_error"} :
       /\ (how = "aborted") <=> signal[x]
       /\ outcome' = [outcome EXCEPT ![x] = how]
  /\ run' = [run EXCEPT ![x] = "returned"]
  /\ UNCHANGED <<slotVars, closeVars, on, report, kill, signal, ended, calls, flag,
                 toWorker, toHost, thread, vmVars>>

\* #acquire takes the idle slot or spawns one, and the run is posted.
Execute(x, w) ==
  /\ run[x] = "new" /\ ~signal[x] /\ ~closed
  /\ IF idle # Nil
     THEN w = idle /\ idle' = Nil /\ UNCHANGED <<slots, thread>>
     ELSE /\ thread[w] = "unborn"
          /\ thread' = [thread EXCEPT ![w] = "running"]
          /\ slots' = slots \cup {w}
          /\ UNCHANGED idle
  /\ run' = [run EXCEPT ![x] = "serving"]
  /\ on' = [on EXCEPT ![x] = w]
  /\ toWorker' = Post(toWorker, w, Message("run", x, 0))
  /\ UNCHANGED <<termination, closeVars, report, kill, outcome, signal, ended, calls, flag,
                 toHost, vmVars>>

\* The caller aborts.  onAbort sets the shared flag, stops the providers and
\* tells the worker; an execution that is sealed only sees the signal later.
SignalAborts(x) ==
  /\ ~signal[x] /\ run[x] # "returned"
  /\ signal' = [signal EXCEPT ![x] = TRUE]
  /\ IF run[x] = "serving"
     THEN /\ flag' = [flag EXCEPT ![x] = TRUE]
          /\ ended' = [ended EXCEPT ![x] = TRUE]
          /\ toWorker' = Post(toWorker, on[x], Message("abort", x, 0))
     ELSE UNCHANGED <<flag, ended, toWorker>>
  /\ UNCHANGED <<slotVars, closeVars, runVars, calls, toHost, thread, vmVars>>

\* The message handler of the execution that thread w serves.
HostReceive(w) ==
  LET m == Head(toHost[w]) IN
  /\ toHost[w] # <<>>
  /\ toHost' = [toHost EXCEPT ![w] = Tail(@)]
  /\ IF m.ex \notin Serving(w)
     THEN UNCHANGED <<slotVars, runVars, signal, ended, calls, flag>>
     ELSE \/ /\ m.kind = "hostCall"
             /\ calls' = [calls EXCEPT ![m.ex] = @ \cup {[id |-> m.body, dispatched |-> FALSE]}]
             /\ UNCHANGED <<slotVars, runVars, signal, ended, flag>>
          \/ /\ m.kind = "hostAbort"
             /\ ended' = [ended EXCEPT ![m.ex] = TRUE]
             /\ UNCHANGED <<slotVars, runVars, signal, calls, flag>>
          \/ m.kind = "result" /\ Finish({m.ex}, m.body, FALSE, {})
          \/ m.kind = "fatal" /\ Finish({m.ex}, "fault", TRUE, {})
  /\ UNCHANGED <<closeVars, toWorker, thread, vmVars>>

\* The turn after a hostCall message: dispatch to the provider, unless the
\* execution has settled or its providers were told to stop.
Dispatch(x, c) ==
  /\ c \in calls[x] /\ ~c.dispatched
  /\ run[x] = "serving" /\ ~ended[x]
  /\ calls' = [calls EXCEPT ![x] = (@ \ {c}) \cup {[c EXCEPT !.dispatched = TRUE]}]
  /\ UNCHANGED <<slotVars, closeVars, runVars, signal, ended, flag, toWorker, toHost, thread, vmVars>>

\* A provider, or the refusal to dispatch, settles a call; the reply is posted
\* only while the execution has not settled.
Settle(x, c) ==
  /\ c \in calls[x]
  /\ c.dispatched \/ run[x] # "serving" \/ ended[x]
  /\ calls' = [calls EXCEPT ![x] = @ \ {c}]
  /\ toWorker' = IF run[x] = "serving"
                 THEN Post(toWorker, on[x], Message("hostResult", x, c.id)) ELSE toWorker
  /\ UNCHANGED <<slotVars, closeVars, runVars, signal, ended, flag, toHost, thread, vmVars>>

\* A backstop that is cleared when the signal aborts.
BackstopCleared(x) ==
  /\ run[x] = "serving" /\ ~signal[x]
  /\ Finish({x}, "timed_out", TRUE, {})
  /\ UNCHANGED <<closeVars, toWorker, toHost, thread, vmVars>>

\* The deadline backstop and the cancellation backstop of an unresponsive
\* thread.
Backstop(x) ==
  /\ run[x] = "serving"
  /\ Finish({x}, IF signal[x] THEN "aborted" ELSE "timed_out", TRUE, {})
  /\ UNCHANGED <<closeVars, toWorker, toHost, thread, vmVars>>

\* The promise of execute settles and its locals are gone.
Return(x, how) ==
  /\ run' = [run EXCEPT ![x] = "returned"]
  /\ outcome' = [outcome EXCEPT ![x] = how]
  /\ report' = [report EXCEPT ![x] = "none"]
  /\ kill' = [kill EXCEPT ![x] = FALSE]

Gone(x) == termination[on[x]] = "settled"

\* A conclusion that does not look at the signal again after the drain.
ConcludeWarm(x) ==
  /\ run[x] = "sealed" /\ (kill[x] => Gone(x))
  /\ IF kill[x] THEN UNCHANGED slotVars ELSE Release(on[x])
  /\ Return(x, IF signal[x] THEN "aborted"
               ELSE IF report[x] = "fault" THEN "runtime_error" ELSE report[x])
  /\ UNCHANGED <<closeVars, on, signal, ended, calls, flag, toWorker, toHost, thread, vmVars>>

\* After finish: the termination, if one was wanted, and the bounded drain of
\* host calls are over.  A signal aborted meanwhile still terminates.
Conclude(x) ==
  /\ run[x] = "sealed" /\ (kill[x] => Gone(x))
  /\ IF ~kill[x] /\ signal[x]
     THEN /\ kill' = [kill EXCEPT ![x] = TRUE]
          /\ run' = [run EXCEPT ![x] = "ending"]
          /\ Terminate({on[x]})
          /\ UNCHANGED <<outcome, report>>
     ELSE /\ IF kill[x] THEN UNCHANGED slotVars ELSE Release(on[x])
          /\ Return(x, IF signal[x] THEN "aborted"
                       ELSE IF report[x] = "fault" THEN "runtime_error" ELSE report[x])
  /\ UNCHANGED <<closeVars, on, signal, ended, calls, flag, toWorker, toHost, thread, vmVars>>

ConcludeAborted(x) ==
  /\ run[x] = "ending" /\ Gone(x)
  /\ Return(x, "aborted")
  /\ UNCHANGED <<slotVars, closeVars, on, signal, ended, calls, flag,
                 toWorker, toHost, thread, vmVars>>

\* terminate() rejected: the execution rejects, and execute contains it as a
\* fault of the virtual machine.
ConcludeStuck(x) ==
  /\ (run[x] = "sealed" /\ kill[x]) \/ run[x] = "ending"
  /\ termination[on[x]] = "failed"
  /\ Return(x, "runtime_error")
  /\ UNCHANGED <<slotVars, closeVars, on, signal, ended, calls, flag,
                 toWorker, toHost, thread, vmVars>>

-----------------------------------------------------------------------------
(* Threads and close                                                          *)

\* The warm thread has waited long enough.
IdleTimer ==
  /\ idle # Nil
  /\ Terminate({idle})
  /\ UNCHANGED <<closeVars, runVars, signal, ended, calls, flag, toWorker, toHost, thread, vmVars>>

\* #drop and slot.fault, on "error" and on "exit".
Lost(w) ==
  /\ slots' = (slots \ {w})
  /\ idle' = IF idle = w THEN Nil ELSE idle
  /\ termination' = [termination EXCEPT ![w] = IF Serving(w) # {} /\ @ = "none" THEN "begun" ELSE @]
  /\ run' = [x \in Executions |-> IF x \in Serving(w) THEN "sealed" ELSE run[x]]
  /\ report' = [x \in Executions |-> IF x \in Serving(w) THEN "fault" ELSE report[x]]
  /\ kill' = [x \in Executions |-> kill[x] \/ x \in Serving(w)]
  /\ ended' = [x \in Executions |-> ended[x] \/ x \in Serving(w)]
  /\ UNCHANGED <<on, outcome, signal, calls, flag>>

\* The thread's heap and its channels are gone with its event loop.
Discard(w) ==
  /\ toWorker' = [toWorker EXCEPT ![w] = <<>>]
  /\ toHost' = [toHost EXCEPT ![w] = <<>>]
  /\ active' = [active EXCEPT ![w] = Nil]
  /\ guest' = [guest EXCEPT ![w] = "none"]
  /\ verdict' = [verdict EXCEPT ![w] = "none"]
  /\ pending' = [pending EXCEPT ![w] = {}]
  /\ nextId' = [nextId EXCEPT ![w] = 0]
  /\ called' = [called EXCEPT ![w] = 0]

\* "error": an uncaught error ends the worker's event loop; its exit follows.
Crash(w) ==
  /\ thread[w] = "running"
  /\ thread' = [thread EXCEPT ![w] = "crashed"]
  /\ Lost(w) /\ Discard(w)
  /\ UNCHANGED closeVars

\* "exit": of a crashed thread or of one that was told to terminate.
Exit(w) ==
  /\ thread[w] = "crashed" \/ (thread[w] = "running" /\ termination[w] = "begun" /\ w \notin Stuck)
  /\ thread' = [thread EXCEPT ![w] = "exited"]
  /\ Lost(w) /\ Discard(w)
  /\ UNCHANGED closeVars

\* The termination promise settles; a rejection closes the runtime for good.
Terminated(w) ==
  /\ termination[w] = "begun"
  /\ \/ /\ thread[w] = "exited"
        /\ termination' = [termination EXCEPT ![w] = "settled"]
        /\ UNCHANGED closed
     \/ /\ w \in Stuck /\ thread[w] # "exited"
        /\ termination' = [termination EXCEPT ![w] = "failed"]
        /\ closed' = TRUE
  /\ UNCHANGED <<slots, idle, closing, awaited, runVars, signal, ended, calls, flag,
                 toWorker, toHost, thread, vmVars>>

\* Every slot is faulted and terminated; close waits for the terminations that
\* have not settled, the failed ones included.
Close ==
  /\ closing = "open" /\ closing' = "draining" /\ closed' = TRUE
  /\ Finish({x \in Executions : on[x] \in slots}, "fault", TRUE, slots)
  /\ awaited' = slots \cup {w \in Threads : termination[w] \in {"begun", "failed"}}
  /\ UNCHANGED <<toWorker, toHost, thread, vmVars>>

\* The promise of close settles as its terminations do.
CloseDone ==
  /\ closing = "draining"
  /\ \/ /\ \A w \in awaited : termination[w] = "settled"
        /\ closing' = "closed"
     \/ /\ \E w \in awaited : termination[w] = "failed"
        /\ closing' = "rejected"
  /\ UNCHANGED <<slotVars, closed, awaited, runVars, signal, ended, calls, flag,
                 toWorker, toHost, thread, vmVars>>

-----------------------------------------------------------------------------
(* The worker                                                                 *)

\* An end that does not tell the host.
EndGuestSilent(w, how) ==
  /\ guest' = [guest EXCEPT ![w] = "teardown"]
  /\ verdict' = [verdict EXCEPT ![w] = how]
  /\ pending' = [pending EXCEPT ![w] = {}]
  /\ UNCHANGED <<active, nextId, called, toHost>>

\* The VM ends its wait: calls that wait are rejected, and the host is told if
\* a call was made.
EndGuest(w, how) ==
  /\ guest' = [guest EXCEPT ![w] = "teardown"]
  /\ verdict' = [verdict EXCEPT ![w] = how]
  /\ pending' = [pending EXCEPT ![w] = {}]
  /\ toHost' = IF called[w] > 0 THEN Post(toHost, w, Message("hostAbort", active[w], 0)) ELSE toHost
  /\ UNCHANGED <<active, nextId, called>>

\* The protocol handler: a run is accepted by an idle worker alone, and every
\* other message must name the active execution.
WorkerReceive(w) ==
  LET m == Head(toWorker[w]) IN
  /\ thread[w] = "running" /\ toWorker[w] # <<>>
  /\ toWorker' = [toWorker EXCEPT ![w] = Tail(@)]
  /\ \/ /\ m.kind = "run" /\ active[w] = Nil
        /\ active' = [active EXCEPT ![w] = m.ex]
        /\ guest' = [guest EXCEPT ![w] = "running"]
        /\ called' = [called EXCEPT ![w] = 0]
        /\ UNCHANGED <<verdict, pending, nextId, toHost>>
     \/ /\ m.kind = "abort" /\ m.ex = active[w] /\ guest[w] = "running"
        /\ EndGuest(w, "aborted")
     \/ /\ m.kind = "hostResult" /\ m.ex = active[w]
        /\ pending' = [pending EXCEPT ![w] = @ \ {m.body}]
        /\ UNCHANGED <<active, guest, verdict, nextId, called, toHost>>
     \/ /\ \/ m.kind = "run" /\ active[w] # Nil
           \/ m.kind # "run" /\ m.ex # active[w]
           \/ m.kind = "abort" /\ guest[w] # "running"
        /\ UNCHANGED <<vmVars, toHost>>
  /\ UNCHANGED <<hostVars, thread>>

\* The guest calls a tool; ids are the worker's, not the execution's.
GuestCalls(w) ==
  /\ thread[w] = "running" /\ guest[w] = "running" /\ called[w] < MaxCalls
  /\ nextId' = [nextId EXCEPT ![w] = @ + 1]
  /\ pending' = [pending EXCEPT ![w] = @ \cup {nextId[w] + 1}]
  /\ called' = [called EXCEPT ![w] = @ + 1]
  /\ toHost' = Post(toHost, w, Message("hostCall", active[w], nextId[w] + 1))
  /\ UNCHANGED <<hostVars, toWorker, thread, active, guest, verdict>>

\* The guest completes, fails or runs out of time; a flag that is set is seen
\* before a completion is reported.
GuestEnds(w) ==
  /\ thread[w] = "running" /\ guest[w] = "running"
  /\ \E how \in Ends :
       /\ (how = "aborted") <=> flag[active[w]]
       /\ EndGuest(w, how)
  /\ UNCHANGED <<hostVars, toWorker, thread>>

\* Teardown is over: the result, or a fatal error of teardown, is posted and
\* the worker is free in the same turn.
PostResult(w) ==
  /\ thread[w] = "running" /\ guest[w] = "teardown"
  /\ \E m \in {Message("result", active[w], verdict[w]), Message("fatal", active[w], 0)} :
       toHost' = Post(toHost, w, m)
  /\ active' = [active EXCEPT ![w] = Nil]
  /\ guest' = [guest EXCEPT ![w] = "none"]
  /\ verdict' = [verdict EXCEPT ![w] = "none"]
  /\ UNCHANGED <<hostVars, toWorker, thread, pending, nextId, called>>

Host(x) == \/ ExecuteRefused(x) \/ \E w \in Threads : Execute(x, w)
           \/ SignalAborts(x) \/ Backstop(x)
           \/ Conclude(x) \/ ConcludeAborted(x) \/ ConcludeStuck(x)
           \/ \E c \in calls[x] : Dispatch(x, c) \/ Settle(x, c)

Worker(w) == \/ WorkerReceive(w) \/ GuestCalls(w) \/ GuestEnds(w) \/ PostResult(w)

Next == \/ \E x \in Executions : Host(x)
        \/ \E w \in Threads : Worker(w) \/ HostReceive(w) \/ Crash(w) \/ Exit(w) \/ Terminated(w)
        \/ IdleTimer \/ Close \/ CloseDone

Spec == Init /\ [][Next]_vars

-----------------------------------------------------------------------------
(* Properties                                                                 *)

Busy(x) == run[x] \in {"serving", "sealed", "ending"}

\* The types of the transport's state.
TypeOK ==
  /\ slots \subseteq Threads /\ idle \in Threads \cup {Nil} /\ awaited \subseteq Threads
  /\ termination \in [Threads -> {"none", "begun", "settled", "failed"}]
  /\ closed \in BOOLEAN /\ closing \in {"open", "draining", "closed", "rejected"}
  /\ run \in [Executions -> {"new", "serving", "sealed", "ending", "returned"}]
  /\ on \in [Executions -> Threads \cup {Nil}]
  /\ report \in [Executions -> Reasons \cup {"none", "fault"}]
  /\ outcome \in [Executions -> Reasons \cup {"none"}]
  /\ kill \in [Executions -> BOOLEAN] /\ signal \in [Executions -> BOOLEAN]
  /\ ended \in [Executions -> BOOLEAN] /\ flag \in [Executions -> BOOLEAN]
  /\ \A x \in Executions : calls[x] \subseteq [id : Nat \ {0}, dispatched : BOOLEAN]
  /\ thread \in [Threads -> {"unborn", "running", "crashed", "exited"}]
  /\ active \in [Threads -> Executions \cup {Nil}]
  /\ guest \in [Threads -> {"none", "running", "teardown"}]
  /\ verdict \in [Threads -> Reasons \cup {"none"}]
  /\ nextId \in [Threads -> Nat] /\ called \in [Threads -> 0..MaxCalls]
  /\ \A w \in Threads :
       /\ pending[w] \subseteq 1..nextId[w]
       /\ \A i \in 1..Len(toWorker[w]) : toWorker[w][i].kind \in {"run", "abort", "hostResult"}
       /\ \A i \in 1..Len(toHost[w]) : toHost[w][i].kind \in {"hostCall", "hostAbort", "result", "fatal"}

\* A finished execution posts nothing more into a thread that another one may
\* be using: what a worker receives belongs to the execution it serves.
SealedIsSilent ==
  \A w \in Threads : active[w] # Nil /\ run[active[w]] = "serving" /\ on[active[w]] = w =>
    \A i \in 1..Len(toWorker[w]) : toWorker[w][i].ex = active[w]

\* Cancellation never returns while the thread is alive, whenever the signal
\* came, during the drain of host calls included; a thread that cannot be
\* terminated is reported as a fault instead.
CancelledIsDead ==
  \A x \in Executions : run[x] = "returned" /\ on[x] # Nil /\ signal[x] =>
    \/ outcome[x] = "aborted" /\ thread[on[x]] = "exited"
    \/ outcome[x] = "runtime_error" /\ termination[on[x]] = "failed"

\* A running thread is in a slot or its termination was asked for: no thread
\* is left behind where close cannot find it.
NoOrphanThread ==
  \A w \in Threads : thread[w] = "running" => w \in slots \/ termination[w] \in {"begun", "failed"}

\* A thread is reused only when nothing of its former execution is left in it,
\* and it serves one execution at a time.
ReusedIsQuiet ==
  /\ idle # Nil => /\ idle \in slots /\ active[idle] = Nil /\ pending[idle] = {}
                   /\ \A x \in Executions : on[x] = idle => ~Busy(x)
  /\ \A x, y \in Executions : on[x] = on[y] /\ Busy(x) /\ Busy(y) => x = y

\* Once an execution is over, whichever way, its providers were told to stop;
\* so is every provider whose guest no longer waits and whose worker's notice
\* was delivered.
ProvidersStopped ==
  \A x \in Executions : \A c \in calls[x] :
    /\ run[x] \in {"sealed", "ending", "returned"} => ended[x]
    /\ run[x] = "serving" /\ active[on[x]] # x /\ thread[on[x]] = "running" =>
         ended[x] \/ \E i \in 1..Len(toHost[on[x]]) : toHost[on[x]][i].kind = "hostAbort"

\* Executions that share threads one after the other are isolated: no message,
\* thread or provider of one outlives it into another.
RunsIsolated == TypeOK /\ SealedIsSilent /\ NoOrphanThread /\ ReusedIsQuiet /\ ProvidersStopped

\* Every execution that got a thread returns, though its guest may compute for
\* ever and its thread may refuse to die.
ExecutionsReturn == \A x \in Executions : run[x] = "serving" ~> run[x] = "returned"

\* A close that was called settles.
CloseSettles == closing = "draining" ~> closing \in {"closed", "rejected"}

\* Whoever waits for a sandbox is answered, callers and close alike.
SandboxSettles == ExecutionsReturn /\ CloseSettles

\* Host timers fire, promise reactions run, and a thread told to terminate
\* exits.  Nothing is assumed of the worker: a guest may compute for ever.
FairSpec ==
  /\ Spec
  /\ \A x \in Executions : WF_vars(Backstop(x) \/ Conclude(x) \/ ConcludeAborted(x) \/ ConcludeStuck(x))
  /\ \A w \in Threads : WF_vars(Exit(w) \/ Terminated(w))
  /\ WF_vars(CloseDone)
=============================================================================
