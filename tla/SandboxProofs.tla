---------------------------- MODULE SandboxProofs ----------------------------
(* Proofs about Sandbox: executions that share threads one after the other   *)
(* are isolated, and a cancelled execution does not return while its thread  *)
(* lives, for every number of executions, threads and host calls.            *)
EXTENDS Sandbox, TLAPS

-----------------------------------------------------------------------------
(* The inductive invariant                                                    *)

Inbound == [kind : {"run", "abort", "hostResult"}, ex : Executions, body : Nat]
Finals == {"result", "fatal"}
Outbound ==
  [kind : {"hostAbort", "fatal"}, ex : Executions, body : Nat]
    \cup [kind : {"hostCall"}, ex : Executions, body : Nat \ {0}]
    \cup [kind : {"result"}, ex : Executions, body : Reasons]

\* What a channel holds.
AllOf(s, x) == \A i \in 1..Len(s) : s[i].ex = x
Lacks(s, kinds) == \A i \in 1..Len(s) : s[i].kind \notin kinds
Holds(s, kind) == \E i \in 1..Len(s) : s[i].kind = kind

\* The run of x is on its way, and only messages of x follow it.
RunAt(s, x, i) ==
  /\ s[i].kind = "run" /\ s[i].ex = x
  /\ \A j \in 1..Len(s) : j # i => s[j].kind # "run"
  /\ \A j \in 1..Len(s) : j > i => s[j].ex = x
AwaitsRun(s, x) == \E i \in 1..Len(s) : RunAt(s, x, i)

\* The last message is a result or a fatal error, and no other one is.
Reports(s) ==
  /\ s # <<>> /\ s[Len(s)].kind \in Finals
  /\ \A i \in 1..Len(s) : i < Len(s) => s[i].kind \notin Finals

SlotsTyped ==
  /\ slots \in SUBSET Threads /\ idle \in Threads \cup {Nil} /\ awaited \in SUBSET Threads
  /\ termination \in [Threads -> {"none", "begun", "settled", "failed"}]
  /\ closed \in BOOLEAN /\ closing \in {"open", "draining", "closed", "rejected"}
  /\ thread \in [Threads -> {"unborn", "running", "crashed", "exited"}]
RunsTyped ==
  /\ run \in [Executions -> {"new", "serving", "sealed", "ending", "returned"}]
  /\ on \in [Executions -> Threads \cup {Nil}]
  /\ report \in [Executions -> Reasons \cup {"none", "fault"}]
  /\ outcome \in [Executions -> Reasons \cup {"none"}]
  /\ kill \in [Executions -> BOOLEAN] /\ signal \in [Executions -> BOOLEAN]
  /\ ended \in [Executions -> BOOLEAN] /\ flag \in [Executions -> BOOLEAN]
CallsTyped == calls \in [Executions -> SUBSET [id : Nat \ {0}, dispatched : BOOLEAN]]
ChannelsTyped == toWorker \in [Threads -> Seq(Inbound)] /\ toHost \in [Threads -> Seq(Outbound)]
WorkerTyped ==
  /\ active \in [Threads -> Executions \cup {Nil}]
  /\ guest \in [Threads -> {"none", "running", "teardown"}]
  /\ verdict \in [Threads -> Reasons \cup {"none"}]
  /\ pending \in [Threads -> SUBSET Nat]
  /\ nextId \in [Threads -> Nat] /\ called \in [Threads -> 0..MaxCalls]

\* The worker's own state: what waits for a reply has an id it gave, and it
\* has an execution exactly while a guest runs or is torn down.
WorkerSound ==
  \A w \in Threads :
    /\ pending[w] \subseteq 1..nextId[w]
    /\ guest[w] # "running" => pending[w] = {}
    /\ (active[w] = Nil) <=> (guest[w] = "none")
    /\ guest[w] = "teardown" => verdict[w] \in Reasons

\* Nothing of a worker that left, or has not come yet.
Vacant(w) ==
  /\ toWorker[w] = <<>> /\ toHost[w] = <<>>
  /\ active[w] = Nil /\ pending[w] = {}

\* How the slots, the terminations and the threads hang together.
SlotsSound ==
  /\ idle # Nil => idle \in slots
  /\ \A w \in Threads :
       /\ w \in slots => termination[w] = "none" /\ thread[w] = "running"
       /\ thread[w] = "unborn" => termination[w] = "none" /\ \A x \in Executions : on[x] # w
       /\ thread[w] = "running" => w \in slots \/ termination[w] \in {"begun", "failed"}
       /\ termination[w] = "settled" => thread[w] = "exited"
       /\ thread[w] # "running" => Vacant(w)

\* What the stages of an execution say of it.
RunsSound ==
  \A x \in Executions :
    /\ run[x] = "new" => on[x] = Nil /\ calls[x] = {}
    /\ Busy(x) => on[x] \in Threads /\ on[x] # idle
    /\ run[x] = "serving" => on[x] \in slots
    /\ run[x] = "sealed" => report[x] \in Reasons \cup {"fault"}
    /\ run[x] \in {"sealed", "ending", "returned"} /\ calls[x] # {} => ended[x]

OneAtATime == \A x, y \in Executions : on[x] = on[y] /\ Busy(x) /\ Busy(y) => x = y

\* Nothing of an execution is left in a thread.
Quiet(w) ==
  /\ active[w] = Nil
  /\ toHost[w] = <<>> /\ Lacks(toWorker[w], {"run"})

\* A thread is quiet when its execution reported and left it, and stays so
\* until the next one.
LeftQuiet ==
  /\ idle # Nil => Quiet(idle)
  /\ \A x \in Executions : run[x] = "sealed" /\ ~kill[x] => Quiet(on[x])

\* Providers of x were told to stop, or the notice is on its way.
Notified(x, w) == 
  calls[x] # {} \/ Holds(toHost[w], "hostCall") => ended[x] \/ Holds(toHost[w], "hostAbort")

\* The three stages of a thread that serves x.
Waiting(x, w) ==
  active[w] = Nil /\ toHost[w] = <<>> /\ calls[x] = {} /\ AwaitsRun(toWorker[w], x)
Working(x, w) ==
  /\ active[w] = x /\ AllOf(toWorker[w], x) /\ Lacks(toWorker[w], {"run"})
  /\ Lacks(toHost[w], Finals)
  /\ guest[w] = "running" /\ called[w] = 0 => calls[x] = {} /\ toHost[w] = <<>>
  /\ guest[w] = "teardown" => Notified(x, w)
Reported(x, w) ==
  /\ active[w] = Nil /\ Lacks(toWorker[w], {"run"})
  /\ Reports(toHost[w]) /\ Notified(x, w)

ServedInStages ==
  \A x \in Executions : run[x] = "serving" =>
    /\ AllOf(toHost[on[x]], x)
    /\ Waiting(x, on[x]) \/ Working(x, on[x]) \/ Reported(x, on[x])

Isolation ==
  /\ SlotsTyped /\ RunsTyped /\ CallsTyped /\ ChannelsTyped /\ WorkerTyped
  /\ WorkerSound /\ SlotsSound /\ RunsSound /\ OneAtATime /\ LeftQuiet /\ ServedInStages

-----------------------------------------------------------------------------
(* Channels                                                                   *)

\* Posting adds one message at the end; receiving takes the first one.
LEMMA AppendHas ==
  ASSUME NEW S, NEW s \in Seq(S), NEW m \in S
  PROVE  /\ Append(s, m) \in Seq(S) /\ Append(s, m) # <<>>
         /\ Len(Append(s, m)) = Len(s) + 1 /\ Len(s) \in Nat
         /\ \A i \in 1..Len(s) : Append(s, m)[i] = s[i]
         /\ Append(s, m)[Len(s) + 1] = m
  OBVIOUS

LEMMA TailHas ==
  ASSUME NEW S, NEW s \in Seq(S), s # <<>>
  PROVE  /\ Head(s) \in S /\ Head(s) = s[1] /\ Tail(s) \in Seq(S)
         /\ Len(s) \in Nat \ {0} /\ Len(Tail(s)) = Len(s) - 1
         /\ \A i \in 1..Len(Tail(s)) : Tail(s)[i] = s[i + 1]
  OBVIOUS

\* What a channel without messages holds.
LEMMA EmptyHolds ==
  /\ \A x : AllOf(<<>>, x)
  /\ \A kinds : Lacks(<<>>, kinds)
  /\ \A kind : ~Holds(<<>>, kind)
  BY DEF AllOf, Lacks, Holds

\* What a posted message changes of what a channel holds.
LEMMA Posted ==
  ASSUME NEW S, NEW s \in Seq(S), NEW m \in S
  PROVE  /\ \A x : AllOf(s, x) /\ m.ex = x => AllOf(Append(s, m), x)
         /\ \A kinds : Lacks(s, kinds) /\ m.kind \notin kinds => Lacks(Append(s, m), kinds)
         /\ \A kind : Holds(s, kind) \/ m.kind = kind <=> Holds(Append(s, m), kind)
  <1> DEFINE t == Append(s, m)
  <1>1. /\ Len(t) = Len(s) + 1 /\ Len(s) \in Nat
        /\ \A i \in 1..Len(s) : t[i] = s[i]
        /\ t[Len(s) + 1] = m
    BY AppendHas
  <1>2. \A i \in 1..Len(t) : i \in 1..Len(s) \/ i = Len(s) + 1
    BY <1>1
  <1>3. 1..Len(s) \subseteq 1..Len(t) /\ Len(s) + 1 \in 1..Len(t)
    BY <1>1
  <1> HIDE DEF t
  <1>4. \A x : AllOf(s, x) /\ m.ex = x => AllOf(t, x)
    BY <1>1, <1>2 DEF AllOf
  <1>5. \A kinds : Lacks(s, kinds) /\ m.kind \notin kinds => Lacks(t, kinds)
    BY <1>1, <1>2 DEF Lacks
  <1>6. \A kind : Holds(s, kind) \/ m.kind = kind => Holds(t, kind)
    BY <1>1, <1>3 DEF Holds
  <1>7. \A kind : Holds(t, kind) => Holds(s, kind) \/ m.kind = kind
    BY <1>1, <1>2 DEF Holds
  <1> QED BY <1>4, <1>5, <1>6, <1>7 DEF t

\* What the messages after the first one hold.
LEMMA Received ==
  ASSUME NEW S, NEW s \in Seq(S), s # <<>>
  PROVE  /\ \A x : AllOf(s, x) => Head(s).ex = x /\ AllOf(Tail(s), x)
         /\ \A kinds : Lacks(s, kinds) => Head(s).kind \notin kinds /\ Lacks(Tail(s), kinds)
         /\ \A kind : Holds(s, kind) <=> Head(s).kind = kind \/ Holds(Tail(s), kind)
  <1> DEFINE t == Tail(s)
             m == Head(s)
  <1>1. /\ Len(t) = Len(s) - 1 /\ Len(s) \in Nat \ {0}
        /\ \A i \in 1..Len(t) : t[i] = s[i + 1]
        /\ m = s[1]
    BY TailHas
  <1>2. /\ \A i \in 1..Len(t) : i + 1 \in 1..Len(s)
        /\ 1 \in 1..Len(s)
    BY <1>1
  <1>3. \A i \in 1..Len(s) : i = 1 \/ (i - 1 \in 1..Len(t) /\ t[i - 1] = s[i])
    BY <1>1
  <1> HIDE DEF t, m
  <1>4. \A x : AllOf(s, x) => m.ex = x /\ AllOf(t, x)
    BY <1>1, <1>2 DEF AllOf
  <1>5. \A kinds : Lacks(s, kinds) => m.kind \notin kinds /\ Lacks(t, kinds)
    BY <1>1, <1>2 DEF Lacks
  <1>6. \A kind : m.kind = kind \/ Holds(t, kind) => Holds(s, kind)
    BY <1>1, <1>2 DEF Holds
  <1>7. \A kind : Holds(s, kind) => m.kind = kind \/ Holds(t, kind)
    BY <1>1, <1>3 DEF Holds
  <1> QED BY <1>4, <1>5, <1>6, <1>7 DEF t, m

\* The run of x stays on its way while messages of x are posted behind it.
LEMMA AwaitsPosted ==
  ASSUME NEW S, NEW s \in Seq(S), NEW m \in S, NEW x, m.ex = x
  PROVE  /\ AwaitsRun(s, x) /\ m.kind # "run" => AwaitsRun(Append(s, m), x)
         /\ Lacks(s, {"run"}) /\ m.kind = "run" => AwaitsRun(Append(s, m), x)
  <1> DEFINE t == Append(s, m)
  <1>1. /\ Len(t) = Len(s) + 1 /\ Len(s) \in Nat
        /\ \A i \in 1..Len(s) : t[i] = s[i]
        /\ t[Len(s) + 1] = m
    BY AppendHas
  <1>2. /\ \A i \in 1..Len(t) : i \in 1..Len(s) \/ i = Len(s) + 1
        /\ \A i \in 1..Len(s) : i \in 1..Len(t)
        /\ Len(s) + 1 \in 1..Len(t)
    BY <1>1
  <1> HIDE DEF t
  <1>3. ASSUME NEW i \in 1..Len(s), RunAt(s, x, i), m.kind # "run"
        PROVE  RunAt(t, x, i)
    BY <1>1, <1>2, <1>3 DEF RunAt
  <1>4. ASSUME Lacks(s, {"run"}), m.kind = "run"
        PROVE  RunAt(t, x, Len(s) + 1)
    <2>1. t[Len(s) + 1].kind = "run" /\ t[Len(s) + 1].ex = x
      BY <1>1, <1>4
    <2>2. \A j \in 1..Len(t) : j # Len(s) + 1 => t[j].kind # "run"
      BY <1>1, <1>2, <1>4 DEF Lacks
    <2>3. \A j \in 1..Len(t) : j > Len(s) + 1 => t[j].ex = x
      BY <1>1
    <2> QED BY <2>1, <2>2, <2>3 DEF RunAt
  <1>5. AwaitsRun(s, x) /\ m.kind # "run" => AwaitsRun(t, x)
    BY <1>2, <1>3 DEF AwaitsRun
  <1>6. Lacks(s, {"run"}) /\ m.kind = "run" => AwaitsRun(t, x)
    BY <1>2, <1>4 DEF AwaitsRun
  <1> QED BY <1>5, <1>6 DEF t

\* The worker finds the run of x first, or something that is no run.
LEMMA AwaitsReceived ==
  ASSUME NEW S, NEW s \in Seq(S), s # <<>>, NEW x, AwaitsRun(s, x)
  PROVE  \/ /\ Head(s).kind = "run" /\ Head(s).ex = x
            /\ AllOf(Tail(s), x) /\ Lacks(Tail(s), {"run"})
         \/ Head(s).kind # "run" /\ AwaitsRun(Tail(s), x)
  <1> DEFINE t == Tail(s)
             m == Head(s)
  <1>1. /\ Len(t) = Len(s) - 1 /\ Len(s) \in Nat \ {0}
        /\ \A i \in 1..Len(t) : t[i] = s[i + 1]
        /\ m = s[1]
    BY TailHas
  <1>2. /\ \A i \in 1..Len(t) : i + 1 \in 1..Len(s) /\ i + 1 # 1 /\ i + 1 > 1
        /\ 1 \in 1..Len(s)
    BY <1>1
  <1> HIDE DEF t, m
  <1>3. PICK i \in 1..Len(s) : RunAt(s, x, i)
    BY DEF AwaitsRun
  <1>4. CASE i = 1
    BY <1>1, <1>2, <1>3, <1>4 DEF RunAt, AllOf, Lacks, t, m
  <1>5. CASE i # 1
    <2>1. i - 1 \in 1..Len(t) /\ t[i - 1] = s[i]
      BY <1>1, <1>5
    <2>2. m.kind # "run"
      BY <1>1, <1>2, <1>3, <1>5 DEF RunAt
    <2>3. \A j \in 1..Len(t) : (j # i - 1 => j + 1 # i) /\ (j > i - 1 => j + 1 > i)
      BY <1>1
    <2>4. RunAt(t, x, i - 1)
      BY <1>1, <1>2, <1>3, <2>1, <2>3 DEF RunAt
    <2> QED BY <2>1, <2>2, <2>4 DEF AwaitsRun, t, m
  <1> QED BY <1>4, <1>5

\* A final message is the last one that a worker posts for an execution.
LEMMA ReportsPosted ==
  ASSUME NEW S, NEW s \in Seq(S), NEW m \in S, Lacks(s, Finals), m.kind \in Finals
  PROVE  Reports(Append(s, m))
  <1> DEFINE t == Append(s, m)
  <1>1. /\ Len(t) = Len(s) + 1 /\ Len(s) \in Nat /\ t # <<>>
        /\ \A i \in 1..Len(s) : t[i] = s[i]
        /\ t[Len(s) + 1] = m
    BY AppendHas
  <1>2. \A i \in 1..Len(t) : i < Len(t) => i \in 1..Len(s)
    BY <1>1
  <1> HIDE DEF t
  <1> QED BY <1>1, <1>2 DEF Reports, Lacks, t

LEMMA ReportsReceived ==
  ASSUME NEW S, NEW s \in Seq(S), s # <<>>, Reports(s)
  PROVE  \/ Head(s).kind \in Finals /\ Tail(s) = <<>>
         \/ Head(s).kind \notin Finals /\ Reports(Tail(s))
  <1> DEFINE t == Tail(s)
             m == Head(s)
  <1>1. /\ Len(t) = Len(s) - 1 /\ Len(s) \in Nat \ {0} /\ t \in Seq(S)
        /\ \A i \in 1..Len(t) : t[i] = s[i + 1]
        /\ m = s[1]
    BY TailHas
  <1>2. CASE Len(s) = 1
    <2>1. Len(t) = 0
      BY <1>1, <1>2
    <2> HIDE DEF t, m
    <2>2. t = <<>>
      BY <1>1, <2>1
    <2> QED BY <1>1, <1>2, <2>2 DEF Reports, t, m
  <1>3. CASE Len(s) # 1
    <2>1. 1 < Len(s) /\ 1 \in 1..Len(s) /\ Len(t) \in 1..Len(t) /\ Len(t) + 1 = Len(s)
      BY <1>1, <1>3
    <2>3. t # <<>>
      <3> HIDE DEF t
      <3> QED BY <1>1, <1>3
    <2>2. \A i \in 1..Len(t) : i < Len(t) => i + 1 \in 1..Len(s) /\ i + 1 < Len(s)
      BY <1>1
    <2> HIDE DEF t, m
    <2> QED BY <1>1, <2>1, <2>2, <2>3 DEF Reports, t, m
  <1> QED BY <1>2, <1>3

-----------------------------------------------------------------------------
(* Types                                                                      *)

\* Every step keeps the types of the slots and the threads.
LEMMA SlotsTypedKept ==
  ASSUME Isolation, [Next]_vars
  PROVE  SlotsTyped'
  <1>0. SlotsTyped
    BY DEF Isolation
  <1>1. ASSUME NEW S, Terminate(S)
        PROVE  /\ slots' \in SUBSET Threads /\ idle' \in Threads \cup {Nil}
               /\ termination' \in [Threads -> {"none", "begun", "settled", "failed"}]
    BY <1>0, <1>1 DEF SlotsTyped, Terminate
  <1>2. CASE UNCHANGED <<slotVars, closeVars, thread>>
    BY <1>0, <1>2 DEF SlotsTyped, slotVars, closeVars
  <1>3. ASSUME NEW S, Terminate(S), UNCHANGED <<closeVars, thread>> PROVE SlotsTyped'
    BY <1>0, <1>1, <1>3 DEF SlotsTyped, closeVars
  <1>4. ASSUME NEW x \in Executions, NEW w \in Threads, Execute(x, w) PROVE SlotsTyped'
    BY <1>0, <1>4 DEF SlotsTyped, Execute, closeVars
  <1>5. ASSUME NEW x \in Executions, Conclude(x) PROVE SlotsTyped'
    <2>1. CASE \E S : Terminate(S)
      BY <1>3, <1>5, <2>1 DEF Conclude
    <2>2. CASE UNCHANGED slotVars
      BY <1>2, <1>5, <2>2 DEF Conclude
    <2>3. CASE idle' = on[x] /\ on[x] \in slots /\ UNCHANGED <<slots, termination>>
      BY <1>0, <1>5, <2>3 DEF SlotsTyped, Conclude, closeVars
    <2> QED BY <1>5, <2>1, <2>2, <2>3 DEF Conclude, Release
  <1>6. ASSUME NEW w \in Threads, HostReceive(w) PROVE SlotsTyped'
    <2>1. CASE \E S : Terminate(S)
      BY <1>3, <1>6, <2>1 DEF HostReceive
    <2>2. CASE UNCHANGED slotVars
      BY <1>2, <1>6, <2>2 DEF HostReceive
    <2> QED BY <1>6, <2>1, <2>2 DEF HostReceive, Finish
  <1>7. ASSUME NEW w \in Threads, Crash(w) \/ Exit(w) PROVE SlotsTyped'
    BY <1>0, <1>7 DEF SlotsTyped, Crash, Exit, Lost, closeVars
  <1>8. ASSUME NEW w \in Threads, Terminated(w) PROVE SlotsTyped'
    BY <1>0, <1>8 DEF SlotsTyped, Terminated
  <1>9. ASSUME Close PROVE SlotsTyped'
    BY <1>0, <1>1, <1>9 DEF SlotsTyped, Close, Finish
  <1>10. ASSUME CloseDone PROVE SlotsTyped'
    BY <1>0, <1>10 DEF SlotsTyped, CloseDone, slotVars
  <1>11. ASSUME NEW x \in Executions, Host(x) PROVE SlotsTyped'
    <2>1. CASE Backstop(x)
      BY <1>3, <2>1 DEF Backstop, Finish
    <2>2. CASE ExecuteRefused(x) \/ SignalAborts(x) \/ ConcludeAborted(x) \/ ConcludeStuck(x)
      BY <1>2, <2>2 DEF ExecuteRefused, SignalAborts, ConcludeAborted, ConcludeStuck
    <2>3. CASE \E c \in calls[x] : Dispatch(x, c) \/ Settle(x, c)
      BY <1>2, <2>3 DEF Dispatch, Settle
    <2> QED BY <1>4, <1>5, <1>11, <2>1, <2>2, <2>3 DEF Host
  <1>12. ASSUME NEW w \in Threads, Worker(w) PROVE SlotsTyped'
    BY <1>2, <1>12 DEF Worker, WorkerReceive, GuestCalls, GuestEnds, PostResult, hostVars
  <1>13. CASE IdleTimer
    BY <1>3, <1>13 DEF IdleTimer
  <1>14. CASE UNCHANGED vars
    BY <1>2, <1>14 DEF vars, hostVars
  <1> QED BY <1>6, <1>7, <1>8, <1>9, <1>10, <1>11, <1>12, <1>13, <1>14 DEF Next

\* Every step keeps the types of the executions: only a reason or a fault is
\* ever reported.
LEMMA RunsTypedKept ==
  ASSUME Isolation, [Next]_vars
  PROVE  RunsTyped'
  <1>0. RunsTyped
    BY DEF Isolation
  <1>1. ASSUME NEW X, NEW how \in Reasons \cup {"fault"}, NEW b \in BOOLEAN, NEW T,
               Finish(X, how, b, T)
        PROVE  RunsTyped'
    BY <1>0, <1>1 DEF RunsTyped, Finish
  <1>2. CASE UNCHANGED <<runVars, signal, ended, flag>>
    BY <1>0, <1>2 DEF RunsTyped, runVars
  <1>3. ASSUME NEW x \in Executions, NEW how \in Reasons, Return(x, how), UNCHANGED <<on, signal, ended, flag>>
        PROVE  RunsTyped'
    BY <1>0, <1>3 DEF RunsTyped, Return
  <1>4. ASSUME NEW x \in Executions, Host(x) PROVE RunsTyped'
    <2>1. CASE ExecuteRefused(x)
      <3>1. {"aborted", "runtime_error"} \subseteq Reasons
        BY DEF Reasons
      <3> QED BY <1>0, <2>1, <3>1 DEF RunsTyped, ExecuteRefused
    <2>2. CASE \E w \in Threads : Execute(x, w)
      BY <1>0, <2>2 DEF RunsTyped, Execute
    <2>3. CASE SignalAborts(x)
      BY <1>0, <2>3 DEF RunsTyped, SignalAborts, runVars
    <2>4. CASE Backstop(x)
      <3>1. (IF signal[x] THEN "aborted" ELSE "timed_out") \in Reasons \cup {"fault"}
        BY DEF Reasons
      <3> QED BY <1>1, <2>4, <3>1 DEF Backstop
    <2>5. CASE Conclude(x)
      <3>1. CASE ~kill[x] /\ signal[x]
        BY <1>0, <2>5, <3>1 DEF RunsTyped, Conclude
      <3>2. CASE ~(~kill[x] /\ signal[x])
        <4>1. report[x] \in Reasons \cup {"fault"} /\ {"aborted", "runtime_error"} \subseteq Reasons
          BY <2>5 DEF Conclude, Isolation, RunsSound, Reasons
        <4> QED BY <1>3, <2>5, <3>2, <4>1 DEF Conclude
      <3> QED BY <3>1, <3>2
    <2>6. CASE ConcludeAborted(x) \/ ConcludeStuck(x)
      BY <1>3, <2>6 DEF ConcludeAborted, ConcludeStuck, Reasons
    <2>7. CASE \E c \in calls[x] : Dispatch(x, c) \/ Settle(x, c)
      BY <1>2, <2>7 DEF Dispatch, Settle
    <2> QED BY <1>4, <2>1, <2>2, <2>3, <2>4, <2>5, <2>6, <2>7 DEF Host
  <1>5. ASSUME NEW w \in Threads, HostReceive(w) PROVE RunsTyped'
    <2> DEFINE m == Head(toHost[w])
    <2>1. m \in Outbound
      BY <1>5, TailHas DEF HostReceive, Isolation, ChannelsTyped
    <2>2. m.kind = "result" => m.body \in Reasons
      BY <2>1 DEF Outbound
    <2>3. CASE UNCHANGED <<runVars, signal, ended, flag>>
      BY <1>2, <2>3
    <2>4. CASE ended' = [ended EXCEPT ![m.ex] = TRUE] /\ UNCHANGED <<runVars, signal, flag>>
      BY <1>0, <2>4 DEF RunsTyped, runVars
    <2>5. CASE \E how \in Reasons \cup {"fault"}, b \in BOOLEAN : Finish({m.ex}, how, b, {})
      BY <1>1, <2>5
    <2>6. CASE m.kind = "result" /\ Finish({m.ex}, m.body, FALSE, {})
      <3> HIDE DEF m
      <3> QED BY <2>2, <2>5, <2>6
    <2>7. CASE Finish({m.ex}, "fault", TRUE, {})
      BY <2>5, <2>7
    <2> QED BY <1>5, <2>3, <2>4, <2>6, <2>7 DEF HostReceive
  <1>6. ASSUME NEW w \in Threads, Crash(w) \/ Exit(w) PROVE RunsTyped'
    <2>1. Lost(w)
      BY <1>6 DEF Crash, Exit
    <2>2. /\ kill' \in [Executions -> BOOLEAN]
          /\ ended' \in [Executions -> BOOLEAN]
      BY <1>0, <2>1 DEF RunsTyped, Lost
    <2>3. /\ run' \in [Executions -> {"new", "serving", "sealed", "ending", "returned"}]
          /\ report' \in [Executions -> Reasons \cup {"none", "fault"}]
      BY <1>0, <2>1 DEF RunsTyped, Lost
    <2> QED BY <1>0, <2>1, <2>2, <2>3 DEF RunsTyped, Lost
  <1>7. ASSUME NEW w \in Threads, Terminated(w) \/ Worker(w) PROVE RunsTyped'
    BY <1>2, <1>7 DEF Terminated, Worker, WorkerReceive, GuestCalls, GuestEnds, PostResult, hostVars
  <1>8. CASE IdleTimer \/ CloseDone
    BY <1>2, <1>8 DEF IdleTimer, CloseDone
  <1>9. CASE Close
    BY <1>1, <1>9 DEF Close
  <1>10. CASE UNCHANGED vars
    BY <1>2, <1>10 DEF vars, hostVars
  <1> QED BY <1>4, <1>5, <1>6, <1>7, <1>8, <1>9, <1>10 DEF Next

\* Every step keeps the types of the host calls: a call has a worker's id.
LEMMA CallsTypedKept ==
  ASSUME Isolation, [Next]_vars
  PROVE  CallsTyped'
  <1>0. CallsTyped
    BY DEF Isolation
  <1>1. CASE UNCHANGED calls
    BY <1>0, <1>1 DEF CallsTyped
  <1>2. ASSUME NEW x \in Executions, Host(x) PROVE CallsTyped'
    <2>1. CASE \E c \in calls[x] : Dispatch(x, c) \/ Settle(x, c)
      <3>1. PICK c \in calls[x] : Dispatch(x, c) \/ Settle(x, c)
        BY <2>1
      <3>2. c \in [id : Nat \ {0}, dispatched : BOOLEAN]
        BY <1>0 DEF CallsTyped
      <3>3. [c EXCEPT !.dispatched = TRUE] \in [id : Nat \ {0}, dispatched : BOOLEAN]
        BY <3>2
      <3>4. PICK S \in SUBSET [id : Nat \ {0}, dispatched : BOOLEAN] : calls' = [calls EXCEPT ![x] = S]
        BY <1>0, <3>1, <3>3 DEF CallsTyped, Dispatch, Settle
      <3> QED BY <1>0, <3>4 DEF CallsTyped
    <2>2. CASE UNCHANGED calls
      BY <1>1, <2>2
    <2> QED BY <1>2, <2>1, <2>2 DEF Host, ExecuteRefused, Execute, SignalAborts, Backstop, Finish,
                                     Conclude, ConcludeAborted, ConcludeStuck
  <1>3. ASSUME NEW w \in Threads, HostReceive(w) PROVE CallsTyped'
    <2> DEFINE m == Head(toHost[w])
    <2>1. m \in Outbound
      BY <1>3, TailHas DEF HostReceive, Isolation, ChannelsTyped
    <2>2. CASE /\ m.kind = "hostCall"
               /\ calls' = [calls EXCEPT ![m.ex] = @ \cup {[id |-> m.body, dispatched |-> FALSE]}]
      <3>1. m.body \in Nat \ {0}
        BY <2>1, <2>2 DEF Outbound
      <3>2. [id |-> m.body, dispatched |-> FALSE] \in [id : Nat \ {0}, dispatched : BOOLEAN]
        BY <3>1
      <3>3. m.ex \in Executions
        BY <2>1 DEF Outbound
      <3> HIDE DEF m
      <3>4. calls[m.ex] \cup {[id |-> m.body, dispatched |-> FALSE]} \in SUBSET [id : Nat \ {0}, dispatched : BOOLEAN]
        BY <1>0, <3>2, <3>3 DEF CallsTyped
      <3> QED BY <1>0, <2>2, <3>4 DEF CallsTyped
    <2>3. CASE UNCHANGED calls
      BY <1>1, <2>3
    <2> QED BY <1>3, <2>2, <2>3 DEF HostReceive, Finish
  <1>4. ASSUME NEW w \in Threads, Worker(w) \/ Crash(w) \/ Exit(w) \/ Terminated(w) PROVE CallsTyped'
    BY <1>1, <1>4 DEF Worker, WorkerReceive, GuestCalls, GuestEnds, PostResult, hostVars,
                      Crash, Exit, Lost, Terminated
  <1>5. CASE IdleTimer \/ Close \/ CloseDone \/ UNCHANGED vars
    BY <1>1, <1>5 DEF IdleTimer, Close, Finish, CloseDone, vars, hostVars
  <1> QED BY <1>2, <1>3, <1>4, <1>5 DEF Next

\* A served execution has a thread.
LEMMA ServedHasThread ==
  ASSUME Isolation, NEW x \in Executions
  PROVE  /\ Busy(x) => on[x] \in Threads
         /\ run[x] = "serving" => on[x] \in Threads
  BY DEF Isolation, RunsSound, Busy

\* Every message that a step posts is one of the protocol.
LEMMA ChannelsTypedKept ==
  ASSUME Isolation, [Next]_vars
  PROVE  ChannelsTyped'
  <1>0. ChannelsTyped
    BY DEF Isolation
  <1>1. CASE UNCHANGED <<toWorker, toHost>>
    BY <1>0, <1>1 DEF ChannelsTyped
  <1>2. ASSUME NEW w \in Threads, NEW m \in Inbound, toWorker' = Post(toWorker, w, m), UNCHANGED toHost
        PROVE  ChannelsTyped'
    <2>1. Append(toWorker[w], m) \in Seq(Inbound)
      BY <1>0, AppendHas DEF ChannelsTyped
    <2> QED BY <1>0, <1>2, <2>1 DEF ChannelsTyped, Post
  <1>3. ASSUME NEW w \in Threads, NEW m \in Outbound, toHost' = Post(toHost, w, m),
               toWorker' \in [Threads -> Seq(Inbound)]
        PROVE  ChannelsTyped'
    <2>1. Append(toHost[w], m) \in Seq(Outbound)
      BY <1>0, AppendHas DEF ChannelsTyped
    <2> QED BY <1>0, <1>3, <2>1 DEF ChannelsTyped, Post
  <1>4. ASSUME NEW x \in Executions, Host(x) PROVE ChannelsTyped'
    <2>1. CASE \E w \in Threads : Execute(x, w)
      <3>1. Message("run", x, 0) \in Inbound
        BY DEF Message, Inbound
      <3> QED BY <1>2, <2>1, <3>1 DEF Execute
    <2>2. CASE SignalAborts(x)
      <3>1. Message("abort", x, 0) \in Inbound
        BY DEF Message, Inbound
      <3> QED BY <1>1, <1>2, <2>2, <3>1, ServedHasThread DEF SignalAborts
    <2>3. ASSUME NEW c \in calls[x], Settle(x, c) PROVE ChannelsTyped'
      <3>1. Message("hostResult", x, c.id) \in Inbound
        BY DEF Message, Inbound, Isolation, CallsTyped
      <3> QED BY <1>1, <1>2, <2>3, <3>1, ServedHasThread DEF Settle
    <2>4. CASE UNCHANGED <<toWorker, toHost>>
      BY <1>1, <2>4
    <2> QED BY <1>4, <2>1, <2>2, <2>3, <2>4 DEF Host, ExecuteRefused, Backstop, Conclude, ConcludeAborted,
                                                 ConcludeStuck, Dispatch
  <1>5. ASSUME NEW w \in Threads, HostReceive(w) PROVE ChannelsTyped'
    <2>1. Tail(toHost[w]) \in Seq(Outbound)
      BY <1>0, <1>5, TailHas DEF HostReceive, ChannelsTyped
    <2> QED BY <1>0, <1>5, <2>1 DEF ChannelsTyped, HostReceive
  <1>6. ASSUME NEW w \in Threads, Crash(w) \/ Exit(w) PROVE ChannelsTyped'
    <2>1. <<>> \in Seq(Inbound) /\ <<>> \in Seq(Outbound)
      OBVIOUS
    <2>2. toWorker' = [toWorker EXCEPT ![w] = <<>>] /\ toHost' = [toHost EXCEPT ![w] = <<>>]
      BY <1>6 DEF Crash, Exit, Discard
    <2> QED BY <1>0, <2>1, <2>2 DEF ChannelsTyped
  <1>7. ASSUME NEW w \in Threads, Worker(w) PROVE ChannelsTyped'
    <2>0. /\ active[w] \in Executions \cup {Nil} /\ (active[w] = Nil <=> guest[w] = "none")
          /\ nextId[w] \in Nat
          /\ guest[w] = "teardown" => verdict[w] \in Reasons
      BY DEF Isolation, WorkerSound, WorkerTyped
    <2>1. ASSUME NEW how, EndGuest(w, how), guest[w] = "running", toWorker' \in [Threads -> Seq(Inbound)]
          PROVE  ChannelsTyped'
      <3>1. Message("hostAbort", active[w], 0) \in Outbound
        BY <2>0, <2>1 DEF Message, Outbound
      <3> QED BY <1>0, <1>3, <2>1, <3>1 DEF EndGuest, ChannelsTyped
    <2>2. CASE WorkerReceive(w)
      <3>1. toWorker' \in [Threads -> Seq(Inbound)]
        <4>1. Tail(toWorker[w]) \in Seq(Inbound)
          BY <1>0, <2>2, TailHas DEF WorkerReceive, ChannelsTyped
        <4> QED BY <1>0, <2>2, <4>1 DEF WorkerReceive, ChannelsTyped
      <3>2. CASE UNCHANGED toHost
        BY <1>0, <3>1, <3>2 DEF ChannelsTyped
      <3> QED BY <2>1, <2>2, <3>1, <3>2 DEF WorkerReceive
    <2>3. CASE GuestCalls(w)
      <3>1. Message("hostCall", active[w], nextId[w] + 1) \in Outbound
        BY <2>0, <2>3 DEF Message, Outbound, GuestCalls
      <3> QED BY <1>0, <1>3, <2>3, <3>1 DEF GuestCalls, ChannelsTyped
    <2>4. CASE GuestEnds(w)
      BY <1>0, <2>1, <2>4 DEF GuestEnds, ChannelsTyped
    <2>5. CASE PostResult(w)
      <3>1. /\ Message("result", active[w], verdict[w]) \in Outbound
            /\ Message("fatal", active[w], 0) \in Outbound
        BY <2>0, <2>5 DEF Message, Outbound, PostResult
      <3> QED BY <1>0, <1>3, <2>5, <3>1 DEF PostResult, ChannelsTyped
    <2> QED BY <1>7, <2>2, <2>3, <2>4, <2>5 DEF Worker
  <1>8. ASSUME NEW w \in Threads, Terminated(w) PROVE ChannelsTyped'
    BY <1>1, <1>8 DEF Terminated
  <1>9. CASE IdleTimer \/ Close \/ CloseDone \/ UNCHANGED vars
    BY <1>1, <1>9 DEF IdleTimer, Close, CloseDone, vars
  <1> QED BY <1>4, <1>5, <1>6, <1>7, <1>8, <1>9 DEF Next

\* A worker's own state: its types, and what its guest and its calls say.
LEMMA WorkerKept ==
  ASSUME Isolation, [Next]_vars
  PROVE  WorkerTyped' /\ WorkerSound'
  <1> USE SandboxNames, SandboxBound, SandboxEnds
  <1>0. WorkerTyped /\ WorkerSound
    BY DEF Isolation
  <1>1. CASE UNCHANGED vmVars
    BY <1>0, <1>1 DEF WorkerTyped, WorkerSound, vmVars
  <1>2. ASSUME NEW w \in Threads, NEW how \in Reasons, EndGuest(w, how), guest[w] = "running"
        PROVE  WorkerTyped' /\ WorkerSound'
    <2>1. WorkerTyped'
      BY <1>0, <1>2 DEF WorkerTyped, EndGuest
    <2>2. WorkerSound'
      BY <1>0, <1>2 DEF WorkerTyped, WorkerSound, EndGuest
    <2> QED BY <2>1, <2>2
  <1>3. ASSUME NEW w \in Threads, WorkerReceive(w) PROVE WorkerTyped' /\ WorkerSound'
    <2> DEFINE m == Head(toWorker[w])
    <2>1. m \in Inbound
      BY <1>3, TailHas DEF WorkerReceive, Isolation, ChannelsTyped
    <2>2. m.ex \in Executions
      BY <2>1 DEF Inbound
    <2> HIDE DEF m
    <2>3. CASE /\ active[w] = Nil /\ active' = [active EXCEPT ![w] = m.ex]
               /\ guest' = [guest EXCEPT ![w] = "running"]
               /\ called' = [called EXCEPT ![w] = 0]
               /\ UNCHANGED <<verdict, pending, nextId>>
      <3>1. WorkerTyped'
        BY <1>0, <2>2, <2>3 DEF WorkerTyped
      <3>2. WorkerSound'
        BY <1>0, <2>2, <2>3 DEF WorkerTyped, WorkerSound
      <3> QED BY <3>1, <3>2
    <2>4. CASE EndGuest(w, "aborted") /\ guest[w] = "running"
      BY <1>2, <2>4 DEF Reasons
    <2>5. CASE /\ pending' = [pending EXCEPT ![w] = @ \ {m.body}]
               /\ UNCHANGED <<active, guest, verdict, nextId, called>>
      <3>1. WorkerTyped'
        BY <1>0, <2>5 DEF WorkerTyped
      <3>2. WorkerSound'
        BY <1>0, <2>5 DEF WorkerTyped, WorkerSound
      <3> QED BY <3>1, <3>2
    <2> QED BY <1>1, <1>3, <2>3, <2>4, <2>5 DEF WorkerReceive, m
  <1>4. ASSUME NEW w \in Threads, GuestCalls(w) PROVE WorkerTyped' /\ WorkerSound'
    <2>1. WorkerTyped'
      BY <1>0, <1>4 DEF WorkerTyped, GuestCalls
    <2>2. WorkerSound'
      BY <1>0, <1>4 DEF WorkerTyped, WorkerSound, GuestCalls
    <2> QED BY <2>1, <2>2
  <1>5. ASSUME NEW w \in Threads, GuestEnds(w) PROVE WorkerTyped' /\ WorkerSound'
    BY <1>2, <1>5 DEF GuestEnds
  <1>6. ASSUME NEW w \in Threads, PostResult(w) PROVE WorkerTyped' /\ WorkerSound'
    <2>1. WorkerTyped'
      BY <1>0, <1>6 DEF WorkerTyped, PostResult
    <2>2. WorkerSound'
      BY <1>0, <1>6 DEF WorkerTyped, WorkerSound, PostResult
    <2> QED BY <2>1, <2>2
  <1>7. ASSUME NEW w \in Threads, Discard(w) PROVE WorkerTyped' /\ WorkerSound'
    <2>1. active' \in [Threads -> Executions \cup {Nil}] /\ guest' \in [Threads -> {"none", "running", "teardown"}]
      BY <1>0, <1>7 DEF WorkerTyped, Discard
    <2>2. verdict' \in [Threads -> Reasons \cup {"none"}] /\ pending' \in [Threads -> SUBSET Nat]
      BY <1>0, <1>7 DEF WorkerTyped, Discard
    <2>3. nextId' \in [Threads -> Nat] /\ called' \in [Threads -> 0..MaxCalls]
      BY <1>0, <1>7 DEF WorkerTyped, Discard
    <2>4. WorkerSound'
      BY <1>0, <1>7 DEF WorkerTyped, WorkerSound, Discard
    <2> QED BY <2>1, <2>2, <2>3, <2>4 DEF WorkerTyped
  <1>8. ASSUME NEW x \in Executions, Host(x) PROVE WorkerTyped' /\ WorkerSound'
    BY <1>1, <1>8 DEF Host, ExecuteRefused, Execute, SignalAborts, Backstop, Conclude, ConcludeAborted,
                      ConcludeStuck, Dispatch, Settle
  <1>9. ASSUME NEW w \in Threads, HostReceive(w) \/ Terminated(w) PROVE WorkerTyped' /\ WorkerSound'
    BY <1>1, <1>9 DEF HostReceive, Terminated
  <1>10. CASE IdleTimer \/ Close \/ CloseDone \/ UNCHANGED vars
    BY <1>1, <1>10 DEF IdleTimer, Close, CloseDone, vars
  <1>11. ASSUME NEW w \in Threads, Worker(w) \/ Crash(w) \/ Exit(w) PROVE WorkerTyped' /\ WorkerSound'
    BY <1>3, <1>4, <1>5, <1>6, <1>7, <1>11 DEF Worker, Crash, Exit
  <1> QED BY <1>8, <1>9, <1>10, <1>11 DEF Next

-----------------------------------------------------------------------------
(* Slots and executions                                                       *)

\* What a termination changes: the slots of S are given up, and only they.
LEMMA TerminateDoes ==
  ASSUME Isolation, NEW S \in SUBSET Threads, Terminate(S)
  PROVE  /\ slots' \subseteq slots /\ (\A w \in slots \ slots' : w \in S) /\ slots' \cap S = {}
         /\ idle' \in {idle, Nil} /\ (idle' # Nil => idle' \in slots')
         /\ \A w \in Threads :
              /\ \/ termination'[w] = termination[w]
                 \/ w \in S /\ termination[w] = "none" /\ termination'[w] = "begun"
              /\ w \in S => termination'[w] # "none"
  <1>1. SlotsTyped /\ SlotsSound
    BY DEF Isolation
  <1> QED BY <1>1 DEF SlotsTyped, SlotsSound, Terminate

\* Finish seals, and terminates slots only: those of T, and those of sealed
\* executions.
LEMMA FinishDoes ==
  ASSUME Isolation, NEW X \in SUBSET Executions, NEW how, NEW b, NEW T \in SUBSET slots,
         Finish(X, how, b, T)
  PROVE  \E S \in SUBSET slots :
           /\ Terminate(S) /\ T \subseteq S
           /\ \A w \in S \ T : \E x \in X : run[x] = "serving" /\ on[x] = w
           /\ \A x \in X : run[x] = "serving" /\ (b \/ signal[x]) => on[x] \in S
  <1> DEFINE open == {x \in X : run[x] = "serving"}
             dead == {x \in open : b \/ signal[x]}
             S == T \cup {on[x] : x \in dead}
  <1>1. S \in SUBSET slots
    BY DEF Isolation, RunsSound
  <1>2. Terminate(S)
    BY DEF Finish
  <1>3. /\ T \subseteq S
        /\ \A w \in S \ T : \E x \in X : run[x] = "serving" /\ on[x] = w
        /\ \A x \in X : run[x] = "serving" /\ (b \/ signal[x]) => on[x] \in S
    OBVIOUS
  <1> HIDE DEF S
  <1> QED BY <1>1, <1>2, <1>3

\* Slots, terminations and threads stay in step.
LEMMA SlotsSoundKept ==
  ASSUME Isolation, [Next]_vars
  PROVE  SlotsSound'
  <1> USE SandboxNames
  <1>0. SlotsTyped /\ SlotsSound /\ RunsSound /\ ChannelsTyped /\ WorkerTyped /\ WorkerSound
    BY DEF Isolation
  <1>1. ASSUME UNCHANGED <<slotVars, on, thread, toWorker, toHost, active, pending>>
        PROVE  SlotsSound'
    BY <1>0, <1>1 DEF SlotsSound, Vacant, slotVars
  <1>2. ASSUME NEW S \in SUBSET Threads, Terminate(S), \A w \in S : thread[w] # "unborn",
               UNCHANGED <<on, thread, active, pending>>,
               \A w \in Threads : thread[w] # "running" => Vacant(w)'
        PROVE  SlotsSound'
    <2>1. /\ slots' \subseteq slots /\ (\A w \in slots \ slots' : w \in S) /\ slots' \cap S = {}
          /\ idle' # Nil => idle' \in slots'
          /\ \A w \in Threads :
               /\ \/ termination'[w] = termination[w]
                  \/ w \in S /\ termination[w] = "none" /\ termination'[w] = "begun"
               /\ w \in S => termination'[w] # "none"
      BY <1>2, TerminateDoes
    <2>2. \A w \in Threads : termination[w] \in {"none", "begun", "settled", "failed"} /\ thread'[w] = thread[w]
      BY <1>0, <1>2 DEF SlotsTyped
    <2>3. ASSUME NEW w \in Threads
          PROVE  /\ w \in slots' => termination'[w] = "none" /\ thread'[w] = "running"
                 /\ thread'[w] = "unborn" => termination'[w] = "none" /\ \A x \in Executions : on'[x] # w
                 /\ thread'[w] = "running" => w \in slots' \/ termination'[w] \in {"begun", "failed"}
                 /\ termination'[w] = "settled" => thread'[w] = "exited"
      BY <1>0, <1>2, <2>1, <2>2 DEF SlotsSound
    <2> QED BY <1>2, <2>1, <2>2, <2>3 DEF SlotsSound
  <1>3. \A w \in Threads : thread[w] # "running" => Vacant(w)
    BY <1>0 DEF SlotsSound
  <1>4. \A w \in slots : w \in Threads /\ thread[w] = "running" /\ termination[w] = "none"
    BY <1>0 DEF SlotsSound, SlotsTyped
  <1>5. ASSUME NEW x \in Executions, NEW w \in Threads, Execute(x, w) PROVE SlotsSound'
    <2>1. thread'[w] = "running" /\ w \in slots' /\ termination[w] = "none" /\ idle' = Nil
      BY <1>0, <1>4, <1>5 DEF Execute, SlotsSound, SlotsTyped
    <2>2. \A v \in Threads : v # w => thread'[v] = thread[v] /\ (v \in slots' <=> v \in slots)
      BY <1>0, <1>5 DEF Execute, SlotsTyped
    <2>3. \A v \in Threads : v # w => (Vacant(v) => Vacant(v)')
      BY <1>0, <1>5 DEF Execute, Vacant, Post, vmVars, ChannelsTyped
    <2>4. \A v \in Threads : v # w => \A y \in Executions : on[y] # v => on'[y] # v
      BY <1>5 DEF Execute, Isolation, RunsTyped
    <2>5. termination' = termination
      BY <1>5 DEF Execute
    <2> QED BY <1>0, <2>1, <2>2, <2>3, <2>4, <2>5 DEF SlotsSound
  <1>6. ASSUME NEW x \in Executions, run[x] = "serving", NEW m, toWorker' = Post(toWorker, on[x], m),
               UNCHANGED <<slotVars, on, thread, toHost, active, pending>>
        PROVE  SlotsSound'
    <2>1. on[x] \in Threads /\ thread[on[x]] = "running"
      BY <1>0, <1>4, <1>6 DEF RunsSound
    <2>2. \A w \in Threads : w # on[x] => (Vacant(w) => Vacant(w)')
      BY <1>0, <1>6, <2>1 DEF Vacant, Post, ChannelsTyped
    <2> QED BY <1>0, <1>6, <2>1, <2>2 DEF SlotsSound, slotVars
  <1>7. ASSUME NEW X \in SUBSET Executions, NEW how, NEW b, NEW T \in SUBSET slots, Finish(X, how, b, T),
               UNCHANGED <<thread, active, pending>>, \A w \in Threads : thread[w] # "running" => Vacant(w)'
        PROVE  SlotsSound'
    <2>1. PICK S \in SUBSET slots : Terminate(S)
      BY <1>7, FinishDoes
    <2>2. UNCHANGED on
      BY <1>7 DEF Finish
    <2> QED BY <1>0, <1>2, <1>4, <1>7, <2>1, <2>2 DEF SlotsTyped
  <1>8. ASSUME NEW x \in Executions, Conclude(x) PROVE SlotsSound'
    <2>1. on[x] \in Threads /\ thread[on[x]] # "unborn"
      BY <1>0, <1>8, ServedHasThread DEF Conclude, Busy, SlotsSound
    <2>2. UNCHANGED <<on, thread, toWorker, toHost, active, pending>>
      BY <1>8 DEF Conclude, vmVars
    <2>3. CASE Terminate({on[x]})
      BY <1>2, <1>3, <2>1, <2>2, <2>3 DEF Vacant
    <2>4. CASE UNCHANGED slotVars
      BY <1>1, <2>2, <2>4
    <2>5. CASE idle' = on[x] /\ on[x] \in slots /\ UNCHANGED <<slots, termination>>
      BY <1>0, <2>2, <2>5 DEF SlotsSound, Vacant
    <2> QED BY <1>8, <2>3, <2>4, <2>5 DEF Conclude, Release
  <1>9. ASSUME NEW x \in Executions, Host(x) PROVE SlotsSound'
    <2>1. CASE SignalAborts(x)
      <3>1. CASE run[x] = "serving"
        BY <1>6, <2>1, <3>1 DEF SignalAborts, runVars, vmVars
      <3>2. CASE run[x] # "serving"
        BY <1>1, <2>1, <3>2 DEF SignalAborts, runVars, vmVars
      <3> QED BY <3>1, <3>2
    <2>2. ASSUME NEW c \in calls[x], Settle(x, c) PROVE SlotsSound'
      <3>1. CASE run[x] = "serving"
        BY <1>6, <2>2, <3>1 DEF Settle, runVars, vmVars
      <3>2. CASE run[x] # "serving"
        BY <1>1, <2>2, <3>2 DEF Settle, runVars, vmVars
      <3> QED BY <3>1, <3>2
    <2>3. CASE Backstop(x)
      <3>1. UNCHANGED <<thread, active, pending, toWorker, toHost>>
        BY <2>3 DEF Backstop, vmVars
      <3> QED BY <1>3, <1>7, <2>3, <3>1 DEF Backstop, Vacant
    <2>4. CASE ExecuteRefused(x) \/ ConcludeAborted(x) \/ ConcludeStuck(x) \/ \E c \in calls[x] : Dispatch(x, c)
      BY <1>1, <2>4 DEF ExecuteRefused, ConcludeAborted, ConcludeStuck, Dispatch, runVars, vmVars
    <2> QED BY <1>5, <1>8, <1>9, <2>1, <2>2, <2>3, <2>4 DEF Host
  <1>10. ASSUME NEW w \in Threads, HostReceive(w) PROVE SlotsSound'
    <2>1. thread[w] = "running"
      BY <1>3, <1>10 DEF HostReceive, Vacant
    <2>2. UNCHANGED <<thread, active, pending, toWorker>>
      BY <1>10 DEF HostReceive, vmVars
    <2>3. \A v \in Threads : thread[v] # "running" => Vacant(v)'
      BY <1>0, <1>3, <1>10, <2>1, <2>2 DEF HostReceive, Vacant, ChannelsTyped
    <2>4. CASE UNCHANGED <<slotVars, runVars>>
      BY <1>0, <2>2, <2>3, <2>4 DEF SlotsSound, slotVars, runVars
    <2>5. ASSUME NEW y \in Executions, NEW how, NEW b, Finish({y}, how, b, {}) PROVE SlotsSound'
      BY <1>7, <2>2, <2>3, <2>5
    <2>6. Head(toHost[w]).ex \in Serving(w) => Head(toHost[w]).ex \in Executions
      BY DEF Serving
    <2> QED BY <1>10, <2>4, <2>5, <2>6 DEF HostReceive
  <1>11. ASSUME NEW w \in Threads, Crash(w) \/ Exit(w) PROVE SlotsSound'
    <2>1. Lost(w) /\ Discard(w) /\ thread[w] \in {"running", "crashed"} /\ thread'[w] \in {"crashed", "exited"}
          /\ \A v \in Threads : v # w => thread'[v] = thread[v]
      BY <1>0, <1>11 DEF Crash, Exit, SlotsTyped
    <2>2. \A v \in Threads : Vacant(v) => Vacant(v)'
      BY <1>0, <2>1 DEF Vacant, Discard, ChannelsTyped, WorkerTyped
    <2>3. Vacant(w)'
      BY <1>0, <2>1 DEF Vacant, Discard, ChannelsTyped, WorkerTyped
    <2>4. slots' = slots \ {w} /\ (idle' # Nil => idle' \in slots') /\ on' = on
      BY <1>0, <2>1 DEF Lost, SlotsSound
    <2>5. /\ \A v \in Threads : v # w => termination'[v] = termination[v]
          /\ termination'[w] = "settled" => thread'[w] = "exited"
      BY <1>0, <1>11, <2>1 DEF Lost, SlotsTyped, SlotsSound, Crash, Exit
    <2> QED BY <1>0, <2>1, <2>2, <2>3, <2>4, <2>5 DEF SlotsSound
  <1>12. ASSUME NEW w \in Threads, Terminated(w) PROVE SlotsSound'
    <2>1. UNCHANGED <<slots, idle, on, thread, toWorker, toHost, active, pending>>
      BY <1>12 DEF Terminated, runVars, vmVars
    <2>2. /\ \A v \in Threads : v # w => termination'[v] = termination[v]
          /\ termination[w] = "begun"
          /\ (termination'[w] = "settled" /\ thread[w] = "exited") \/ termination'[w] = "failed"
      BY <1>0, <1>12 DEF Terminated, SlotsTyped
    <2> QED BY <1>0, <2>1, <2>2 DEF SlotsSound, Vacant
  <1>13. CASE IdleTimer
    <2>1. UNCHANGED <<on, thread, toWorker, toHost, active, pending>> /\ Terminate({idle})
      BY <1>13 DEF IdleTimer, runVars, vmVars
    <2>2. idle \in Threads /\ thread[idle] # "unborn"
      BY <1>0, <1>4, <1>13 DEF IdleTimer, SlotsSound
    <2> QED BY <1>2, <1>3, <2>1, <2>2 DEF Vacant
  <1>14. CASE Close
    <2>1. UNCHANGED <<thread, active, pending, toWorker, toHost>>
      BY <1>14 DEF Close, vmVars
    <2> QED BY <1>3, <1>7, <1>14, <2>1 DEF Close, Vacant
  <1>15. CASE CloseDone \/ UNCHANGED vars
    BY <1>1, <1>15 DEF CloseDone, runVars, vmVars, vars, hostVars
  <1>16. ASSUME NEW w \in Threads, Worker(w) PROVE SlotsSound'
    <2>1. thread[w] = "running" /\ UNCHANGED <<slotVars, on, thread>>
      BY <1>16 DEF Worker, WorkerReceive, GuestCalls, GuestEnds, PostResult, hostVars, runVars
    <2>2. ASSUME NEW v \in Threads, v # w
          PROVE  /\ toWorker'[v] = toWorker[v] /\ toHost'[v] = toHost[v]
                 /\ active'[v] = active[v] /\ pending'[v] = pending[v]
      <3>1. CASE WorkerReceive(w)
        BY <1>0, <2>2, <3>1 DEF WorkerReceive, EndGuest, Post, ChannelsTyped, WorkerTyped, vmVars
      <3>2. CASE GuestCalls(w) \/ GuestEnds(w) \/ PostResult(w)
        BY <1>0, <2>2, <3>2 DEF GuestCalls, GuestEnds, PostResult, EndGuest, Post, ChannelsTyped, WorkerTyped
      <3> QED BY <1>16, <3>1, <3>2 DEF Worker
    <2>3. \A v \in Threads : v # w /\ Vacant(v) => Vacant(v)'
      BY <2>2 DEF Vacant
    <2> QED BY <1>0, <2>1, <2>3 DEF SlotsSound, slotVars
  <1> QED BY <1>9, <1>10, <1>11, <1>12, <1>13, <1>14, <1>15, <1>16 DEF Next

\* Which executions a step seals, and that it gives no thread to a second one.
LEMMA RunsSoundKept ==
  ASSUME Isolation, [Next]_vars
  PROVE  RunsSound' /\ OneAtATime'
  <1> USE SandboxNames
  <1>0. SlotsTyped /\ SlotsSound /\ RunsTyped /\ CallsTyped /\ RunsSound /\ OneAtATime
    BY DEF Isolation
  <1>1. ASSUME UNCHANGED <<slotVars, run, on, report>>,
               \A x \in Executions :
                 /\ run[x] = "new" /\ calls[x] = {} => calls'[x] = {}
                 /\ run[x] \in {"sealed", "ending", "returned"} /\ calls'[x] # {} => calls[x] # {}
                 /\ ended[x] => ended'[x]
        PROVE  RunsSound' /\ OneAtATime'
    BY <1>0, <1>1 DEF RunsSound, OneAtATime, Busy, slotVars
  <1>2. ASSUME NEW X \in SUBSET Executions, NEW how \in Reasons \cup {"fault"}, NEW b,
               NEW T \in SUBSET slots, Finish(X, how, b, T),
               \A x \in Executions : on[x] \in T /\ run[x] = "serving" => x \in X
        PROVE  RunsSound' /\ OneAtATime'
    <2>1. PICK S \in SUBSET slots :
            /\ Terminate(S)
            /\ \A w \in S \ T : \E x \in X : run[x] = "serving" /\ on[x] = w
      BY <1>2, FinishDoes
    <2>2. idle' \in {idle, Nil} /\ \A w \in slots \ slots' : w \in S
      BY <1>0, <2>1, TerminateDoes DEF SlotsTyped
    <2>3. /\ \A x \in X : run[x] = "serving" => run'[x] = "sealed" /\ report'[x] = how /\ ended'[x]
          /\ \A x \in Executions : x \notin X \/ run[x] # "serving" =>
                run'[x] = run[x] /\ report'[x] = report[x] /\ (ended[x] => ended'[x])
          /\ on' = on /\ calls' = calls
      BY <1>0, <1>2 DEF Finish, RunsTyped
    <2>4. ASSUME NEW x \in Executions, run'[x] = "serving" PROVE on[x] \in slots'
      <3>1. run[x] = "serving" /\ x \notin X
        BY <2>3, <2>4
      <3>2. on[x] \in slots /\ on[x] \notin T
        BY <1>0, <1>2, <3>1 DEF RunsSound
      <3>3. \A y \in X : run[y] = "serving" => on[y] # on[x]
        BY <1>0, <3>1 DEF OneAtATime, Busy
      <3> QED BY <2>1, <2>2, <3>2, <3>3
    <2>5. RunsSound'
      <3>1. \A x \in Executions : Busy(x)' => Busy(x)
        BY <2>3 DEF Busy
      <3>2. ASSUME NEW x \in Executions
            PROVE  /\ run'[x] = "new" => on'[x] = Nil /\ calls'[x] = {}
                   /\ Busy(x)' => on'[x] \in Threads /\ on'[x] # idle'
                   /\ run'[x] = "sealed" => report'[x] \in Reasons \cup {"fault"}
                   /\ run'[x] \in {"sealed", "ending", "returned"} /\ calls'[x] # {} => ended'[x]
        <4>1. CASE x \in X /\ run[x] = "serving"
          BY <1>0, <2>2, <2>3, <3>1, <4>1 DEF RunsSound
        <4>2. CASE x \notin X \/ run[x] # "serving"
          BY <1>0, <2>2, <2>3, <3>1, <4>2 DEF RunsSound
        <4> QED BY <4>1, <4>2
      <3> QED BY <2>3, <2>4, <3>2 DEF RunsSound
    <2>6. OneAtATime'
      BY <1>0, <2>3 DEF OneAtATime, Busy
    <2> QED BY <2>5, <2>6
  <1>3. ASSUME NEW x \in Executions, ExecuteRefused(x) PROVE RunsSound' /\ OneAtATime'
    BY <1>0, <1>3 DEF ExecuteRefused, RunsSound, OneAtATime, Busy, RunsTyped, slotVars
  <1>4. ASSUME NEW x \in Executions, NEW w \in Threads, Execute(x, w) PROVE RunsSound' /\ OneAtATime'
    <2>1. /\ run'[x] = "serving" /\ on'[x] = w
          /\ \A y \in Executions : y # x => run'[y] = run[y] /\ on'[y] = on[y]
          /\ UNCHANGED <<report, ended, calls>>
      BY <1>0, <1>4 DEF Execute, RunsTyped
    <2>2. /\ \A y \in Executions : Busy(y) => on[y] # w
          /\ idle' = Nil /\ slots' = slots \cup {w}
      BY <1>0, <1>4 DEF Execute, SlotsSound, RunsSound
    <2>3. RunsSound'
      <3>1. ASSUME NEW y \in Executions
            PROVE  /\ run'[y] = "new" => on'[y] = Nil /\ calls'[y] = {}
                   /\ Busy(y)' => on'[y] \in Threads /\ on'[y] # idle'
                   /\ run'[y] = "serving" => on'[y] \in slots'
                   /\ run'[y] = "sealed" => report'[y] \in Reasons \cup {"fault"}
                   /\ run'[y] \in {"sealed", "ending", "returned"} /\ calls'[y] # {} => ended'[y]
        <4>1. CASE y = x
          BY <2>1, <2>2, <4>1
        <4>2. CASE y # x
          BY <1>0, <2>1, <2>2, <4>2 DEF RunsSound, Busy
        <4> QED BY <4>1, <4>2
      <3> QED BY <3>1 DEF RunsSound
    <2>4. OneAtATime'
      BY <1>0, <2>1, <2>2 DEF OneAtATime, Busy
    <2> QED BY <2>3, <2>4
  <1>5. ASSUME NEW x \in Executions, SignalAborts(x) PROVE RunsSound' /\ OneAtATime'
    <2>1. \A y \in Executions : ended[y] => ended'[y]
      BY <1>0, <1>5 DEF SignalAborts, RunsTyped
    <2> QED BY <1>1, <1>5, <2>1 DEF SignalAborts, runVars
  <1>6. ASSUME NEW x \in Executions, Backstop(x) PROVE RunsSound' /\ OneAtATime'
    <2>1. (IF signal[x] THEN "aborted" ELSE "timed_out") \in Reasons \cup {"fault"}
      BY DEF Reasons
    <2>2. PICK how \in Reasons \cup {"fault"} : Finish({x}, how, TRUE, {})
      BY <1>6, <2>1 DEF Backstop
    <2>3. {x} \in SUBSET Executions /\ {} \in SUBSET slots
      OBVIOUS
    <2> QED BY <1>2, <2>2, <2>3
  <1>7. ASSUME NEW x \in Executions, NEW how, Return(x, how), Busy(x),
               UNCHANGED <<on, ended, calls>>, calls[x] # {} => ended[x],
               slots' \subseteq slots, \A w \in slots \ slots' : w = on[x],
               idle' \in {idle, Nil, on[x]}
        PROVE  RunsSound' /\ OneAtATime'
    <2>1. /\ run'[x] = "returned" /\ \A y \in Executions : y # x => run'[y] = run[y] /\ report'[y] = report[y]
      BY <1>0, <1>7 DEF Return, RunsTyped
    <2>2. \A y \in Executions : y # x /\ Busy(y) => on[y] # on[x]
      BY <1>0, <1>7 DEF OneAtATime
    <2>3. RunsSound'
      <3>1. ASSUME NEW y \in Executions
            PROVE  /\ run'[y] = "new" => on'[y] = Nil /\ calls'[y] = {}
                   /\ Busy(y)' => on'[y] \in Threads /\ on'[y] # idle'
                   /\ run'[y] = "serving" => on'[y] \in slots'
                   /\ run'[y] = "sealed" => report'[y] \in Reasons \cup {"fault"}
                   /\ run'[y] \in {"sealed", "ending", "returned"} /\ calls'[y] # {} => ended'[y]
        <4>1. CASE y = x
          BY <1>7, <2>1, <4>1 DEF Busy
        <4>2. CASE y # x
          BY <1>0, <1>7, <2>1, <2>2, <4>2 DEF RunsSound, Busy
        <4> QED BY <4>1, <4>2
      <3> QED BY <3>1 DEF RunsSound
    <2>4. OneAtATime'
      BY <1>0, <1>7, <2>1 DEF OneAtATime, Busy
    <2> QED BY <2>3, <2>4
  <1>8. ASSUME NEW x \in Executions, Conclude(x) PROVE RunsSound' /\ OneAtATime'
    <2>1. Busy(x) /\ on[x] \in Threads /\ (calls[x] # {} => ended[x])
      BY <1>0, <1>8 DEF Conclude, Busy, RunsSound
    <2>2. ASSUME Terminate({on[x]})
          PROVE  slots' \subseteq slots /\ (\A w \in slots \ slots' : w = on[x]) /\ idle' \in {idle, Nil}
      BY <2>1, <2>2, TerminateDoes
    <2>3. CASE ~kill[x] /\ signal[x]
      <3>1. /\ run'[x] = "ending" /\ \A y \in Executions : y # x => run'[y] = run[y]
            /\ UNCHANGED <<on, report, ended, calls>> /\ Terminate({on[x]})
        BY <1>0, <1>8, <2>3 DEF Conclude, RunsTyped
      <3>2. \A y \in Executions : y # x /\ Busy(y) => on[y] # on[x]
        BY <1>0, <2>1 DEF OneAtATime
      <3>3. ASSUME NEW y \in Executions
            PROVE  /\ run'[y] = "new" => on'[y] = Nil /\ calls'[y] = {}
                   /\ Busy(y)' => on'[y] \in Threads /\ on'[y] # idle'
                   /\ run'[y] = "serving" => on'[y] \in slots'
                   /\ run'[y] = "sealed" => report'[y] \in Reasons \cup {"fault"}
                   /\ run'[y] \in {"sealed", "ending", "returned"} /\ calls'[y] # {} => ended'[y]
        <4>1. CASE y = x
          BY <1>0, <2>1, <2>2, <3>1, <4>1 DEF RunsSound
        <4>2. CASE y # x
          BY <1>0, <2>2, <3>1, <3>2, <4>2 DEF RunsSound, Busy
        <4> QED BY <4>1, <4>2
      <3>4. OneAtATime'
        BY <1>0, <2>1, <3>1 DEF OneAtATime, Busy
      <3> QED BY <3>3, <3>4 DEF RunsSound
    <2>4. CASE ~(~kill[x] /\ signal[x])
      <3>1. PICK how : Return(x, how)
        BY <1>8, <2>4 DEF Conclude
      <3>2. slots' \subseteq slots /\ (\A w \in slots \ slots' : w = on[x]) /\ idle' \in {idle, Nil, on[x]}
        BY <1>8, <2>2, <2>4 DEF Conclude, Release, slotVars
      <3>3. UNCHANGED <<on, ended, calls>>
        BY <1>8 DEF Conclude
      <3> QED BY <1>7, <2>1, <3>1, <3>2, <3>3
    <2> QED BY <2>3, <2>4
  <1>9. ASSUME NEW x \in Executions, ConcludeAborted(x) \/ ConcludeStuck(x) PROVE RunsSound' /\ OneAtATime'
    <2>1. Busy(x) /\ (calls[x] # {} => ended[x])
      BY <1>0, <1>9 DEF ConcludeAborted, ConcludeStuck, Busy, RunsSound
    <2>2. (\E how : Return(x, how)) /\ UNCHANGED <<slots, idle, on, ended, calls>>
      BY <1>9 DEF ConcludeAborted, ConcludeStuck, slotVars
    <2> QED BY <1>7, <2>1, <2>2
  <1>10. ASSUME NEW x \in Executions, NEW c \in calls[x], Dispatch(x, c) \/ Settle(x, c)
         PROVE  RunsSound' /\ OneAtATime'
    <2>1. \A y \in Executions : y # x => calls'[y] = calls[y]
      BY <1>0, <1>10 DEF Dispatch, Settle, CallsTyped
    <2> QED BY <1>1, <1>10, <2>1 DEF Dispatch, Settle, runVars
  <1>11. ASSUME NEW w \in Threads, HostReceive(w) PROVE RunsSound' /\ OneAtATime'
    <2> DEFINE m == Head(toHost[w])
    <2>1. m \in Outbound
      BY <1>11, TailHas DEF HostReceive, Isolation, ChannelsTyped
    <2>2. CASE UNCHANGED <<slotVars, runVars, ended, calls>>
      BY <1>1, <2>2 DEF runVars
    <2>3. CASE /\ m.ex \in Serving(w)
               /\ calls' = [calls EXCEPT ![m.ex] = @ \cup {[id |-> m.body, dispatched |-> FALSE]}]
               /\ UNCHANGED <<slotVars, runVars, ended>>
      <3>1. m.ex \in Executions /\ run[m.ex] = "serving"
        BY <2>3 DEF Serving
      <3> HIDE DEF m
      <3>2. \A x \in Executions : x # m.ex => calls'[x] = calls[x]
        BY <1>0, <2>3, <3>1 DEF CallsTyped
      <3> QED BY <1>1, <2>3, <3>1, <3>2 DEF runVars
    <2>4. CASE ended' = [ended EXCEPT ![m.ex] = TRUE] /\ UNCHANGED <<slotVars, runVars, calls>>
      <3> HIDE DEF m
      <3>1. \A x \in Executions : ended[x] => ended'[x]
        BY <1>0, <2>4 DEF RunsTyped
      <3> QED BY <1>1, <2>4, <3>1 DEF runVars
    <2>5. ASSUME NEW how \in Reasons \cup {"fault"}, NEW b, m.ex \in Executions, Finish({m.ex}, how, b, {})
          PROVE  RunsSound' /\ OneAtATime'
      <3> HIDE DEF m
      <3> QED BY <1>2, <2>5
    <2>6. m.ex \in Executions /\ (m.kind = "result" => m.body \in Reasons)
      BY <2>1 DEF Outbound
    <2>7. CASE Finish({m.ex}, "fault", TRUE, {})
      BY <2>5, <2>6, <2>7
    <2>8. CASE m.kind = "result" /\ Finish({m.ex}, m.body, FALSE, {})
      <3> HIDE DEF m
      <3> QED BY <2>5, <2>6, <2>8
    <2> QED BY <1>11, <2>2, <2>3, <2>4, <2>7, <2>8 DEF HostReceive
  <1>12. ASSUME NEW w \in Threads, Crash(w) \/ Exit(w) PROVE RunsSound' /\ OneAtATime'
    <2>1. Lost(w)
      BY <1>12 DEF Crash, Exit
    <2>2. /\ \A x \in Executions : on[x] = w /\ run[x] = "serving" =>
                 run'[x] = "sealed" /\ report'[x] = "fault" /\ ended'[x]
          /\ \A x \in Executions : on[x] # w \/ run[x] # "serving" =>
                 run'[x] = run[x] /\ report'[x] = report[x] /\ (ended[x] => ended'[x])
          /\ on' = on /\ calls' = calls /\ slots' = slots \ {w} /\ idle' \in {idle, Nil}
      BY <1>0, <2>1 DEF Lost, Serving, RunsTyped
    <2>3. ASSUME NEW x \in Executions
          PROVE  /\ run'[x] = "new" => on'[x] = Nil /\ calls'[x] = {}
                 /\ Busy(x)' => on'[x] \in Threads /\ on'[x] # idle'
                 /\ run'[x] = "serving" => on'[x] \in slots'
                 /\ run'[x] = "sealed" => report'[x] \in Reasons \cup {"fault"}
                 /\ run'[x] \in {"sealed", "ending", "returned"} /\ calls'[x] # {} => ended'[x]
      <3>1. CASE on[x] = w /\ run[x] = "serving"
        BY <1>0, <2>2, <3>1 DEF RunsSound, Busy
      <3>2. CASE on[x] # w \/ run[x] # "serving"
        BY <1>0, <2>2, <3>2 DEF RunsSound, Busy
      <3> QED BY <3>1, <3>2
    <2>4. OneAtATime'
      BY <1>0, <2>2 DEF OneAtATime, Busy
    <2> QED BY <2>3, <2>4 DEF RunsSound
  <1>13. ASSUME NEW w \in Threads, Terminated(w) \/ Worker(w) PROVE RunsSound' /\ OneAtATime'
    <2>1. UNCHANGED <<slots, idle, run, on, report, ended, calls>>
      BY <1>13 DEF Terminated, Worker, WorkerReceive, GuestCalls, GuestEnds, PostResult, hostVars, slotVars, runVars
    <2> QED BY <1>0, <2>1 DEF RunsSound, OneAtATime, Busy
  <1>14. CASE IdleTimer
    <2>1. Terminate({idle}) /\ idle \in slots /\ UNCHANGED <<run, on, report, ended, calls>>
      BY <1>0, <1>14 DEF IdleTimer, SlotsSound, runVars
    <2>2. (\A w \in slots \ slots' : w = idle) /\ idle' \in {idle, Nil}
      BY <1>0, <2>1, TerminateDoes DEF SlotsTyped
    <2> QED BY <1>0, <2>1, <2>2 DEF RunsSound, OneAtATime, Busy
  <1>15. CASE Close
    <2> DEFINE X == {x \in Executions : on[x] \in slots}
    <2>1. Finish(X, "fault", TRUE, slots)
      BY <1>15 DEF Close
    <2>2. X \in SUBSET Executions /\ \A x \in Executions : on[x] \in slots => x \in X
      OBVIOUS
    <2> HIDE DEF X
    <2> QED BY <1>2, <2>1, <2>2
  <1>16. CASE CloseDone \/ UNCHANGED vars
    BY <1>1, <1>16 DEF CloseDone, vars, hostVars, runVars
  <1>17. ASSUME NEW x \in Executions, Host(x) PROVE RunsSound' /\ OneAtATime'
    BY <1>3, <1>4, <1>5, <1>6, <1>8, <1>9, <1>10, <1>17 DEF Host
  <1> QED BY <1>11, <1>12, <1>13, <1>14, <1>15, <1>16, <1>17 DEF Next

-----------------------------------------------------------------------------
(* Quiet threads                                                              *)

\* A quiet thread stays quiet until the next run is posted to it: it ignores
\* every message of an execution that is over.
LEMMA QuietKept ==
  ASSUME Isolation, [Next]_vars, NEW w \in Threads, Quiet(w),
         \A x \in Executions : ~Execute(x, w)
  PROVE  Quiet(w)'
  <1> USE SandboxNames
  <1>0. /\ ChannelsTyped /\ WorkerTyped /\ WorkerSound /\ SlotsSound
        /\ active[w] = Nil /\ guest[w] = "none" /\ toHost[w] = <<>> /\ Lacks(toWorker[w], {"run"})
        /\ toWorker[w] \in Seq(Inbound)
    BY DEF Isolation, Quiet, WorkerSound, ChannelsTyped
  <1>1. CASE active'[w] = active[w] /\ toHost'[w] = toHost[w] /\ toWorker'[w] = toWorker[w]
    BY <1>0, <1>1 DEF Quiet
  <1>2. ASSUME NEW x \in Executions, NEW v, NEW m \in Inbound, m.kind # "run",
               toWorker' = Post(toWorker, v, m), UNCHANGED <<active, toHost>>
        PROVE  Quiet(w)'
    <2>1. CASE v = w
      <3>1. toWorker'[w] = Append(toWorker[w], m)
        BY <1>0, <1>2, <2>1 DEF Post, ChannelsTyped
      <3>2. Lacks(toWorker[w], {"run"}) /\ m.kind \notin {"run"} => Lacks(Append(toWorker[w], m), {"run"})
        BY <1>0, Posted
      <3> QED BY <1>0, <1>2, <3>1, <3>2 DEF Quiet
    <2>2. CASE v # w
      BY <1>0, <1>1, <1>2, <2>2 DEF Post, ChannelsTyped
    <2> QED BY <2>1, <2>2
  <1>3. ASSUME NEW x \in Executions, Host(x) PROVE Quiet(w)'
    <2>1. ASSUME NEW v \in Threads, Execute(x, v) PROVE Quiet(w)'
      BY <1>0, <1>1, <2>1 DEF Execute, Post, ChannelsTyped, vmVars
    <2>2. CASE SignalAborts(x)
      <3>1. Message("abort", x, 0) \in Inbound /\ Message("abort", x, 0).kind # "run"
        BY DEF Message, Inbound
      <3> QED BY <1>1, <1>2, <2>2, <3>1 DEF SignalAborts, vmVars
    <2>3. ASSUME NEW c \in calls[x], Settle(x, c) PROVE Quiet(w)'
      <3>1. Message("hostResult", x, c.id) \in Inbound /\ Message("hostResult", x, c.id).kind # "run"
        BY DEF Message, Inbound, Isolation, CallsTyped
      <3> QED BY <1>1, <1>2, <2>3, <3>1 DEF Settle, vmVars
    <2>4. CASE UNCHANGED <<active, toHost, toWorker>>
      BY <1>1, <2>4
    <2> QED BY <1>3, <2>1, <2>2, <2>3, <2>4 DEF Host, ExecuteRefused, Backstop, Conclude, ConcludeAborted,
                                                 ConcludeStuck, Dispatch, vmVars
  <1>4. ASSUME NEW v \in Threads, HostReceive(v) PROVE Quiet(w)'
    BY <1>0, <1>1, <1>4 DEF HostReceive, ChannelsTyped, vmVars
  <1>5. ASSUME NEW v \in Threads, Discard(v) PROVE Quiet(w)'
    <2>1. CASE v = w
      BY <1>0, <1>5, <2>1, EmptyHolds DEF Discard, Quiet, ChannelsTyped, WorkerTyped
    <2>2. CASE v # w
      BY <1>0, <1>1, <1>5, <2>2 DEF Discard, ChannelsTyped, WorkerTyped
    <2> QED BY <2>1, <2>2
  <1>6. ASSUME WorkerReceive(w) PROVE Quiet(w)'
    <2> DEFINE m == Head(toWorker[w])
    <2>1. /\ m.kind # "run" /\ m.ex \in Executions /\ Lacks(Tail(toWorker[w]), {"run"})
      <3>1. Lacks(toWorker[w], {"run"}) => m.kind \notin {"run"} /\ Lacks(Tail(toWorker[w]), {"run"})
        BY <1>0, <1>6, Received DEF WorkerReceive
      <3>2. m \in Inbound
        BY <1>0, <1>6, TailHas DEF WorkerReceive
      <3> QED BY <1>0, <3>1, <3>2 DEF Inbound
    <2>2. UNCHANGED <<active, toHost>> /\ toWorker'[w] = Tail(toWorker[w])
      BY <1>0, <1>6, <2>1 DEF WorkerReceive, ChannelsTyped, vmVars
    <2> QED BY <1>0, <2>1, <2>2 DEF Quiet
  <1>7. ASSUME NEW v \in Threads, v # w, Worker(v) PROVE Quiet(w)'
    <2>1. CASE WorkerReceive(v)
      BY <1>0, <1>1, <1>7, <2>1 DEF WorkerReceive, EndGuest, Post, ChannelsTyped, WorkerTyped, vmVars
    <2>2. CASE GuestCalls(v) \/ GuestEnds(v) \/ PostResult(v)
      BY <1>0, <1>1, <1>7, <2>2 DEF GuestCalls, GuestEnds, PostResult, EndGuest, Post, ChannelsTyped, WorkerTyped
    <2> QED BY <1>7, <2>1, <2>2 DEF Worker
  <1>8. ASSUME Worker(w) PROVE Quiet(w)'
    BY <1>0, <1>6, <1>8 DEF Worker, GuestCalls, GuestEnds, PostResult
  <1>9. ASSUME NEW v \in Threads, Terminated(v) PROVE Quiet(w)'
    BY <1>1, <1>9 DEF Terminated, vmVars
  <1>10. CASE IdleTimer \/ Close \/ CloseDone \/ UNCHANGED vars
    BY <1>1, <1>10 DEF IdleTimer, Close, CloseDone, vars, vmVars
  <1>11. ASSUME NEW v \in Threads, Crash(v) \/ Exit(v) PROVE Quiet(w)'
    BY <1>5, <1>11 DEF Crash, Exit
  <1> QED BY <1>3, <1>4, <1>7, <1>8, <1>9, <1>10, <1>11 DEF Next

\* The host takes a result for its own only when the worker has let go.
LEMMA ResultIsLast ==
  ASSUME Isolation, NEW w \in Threads, NEW x \in Executions, x \in Serving(w), toHost[w] # <<>>,
         Head(toHost[w]).kind \in Finals
  PROVE  active[w] = Nil /\ Tail(toHost[w]) = <<>> /\ Lacks(toWorker[w], {"run"})
  <1>1. toHost[w] \in Seq(Outbound) /\ on[x] = w /\ run[x] = "serving"
    BY DEF Isolation, ChannelsTyped, Serving
  <1>2. ~Lacks(toHost[w], Finals)
    BY <1>1, Received
  <1>3. Reported(x, w)
    BY <1>1, <1>2 DEF Isolation, ServedInStages, Waiting, Working
  <1>4. Tail(toHost[w]) = <<>>
    BY <1>1, <1>3, ReportsReceived DEF Reported
  <1> QED BY <1>3, <1>4 DEF Reported

\* The warm thread is quiet, and so is every thread whose execution is over
\* without its termination.
LEMMA LeftQuietKept ==
  ASSUME Isolation, [Next]_vars
  PROVE  LeftQuiet'
  <1> USE SandboxNames
  <1>0. SlotsTyped /\ SlotsSound /\ RunsTyped /\ RunsSound /\ LeftQuiet /\ OneAtATime
    BY DEF Isolation
  <1>1. ASSUME \A w \in Threads : Quiet(w) => Quiet(w)',
               idle' \in {idle, Nil},
               \A x \in Executions : run'[x] = "sealed" /\ ~kill'[x] =>
                 run[x] = "sealed" /\ ~kill[x] /\ on'[x] = on[x]
        PROVE  LeftQuiet'
    <2>1. \A x \in Executions : run[x] = "sealed" => on[x] \in Threads
      BY <1>0 DEF RunsSound, Busy
    <2> QED BY <1>0, <1>1, <2>1 DEF LeftQuiet, SlotsTyped
  <1>2. ASSUME NEW x \in Executions, NEW w \in Threads, Execute(x, w) PROVE LeftQuiet'
    <2>1. idle' = Nil /\ kill' = kill /\ run'[x] = "serving"
          /\ \A y \in Executions : y # x => run'[y] = run[y] /\ on'[y] = on[y]
      BY <1>0, <1>2 DEF Execute, RunsTyped
    <2>2. ASSUME NEW y \in Executions, run[y] = "sealed", ~kill[y] PROVE Quiet(on[y])'
      <3>1. on[y] \in Threads /\ on[y] # w /\ Quiet(on[y])
        BY <1>0, <1>2, <2>2 DEF RunsSound, Busy, LeftQuiet, Execute, SlotsSound
      <3>2. toWorker'[on[y]] = toWorker[on[y]] /\ UNCHANGED <<active, toHost>>
        BY <1>2, <3>1 DEF Execute, Post, Isolation, ChannelsTyped, vmVars
      <3>3. on'[y] = on[y]
        BY <1>2, <2>1, <2>2 DEF Execute
      <3> QED BY <3>1, <3>2, <3>3 DEF Quiet
    <2> QED BY <2>1, <2>2 DEF LeftQuiet
  <1>3. ASSUME \A x \in Executions, w \in Threads : ~Execute(x, w)
        PROVE  \A w \in Threads : Quiet(w) => Quiet(w)'
    BY <1>3, QuietKept
  <1>4. SUFFICES ASSUME \A x \in Executions, w \in Threads : ~Execute(x, w)
                 PROVE  LeftQuiet'
    BY <1>2
  <1>5. \A w \in Threads : Quiet(w) => Quiet(w)'
    BY <1>3, <1>4
  <1>6. CASE UNCHANGED <<idle, run, kill, on>>
    BY <1>1, <1>5, <1>6
  <1>7. ASSUME NEW X \in SUBSET Executions, NEW how, NEW T \in SUBSET slots, Finish(X, how, TRUE, T)
        PROVE  LeftQuiet'
    <2>1. \A x \in Executions : run'[x] = "sealed" /\ ~kill'[x] => run[x] = "sealed" /\ ~kill[x]
      BY <1>0, <1>7 DEF Finish, RunsTyped
    <2>2. idle' \in {idle, Nil} /\ on' = on
      BY <1>7 DEF Finish, Terminate
    <2> QED BY <1>1, <1>5, <2>1, <2>2
  <1>8. ASSUME NEW x \in Executions, Conclude(x) PROVE LeftQuiet'
    <2>1. /\ run'[x] # "sealed" /\ \A y \in Executions : y # x => run'[y] = run[y] /\ kill'[y] = kill[y]
          /\ on' = on
      BY <1>0, <1>8 DEF Conclude, Return, RunsTyped
    <2>2. CASE idle' \in {idle, Nil}
      BY <1>1, <1>5, <2>1, <2>2
    <2>3. CASE idle' \notin {idle, Nil}
      <3>1. idle' = on[x] /\ ~kill[x] /\ run[x] = "sealed" /\ on[x] \in Threads
        BY <1>0, <1>8, <2>3 DEF Conclude, Release, Terminate, slotVars, SlotsTyped
      <3>2. \A y \in Executions : run[y] = "sealed" => on[y] \in Threads
        BY <1>0 DEF RunsSound, Busy
      <3>3. ASSUME NEW y \in Executions, run'[y] = "sealed", ~kill'[y] PROVE Quiet(on[y])'
        BY <1>0, <1>5, <2>1, <3>2, <3>3 DEF LeftQuiet
      <3>4. Quiet(idle)'
        BY <1>0, <1>5, <3>1 DEF LeftQuiet
      <3> QED BY <3>3, <3>4 DEF LeftQuiet
    <2> QED BY <2>2, <2>3
  <1>9. ASSUME NEW x \in Executions, Host(x) PROVE LeftQuiet'
    <2>1. CASE Backstop(x)
      <3>1. PICK how : Finish({x}, how, TRUE, {})
        BY <2>1 DEF Backstop
      <3>2. {x} \in SUBSET Executions /\ {} \in SUBSET slots
        OBVIOUS
      <3> QED BY <1>7, <3>1, <3>2
    <2>2. CASE ExecuteRefused(x) \/ ConcludeAborted(x) \/ ConcludeStuck(x)
      <3>1. /\ run'[x] # "sealed" /\ \A y \in Executions : y # x => run'[y] = run[y] /\ kill'[y] = kill[y]
            /\ on' = on /\ idle' = idle
        BY <1>0, <2>2 DEF ExecuteRefused, ConcludeAborted, ConcludeStuck, Return, RunsTyped, slotVars
      <3> QED BY <1>1, <1>5, <3>1
    <2>3. CASE SignalAborts(x) \/ \E c \in calls[x] : Dispatch(x, c) \/ Settle(x, c)
      BY <1>6, <2>3 DEF SignalAborts, Dispatch, Settle, slotVars, runVars
    <2> QED BY <1>4, <1>8, <1>9, <2>1, <2>2, <2>3 DEF Host
  <1>10. ASSUME NEW w \in Threads, HostReceive(w) PROVE LeftQuiet'
    <2> DEFINE m == Head(toHost[w])
    <2>1. CASE UNCHANGED <<slotVars, runVars>>
      BY <1>6, <2>1 DEF slotVars, runVars
    <2>2. CASE m.ex \in Serving(w) /\ Finish({m.ex}, "fault", TRUE, {})
      <3>1. {m.ex} \in SUBSET Executions /\ {} \in SUBSET slots
        BY <2>2 DEF Serving
      <3> QED BY <1>7, <2>2, <3>1
    <2>3. CASE m.ex \in Serving(w) /\ m.kind = "result" /\ Finish({m.ex}, m.body, FALSE, {})
      <3>1. m.ex \in Executions /\ on[m.ex] = w
        BY <2>3 DEF Serving
      <3>2. active[w] = Nil /\ Tail(toHost[w]) = <<>> /\ Lacks(toWorker[w], {"run"})
        BY <1>10, <2>3, <3>1, ResultIsLast DEF HostReceive, Finals
      <3>3. toHost'[w] = <<>> /\ UNCHANGED <<active, toWorker>>
        BY <1>10, <3>2 DEF HostReceive, Isolation, ChannelsTyped, vmVars
      <3>4. Quiet(w)'
        BY <3>2, <3>3 DEF Quiet
      <3> HIDE DEF m
      <3>5. /\ \A y \in Executions : y # m.ex => run'[y] = run[y] /\ kill'[y] = kill[y]
            /\ on' = on
        BY <1>0, <2>3, <3>1 DEF Finish, RunsTyped
      <3>6. idle' \in {idle, Nil}
        BY <2>3 DEF Finish, Terminate
      <3>7. \A y \in Executions : run[y] = "sealed" => on[y] \in Threads
        BY <1>0 DEF RunsSound, Busy
      <3>8. idle' # Nil => Quiet(idle)'
        BY <1>0, <1>5, <3>6 DEF LeftQuiet, SlotsTyped
      <3>9. \A y \in Executions : run'[y] = "sealed" /\ ~kill'[y] => Quiet(on[y])'
        BY <1>0, <1>5, <3>1, <3>4, <3>5, <3>7 DEF LeftQuiet
      <3> QED BY <3>8, <3>9 DEF LeftQuiet
    <2> QED BY <1>10, <2>1, <2>2, <2>3 DEF HostReceive
  <1>11. ASSUME NEW w \in Threads, Lost(w) PROVE LeftQuiet'
    <2>1. \A x \in Executions : run'[x] = "sealed" /\ ~kill'[x] => run[x] = "sealed" /\ ~kill[x]
      BY <1>0, <1>11 DEF Lost, RunsTyped
    <2>2. idle' \in {idle, Nil} /\ on' = on
      BY <1>11 DEF Lost
    <2> QED BY <1>1, <1>5, <2>1, <2>2
  <1>12. ASSUME NEW w \in Threads, Crash(w) \/ Exit(w) \/ Terminated(w) \/ Worker(w) PROVE LeftQuiet'
    BY <1>6, <1>11, <1>12 DEF Crash, Exit, Terminated, Worker, WorkerReceive, GuestCalls, GuestEnds, PostResult,
                              hostVars, slotVars, runVars
  <1>13. CASE IdleTimer
    <2>1. idle' \in {idle, Nil} /\ UNCHANGED <<run, kill, on>>
      BY <1>13 DEF IdleTimer, Terminate, runVars
    <2> QED BY <1>1, <1>5, <2>1
  <1>14. CASE Close
    BY <1>7, <1>14 DEF Close
  <1>15. CASE CloseDone \/ UNCHANGED vars
    BY <1>6, <1>15 DEF CloseDone, vars, hostVars, slotVars, runVars
  <1> QED BY <1>9, <1>10, <1>12, <1>13, <1>14, <1>15 DEF Next

-----------------------------------------------------------------------------
(* The stages of a thread that serves                                         *)

Stages(x, w) == AllOf(toHost[w], x) /\ (Waiting(x, w) \/ Working(x, w) \/ Reported(x, w))

\* What the host does to its own state leaves the stages alone, as long as no
\* call is added and no notice is lost.
LEMMA StagesFrame ==
  ASSUME NEW x \in Executions, NEW w \in Threads, Stages(x, w),
         active'[w] = active[w], guest'[w] = guest[w], called'[w] = called[w],
         toWorker'[w] = toWorker[w], toHost'[w] = toHost[w],
         calls[x] = {} => calls'[x] = {}, ended[x] => ended'[x]
  PROVE  Stages(x, w)'
  BY DEF Stages, Waiting, Working, Reported, Notified

\* A message of x that is no run is posted to the thread that serves it.
LEMMA StagesPosted ==
  ASSUME Isolation, NEW x \in Executions, NEW w \in Threads, Stages(x, w), 
         NEW m \in Inbound, m.ex = x, m.kind # "run", toWorker'[w] = Append(toWorker[w], m),
         active'[w] = active[w], guest'[w] = guest[w], called'[w] = called[w], toHost'[w] = toHost[w],
         calls[x] = {} => calls'[x] = {}, ended[x] => ended'[x]
  PROVE  Stages(x, w)'
  <1>1. toWorker[w] \in Seq(Inbound)
    BY DEF Isolation, ChannelsTyped
  <1>2. /\ AllOf(toWorker[w], x) => AllOf(toWorker'[w], x)
        /\ Lacks(toWorker[w], {"run"}) => Lacks(toWorker'[w], {"run"})
    <2>1. AllOf(toWorker[w], x) /\ m.ex = x => AllOf(Append(toWorker[w], m), x)
      BY <1>1, Posted
    <2>2. Lacks(toWorker[w], {"run"}) /\ m.kind \notin {"run"} => Lacks(Append(toWorker[w], m), {"run"})
      BY <1>1, Posted
    <2> QED BY <2>1, <2>2
  <1>3. AwaitsRun(toWorker[w], x) => AwaitsRun(toWorker'[w], x)
    BY <1>1, AwaitsPosted
  <1> QED BY <1>2, <1>3 DEF Stages, Waiting, Working, Reported, Notified

\* The host takes a call or a notice of x.
LEMMA StagesTaken ==
  ASSUME Isolation, NEW x \in Executions, NEW w \in Threads, Stages(x, w), toHost[w] # <<>>,
         Head(toHost[w]).kind \notin Finals, toHost'[w] = Tail(toHost[w]),
         active'[w] = active[w], guest'[w] = guest[w], called'[w] = called[w], toWorker'[w] = toWorker[w],
         Head(toHost[w]).kind = "hostAbort" => ended'[x],
         calls[x] = {} /\ Head(toHost[w]).kind # "hostCall" => calls'[x] = {}, ended[x] => ended'[x]
  PROVE  Stages(x, w)'
  <1>1. toHost[w] \in Seq(Outbound)
    BY DEF Isolation, ChannelsTyped
  <1>2. AllOf(toHost'[w], x)
    BY <1>1, Received DEF Stages
  <1>3. Notified(x, w) => Notified(x, w)'
    <2>1. Holds(Tail(toHost[w]), "hostCall") => Holds(toHost[w], "hostCall")
      BY <1>1, Received
    <2>2. Head(toHost[w]).kind = "hostCall" => Holds(toHost[w], "hostCall")
      BY <1>1, Received
    <2>3. Holds(toHost[w], "hostAbort") => Head(toHost[w]).kind = "hostAbort" \/ Holds(Tail(toHost[w]), "hostAbort")
      BY <1>1, Received
    <2> QED BY <2>1, <2>2, <2>3 DEF Notified
  <1>4. CASE Waiting(x, w)
    BY <1>4 DEF Waiting
  <1>5. CASE Working(x, w)
    <2>1. Lacks(Tail(toHost[w]), Finals)
      BY <1>1, <1>5, Received DEF Working
    <2> QED BY <1>2, <1>3, <1>5, <2>1 DEF Working, Stages
  <1>6. CASE Reported(x, w)
    <2>1. Reports(Tail(toHost[w]))
      BY <1>1, <1>6, ReportsReceived DEF Reported
    <2> QED BY <1>2, <1>3, <1>6, <2>1 DEF Reported, Stages
  <1> QED BY <1>4, <1>5, <1>6 DEF Stages

\* The guest of x ends, and the host is told if a call was made.
LEMMA StagesEnded ==
  ASSUME Isolation, NEW x \in Executions, NEW w \in Threads, Stages(x, w), guest[w] = "running",
         NEW how, EndGuest(w, how),
         \/ toWorker'[w] = toWorker[w]
         \/ toWorker[w] # <<>> /\ toWorker'[w] = Tail(toWorker[w]),
         UNCHANGED <<calls, ended>>
  PROVE  Stages(x, w)'
  <1> USE SandboxNames
  <1>1. /\ toWorker[w] \in Seq(Inbound) /\ toHost[w] \in Seq(Outbound) /\ called[w] \in Nat
        /\ active[w] # Nil /\ ChannelsTyped /\ WorkerTyped
    BY SandboxBound DEF Isolation, ChannelsTyped, WorkerTyped, WorkerSound
  <1>2. Working(x, w)
    BY <1>1 DEF Stages, Waiting, Reported
  <1>3. active'[w] = x /\ guest'[w] = "teardown"
    BY <1>1, <1>2 DEF EndGuest, WorkerTyped, Working
  <1>4. AllOf(toWorker'[w], x) /\ Lacks(toWorker'[w], {"run"})
    <2>1. CASE toWorker'[w] = toWorker[w]
      BY <1>2, <2>1 DEF Working
    <2>2. CASE toWorker[w] # <<>> /\ toWorker'[w] = Tail(toWorker[w])
      BY <1>1, <1>2, <2>2, Received DEF Working
    <2> QED BY <2>1, <2>2
  <1>5. CASE called[w] = 0
    <2>1. toHost' = toHost /\ calls[x] = {} /\ toHost[w] = <<>>
      BY <1>2, <1>5 DEF EndGuest, Working
    <2>2. Notified(x, w)'
      BY <2>1, EmptyHolds DEF Notified
    <2> QED BY <1>2, <1>3, <1>4, <2>1, <2>2 DEF Stages, Working
  <1>6. CASE called[w] # 0
    <2> DEFINE m == Message("hostAbort", active[w], 0)
    <2>1. m \in Outbound /\ m.ex = x /\ m.kind = "hostAbort"
      BY <1>2 DEF Working, Message, Outbound
    <2>2. toHost'[w] = Append(toHost[w], m)
      BY <1>1, <1>6 DEF EndGuest, Post, ChannelsTyped
    <2> HIDE DEF m
    <2>3. AllOf(toHost'[w], x)
      BY <1>1, <2>1, <2>2, Posted DEF Stages
    <2>4. Lacks(toHost'[w], Finals)
      <3>1. m.kind \notin Finals
        BY <2>1 DEF Finals
      <3> QED BY <1>1, <1>2, <2>1, <2>2, <3>1, Posted DEF Working
    <2>5. Holds(toHost'[w], "hostAbort")
      BY <1>1, <2>1, <2>2, Posted
    <2> QED BY <1>3, <1>4, <2>3, <2>4, <2>5 DEF Stages, Working, Notified
  <1> QED BY <1>5, <1>6

\* The worker takes the next message of the host.
LEMMA StagesReceived ==
  ASSUME Isolation, NEW x \in Executions, NEW w \in Threads, Stages(x, w), WorkerReceive(w)
  PROVE  Stages(x, w)'
  <1> USE SandboxNames
  <1> DEFINE m == Head(toWorker[w])
  <1>0. /\ ChannelsTyped /\ WorkerTyped /\ toWorker[w] \in Seq(Inbound) /\ toWorker[w] # <<>>
        /\ (active[w] = Nil <=> guest[w] = "none")
    BY DEF WorkerReceive, Isolation, ChannelsTyped, WorkerSound
  <1>1. /\ m.ex \in Executions /\ toWorker'[w] = Tail(toWorker[w])
        /\ UNCHANGED <<calls, ended>>
    <2>1. m \in Inbound
      BY <1>0, TailHas
    <2>2. m.ex \in Executions
      BY <2>1 DEF Inbound
    <2>3. toWorker' = [toWorker EXCEPT ![w] = Tail(@)] /\ UNCHANGED <<calls, ended>>
      BY DEF WorkerReceive, hostVars
    <2> QED BY <1>0, <2>2, <2>3 DEF ChannelsTyped
  <1>2. /\ \A y : AllOf(toWorker[w], y) => m.ex = y /\ AllOf(Tail(toWorker[w]), y)
        /\ \A kinds : Lacks(toWorker[w], kinds) => m.kind \notin kinds /\ Lacks(Tail(toWorker[w]), kinds)
    BY <1>0, Received
  <1>3. CASE Waiting(x, w)
    <2>1. CASE m.kind = "run"
      <3>1. m.ex = x /\ AllOf(Tail(toWorker[w]), x) /\ Lacks(Tail(toWorker[w]), {"run"})
        BY <1>0, <1>3, <2>1, AwaitsReceived DEF Waiting
      <3>2. /\ active'[w] = x /\ guest'[w] = "running" /\ called'[w] = 0 /\ toHost'[w] = <<>>
        BY <1>0, <1>3, <2>1, <3>1 DEF WorkerReceive, Waiting, WorkerTyped
      <3> QED BY <1>1, <1>3, <3>1, <3>2, EmptyHolds DEF Stages, Working, Waiting
    <2>2. CASE m.kind # "run"
      <3>1. AwaitsRun(Tail(toWorker[w]), x)
        BY <1>0, <1>3, <2>2, AwaitsReceived DEF Waiting
      <3>2. UNCHANGED <<vmVars, toHost>>
        BY <1>0, <1>1, <1>3, <2>2 DEF WorkerReceive, Waiting
      <3> QED BY <1>1, <1>3, <3>1, <3>2 DEF Stages, Waiting, vmVars
    <2> QED BY <2>1, <2>2
  <1>4. CASE Working(x, w)
    <2>1. m.ex = x /\ m.kind # "run" /\ AllOf(Tail(toWorker[w]), x) /\ Lacks(Tail(toWorker[w]), {"run"})
      BY <1>2, <1>4 DEF Working
    <2>2. CASE guest[w] = "running" /\ EndGuest(w, "aborted")
      BY <1>1, <2>2, <1>0, StagesEnded
    <2>3. CASE UNCHANGED <<active, guest, called, toHost>>
      BY <1>1, <1>4, <2>1, <2>3 DEF Stages, Working, Notified
    <2> QED BY <2>1, <2>2, <2>3 DEF WorkerReceive, vmVars
  <1>5. CASE Reported(x, w)
    <2>1. m.kind # "run" /\ Lacks(Tail(toWorker[w]), {"run"})
      BY <1>2, <1>5 DEF Reported
    <2>2. UNCHANGED <<vmVars, toHost>>
      BY <1>0, <1>1, <1>5, <2>1 DEF WorkerReceive, Reported
    <2> QED BY <1>1, <1>5, <2>1, <2>2 DEF Stages, Reported, Notified, vmVars
  <1> QED BY <1>3, <1>4, <1>5 DEF Stages

\* The guest of x calls, or its result is posted.
LEMMA StagesTold ==
  ASSUME Isolation, NEW x \in Executions, NEW w \in Threads, Stages(x, w), GuestCalls(w) \/ PostResult(w)
  PROVE  Stages(x, w)'
  <1> USE SandboxNames
  <1>1. /\ toHost[w] \in Seq(Outbound) /\ called[w] \in Nat /\ guest[w] \in {"running", "teardown"}
        /\ active[w] # Nil /\ ChannelsTyped /\ WorkerTyped
        /\ UNCHANGED <<calls, ended, toWorker>>
    BY SandboxBound DEF Isolation, ChannelsTyped, WorkerTyped, WorkerSound, GuestCalls, PostResult, hostVars
  <1>2. Working(x, w)
    BY <1>1 DEF Stages, Waiting, Reported
  <1>3. CASE GuestCalls(w)
    <2> DEFINE m == Message("hostCall", active[w], nextId[w] + 1)
    <2>1. nextId[w] \in Nat /\ m \in Outbound /\ m.ex = x /\ m.kind = "hostCall"
      BY <1>1, <1>2 DEF Working, Message, Outbound, WorkerTyped
    <2>2. toHost'[w] = Append(toHost[w], m) /\ called'[w] = called[w] + 1 /\ UNCHANGED <<active, guest>>
      BY <1>1, <1>3 DEF GuestCalls, Post, ChannelsTyped, WorkerTyped
    <2>3. guest[w] = "running" /\ m.kind \notin Finals
      BY <1>3, <2>1 DEF GuestCalls, Finals
    <2> HIDE DEF m
    <2>4. AllOf(toHost'[w], x) /\ Lacks(toHost'[w], Finals)
      <3>1. AllOf(toHost[w], x) /\ Lacks(toHost[w], Finals)
        BY <1>2 DEF Stages, Working
      <3> QED BY <1>1, <2>1, <2>2, <2>3, <3>1, Posted
    <2>5. called'[w] # 0
      BY <1>1, <2>2
    <2> QED BY <1>1, <1>2, <2>2, <2>3, <2>4, <2>5 DEF Stages, Working
  <1>4. CASE PostResult(w)
    <2>1. PICK m : /\ m \in {Message("result", active[w], verdict[w]), Message("fatal", active[w], 0)}
                   /\ toHost' = Post(toHost, w, m)
      BY <1>4 DEF PostResult
    <2>2. m \in Outbound /\ m.ex = x /\ m.kind \in Finals /\ m.kind # "hostCall"
      BY <1>2, <1>4, <2>1 DEF Working, Message, Outbound, Finals, PostResult, Isolation, WorkerSound
    <2>3. toHost'[w] = Append(toHost[w], m) /\ active'[w] = Nil /\ guest[w] = "teardown"
      BY <1>1, <1>4, <2>1 DEF PostResult, Post, ChannelsTyped, WorkerTyped
    <2>4. AllOf(toHost'[w], x)
      BY <1>1, <2>2, <2>3, Posted DEF Stages
    <2>5. Reports(toHost'[w])
      BY <1>1, <1>2, <2>2, <2>3, ReportsPosted DEF Working
    <2>6. Notified(x, w)'
      BY <1>1, <1>2, <2>2, <2>3, Posted DEF Working, Notified
    <2> QED BY <1>1, <1>2, <2>3, <2>4, <2>5, <2>6 DEF Stages, Working, Reported
  <1> QED BY <1>3, <1>4

\* Every step leaves a thread that serves in one of its stages.
LEMMA ServedInStagesKept ==
  ASSUME Isolation, [Next]_vars
  PROVE  ServedInStages'
  <1> USE SandboxNames
  <1>0. /\ SlotsTyped /\ SlotsSound /\ RunsTyped /\ CallsTyped /\ ChannelsTyped /\ WorkerTyped
        /\ RunsSound /\ LeftQuiet /\ OneAtATime /\ ServedInStages
    BY DEF Isolation
  <1>1. SUFFICES ASSUME NEW x \in Executions, run'[x] = "serving"
                 PROVE  \E w \in Threads : on'[x] = w /\ Stages(x, w)'
    BY DEF ServedInStages, Stages
  <1>2. ASSUME NEW w \in Threads, Execute(x, w)
        PROVE  on'[x] = w /\ Stages(x, w)'
    <2>1. on'[x] = w /\ calls[x] = {} /\ UNCHANGED <<calls, active, toHost>>
      BY <1>0, <1>2 DEF Execute, RunsTyped, RunsSound, vmVars
    <2>2. Quiet(w)
      <3>1. CASE idle # Nil
        BY <1>0, <1>2, <3>1 DEF Execute, LeftQuiet
      <3>2. CASE idle = Nil
        BY <1>0, <1>2, <3>2, EmptyHolds DEF Execute, SlotsSound, Vacant, Quiet
      <3> QED BY <3>1, <3>2
    <2> DEFINE m == Message("run", x, 0)
    <2>3. m \in Inbound /\ m.ex = x /\ m.kind = "run"
      BY DEF Message, Inbound
    <2>4. toWorker[w] \in Seq(Inbound) /\ toWorker'[w] = Append(toWorker[w], m)
      BY <1>0, <1>2 DEF Execute, Post, ChannelsTyped
    <2> HIDE DEF m
    <2>5. AwaitsRun(toWorker'[w], x)
      BY <2>2, <2>3, <2>4, AwaitsPosted DEF Quiet
    <2> QED BY <2>1, <2>2, <2>5, EmptyHolds DEF Stages, Waiting, Quiet
  <1>3. SUFFICES ASSUME NEW w \in Threads, \A v \in Threads : ~Execute(x, v), run[x] = "serving", on[x] = w,
                        on'[x] = w, Stages(x, w)
                 PROVE  Stages(x, w)'
    <2>1. CASE \E w \in Threads : Execute(x, w)
      BY <1>2, <2>1
    <2>2. CASE \A w \in Threads : ~Execute(x, w)
      <3>1. run[x] = "serving"
        <4>1. ASSUME NEW y \in Executions, Host(y) PROVE run[x] = "serving"
          BY <1>0, <1>1, <2>2, <4>1 DEF Host, ExecuteRefused, Execute, SignalAborts, Backstop, Finish, Conclude,
               ConcludeAborted, ConcludeStuck, Return, Dispatch, Settle, RunsTyped, runVars
        <4>2. ASSUME NEW w \in Threads, HostReceive(w) PROVE run[x] = "serving"
          BY <1>0, <1>1, <4>2 DEF HostReceive, Finish, runVars
        <4>3. ASSUME NEW w \in Threads, Worker(w) \/ Crash(w) \/ Exit(w) \/ Terminated(w) PROVE run[x] = "serving"
          BY <1>0, <1>1, <4>3 DEF Worker, WorkerReceive, GuestCalls, GuestEnds, PostResult, Crash, Exit, Lost,
               Terminated, hostVars, runVars
        <4>4. CASE IdleTimer \/ Close \/ CloseDone \/ UNCHANGED vars
          BY SMTT(40), <1>0, <1>1, <4>4 DEF IdleTimer, Close, CloseDone, Finish, vars, hostVars, runVars
        <4> QED BY <4>1, <4>2, <4>3, <4>4 DEF Next
      <3>2. on'[x] = on[x]
        <4>1. ASSUME NEW y \in Executions, Host(y) PROVE on'[x] = on[x]
          BY <1>0, <2>2, <4>1 DEF Host, ExecuteRefused, Execute, SignalAborts, Backstop, Finish, Conclude,
               ConcludeAborted, ConcludeStuck, Dispatch, Settle, RunsTyped, runVars
        <4>2. CASE UNCHANGED on
          BY <4>2
        <4> QED BY ZenonT(60), <4>1, <4>2 DEF Next, HostReceive, Finish, Worker, WorkerReceive, GuestCalls, GuestEnds,
               PostResult, Crash, Exit, Lost, Terminated, IdleTimer, Close, CloseDone, vars, hostVars, runVars
      <3> QED BY <1>0, <1>3, <2>2, <3>1, <3>2, ServedHasThread DEF ServedInStages, Stages
    <2> QED BY <2>1, <2>2
  <1>4. \A y \in Executions : y # x /\ Busy(y) => on[y] # w
    BY <1>0, <1>3 DEF OneAtATime, Busy
  <1>5. w \in slots /\ w # idle /\ thread[w] = "running"
    BY <1>0, <1>3 DEF RunsSound, Busy, SlotsSound
  <1>6. ASSUME UNCHANGED <<vmVars, toWorker, toHost, calls>>, ended[x] => ended'[x] PROVE Stages(x, w)'
    BY <1>3, <1>6, StagesFrame DEF vmVars
  <1>7. ASSUME NEW y \in Executions, Host(y) PROVE Stages(x, w)'
    <2>1. ASSUME NEW v \in Threads, Execute(y, v) PROVE Stages(x, w)'
      <3>1. v # w
        BY <1>0, <1>3, <1>5, <2>1 DEF Execute
      <3>2. toWorker'[w] = toWorker[w]
        BY <1>0, <2>1, <3>1 DEF Execute, Post, ChannelsTyped
      <3> QED BY <1>3, <2>1, <3>2, StagesFrame DEF Execute, vmVars
    <2>2. ASSUME run[y] = "serving", NEW m \in Inbound, m.ex = y, m.kind # "run",
                 toWorker' = Post(toWorker, on[y], m),
                 UNCHANGED <<toHost, vmVars>>, calls[x] = {} => calls'[x] = {}, ended[x] => ended'[x]
          PROVE  Stages(x, w)'
      <3>1. CASE y = x
        <4>1. toWorker'[w] = Append(toWorker[w], m)
          BY <1>0, <1>3, <2>2, <3>1 DEF Post, ChannelsTyped
        <4> QED BY <1>3, <2>2, <3>1, <4>1, StagesPosted DEF vmVars
      <3>2. CASE y # x
        <4>1. toWorker'[w] = toWorker[w]
          BY <1>0, <1>4, <2>2, <3>2 DEF Post, ChannelsTyped, Busy
        <4> QED BY <1>3, <2>2, <4>1, StagesFrame DEF vmVars
      <3> QED BY <3>1, <3>2
    <2>3. CASE SignalAborts(y)
      <3>1. Message("abort", y, 0) \in Inbound /\ Message("abort", y, 0).ex = y /\ Message("abort", y, 0).kind # "run"
        BY DEF Message, Inbound
      <3>2. ended[x] => ended'[x]
        BY <1>0, <2>3 DEF SignalAborts, RunsTyped
      <3> QED BY <1>6, <2>2, <2>3, <3>1, <3>2 DEF SignalAborts
    <2>4. ASSUME NEW c \in calls[y], Settle(y, c) PROVE Stages(x, w)'
      <3>1. /\ Message("hostResult", y, c.id) \in Inbound /\ Message("hostResult", y, c.id).ex = y
            /\ Message("hostResult", y, c.id).kind # "run"
        BY <1>0 DEF Message, Inbound, CallsTyped
      <3>2. (calls[x] = {} => calls'[x] = {}) /\ (ended[x] => ended'[x])
        BY <1>0, <2>4 DEF Settle, CallsTyped
      <3>3. CASE run[y] = "serving"
        BY <2>2, <2>4, <3>1, <3>2, <3>3 DEF Settle
      <3>4. CASE run[y] # "serving"
        BY <1>3, <2>4, <3>2, <3>4, StagesFrame DEF Settle, vmVars
      <3> QED BY <3>3, <3>4
    <2>5. ASSUME NEW c \in calls[y], Dispatch(y, c) PROVE Stages(x, w)'
      <3>1. calls[x] = {} => calls'[x] = {}
        BY <1>0, <2>5 DEF Dispatch, CallsTyped
      <3> QED BY <1>3, <2>5, <3>1, StagesFrame DEF Dispatch, vmVars
    <2>6. CASE Backstop(y)
      BY <1>6, <2>6 DEF Backstop, Finish
    <2>7. CASE ExecuteRefused(y) \/ Conclude(y) \/ ConcludeAborted(y) \/ ConcludeStuck(y)
      BY <1>6, <2>7 DEF ExecuteRefused, Conclude, ConcludeAborted, ConcludeStuck
    <2> QED BY <1>7, <2>1, <2>3, <2>4, <2>5, <2>6, <2>7 DEF Host
  <1>8. ASSUME HostReceive(w) PROVE Stages(x, w)'
    <2> DEFINE m == Head(toHost[w])
    <2>1. /\ toHost[w] # <<>> /\ toHost[w] \in Seq(Outbound) /\ m.ex = x /\ x \in Serving(w)
          /\ toHost'[w] = Tail(toHost[w]) /\ UNCHANGED <<vmVars, toWorker>>
      BY <1>0, <1>3, <1>8, Received DEF HostReceive, Stages, ChannelsTyped, Serving
    <2> HIDE DEF m
    <2>2. CASE m.kind \in {"result", "fatal"}
      <3>1. \E how, b : Finish({x}, how, b, {})
        BY <1>8, <2>1, <2>2 DEF HostReceive, m
      <3> QED BY <1>1, <1>3, <3>1 DEF Finish
    <2>3. CASE m.kind = "hostCall"
      <3>1. m.kind \notin Finals /\ UNCHANGED ended
        BY <1>8, <2>1, <2>3 DEF HostReceive, m, Finals
      <3> QED BY <1>3, <2>1, <2>3, <3>1, StagesTaken DEF m, vmVars
    <2>4. CASE m.kind = "hostAbort"
      <3>1. m.kind \notin Finals /\ ended'[x] /\ UNCHANGED calls
        BY <1>0, <1>8, <2>1, <2>4 DEF HostReceive, m, Finals, RunsTyped
      <3> QED BY <1>3, <2>1, <2>4, <3>1, StagesTaken DEF m, vmVars
    <2> QED BY <1>8, <2>1, <2>2, <2>3, <2>4 DEF HostReceive, m
  <1>9. ASSUME NEW v \in Threads, v # w, HostReceive(v) PROVE Stages(x, w)'
    <2> DEFINE m == Head(toHost[v])
    <2>1. toHost'[w] = toHost[w] /\ UNCHANGED <<vmVars, toWorker>>
      BY <1>0, <1>9 DEF HostReceive, ChannelsTyped
    <2>2. m.ex \in Serving(v) => m.ex # x
      BY <1>3, <1>9 DEF Serving
    <2>3. (calls[x] = {} => calls'[x] = {}) /\ (ended[x] => ended'[x])
      <3> HIDE DEF m
      <3>1. CASE m.ex \notin Serving(v)
        BY <1>9, <3>1 DEF HostReceive, m
      <3>2. CASE m.ex \in Serving(v)
        BY <1>0, <1>9, <2>2, <3>2 DEF HostReceive, m, Finish, CallsTyped, RunsTyped
      <3> QED BY <3>1, <3>2
    <2> QED BY <1>3, <2>1, <2>3, StagesFrame DEF vmVars
  <1>10. ASSUME Worker(w) PROVE Stages(x, w)'
    <2>1. CASE GuestEnds(w)
      <3>1. guest[w] = "running" /\ toWorker'[w] = toWorker[w] /\ UNCHANGED <<calls, ended>>
        BY <2>1 DEF GuestEnds, hostVars
      <3> QED BY <1>3, <2>1, <3>1, StagesEnded DEF GuestEnds
    <2> QED BY <1>3, <1>10, <2>1, StagesReceived, StagesTold DEF Worker
  <1>11. ASSUME NEW v \in Threads, v # w, Worker(v) PROVE Stages(x, w)'
    <2>1. UNCHANGED <<calls, ended>>
      BY <1>11 DEF Worker, WorkerReceive, GuestCalls, GuestEnds, PostResult, hostVars
    <2>2. /\ toWorker'[w] = toWorker[w] /\ toHost'[w] = toHost[w]
          /\ active'[w] = active[w] /\ guest'[w] = guest[w] /\ called'[w] = called[w]
      <3>1. CASE WorkerReceive(v)
        BY <1>0, <1>11, <3>1 DEF WorkerReceive, EndGuest, Post, ChannelsTyped, WorkerTyped, vmVars
      <3>2. CASE GuestCalls(v) \/ GuestEnds(v) \/ PostResult(v)
        BY <1>0, <1>11, <3>2 DEF GuestCalls, GuestEnds, PostResult, EndGuest, Post, ChannelsTyped, WorkerTyped
      <3> QED BY <1>11, <3>1, <3>2 DEF Worker
    <2> QED BY <1>3, <2>1, <2>2, StagesFrame
  <1>12. ASSUME NEW v \in Threads, Crash(v) \/ Exit(v) PROVE Stages(x, w)'
    <2>1. Lost(v) /\ Discard(v)
      BY <1>12 DEF Crash, Exit
    <2>2. v # w
      BY <1>1, <1>3, <2>1 DEF Lost, Serving
    <2>3. /\ toWorker'[w] = toWorker[w] /\ toHost'[w] = toHost[w]
          /\ active'[w] = active[w] /\ guest'[w] = guest[w] /\ called'[w] = called[w]
      BY <1>0, <2>1, <2>2 DEF Discard, ChannelsTyped, WorkerTyped
    <2>4. UNCHANGED calls /\ (ended[x] => ended'[x])
      BY <2>1 DEF Lost
    <2> QED BY <1>3, <2>3, <2>4, StagesFrame
  <1>13. ASSUME NEW v \in Threads, Terminated(v) PROVE Stages(x, w)'
    BY <1>6, <1>13 DEF Terminated
  <1>14. CASE IdleTimer \/ Close \/ CloseDone \/ UNCHANGED vars
    BY <1>6, <1>14 DEF IdleTimer, Close, Finish, CloseDone, vars, hostVars
  <1> QED BY <1>7, <1>8, <1>9, <1>10, <1>11, <1>12, <1>13, <1>14 DEF Next

-----------------------------------------------------------------------------
(* Theorems                                                                   *)

\* The invariant holds before the first execution.
LEMMA IsolationInit == Init => Isolation
  <1> USE SandboxNames, SandboxBound
  <1> SUFFICES ASSUME Init PROVE Isolation
    OBVIOUS
  <1>1. SlotsTyped /\ RunsTyped /\ CallsTyped
    BY DEF Init, SlotsTyped, RunsTyped, CallsTyped
  <1>2. ChannelsTyped
    <2>1. <<>> \in Seq(Inbound) /\ <<>> \in Seq(Outbound)
      OBVIOUS
    <2> QED BY <2>1 DEF Init, ChannelsTyped
  <1>3. WorkerTyped /\ WorkerSound
    BY DEF Init, WorkerTyped, WorkerSound
  <1>4. SlotsSound /\ RunsSound /\ OneAtATime /\ LeftQuiet /\ ServedInStages
    BY DEF Init, SlotsSound, Vacant, RunsSound, OneAtATime, Busy, LeftQuiet, ServedInStages
  <1> QED BY <1>1, <1>2, <1>3, <1>4 DEF Isolation

\* The invariant holds in every reachable state.
THEOREM IsolationHolds == Spec => []Isolation
  <1>1. Isolation /\ [Next]_vars => Isolation'
    BY SlotsTypedKept, RunsTypedKept, CallsTypedKept, ChannelsTypedKept, WorkerKept, SlotsSoundKept,
       RunsSoundKept, LeftQuietKept, ServedInStagesKept DEF Isolation
  <1> QED BY <1>1, IsolationInit, PTL DEF Spec

\* Executions that share threads one after the other are isolated from each
\* other: no message, thread or provider of one outlives it into another.
THEOREM SandboxIsolates == Spec => []RunsIsolated
  <1>1. Isolation => RunsIsolated
    <2> SUFFICES ASSUME Isolation PROVE RunsIsolated
      OBVIOUS
    <2> USE SandboxNames
    <2>0. /\ SlotsTyped /\ RunsTyped /\ CallsTyped /\ ChannelsTyped /\ WorkerTyped /\ WorkerSound
          /\ SlotsSound /\ RunsSound /\ OneAtATime /\ LeftQuiet /\ ServedInStages
      BY DEF Isolation
    <2>1. TypeOK
      <3>1. ASSUME NEW w \in Threads
            PROVE  /\ \A i \in 1..Len(toWorker[w]) : toWorker[w][i].kind \in {"run", "abort", "hostResult"}
                   /\ \A i \in 1..Len(toHost[w]) :
                        toHost[w][i].kind \in {"hostCall", "hostAbort", "result", "fatal"}
        <4>1. \A i \in 1..Len(toWorker[w]) : toWorker[w][i] \in Inbound
          BY <2>0 DEF ChannelsTyped
        <4>2. \A i \in 1..Len(toHost[w]) : toHost[w][i] \in Outbound
          BY <2>0 DEF ChannelsTyped
        <4> QED BY <4>1, <4>2 DEF Inbound, Outbound
      <3>2. \A x \in Executions : calls[x] \subseteq [id : Nat \ {0}, dispatched : BOOLEAN]
        BY <2>0 DEF CallsTyped
      <3> QED BY <2>0, <3>1, <3>2 DEF TypeOK, SlotsTyped, RunsTyped, WorkerTyped, WorkerSound
    <2>2. SealedIsSilent
      <3> SUFFICES ASSUME NEW w \in Threads, active[w] # Nil, run[active[w]] = "serving", on[active[w]] = w
                   PROVE  AllOf(toWorker[w], active[w])
        BY DEF SealedIsSilent, AllOf
      <3>1. active[w] \in Executions
        BY <2>0 DEF WorkerTyped
      <3> QED BY <2>0, <3>1 DEF ServedInStages, Waiting, Working, Reported
    <2>3. NoOrphanThread
      BY <2>0 DEF NoOrphanThread, SlotsSound
    <2>4. ReusedIsQuiet
      <3>1. idle # Nil => /\ idle \in slots /\ active[idle] = Nil /\ pending[idle] = {}
                          /\ \A x \in Executions : on[x] = idle => ~Busy(x)
        BY <2>0 DEF SlotsSound, SlotsTyped, LeftQuiet, Quiet, WorkerSound, RunsSound
      <3> QED BY <2>0, <3>1 DEF ReusedIsQuiet, OneAtATime
    <2>5. ProvidersStopped
      <3> SUFFICES ASSUME NEW x \in Executions, calls[x] # {}
                   PROVE  /\ run[x] \in {"sealed", "ending", "returned"} => ended[x]
                          /\ run[x] = "serving" /\ active[on[x]] # x => ended[x] \/ Holds(toHost[on[x]], "hostAbort")
        BY DEF ProvidersStopped, Holds
      <3> QED BY <2>0 DEF RunsSound, ServedInStages, Waiting, Working, Reported, Notified
    <2> QED BY <2>1, <2>2, <2>3, <2>4, <2>5 DEF RunsIsolated
  <1> QED BY <1>1, IsolationHolds, PTL

\* An execution whose signal is aborted, whenever that was, does not return
\* before its thread has exited; a thread that cannot be terminated is
\* reported as a fault.
THEOREM CancellationKills == Spec => []CancelledIsDead
  <1>1. Init => CancelledIsDead
    BY DEF Init, CancelledIsDead
  <1>2. ASSUME Isolation, CancelledIsDead, [Next]_vars PROVE CancelledIsDead'
    <2> USE SandboxNames
    <2>0. SlotsTyped /\ RunsTyped /\ SlotsSound /\ RunsSound
      BY <1>2 DEF Isolation
    <2>1. SUFFICES ASSUME NEW x \in Executions, run'[x] = "returned", on'[x] # Nil, signal'[x]
                   PROVE  \/ outcome'[x] = "aborted" /\ thread'[on'[x]] = "exited"
                          \/ outcome'[x] = "runtime_error" /\ termination'[on'[x]] = "failed"
      BY DEF CancelledIsDead
    <2>2. ASSUME NEW w \in Threads
          PROVE  /\ thread[w] = "exited" => thread'[w] = "exited"
                 /\ termination[w] = "failed" => termination'[w] = "failed"
      <3>1. CASE UNCHANGED <<thread, termination>>
        BY <3>1
      <3>2. ASSUME NEW S, Terminate(S) PROVE termination[w] = "failed" => termination'[w] = "failed"
        BY <2>0, <3>2 DEF Terminate
      <3>3. ASSUME NEW y \in Executions, NEW v \in Threads, Execute(y, v)
            PROVE  /\ thread[w] = "exited" => thread'[w] = "exited"
                   /\ UNCHANGED termination
        BY <2>0, <3>3 DEF Execute, SlotsTyped
      <3>4. ASSUME NEW v \in Threads, Crash(v) \/ Exit(v) \/ Terminated(v)
            PROVE  /\ thread[w] = "exited" => thread'[w] = "exited"
                   /\ termination[w] = "failed" => termination'[w] = "failed"
        BY <2>0, <3>4 DEF Crash, Exit, Lost, Terminated, SlotsTyped
      <3>5. CASE UNCHANGED thread /\ \E S : Terminate(S)
        BY <3>2, <3>5
      <3>6. ASSUME NEW y \in Executions, Host(y)
            PROVE  /\ thread[w] = "exited" => thread'[w] = "exited"
                   /\ termination[w] = "failed" => termination'[w] = "failed"
        <4>1. CASE Backstop(y) \/ Conclude(y)
          <5>1. UNCHANGED thread /\ (UNCHANGED termination \/ \E S : Terminate(S))
            BY <4>1 DEF Backstop, Finish, Conclude, Release, slotVars
          <5> QED BY <3>1, <3>5, <5>1
        <4> QED BY <3>1, <3>3, <3>6, <4>1 DEF Host, ExecuteRefused, SignalAborts, ConcludeAborted,
                 ConcludeStuck, Dispatch, Settle, slotVars
      <3>7. ASSUME NEW v \in Threads, HostReceive(v) \/ Worker(v)
            PROVE  /\ thread[w] = "exited" => thread'[w] = "exited"
                   /\ termination[w] = "failed" => termination'[w] = "failed"
        <4>1. UNCHANGED thread /\ (UNCHANGED termination \/ \E S : Terminate(S))
          BY <3>7 DEF HostReceive, Finish, Worker, WorkerReceive, GuestCalls, GuestEnds, PostResult, hostVars, slotVars
        <4> QED BY SMTT(40), <3>1, <3>5, <4>1
      <3>8. CASE IdleTimer \/ Close \/ CloseDone \/ UNCHANGED vars
        <4>1. UNCHANGED thread /\ (UNCHANGED termination \/ \E S : Terminate(S))
          BY <3>8 DEF IdleTimer, Close, Finish, CloseDone, vars, hostVars, slotVars
        <4> QED BY <3>1, <3>5, <4>1
      <3> QED BY <1>2, <3>4, <3>6, <3>7, <3>8 DEF Next
    <2>3. CASE run[x] = "returned" /\ UNCHANGED <<on, signal, outcome>>
      <3>1. on[x] \in Threads
        BY <2>0, <2>1, <2>3 DEF RunsTyped
      <3> QED BY <1>2, <2>1, <2>2, <2>3, <3>1 DEF CancelledIsDead
    <2>4. ASSUME run[x] \in {"sealed", "ending"}, UNCHANGED <<on, signal, thread, termination>>,
                 \/ outcome'[x] = "aborted" /\ termination[on[x]] = "settled"
                 \/ outcome'[x] = "runtime_error" /\ termination[on[x]] = "failed"
          PROVE  \/ outcome'[x] = "aborted" /\ thread'[on'[x]] = "exited"
                 \/ outcome'[x] = "runtime_error" /\ termination'[on'[x]] = "failed"
      BY <2>0, <2>4 DEF RunsSound, Busy, SlotsSound
    <2>5. ASSUME NEW y \in Executions, Host(y)
          PROVE  \/ outcome'[x] = "aborted" /\ thread'[on'[x]] = "exited"
                 \/ outcome'[x] = "runtime_error" /\ termination'[on'[x]] = "failed"
      <3>1. CASE y = x
        <4>1. CASE ExecuteRefused(x)
          BY <2>0, <2>1, <4>1 DEF ExecuteRefused, RunsSound
        <4>2. CASE Conclude(x)
          <5>1. run[x] = "sealed" /\ kill[x] /\ Gone(x) /\ UNCHANGED <<on, signal, thread, termination>>
            BY <2>0, <2>1, <4>2 DEF Conclude, RunsTyped, slotVars
          <5>2. outcome'[x] = "aborted"
            BY <2>0, <2>1, <4>2, <5>1 DEF Conclude, Return, RunsTyped
          <5> QED BY <2>4, <5>1, <5>2 DEF Gone
        <4>3. CASE ConcludeAborted(x) \/ ConcludeStuck(x)
          <5>1. UNCHANGED <<on, signal, thread, termination>> /\ run[x] \in {"sealed", "ending"}
            BY <4>3 DEF ConcludeAborted, ConcludeStuck, slotVars
          <5>2. \/ outcome'[x] = "aborted" /\ termination[on[x]] = "settled"
                \/ outcome'[x] = "runtime_error" /\ termination[on[x]] = "failed"
            BY <2>0, <4>3 DEF ConcludeAborted, ConcludeStuck, Return, Gone, RunsTyped
          <5> QED BY <2>4, <5>1, <5>2
        <4>4. CASE SignalAborts(x) \/ Backstop(x)
          BY <2>0, <2>1, <4>4 DEF SignalAborts, Backstop, Finish, RunsTyped, runVars
        <4>5. ASSUME NEW w \in Threads, Execute(x, w) PROVE FALSE
          BY <2>0, <2>1, <4>5 DEF Execute, RunsTyped
        <4>6. CASE \E c \in calls[x] : Dispatch(x, c) \/ Settle(x, c)
          BY <2>1, <2>3, <4>6 DEF Dispatch, Settle, runVars
        <4> QED BY <2>5, <3>1, <4>1, <4>2, <4>3, <4>4, <4>5, <4>6 DEF Host
      <3>2. CASE y # x
        <4>1. /\ run'[x] = run[x] /\ on'[x] = on[x] /\ signal'[x] = signal[x] /\ outcome'[x] = outcome[x]
          <5>1. CASE ExecuteRefused(y) \/ SignalAborts(y)
            BY <2>0, <3>2, <5>1 DEF ExecuteRefused, SignalAborts, RunsTyped, runVars
          <5>2. CASE \E w \in Threads : Execute(y, w)
            BY <2>0, <3>2, <5>2 DEF Execute, RunsTyped
          <5>3. CASE Backstop(y)
            BY <2>0, <2>1, <5>3 DEF Backstop, Finish, RunsTyped
          <5>4. CASE Conclude(y) \/ ConcludeAborted(y) \/ ConcludeStuck(y)
            BY <2>0, <3>2, <5>4 DEF Conclude, ConcludeAborted, ConcludeStuck, Return, RunsTyped
          <5>5. CASE \E c \in calls[y] : Dispatch(y, c) \/ Settle(y, c)
            BY <5>5 DEF Dispatch, Settle, runVars
          <5> QED BY <2>5, <5>1, <5>2, <5>3, <5>4, <5>5 DEF Host
        <4>2. on[x] \in Threads
          BY <2>0, <2>1, <4>1 DEF RunsTyped
        <4> QED BY <1>2, <2>1, <2>2, <4>1, <4>2 DEF CancelledIsDead
      <3> QED BY <3>1, <3>2
    <2>6. ASSUME NEW w \in Threads, HostReceive(w) \/ Crash(w) \/ Exit(w)
          PROVE  run[x] = "returned" /\ UNCHANGED <<on, signal, outcome>>
      BY <2>1, <2>6 DEF HostReceive, Finish, Crash, Exit, Lost, runVars
    <2>7. ASSUME NEW w \in Threads, Terminated(w) \/ Worker(w)
          PROVE  run[x] = "returned" /\ UNCHANGED <<on, signal, outcome>>
      BY <2>1, <2>7 DEF Terminated, Worker, WorkerReceive, GuestCalls, GuestEnds, PostResult, hostVars, runVars
    <2>8. ASSUME IdleTimer \/ Close \/ CloseDone \/ UNCHANGED vars
          PROVE  run[x] = "returned" /\ UNCHANGED <<on, signal, outcome>>
      BY <2>1, <2>8 DEF IdleTimer, Close, Finish, CloseDone, vars, hostVars, runVars
    <2> QED BY <1>2, <2>3, <2>5, <2>6, <2>7, <2>8 DEF Next
  <1> QED BY <1>1, <1>2, IsolationHolds, PTL DEF Spec
=============================================================================
