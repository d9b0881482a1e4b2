---------------------------- MODULE ServiceProofs ----------------------------
(* What the compiler pool, the service over it and the registry of what that  *)
(* service executes guarantee for every set of requests, threads, queries and *)
(* indexes and every limit.                                                   *)
EXTENDS ServiceLifecycle, ActionRegistry, FiniteSetTheorems, SequenceTheorems, RecursionTheorems, TLAPS

-----------------------------------------------------------------------------
(* The pool: capacity, the ownership of threads and the answers callers get.  *)
(* These proofs never open the cache's actions: the cache shares no variable  *)
(* with the threads, and its own accounting follows after them.               *)

\* The conjuncts that make the thread properties inductive.  A thread that holds
\* capacity runs and is not terminating; the retained terminations are those
\* that have begun; a request that ends waits for one of them; after close no
\* thread holds capacity.
HoldersRun == \A w \in workers : thread[w] = "running" /\ termination[w] = "none"
RetiringBegun == \A w \in Threads : w \in retiring <=> termination[w] = "begun"
SettledExited == \A w \in Threads : termination[w] = "settled" => thread[w] = "exited"
BornToEnd == \A w \in Threads : termination[w] # "none" => thread[w] # "unborn"
EndingWaits == \A r \in Requests : phase[r] = "ending" =>
                 server[r] \in Threads /\ termination[server[r]] = "begun"
NewUnserved == \A r \in Requests : phase[r] = "new" => server[r] = Nil
\* The idle timer is armed for the warm thread alone, so it never retires a
\* thread that has been acquired again.
OnlyIdleIsTimed == timers = IdleSet
CloseDrains == /\ closing # "open" => workers = {}
               /\ closing = "closed" => retiring = {}

PoolInvariant ==
  /\ ThreadsTyped
  /\ CapacityIsWork /\ NoOrphanThread /\ OnlyIdleIsTimed /\ WaitersAreServed
  /\ HoldersRun /\ RetiringBegun /\ SettledExited /\ BornToEnd /\ EndingWaits
  /\ NewUnserved /\ CloseDrains /\ FailureAfterExit

threadVars == <<poolVars, requestVars, closing>>

\* The invariant speaks of the thread variables only.
LEMMA PoolStutter == ASSUME PoolInvariant, UNCHANGED threadVars PROVE PoolInvariant'
BY DEF PoolInvariant, ThreadsTyped, CapacityIsWork, Busy, IdleSet, NoOrphanThread,
       OnlyIdleIsTimed, WaitersAreServed, HoldersRun, RetiringBegun, SettledExited,
       BornToEnd, EndingWaits, NewUnserved, CloseDrains, FailureAfterExit,
       threadVars, poolVars, requestVars

\* A pool with no threads and no requests satisfies the invariant.
LEMMA PoolInit == Init => PoolInvariant
BY PoolNames DEF Init, PoolInvariant, ThreadsTyped, CapacityIsWork, Busy, IdleSet, NoOrphanThread,
       OnlyIdleIsTimed, WaitersAreServed, HoldersRun, RetiringBegun, SettledExited,
       BornToEnd, EndingWaits, NewUnserved, CloseDrains, FailureAfterExit, Verdicts

\* Finishing the requests of any set of threads and terminating them keeps the
\* invariant, whether the threads run on or exit in the same step, provided
\* that a thread whose termination begins here held capacity.
LEMMA StopKeeps ==
  ASSUME PoolInvariant,
         NEW S \in SUBSET Threads, NEW how \in Verdicts,
         \A w \in S : termination[w] = "none" => w \in workers,
         Stop(S, how),
         posted' \in [Threads -> Requests \cup {Nil}],
         thread' \in [Threads -> {"unborn", "running", "exited"}],
         \A w \in Threads : thread'[w] = thread[w] \/ (w \in S /\ thread[w] = "running" /\ thread'[w] = "exited"),
         closing' \in {"open", "draining", "closed"},
         closing' = closing \/ (closing' = "draining" /\ S = workers)
  PROVE  PoolInvariant'
<1> DEFINE ended == {pending[w] : w \in S} \ {Nil}
<1> USE PoolNames DEF PoolInvariant
<1>1. /\ pending' = [w \in Threads |-> IF w \in S THEN Nil ELSE pending[w]]
      /\ verdict' = [r \in Requests |-> IF r \in ended THEN how ELSE verdict[r]]
      /\ phase' = [r \in Requests |-> IF r \in ended THEN EndPhase(server[r]) ELSE phase[r]]
      /\ idle' = IF idle \in S THEN Nil ELSE idle
      /\ timers' = timers \ S
      /\ workers' = workers \ S
      /\ termination' = [w \in Threads |-> IF w \in S /\ termination[w] = "none"
                                           THEN "begun" ELSE termination[w]]
      /\ retiring' = retiring \cup {w \in S : termination[w] = "none"}
      /\ uses' = uses /\ server' = server
  BY DEF Stop, Terminate
<1>2. \A r \in ended : /\ r \in Requests /\ phase[r] = "waiting"
                       /\ server[r] \in S /\ pending[server[r]] = r
                       /\ termination[server[r]] = "none"
  BY DEF ThreadsTyped, WaitersAreServed, Busy
<1>3. \A r \in Requests : r \in ended => phase'[r] = "ending"
  BY <1>1, <1>2 DEF EndPhase
<1>4. \A r \in Requests : r \notin ended => phase'[r] = phase[r] /\ verdict'[r] = verdict[r]
  BY <1>1
<1>5. ThreadsTyped'
  <2>1. phase' \in [Requests -> {"new", "waiting", "ending", "done"}]
    BY <1>1 DEF ThreadsTyped, EndPhase
  <2>2. verdict' \in [Requests -> Verdicts]
    BY <1>1 DEF ThreadsTyped
  <2>3. /\ pending' \in [Threads -> Requests \cup {Nil}]
        /\ termination' \in [Threads -> {"none", "begun", "settled"}]
    BY <1>1 DEF ThreadsTyped
  <2> QED BY <1>1, <2>1, <2>2, <2>3 DEF ThreadsTyped
<1>6. CapacityIsWork' /\ OnlyIdleIsTimed'
  BY <1>1 DEF CapacityIsWork, OnlyIdleIsTimed, Busy, IdleSet, ThreadsTyped
<1>7. WaitersAreServed'
  <2>1. ASSUME NEW r \in Requests, phase'[r] = "waiting"
        PROVE  /\ server'[r] \in Threads /\ pending'[server'[r]] = r
               /\ termination'[server'[r]] = "none"
    <3>1. r \notin ended /\ phase[r] = "waiting"
      BY <2>1, <1>3, <1>4
    <3>2. server[r] \in Threads /\ pending[server[r]] = r /\ termination[server[r]] = "none"
      BY <3>1 DEF WaitersAreServed
    <3>3. server[r] \notin S
      BY <3>1, <3>2
    <3> QED BY <3>2, <3>3, <1>1
  <2>2. ASSUME NEW w \in Threads, pending'[w] # Nil
        PROVE  phase'[pending'[w]] = "waiting" /\ server'[pending'[w]] = w
    <3>1. w \notin S /\ pending'[w] = pending[w]
      BY <2>2, <1>1
    <3>2. pending[w] \in Requests /\ phase[pending[w]] = "waiting" /\ server[pending[w]] = w
      BY <3>1, <2>2 DEF WaitersAreServed, Busy, ThreadsTyped
    <3>3. pending[w] \notin ended
      BY <3>1, <3>2, <1>2
    <3> QED BY <3>1, <3>2, <3>3, <1>1, <1>4
  <2> QED BY <2>1, <2>2 DEF WaitersAreServed, Busy
<1>8. NoOrphanThread' /\ HoldersRun' /\ RetiringBegun' /\ SettledExited' /\ BornToEnd'
  BY <1>1 DEF NoOrphanThread, HoldersRun, RetiringBegun, SettledExited, BornToEnd, ThreadsTyped
<1>9. EndingWaits' /\ NewUnserved'
  BY <1>1, <1>2, <1>3, <1>4 DEF EndingWaits, NewUnserved, ThreadsTyped
<1>10. CloseDrains'
  BY <1>1 DEF CloseDrains, HoldersRun
<1>11. FailureAfterExit'
  BY <1>1, <1>3, <1>4 DEF FailureAfterExit, ThreadsTyped
<1> QED BY <1>5, <1>6, <1>7, <1>8, <1>9, <1>10, <1>11

\* A request settled inside check takes no thread.
LEMMA AnswerKeeps ==
  ASSUME PoolInvariant, NEW r \in Requests, NEW how \in Verdicts,
         phase[r] = "new", Answer(r, how)
  PROVE  PoolInvariant'
<1> USE PoolNames DEF PoolInvariant, Answer, poolVars
<1>1. ThreadsTyped'
  BY DEF ThreadsTyped
<1>2. server[r] = Nil /\ \A w \in Threads : pending[w] # r
  BY DEF NewUnserved, WaitersAreServed, Busy, ThreadsTyped
<1>3. \A q \in Requests : q # r => phase'[q] = phase[q] /\ verdict'[q] = verdict[q]
  BY DEF ThreadsTyped
<1>4. phase'[r] = "done"
  BY DEF ThreadsTyped
<1>5. CapacityIsWork' /\ OnlyIdleIsTimed' /\ NoOrphanThread' /\ HoldersRun' /\ RetiringBegun'
      /\ SettledExited' /\ BornToEnd' /\ CloseDrains'
  BY DEF CapacityIsWork, OnlyIdleIsTimed, Busy, IdleSet, NoOrphanThread, HoldersRun, RetiringBegun,
         SettledExited, BornToEnd, CloseDrains
<1>6. WaitersAreServed'
  BY <1>2, <1>3, <1>4 DEF WaitersAreServed, Busy, ThreadsTyped
<1>7. EndingWaits' /\ NewUnserved' /\ FailureAfterExit'
  BY <1>2, <1>3, <1>4 DEF EndingWaits, NewUnserved, FailureAfterExit, ThreadsTyped
<1> QED BY <1>1, <1>5, <1>6, <1>7

\* A request that takes the idle thread.
LEMMA CheckWarmKeeps ==
  ASSUME PoolInvariant, NEW r \in Requests, NEW sent \in BOOLEAN, CheckWarm(r, sent)
  PROVE  PoolInvariant'
<1> USE PoolNames DEF PoolInvariant
<1> DEFINE w == idle
<1>1. /\ w \in Threads /\ w \in workers /\ pending[w] = Nil /\ timers = {w}
      /\ thread[w] = "running" /\ termination[w] = "none"
      /\ phase[r] = "new" /\ closing = "open" /\ server[r] = Nil
  BY DEF CheckWarm, Misses, Warm, ThreadsTyped, CapacityIsWork, Busy, IdleSet, HoldersRun,
         OnlyIdleIsTimed, NewUnserved
<1>2. \A x \in Threads : pending[x] # r
  BY <1>1 DEF WaitersAreServed, Busy
<1>3. /\ server' = [server EXCEPT ![r] = w] /\ idle' = Nil /\ timers' = {}
      /\ UNCHANGED <<uses, thread, closing>>
  BY <1>1 DEF CheckWarm, Serve
<1>4. CASE sent
  <2>1. /\ pending' = [pending EXCEPT ![w] = r] /\ posted' = [posted EXCEPT ![w] = r]
        /\ phase' = [phase EXCEPT ![r] = "waiting"]
        /\ workers' = workers /\ UNCHANGED <<verdict, termination, retiring>>
    BY <1>4 DEF CheckWarm, Serve
  <2>2. ThreadsTyped'
    BY <1>1, <1>3, <2>1 DEF ThreadsTyped
  <2>3. CapacityIsWork' /\ OnlyIdleIsTimed'
    BY <1>1, <1>3, <2>1 DEF ThreadsTyped, CapacityIsWork, OnlyIdleIsTimed, Busy, IdleSet
  <2>4. WaitersAreServed'
    BY <1>1, <1>2, <1>3, <2>1 DEF ThreadsTyped, WaitersAreServed, Busy
  <2>5. NoOrphanThread' /\ HoldersRun' /\ RetiringBegun' /\ SettledExited' /\ BornToEnd' /\ CloseDrains'
    BY <1>1, <1>3, <2>1 DEF NoOrphanThread, HoldersRun, RetiringBegun, SettledExited, BornToEnd, CloseDrains
  <2>6. EndingWaits' /\ NewUnserved' /\ FailureAfterExit'
    BY <1>1, <1>3, <2>1 DEF EndingWaits, NewUnserved, FailureAfterExit, ThreadsTyped
  <2> QED BY <2>2, <2>3, <2>4, <2>5, <2>6
<1>5. CASE ~sent
  <2>1. /\ pending' = pending /\ posted' = posted
        /\ phase' = [phase EXCEPT ![r] = "ending"] /\ verdict' = [verdict EXCEPT ![r] = "failed"]
        /\ workers' = workers \ {w}
        /\ termination' = [termination EXCEPT ![w] = "begun"] /\ retiring' = retiring \cup {w}
    BY <1>5 DEF CheckWarm, Serve
  <2>2. ThreadsTyped'
    BY <1>1, <1>3, <2>1 DEF ThreadsTyped, Verdicts
  <2>3. CapacityIsWork' /\ OnlyIdleIsTimed'
    BY <1>1, <1>3, <2>1 DEF ThreadsTyped, CapacityIsWork, OnlyIdleIsTimed, Busy, IdleSet
  <2>4. WaitersAreServed'
    BY <1>1, <1>2, <1>3, <2>1 DEF ThreadsTyped, WaitersAreServed, Busy
  <2>5. NoOrphanThread' /\ HoldersRun' /\ RetiringBegun' /\ SettledExited' /\ BornToEnd' /\ CloseDrains'
    BY <1>1, <1>3, <2>1 DEF NoOrphanThread, HoldersRun, RetiringBegun, SettledExited, BornToEnd,
                            CloseDrains, ThreadsTyped
  <2>6. EndingWaits' /\ NewUnserved' /\ FailureAfterExit'
    BY <1>1, <1>3, <2>1 DEF EndingWaits, NewUnserved, FailureAfterExit, ThreadsTyped
  <2> QED BY <2>2, <2>3, <2>4, <2>5, <2>6
<1> QED BY <1>4, <1>5

\* A request that spawns a thread.
LEMMA CheckColdKeeps ==
  ASSUME PoolInvariant, NEW r \in Requests, NEW w \in Threads, NEW sent \in BOOLEAN,
         CheckCold(r, w, sent)
  PROVE  PoolInvariant'
<1> USE PoolNames DEF PoolInvariant
<1>1. /\ thread[w] = "unborn" /\ phase[r] = "new" /\ closing = "open" /\ server[r] = Nil
      /\ w \notin workers /\ termination[w] = "none" /\ pending[w] = Nil /\ w # idle
      /\ w \notin retiring
  BY DEF CheckCold, Misses, ThreadsTyped, CapacityIsWork, Busy, IdleSet, HoldersRun,
         NewUnserved, BornToEnd, RetiringBegun
<1>2. /\ \A x \in Threads : pending[x] # r
      /\ \A q \in Requests : phase[q] = "waiting" => server[q] # w
  BY <1>1 DEF WaitersAreServed, Busy
<1>3. /\ server' = [server EXCEPT ![r] = w] /\ thread' = [thread EXCEPT ![w] = "running"]
      /\ UNCHANGED <<idle, timers, uses, closing>>
  BY DEF CheckCold, Serve
<1>4. \A q \in Requests : q # r /\ phase[q] = "done" /\ verdict[q] \in {"failed", "timeout", "aborted"}
                             => server[q] # w
  BY <1>1 DEF FailureAfterExit
<1>5. CASE sent
  <2>1. /\ pending' = [pending EXCEPT ![w] = r] /\ posted' = [posted EXCEPT ![w] = r]
        /\ phase' = [phase EXCEPT ![r] = "waiting"]
        /\ workers' = workers \cup {w} /\ UNCHANGED <<verdict, termination, retiring>>
    BY <1>5 DEF CheckCold, Serve
  <2>2. ThreadsTyped'
    BY <1>1, <1>3, <2>1 DEF ThreadsTyped
  <2>3. CapacityIsWork' /\ OnlyIdleIsTimed'
    BY <1>1, <1>3, <2>1 DEF ThreadsTyped, CapacityIsWork, OnlyIdleIsTimed, Busy, IdleSet
  <2>4. WaitersAreServed'
    BY <1>1, <1>2, <1>3, <2>1 DEF ThreadsTyped, WaitersAreServed, Busy
  <2>5. NoOrphanThread' /\ HoldersRun' /\ RetiringBegun' /\ SettledExited' /\ BornToEnd' /\ CloseDrains'
    BY <1>1, <1>3, <2>1 DEF NoOrphanThread, HoldersRun, RetiringBegun, SettledExited, BornToEnd,
                            CloseDrains, ThreadsTyped
  <2>6. EndingWaits' /\ NewUnserved' /\ FailureAfterExit'
    BY <1>1, <1>3, <1>4, <2>1 DEF EndingWaits, NewUnserved, FailureAfterExit, ThreadsTyped
  <2> QED BY <2>2, <2>3, <2>4, <2>5, <2>6
<1>6. CASE ~sent
  <2>1. /\ pending' = pending /\ posted' = posted
        /\ phase' = [phase EXCEPT ![r] = "ending"] /\ verdict' = [verdict EXCEPT ![r] = "failed"]
        /\ workers' = workers
        /\ termination' = [termination EXCEPT ![w] = "begun"] /\ retiring' = retiring \cup {w}
    BY <1>6 DEF CheckCold, Serve
  <2>2. ThreadsTyped'
    BY <1>1, <1>3, <2>1 DEF ThreadsTyped, Verdicts
  <2>3. CapacityIsWork' /\ OnlyIdleIsTimed'
    BY <1>1, <1>3, <2>1 DEF ThreadsTyped, CapacityIsWork, OnlyIdleIsTimed, Busy, IdleSet
  <2>4. WaitersAreServed'
    BY <1>1, <1>2, <1>3, <2>1 DEF ThreadsTyped, WaitersAreServed, Busy
  <2>5. NoOrphanThread' /\ HoldersRun' /\ RetiringBegun' /\ SettledExited' /\ BornToEnd' /\ CloseDrains'
    BY <1>1, <1>3, <2>1 DEF NoOrphanThread, HoldersRun, RetiringBegun, SettledExited, BornToEnd,
                            CloseDrains, ThreadsTyped
  <2>6. EndingWaits' /\ NewUnserved' /\ FailureAfterExit'
    BY <1>1, <1>3, <1>4, <2>1 DEF EndingWaits, NewUnserved, FailureAfterExit, ThreadsTyped
  <2> QED BY <2>2, <2>3, <2>4, <2>5, <2>6
<1> QED BY <1>5, <1>6

\* Any call of check.
LEMMA CheckKeeps ==
  ASSUME PoolInvariant, NEW r \in Requests, Check(r)
  PROVE  PoolInvariant'
<1>1. CASE Refuse(r) \/ Hit(r) \/ LimitReached(r)
  <2>1. PICK how \in Verdicts : phase[r] = "new" /\ Answer(r, how)
    BY <1>1 DEF Refuse, Hit, LimitReached, Misses, Verdicts
  <2> QED BY <2>1, AnswerKeeps
<1>2. CASE \E sent \in BOOLEAN : CheckWarm(r, sent)
  BY <1>2, CheckWarmKeeps
<1>3. CASE \E sent \in BOOLEAN : \E w \in Threads : CheckCold(r, w, sent)
  BY <1>3, CheckColdKeeps
<1> QED BY <1>1, <1>2, <1>3 DEF Check

\* A result: the thread becomes the idle one, or is terminated.
LEMMA FinishDoneKeeps ==
  ASSUME PoolInvariant, NEW w \in Threads, NEW clean \in BOOLEAN,
         thread[w] = "running", pending[w] # Nil,
         FinishDone(w, clean), thread' = thread, closing' = closing,
         posted' \in [Threads -> Requests \cup {Nil}]
  PROVE  PoolInvariant'
<1> USE PoolNames DEF PoolInvariant
<1> DEFINE r == pending[w]
           keep == closing = "open" /\ idle = Nil /\ r \notin Custom /\ uses[w] + 1 < MaxUses
<1>1. /\ r \in Requests /\ phase[r] = "waiting" /\ server[r] = w
      /\ termination[w] = "none" /\ w \in workers /\ w \notin retiring /\ w # idle
  BY DEF ThreadsTyped, WaitersAreServed, Busy, CapacityIsWork, HoldersRun, RetiringBegun, IdleSet
<1>2. \A x \in Threads : x # w => pending[x] # r
  BY <1>1 DEF WaitersAreServed, Busy
<1>3. /\ pending' = [pending EXCEPT ![w] = Nil] /\ server' = server
      /\ uses' = [uses EXCEPT ![w] = @ + 1]
      /\ \E how \in {"miss", "bypass"} : verdict' = [verdict EXCEPT ![r] = how]
  BY DEF FinishDone
<1>4. CASE keep
  <2>1. /\ idle' = w /\ timers' = timers \cup {w} /\ phase' = [phase EXCEPT ![r] = "done"]
        /\ UNCHANGED <<workers, retiring, termination>>
    BY <1>4 DEF FinishDone
  <2>2. ThreadsTyped'
    BY <1>1, <1>3, <2>1 DEF ThreadsTyped, Verdicts
  <2>3. CapacityIsWork' /\ OnlyIdleIsTimed'
    BY <1>1, <1>3, <1>4, <2>1 DEF ThreadsTyped, CapacityIsWork, OnlyIdleIsTimed, Busy, IdleSet
  <2>4. WaitersAreServed'
    BY <1>1, <1>2, <1>3, <2>1 DEF ThreadsTyped, WaitersAreServed, Busy
  <2>5. NoOrphanThread' /\ HoldersRun' /\ RetiringBegun' /\ SettledExited' /\ BornToEnd' /\ CloseDrains'
    BY <1>1, <1>3, <2>1 DEF NoOrphanThread, HoldersRun, RetiringBegun, SettledExited, BornToEnd, CloseDrains
  <2>6. EndingWaits' /\ NewUnserved' /\ FailureAfterExit'
    BY <1>1, <1>3, <2>1 DEF EndingWaits, NewUnserved, FailureAfterExit, ThreadsTyped
  <2> QED BY <2>2, <2>3, <2>4, <2>5, <2>6
<1>5. CASE ~keep
  <2>1. /\ idle' = idle /\ timers' = timers \ {w} /\ phase' = [phase EXCEPT ![r] = "ending"]
        /\ workers' = workers \ {w} /\ retiring' = retiring \cup {w}
        /\ termination' = [x \in Threads |-> IF x = w THEN "begun" ELSE termination[x]]
    BY <1>1, <1>5 DEF FinishDone, Terminate, EndPhase
  <2>2. ThreadsTyped'
    BY <1>1, <1>3, <2>1 DEF ThreadsTyped, Verdicts
  <2>3. CapacityIsWork' /\ OnlyIdleIsTimed'
    BY <1>1, <1>3, <2>1 DEF ThreadsTyped, CapacityIsWork, OnlyIdleIsTimed, Busy, IdleSet
  <2>4. WaitersAreServed'
    BY <1>1, <1>2, <1>3, <2>1 DEF ThreadsTyped, WaitersAreServed, Busy
  <2>5. NoOrphanThread' /\ HoldersRun' /\ RetiringBegun' /\ SettledExited' /\ BornToEnd' /\ CloseDrains'
    BY <1>1, <1>3, <2>1 DEF NoOrphanThread, HoldersRun, RetiringBegun, SettledExited, BornToEnd,
                            CloseDrains, ThreadsTyped
  <2>6. EndingWaits' /\ NewUnserved' /\ FailureAfterExit'
    BY <1>1, <1>3, <2>1 DEF EndingWaits, NewUnserved, FailureAfterExit, ThreadsTyped
  <2> QED BY <2>2, <2>3, <2>4, <2>5, <2>6
<1> QED BY <1>4, <1>5

\* A thread that exits while it serves no request.
LEMMA ExitKeeps ==
  ASSUME PoolInvariant, NEW w \in Threads, Exit(w)
  PROVE  PoolInvariant'
<1> USE PoolNames DEF PoolInvariant
<1>0. /\ thread[w] = "running" /\ thread' = [thread EXCEPT ![w] = "exited"] /\ closing' = closing
      /\ posted' = [posted EXCEPT ![w] = Nil]
  BY DEF Exit
<1>1. CASE pending[w] # Nil
  <2>1. w \in workers
    BY <1>1 DEF CapacityIsWork, Busy
  <2>2. Stop({w}, "failed") /\ "failed" \in Verdicts
    BY <1>1 DEF Exit, Verdicts
  <2>3. posted' \in [Threads -> Requests \cup {Nil}]
    BY <1>0 DEF ThreadsTyped
  <2>4. /\ thread' \in [Threads -> {"unborn", "running", "exited"}]
        /\ \A x \in Threads : thread'[x] = thread[x] \/ (x \in {w} /\ thread[x] = "running" /\ thread'[x] = "exited")
    BY <1>0 DEF ThreadsTyped
  <2>5. closing' \in {"open", "draining", "closed"}
    BY <1>0 DEF ThreadsTyped
  <2> QED BY <1>0, <2>1, <2>2, <2>3, <2>4, <2>5, StopKeeps
<1>2. CASE pending[w] = Nil
  <2>1. /\ idle' = IF idle = w THEN Nil ELSE idle
        /\ timers' = timers \ {w} /\ workers' = workers \ {w}
        /\ UNCHANGED <<retiring, termination, uses, pending, phase, verdict, server>>
    BY <1>2 DEF Exit
  <2>2. ThreadsTyped'
    BY <1>0, <2>1 DEF ThreadsTyped
  <2>3. CapacityIsWork' /\ OnlyIdleIsTimed' /\ WaitersAreServed'
    BY <1>0, <1>2, <2>1 DEF ThreadsTyped, CapacityIsWork, OnlyIdleIsTimed, Busy, IdleSet, WaitersAreServed
  <2>4. NoOrphanThread' /\ HoldersRun' /\ RetiringBegun' /\ SettledExited' /\ BornToEnd' /\ CloseDrains'
    BY <1>0, <2>1 DEF NoOrphanThread, HoldersRun, RetiringBegun, SettledExited, BornToEnd,
                      CloseDrains, ThreadsTyped
  <2>5. EndingWaits' /\ NewUnserved' /\ FailureAfterExit'
    BY <1>0, <2>1 DEF EndingWaits, NewUnserved, FailureAfterExit, ThreadsTyped
  <2> QED BY <2>2, <2>3, <2>4, <2>5
<1> QED BY <1>1, <1>2

\* A termination that settles answers the requests that waited for it.
LEMMA TerminatedKeeps ==
  ASSUME PoolInvariant, NEW w \in Threads, Terminated(w)
  PROVE  PoolInvariant'
<1> USE PoolNames DEF PoolInvariant
<1>1. /\ termination[w] = "begun" /\ thread[w] = "exited"
      /\ termination' = [termination EXCEPT ![w] = "settled"] /\ retiring' = retiring \ {w}
      /\ phase' = [r \in Requests |-> IF phase[r] = "ending" /\ server[r] = w THEN "done" ELSE phase[r]]
      /\ UNCHANGED <<workers, idle, timers, uses, thread, pending, posted, verdict, server, closing>>
  BY DEF Terminated
<1>2. \A r \in Requests : phase'[r] = phase[r] \/ (phase[r] = "ending" /\ server[r] = w /\ phase'[r] = "done")
  BY <1>1
<1>3. ThreadsTyped'
  BY <1>1 DEF ThreadsTyped
<1>4. CapacityIsWork' /\ OnlyIdleIsTimed' /\ NoOrphanThread' /\ HoldersRun' /\ RetiringBegun'
      /\ SettledExited' /\ BornToEnd' /\ CloseDrains'
  BY <1>1 DEF ThreadsTyped, CapacityIsWork, OnlyIdleIsTimed, Busy, IdleSet, NoOrphanThread, HoldersRun,
              RetiringBegun, SettledExited, BornToEnd, CloseDrains
<1>5. WaitersAreServed'
  BY <1>1, <1>2 DEF WaitersAreServed, Busy, ThreadsTyped
<1>6. EndingWaits' /\ NewUnserved' /\ FailureAfterExit'
  BY <1>1, <1>2 DEF EndingWaits, NewUnserved, FailureAfterExit, ThreadsTyped
<1> QED BY <1>3, <1>4, <1>5, <1>6

\* Stopping one thread in an event that leaves the rest of the pool alone.
LEMMA StopOneKeeps ==
  ASSUME PoolInvariant, NEW w \in Threads, NEW how \in Verdicts,
         pending[w] # Nil \/ (thread[w] = "running" /\ termination[w] = "none"),
         Stop({w}, how), thread' = thread, closing' = closing,
         posted' \in [Threads -> Requests \cup {Nil}]
  PROVE  PoolInvariant'
<1> USE PoolNames DEF PoolInvariant
<1>1. termination[w] = "none" => w \in workers
  BY DEF CapacityIsWork, Busy, NoOrphanThread, RetiringBegun, ThreadsTyped
<1>2. closing' \in {"open", "draining", "closed"} /\ thread' \in [Threads -> {"unborn", "running", "exited"}]
  BY DEF ThreadsTyped
<1> QED BY <1>1, <1>2, StopKeeps

\* Replies, errors, exits and timers.
LEMMA EventKeeps ==
  ASSUME PoolInvariant, NEW w \in Threads, Event(w)
  PROVE  PoolInvariant'
<1> USE DEF PoolInvariant
<1>1. CASE Reply(w)
  <2>1. posted' \in [Threads -> Requests \cup {Nil}]
    BY <1>1 DEF Reply, ThreadsTyped
  <2>2. CASE pending[w] = posted[w]
    <3>1. pending[w] # Nil /\ thread[w] = "running" /\ thread' = thread /\ closing' = closing
      BY <1>1, <2>2 DEF Reply
    <3>2. CASE \E clean \in BOOLEAN : FinishDone(w, clean)
      BY <3>1, <3>2, <2>1, FinishDoneKeeps
    <3>3. CASE Stop({w}, "failed")
      <4>1. "failed" \in Verdicts
        BY DEF Verdicts
      <4> QED BY <3>1, <3>3, <4>1, <2>1, StopOneKeeps
    <3> QED BY <1>1, <2>2, <3>2, <3>3 DEF Reply
  <2>3. CASE pending[w] # posted[w]
    <3>1. UNCHANGED <<poolVars, pending, phase, verdict, server, closing>>
      BY <1>1, <2>3 DEF Reply
    <3>2. ThreadsTyped'
      BY <2>1, <3>1 DEF ThreadsTyped, poolVars
    <3> QED BY <3>1, <3>2 DEF poolVars, CapacityIsWork, Busy, IdleSet, NoOrphanThread,
       OnlyIdleIsTimed, WaitersAreServed, HoldersRun, RetiringBegun, SettledExited,
       BornToEnd, EndingWaits, NewUnserved, CloseDrains, FailureAfterExit
  <2> QED BY <2>2, <2>3
<1>2. CASE ErrorEvent(w) \/ Expire(w) \/ Abort(w)
  <2>1. PICK how \in Verdicts : Stop({w}, how)
    BY <1>2 DEF ErrorEvent, Expire, Abort, Verdicts
  <2>2. /\ pending[w] # Nil \/ (thread[w] = "running" /\ termination[w] = "none")
        /\ UNCHANGED <<thread, posted, closing>>
    BY <1>2 DEF ErrorEvent, Expire, Abort
  <2>3. posted' \in [Threads -> Requests \cup {Nil}]
    BY <2>2 DEF ThreadsTyped
  <2> QED BY <2>1, <2>2, <2>3, StopOneKeeps
<1>3. CASE Exit(w)
  BY <1>3, ExitKeeps
<1>4. CASE Terminated(w)
  BY <1>4, TerminatedKeeps
<1>5. CASE IdleTimer(w)
  <2>1. w = idle /\ pending[w] = Nil /\ thread[w] = "running" /\ termination[w] = "none"
    BY <1>5, PoolNames DEF IdleTimer, OnlyIdleIsTimed, CapacityIsWork, IdleSet, Busy, HoldersRun, ThreadsTyped
  <2>2. /\ pending = [x \in Threads |-> IF x \in {w} THEN Nil ELSE pending[x]]
        /\ verdict = [r \in Requests |-> IF r \in {} THEN "failed" ELSE verdict[r]]
        /\ phase = [r \in Requests |-> IF r \in {} THEN EndPhase(server[r]) ELSE phase[r]]
    BY <2>1 DEF ThreadsTyped
  <2>3. {pending[x] : x \in {w}} \ {Nil} = {}
    BY <2>1
  <2>4. Stop({w}, "failed") /\ UNCHANGED <<thread, posted, closing>>
    BY <1>5, <2>2, <2>3 DEF IdleTimer, Stop, requestVars
  <2>5. "failed" \in Verdicts /\ posted' \in [Threads -> Requests \cup {Nil}]
    BY <2>4 DEF Verdicts, ThreadsTyped
  <2> QED BY <2>1, <2>4, <2>5, StopOneKeeps
<1> QED BY <1>1, <1>2, <1>3, <1>4, <1>5 DEF Event

\* close, and its resolution.
LEMMA CloseKeeps ==
  ASSUME PoolInvariant, Close \/ CloseDone
  PROVE  PoolInvariant'
<1> USE DEF PoolInvariant
<1>1. CASE Close
  <2>1. /\ Stop(workers, "failed") /\ closing' = "draining" /\ UNCHANGED <<thread, posted>>
    BY <1>1 DEF Close
  <2>2. /\ workers \in SUBSET Threads /\ "failed" \in Verdicts
        /\ thread' \in [Threads -> {"unborn", "running", "exited"}]
        /\ posted' \in [Threads -> Requests \cup {Nil}]
    BY <2>1 DEF ThreadsTyped, Verdicts
  <2> QED BY <2>1, <2>2, StopKeeps
<1>2. CASE CloseDone
  <2>1. closing' = "closed" /\ closing = "draining" /\ retiring = {} /\ UNCHANGED <<poolVars, requestVars>>
    BY <1>2 DEF CloseDone
  <2>2. ThreadsTyped'
    BY <2>1 DEF ThreadsTyped, poolVars, requestVars
  <2> QED BY <2>1, <2>2 DEF poolVars, requestVars, CapacityIsWork, Busy, IdleSet, NoOrphanThread,
       OnlyIdleIsTimed, WaitersAreServed, HoldersRun, RetiringBegun, SettledExited,
       BornToEnd, EndingWaits, NewUnserved, CloseDrains, FailureAfterExit
<1> QED BY <1>1, <1>2

\* What close promises follows from the invariant: a waiting request holds
\* capacity, an ending one a retained termination, and both are gone.
LEMMA ClosedPool == PoolInvariant => ClosedMeansStopped
BY PoolNames DEF PoolInvariant, ClosedMeansStopped, CloseDrains, NoOrphanThread, WaitersAreServed,
   CapacityIsWork, Busy, EndingWaits, RetiringBegun, ThreadsTyped

\* The threads of the pool are accounted for in every reachable state.
THEOREM PoolSafe == Spec => []PoolInvariant
<1>1. Init => PoolInvariant
  BY PoolInit
<1>2. PoolInvariant /\ [Next]_vars => PoolInvariant'
  <2> SUFFICES ASSUME PoolInvariant, [Next]_vars PROVE PoolInvariant'
    OBVIOUS
  <2>1. CASE UNCHANGED vars
    BY <2>1, PoolStutter DEF vars, threadVars
  <2> QED BY <2>1, CheckKeeps, EventKeeps, CloseKeeps DEF Next
<1> QED BY <1>1, <1>2, PTL DEF Spec

\* Capacity is held by the threads at work and the warm one, and by no other.
THEOREM CapacityHolds == Spec => []CapacityIsWork
<1>1. PoolInvariant => CapacityIsWork
  BY DEF PoolInvariant
<1> QED BY <1>1, PoolSafe, PTL

\* No compiler thread runs without an owner that close will await.
THEOREM Ownership == Spec => []NoOrphanThread
<1>1. PoolInvariant => NoOrphanThread
  BY DEF PoolInvariant
<1> QED BY <1>1, PoolSafe, PTL

\* A waiting request is served by a thread of its own that is not terminating.
THEOREM Service == Spec => []WaitersAreServed
<1>1. PoolInvariant => WaitersAreServed
  BY DEF PoolInvariant
<1> QED BY <1>1, PoolSafe, PTL

\* A caller learns of a failure only after the failed thread has exited.
THEOREM FailuresSettle == Spec => []FailureAfterExit
<1>1. PoolInvariant => FailureAfterExit
  BY DEF PoolInvariant
<1> QED BY <1>1, PoolSafe, PTL

\* Compiler threads stay owned from spawn to exit, for any requests and limits.
THEOREM ThreadsStayOwned == Spec => []ThreadsOwned
BY CapacityHolds, Ownership, Service, FailuresSettle, PTL DEF ThreadsOwned

\* A resolved close leaves no running thread and no waiting caller.
THEOREM CloseComplete == Spec => []ClosedMeansStopped
<1> QED BY ClosedPool, PoolSafe, PTL

-----------------------------------------------------------------------------
(* The compilation cache: its running character count is the sum of what its  *)
(* entries take.  The sum is a recursive function over the positions of the   *)
(* cache, so its equations and the way it splits over a concatenation are     *)
(* proved first, by induction over sets of numbers.                           *)

\* CharsOf satisfies its recursive equation.
LEMMA CharsDefined ==
  ASSUME NEW keys \in Seq(Keys)
  PROVE  \E f \in [0..Len(keys) -> Nat] :
           /\ f[0] = 0 /\ \A n \in 1..Len(keys) : f[n] = f[n - 1] + Chars[keys[n]]
           /\ CharsOf(keys) = f[Len(keys)]
<1> DEFINE N == Len(keys)
           G == [p \in (1..N) \X Nat |-> p[2] + Chars[keys[p[1]]]]
           Body(f) == [n \in 0..N |-> IF n = 0 THEN 0 ELSE f[n - 1] + Chars[keys[n]]]
           upTo == CHOOSE f : f = Body(f)
<1>1. N \in Nat /\ \A n \in 1..N : Chars[keys[n]] \in Nat
  BY PoolKeys
<1>2. \A n \in 1..N, s \in Nat : G[<<n, s>>] = s + Chars[keys[n]] /\ G[<<n, s>>] \in Nat
  BY <1>1
<1>3. G \in [(1..N) \X Nat -> Nat]
  BY <1>1, <1>2
<1> HIDE DEF G
<1>4. PICK f : Follows(f, N, Nat, 0, G)
  BY <1>1, <1>3, RecursionExists
<1> USE <1>4 DEF Follows
<1>5. f = Body(f)
  <2>1. ASSUME NEW n \in 0..N PROVE f[n] = IF n = 0 THEN 0 ELSE f[n - 1] + Chars[keys[n]]
    <3>1. CASE n = 0
      BY <3>1, <1>4
    <3>2. CASE n # 0
      <4>0. n \in 1..N /\ n - 1 \in 0..N
        BY <1>1, <3>2
      <4>1. f[n - 1] \in Nat
        <5>1. f \in [0..N -> Nat]
          BY <1>4 DEF Follows
        <5> HIDE DEF N
        <5> QED BY <4>0, <5>1
      <4>2. f[n] = f[n - 1] + Chars[keys[n]]
        BY <4>0, <4>1, <1>2, <1>4
      <4> QED BY <4>2, <3>2
    <3> QED BY <3>1, <3>2
  <2>2. f = [n \in 0..N |-> f[n]]
    BY <1>4
  <2> QED BY <2>1, <2>2
<1>6. upTo = Body(upTo)
  <2> HIDE DEF Body
  <2> QED BY <1>5
<1>7. CharsOf(keys) = upTo[N]
  BY DEF CharsOf
<1> HIDE DEF upTo
<1>8. DOMAIN upTo = 0..N /\ upTo[0] = 0 /\ \A n \in 1..N : upTo[n] = upTo[n - 1] + Chars[keys[n]]
  <2>1. DOMAIN upTo = 0..N /\ \A n \in 0..N : upTo[n] = IF n = 0 THEN 0 ELSE upTo[n - 1] + Chars[keys[n]]
    BY <1>6
  <2>2. 0 \in 0..N /\ \A n \in 1..N : n \in 0..N /\ n # 0
    BY <1>1
  <2> QED BY ONLY <2>1, <2>2, Z3
<1>9. \A n \in Nat : n \in {m \in Nat : m <= N => upTo[m] \in Nat}
  <2> DEFINE S == {m \in Nat : m <= N => upTo[m] \in Nat}
  <2>1. 0 \in S
    BY <1>8
  <2>2. ASSUME NEW n \in Nat, n \in S PROVE n + 1 \in S
    <3>1. CASE n + 1 <= N
      <4>1. upTo[n] \in Nat /\ n + 1 \in 1..N /\ (n + 1) - 1 = n
        BY <2>2, <3>1, <1>1
      <4>2. upTo[n + 1] = upTo[n] + Chars[keys[n + 1]]
        BY <4>1, <1>8
      <4> QED BY <4>1, <4>2, <1>1
    <3> QED BY <3>1
  <2> HIDE DEF S
  <2>3. \A n \in Nat : n \in S
    BY <2>1, <2>2, NumbersInduction
  <2> QED BY <2>3 DEF S
<1>10. upTo \in [0..N -> Nat]
  <2>1. \A n \in 0..N : upTo[n] \in Nat
    BY <1>9, <1>1
  <2>2. upTo = [n \in 0..N |-> upTo[n]]
    BY <1>6
  <2> QED BY <2>1, <2>2
<1> QED BY <1>7, <1>8, <1>10

\* The characters of the sequences a sequence is joined from add up.
LEMMA CharsJoin ==
  ASSUME NEW s \in Seq(Keys), NEW t \in Seq(Keys)
  PROVE  CharsOf(s \o t) = CharsOf(s) + CharsOf(t) /\ CharsOf(s) \in Nat /\ CharsOf(t) \in Nat
<1> DEFINE N == Len(s)
           M == Len(t)
<1>1. /\ s \o t \in Seq(Keys) /\ N \in Nat /\ M \in Nat /\ Len(s \o t) = N + M
      /\ \A i \in 1..N : (s \o t)[i] = s[i]
      /\ \A i \in 1..M : (s \o t)[N + i] = t[i]
  BY ConcatProperties
<1>2. PICK f \in [0..(N + M) -> Nat] :
        /\ f[0] = 0 /\ \A n \in 1..(N + M) : f[n] = f[n - 1] + Chars[(s \o t)[n]]
        /\ CharsOf(s \o t) = f[N + M]
  BY <1>1, CharsDefined
<1>3. PICK g \in [0..N -> Nat] :
        g[0] = 0 /\ (\A n \in 1..N : g[n] = g[n - 1] + Chars[s[n]]) /\ CharsOf(s) = g[N]
  BY <1>1, CharsDefined
<1>4. PICK h \in [0..M -> Nat] :
        h[0] = 0 /\ (\A n \in 1..M : h[n] = h[n - 1] + Chars[t[n]]) /\ CharsOf(t) = h[M]
  BY <1>1, CharsDefined
<1> HIDE DEF N, M
<1>5. \A n \in Nat : n <= N => f[n] = g[n]
  <2> DEFINE S == {n \in Nat : n <= N => f[n] = g[n]}
  <2>1. 0 \in S
    BY <1>2, <1>3
  <2>2. ASSUME NEW n \in Nat, n \in S PROVE n + 1 \in S
    <3>1. SUFFICES ASSUME n + 1 <= N PROVE f[n + 1] = g[n + 1]
      OBVIOUS
    <3>2. n + 1 \in 1..N /\ n + 1 \in 1..(N + M) /\ (n + 1) - 1 = n /\ f[n] = g[n]
      BY <2>2, <3>1, <1>1
    <3>3. f[n + 1] = f[n] + Chars[(s \o t)[n + 1]] /\ g[n + 1] = g[n] + Chars[s[n + 1]]
      BY <3>2, <1>2, <1>3
    <3> QED BY <3>2, <3>3, <1>1
  <2> HIDE DEF S
  <2>3. \A n \in Nat : n \in S
    BY <2>1, <2>2, NumbersInduction
  <2> QED BY <2>3 DEF S
<1>6. \A n \in Nat : n <= M => f[N + n] = g[N] + h[n]
  <2> DEFINE S == {n \in Nat : n <= M => f[N + n] = g[N] + h[n]}
  <2>1. 0 \in S
    BY <1>1, <1>3, <1>4, <1>5
  <2>2. ASSUME NEW n \in Nat, n \in S PROVE n + 1 \in S
    <3>1. SUFFICES ASSUME n + 1 <= M PROVE f[N + (n + 1)] = g[N] + h[n + 1]
      OBVIOUS
    <3>9. n + 1 \in 1..M /\ N + (n + 1) \in 1..(N + M) /\ (n + 1) - 1 = n /\ (N + (n + 1)) - 1 = N + n /\ n <= M
      <4>1. N \in Nat /\ M \in Nat /\ n \in Nat /\ n + 1 <= M
        BY <3>1, <1>1
      <4> QED BY ONLY <4>1
    <3>2. /\ n + 1 \in 1..M /\ N + (n + 1) \in 1..(N + M) /\ (n + 1) - 1 = n /\ (N + (n + 1)) - 1 = N + n
          /\ f[N + n] = g[N] + h[n]
      <4>1. f[N + n] = g[N] + h[n]
        BY <2>2, <3>9
      <4> QED BY <4>1, <3>9
    <3>3. f[N + (n + 1)] = f[N + n] + Chars[(s \o t)[N + (n + 1)]] /\ h[n + 1] = h[n] + Chars[t[n + 1]]
      BY <3>2, <1>2, <1>4
    <3>4. Chars[t[n + 1]] \in Nat /\ g[N] \in Nat /\ h[n] \in Nat
      <4>1. t[n + 1] \in Keys
        BY <3>2, ElementOfSeq DEF M
      <4>2. N \in 0..N /\ n \in 0..M
        BY <3>2, <1>1
      <4> QED BY <4>1, <4>2, <1>3, <1>4, PoolKeys
    <3>5. (s \o t)[N + (n + 1)] = t[n + 1]
      BY <3>2, <1>1
    <3> QED BY <3>2, <3>3, <3>4, <3>5
  <2> HIDE DEF S
  <2>3. \A n \in Nat : n \in S
    BY <2>1, <2>2, NumbersInduction
  <2> QED BY <2>3 DEF S
<1> QED BY <1>1, <1>2, <1>3, <1>4, <1>6

LEMMA CharsOfOne ==
  ASSUME NEW k \in Keys
  PROVE  CharsOf(<<k>>) = Chars[k]
<1>1. <<k>> \in Seq(Keys) /\ Len(<<k>>) = 1 /\ <<k>>[1] = k
  OBVIOUS
<1>2. PICK f \in [0..1 -> Nat] :
        f[0] = 0 /\ (\A n \in 1..1 : f[n] = f[n - 1] + Chars[<<k>>[n]]) /\ CharsOf(<<k>>) = f[1]
  BY <1>1, CharsDefined
<1> QED BY <1>1, <1>2, PoolKeys

LEMMA CharsOfNone == CharsOf(<<>>) = 0
<1>1. <<>> \in Seq(Keys) /\ Len(<<>>) = 0
  OBVIOUS
<1>2. PICK f \in [0..0 -> Nat] : f[0] = 0 /\ CharsOf(<<>>) = f[0]
  BY <1>1, CharsDefined
<1> QED BY <1>2

\* No key occurs twice.
Distinct(keys) == \A i, j \in DOMAIN keys : keys[i] = keys[j] => i = j
Occurs(key, keys) == \E i \in DOMAIN keys : keys[i] = key

\* What is left of a sequence of distinct keys without one of them.
LEMMA WithoutOne ==
  ASSUME NEW s \in Seq(Keys), NEW key \in Keys, Distinct(s)
  PROVE  /\ Without(s, key) \in Seq(Keys) /\ Distinct(Without(s, key)) /\ ~Occurs(key, Without(s, key))
         /\ Occurs(key, s) => /\ Len(Without(s, key)) = Len(s) - 1
                              /\ CharsOf(s) = CharsOf(Without(s, key)) + Chars[key]
         /\ ~Occurs(key, s) => Without(s, key) = s
<1>1. CASE ~Occurs(key, s)
  BY <1>1 DEF Occurs, Without
<1>2. CASE Occurs(key, s)
  <2> DEFINE at == CHOOSE i \in DOMAIN s : s[i] = key
             a == SubSeq(s, 1, at - 1)
             b == SubSeq(s, at + 1, Len(s))
  <2>1. at \in 1..Len(s) /\ s[at] = key /\ Len(s) \in Nat /\ DOMAIN s = 1..Len(s)
    BY <1>2 DEF Occurs
  <2>2. Without(s, key) = a \o b
    BY <1>2 DEF Occurs, Without
  <2> HIDE DEF at
  <2>3. /\ a \in Seq(Keys) /\ Len(a) = at - 1 /\ \A i \in 1..(at - 1) : a[i] = s[i]
        /\ b \in Seq(Keys) /\ Len(b) = Len(s) - at /\ \A i \in 1..(Len(s) - at) : b[i] = s[at + i]
    <3>1. \A i \in 1..(at - 1) : s[i] \in Keys
      BY <2>1, ElementOfSeq
    <3>2. \A i \in (at + 1)..Len(s) : s[i] \in Keys
      BY <2>1, ElementOfSeq
    <3>3. a \in Seq(Keys) /\ Len(a) = (IF 1 <= at - 1 THEN (at - 1) - 1 + 1 ELSE 0) /\ \A i \in 1..((at - 1) - 1 + 1) : a[i] = s[1 + i - 1]
      BY <2>1, <3>1, SubSeqProperties
    <3>4. b \in Seq(Keys) /\ Len(b) = (IF at + 1 <= Len(s) THEN Len(s) - (at + 1) + 1 ELSE 0) /\ \A i \in 1..(Len(s) - (at + 1) + 1) : b[i] = s[(at + 1) + i - 1]
      BY <2>1, <3>2, SubSeqProperties
    <3> HIDE DEF a, b
    <3>5. Len(a) = at - 1 /\ Len(b) = Len(s) - at
      <4>1. at \in Nat /\ 1 <= at /\ at <= Len(s) /\ Len(s) \in Nat
        BY <2>1
      <4>2. Len(a) = IF 1 <= at - 1 THEN (at - 1) - 1 + 1 ELSE 0
        BY <3>3
      <4>3. Len(b) = IF at + 1 <= Len(s) THEN Len(s) - (at + 1) + 1 ELSE 0
        BY <3>4
      <4>4. Len(a) = at - 1
        BY <4>1, <4>2
      <4>5. Len(b) = Len(s) - at
        BY <4>1, <4>3
      <4> QED BY <4>4, <4>5
    <3>6. ASSUME NEW i \in 1..(at - 1) PROVE a[i] = s[i]
      <4>1. i \in 1..((at - 1) - 1 + 1) /\ 1 + i - 1 = i
        BY <2>1
      <4> QED BY <4>1, <3>3
    <3>7. ASSUME NEW i \in 1..(Len(s) - at) PROVE b[i] = s[at + i]
      <4>1. i \in 1..(Len(s) - (at + 1) + 1) /\ (at + 1) + i - 1 = at + i
        BY <2>1
      <4> QED BY <4>1, <3>4
    <3> QED BY <3>3, <3>4, <3>5, <3>6, <3>7
  <2>4. /\ <<key>> \in Seq(Keys) /\ Len(<<key>>) = 1 /\ <<key>>[1] = key
    OBVIOUS
  <2> HIDE DEF a, b
  <2>5. /\ a \o b \in Seq(Keys) /\ Len(a \o b) = Len(s) - 1
        /\ \A i \in 1..(Len(s) - 1) : (a \o b)[i] = IF i <= at - 1 THEN a[i] ELSE b[i - (at - 1)]
    <3>1. /\ a \o b \in Seq(Keys) /\ Len(a \o b) = Len(a) + Len(b)
          /\ \A i \in 1..(Len(a) + Len(b)) : (a \o b)[i] = IF i <= Len(a) THEN a[i] ELSE b[i - Len(a)]
      BY <2>3, ConcatProperties
    <3>2. Len(a) = at - 1 /\ Len(a) + Len(b) = Len(s) - 1
      BY <2>1, <2>3
    <3> QED BY <3>1, <3>2
  <2>6. \A i \in 1..(Len(s) - 1) : (a \o b)[i] = IF i < at THEN s[i] ELSE s[i + 1]
    <3>1. SUFFICES ASSUME NEW i \in 1..(Len(s) - 1) PROVE (a \o b)[i] = IF i < at THEN s[i] ELSE s[i + 1]
      OBVIOUS
    <3>2. CASE i < at
      BY <3>2, <2>1, <2>3, <2>5
    <3>3. CASE ~(i < at)
      <4>1. i - (at - 1) \in 1..(Len(s) - at) /\ at + (i - (at - 1)) = i + 1 /\ ~(i <= at - 1)
        BY <3>3, <2>1
      <4> QED BY <3>3, <4>1, <2>3, <2>5
    <3> QED BY <3>2, <3>3
  <2>7. DOMAIN (a \o b) = 1..(Len(s) - 1)
    BY <2>5, LenProperties
  <2>8. Distinct(a \o b) /\ ~Occurs(key, a \o b)
    <3> HIDE DEF a, b
    <3>1. \A i \in 1..(Len(s) - 1) : \E k \in 1..Len(s) : /\ k = (IF i < at THEN i ELSE i + 1) /\ k # at /\ (a \o b)[i] = s[k]
      <4> SUFFICES ASSUME NEW i \in 1..(Len(s) - 1)
                   PROVE  \E k \in 1..Len(s) : k = (IF i < at THEN i ELSE i + 1) /\ k # at /\ (a \o b)[i] = s[k]
        OBVIOUS
      <4>1. CASE i < at
        <5>1. i \in 1..Len(s) /\ i # at /\ (a \o b)[i] = s[i]
          <6>1. i \in 1..Len(s) /\ i # at
            BY <4>1, <2>1
          <6>2. (a \o b)[i] = s[i]
            BY <4>1, <2>6
          <6> QED BY <6>1, <6>2
        <5> QED BY <4>1, <5>1
      <4>2. CASE ~(i < at)
        <5>1. i + 1 \in 1..Len(s) /\ i + 1 # at /\ (a \o b)[i] = s[i + 1]
          <6>1. i + 1 \in 1..Len(s) /\ i + 1 # at
            BY <4>2, <2>1
          <6>2. (a \o b)[i] = s[i + 1]
            BY <4>2, <2>6
          <6> QED BY <6>1, <6>2
        <5> QED BY <4>2, <5>1
      <4> QED BY <4>1, <4>2
    <3>2. \A i, j \in 1..Len(s) : s[i] = s[j] => i = j
      BY <2>1 DEF Distinct
    <3>3. ~Occurs(key, a \o b)
      BY <3>1, <3>2, <2>1, <2>7 DEF Occurs
    <3>4. ASSUME NEW i \in 1..(Len(s) - 1), NEW j \in 1..(Len(s) - 1), (a \o b)[i] = (a \o b)[j] PROVE i = j
      <4>1. PICK k \in 1..Len(s) : k = (IF i < at THEN i ELSE i + 1) /\ (a \o b)[i] = s[k]
        BY <3>1
      <4>2. PICK m \in 1..Len(s) : m = (IF j < at THEN j ELSE j + 1) /\ (a \o b)[j] = s[m]
        BY <3>1
      <4>3. k = m
        BY <3>2, <3>4, <4>1, <4>2
      <4> QED BY <4>1, <4>2, <4>3, <2>1
    <3> QED BY <3>3, <3>4, <2>7 DEF Distinct
  <2>9. s = a \o (<<key>> \o b)
    <3>1. SubSeq(s, 1, at - 1) \o SubSeq(s, (at - 1) + 1, Len(s)) = SubSeq(s, 1, Len(s))
      <4>1. 1 \in 1..(Len(s) + 1) /\ at - 1 \in (1 - 1)..Len(s) /\ Len(s) \in (at - 1)..Len(s)
        BY <2>1
      <4> QED BY <4>1, ConcatAdjacentSubSeq
    <3>2. SubSeq(s, 1, Len(s)) = s
      BY SubSeqFull
    <3>3. SubSeq(s, at, Len(s)) = <<s[at]>> \o SubSeq(s, at + 1, Len(s))
      <4>1. at \in 1..Len(s) /\ Len(s) \in at..Len(s)
        BY <2>1
      <4> QED BY <4>1, SubSeqRecursiveFirst
    <3>4. (at - 1) + 1 = at
      BY <2>1
    <3> QED BY <3>1, <3>2, <3>3, <3>4, <2>1 DEF a, b
  <2>10. CharsOf(s) = CharsOf(a \o b) + Chars[key]
    <3>1. <<key>> \o b \in Seq(Keys)
      BY <2>3, <2>4, ConcatProperties
    <3>2. CharsOf(a \o (<<key>> \o b)) = CharsOf(a) + CharsOf(<<key>> \o b)
      BY <3>1, <2>3, CharsJoin
    <3>3. CharsOf(<<key>> \o b) = CharsOf(<<key>>) + CharsOf(b)
      BY <2>3, <2>4, CharsJoin
    <3>4. CharsOf(a \o b) = CharsOf(a) + CharsOf(b) /\ CharsOf(a) \in Nat /\ CharsOf(b) \in Nat
      BY <2>3, CharsJoin
    <3>5. CharsOf(<<key>>) = Chars[key] /\ Chars[key] \in Nat
      BY CharsOfOne, PoolKeys
    <3>6. CharsOf(s) = CharsOf(a) + CharsOf(<<key>> \o b)
      BY <2>9, <3>2
    <3> QED BY <3>3, <3>4, <3>5, <3>6
  <2> QED BY <1>2, <2>2, <2>5, <2>8, <2>10
<1> QED BY <1>1, <1>2

\* What CacheAccounted needs to be inductive: its types.
CacheInvariant == cache \in Seq(Keys) /\ cachedChars \in Nat /\ CacheAccounted

\* The eviction loop ends, with both bounds met and the count still true.
LEMMA EvictKeeps ==
  ASSUME NEW keys \in Seq(Keys), Distinct(keys), keys # <<>>,
         Chars[keys[Len(keys)]] <= MaxChars,
         Evict(keys, CharsOf(keys))
  PROVE  CacheInvariant'
<1> DEFINE N == Len(keys)
           Kept(n) == SubSeq(keys, n + 1, N)
           Count(n) == CharsOf(keys) - CharsOf(SubSeq(keys, 1, n))
           Fits(n) == Len(Kept(n)) <= MaxEntries /\ Count(n) <= MaxChars
           Fewest == CHOOSE n \in 0..N : Fits(n) /\ \A m \in 0..(n - 1) : ~Fits(m)
<1>1. N \in Nat \ {0} /\ \A i \in 1..N : keys[i] \in Keys
  BY EmptySeq, ElementOfSeq
<1>2. ASSUME NEW n \in 0..N
      PROVE  /\ Kept(n) \in Seq(Keys) /\ Len(Kept(n)) = N - n /\ \A i \in 1..(N - n) : Kept(n)[i] = keys[n + i]
             /\ Count(n) = CharsOf(Kept(n)) /\ Count(n) \in Nat
  <2>1. /\ SubSeq(keys, n + 1, N) \in Seq(Keys)
        /\ Len(SubSeq(keys, n + 1, N)) = IF n + 1 <= N THEN N - (n + 1) + 1 ELSE 0
        /\ \A i \in 1..(N - (n + 1) + 1) : SubSeq(keys, n + 1, N)[i] = keys[(n + 1) + i - 1]
    <3>1. n + 1 \in Int /\ N \in Int /\ \A i \in (n + 1)..N : keys[i] \in Keys
      BY <1>1
    <3> HIDE DEF N
    <3> QED BY SMTT(40), <3>1, SubSeqProperties
  <2>2. SubSeq(keys, 1, n) \in Seq(Keys)
    <3>1. 1 \in Int /\ n \in Int /\ \A i \in 1..n : keys[i] \in Keys
      BY <1>1
    <3> QED BY <3>1, SubSeqProperties
  <2>3. SubSeq(keys, 1, n) \o SubSeq(keys, n + 1, N) = SubSeq(keys, 1, N)
    <3>1. 1 \in 1..(Len(keys) + 1) /\ n \in (1 - 1)..Len(keys) /\ N \in n..Len(keys)
      BY <1>1
    <3> QED BY <3>1, ConcatAdjacentSubSeq
  <2>4. SubSeq(keys, 1, N) = keys
    BY SMTT(40), SubSeqFull
  <2>5. /\ CharsOf(keys) = CharsOf(SubSeq(keys, 1, n)) + CharsOf(Kept(n))
        /\ CharsOf(SubSeq(keys, 1, n)) \in Nat /\ CharsOf(Kept(n)) \in Nat
    BY ZenonT(60), <2>1, <2>2, <2>3, <2>4, CharsJoin
  <2>6. ASSUME NEW i \in 1..(N - n) PROVE Kept(n)[i] = keys[n + i]
    <3>1. i \in 1..(N - (n + 1) + 1) /\ (n + 1) + i - 1 = n + i
      BY <1>1
    <3> QED BY <2>1, <3>1
  <2>7. Len(Kept(n)) = N - n
    BY <2>1, <1>1
  <2> QED BY <2>1, <2>5, <2>6, <2>7
<1>3. cache' = Kept(Fewest) /\ cachedChars' = Count(Fewest)
  BY DEF Evict
<1> HIDE DEF Kept, Count, N
<1>4. Fits(N - 1) /\ N - 1 \in 0..N
  <2>1. N - 1 \in 0..N /\ N - (N - 1) = 1
    BY <1>1
  <2>2. Kept(N - 1) \in Seq(Keys) /\ Len(Kept(N - 1)) = 1 /\ Kept(N - 1)[1] = keys[N]
    <3>1. 1 \in 1..(N - (N - 1)) /\ (N - 1) + 1 = N
      BY <1>1
    <3> QED BY <2>1, <3>1, <1>2
  <2>3. Kept(N - 1) = <<keys[N]>>
    BY <2>2
  <2>4. CharsOf(Kept(N - 1)) = Chars[keys[N]]
    BY <2>3, <1>1, CharsOfOne
  <2>5. Count(N - 1) = CharsOf(Kept(N - 1))
    BY <2>1, <1>2
  <2>6. Chars[keys[N]] <= MaxChars
    BY DEF N
  <2>7. 1 <= MaxEntries
    BY PoolBounds
  <2> QED BY <2>1, <2>2, <2>4, <2>5, <2>6, <2>7
<1>5. Fewest \in 0..N /\ Fits(Fewest)
  <2> DEFINE S == {n \in 0..N : Fits(n)}
  <2>1. S \in SUBSET Nat /\ S # {}
    BY <1>1, <1>4
  <2>2. PICK n \in S : \A m \in S : n <= m
    BY <2>1, LeastNumber
  <2>3. n \in 0..N /\ Fits(n) /\ \A m \in 0..(n - 1) : ~Fits(m)
    BY <2>2, <1>1
  <2> HIDE DEF Fits, S
  <2> QED BY <2>3
<1>6. /\ cache' \in Seq(Keys) /\ cachedChars' \in Nat /\ cachedChars' = CharsOf(cache')
      /\ cachedChars' <= MaxChars /\ Len(cache') <= MaxEntries
  BY <1>2, <1>3, <1>5
<1>7. \A i, j \in DOMAIN cache' : cache'[i] = cache'[j] => i = j
  <2> HIDE DEF Fits
  <2>1. PICK n \in 0..N : cache' = Kept(n)
    BY <1>3, <1>5
  <2>2. DOMAIN cache' = 1..(N - n) /\ DOMAIN keys = 1..N
    BY <2>1, <1>2, LenProperties DEF N
  <2>3. ASSUME NEW i \in 1..(N - n), NEW j \in 1..(N - n), cache'[i] = cache'[j] PROVE i = j
    <3>1. keys[n + i] = keys[n + j]
      BY <2>1, <2>3, <1>2
    <3>2. n + i \in 1..N /\ n + j \in 1..N
      BY <1>1
    <3>3. n + i = n + j
      BY <3>1, <3>2, <2>2 DEF Distinct
    <3> QED BY <3>3
  <2> QED BY <2>2, <2>3
<1> QED BY <1>6, <1>7 DEF CacheInvariant, CacheAccounted

\* A key that is put at the end of a sequence without it.
LEMMA PutLast ==
  ASSUME NEW s \in Seq(Keys), NEW key \in Keys, Distinct(s), ~Occurs(key, s)
  PROVE  /\ Append(s, key) \in Seq(Keys) /\ Append(s, key) # <<>> /\ Len(Append(s, key)) = Len(s) + 1
         /\ Append(s, key)[Len(Append(s, key))] = key
         /\ Distinct(Append(s, key))
         /\ CharsOf(Append(s, key)) = CharsOf(s) + Chars[key]
<1>1. /\ Append(s, key) \in Seq(Keys) /\ Append(s, key) # <<>> /\ Len(Append(s, key)) = Len(s) + 1
      /\ \A i \in 1..Len(s) : Append(s, key)[i] = s[i]
      /\ Append(s, key)[Len(s) + 1] = key
  BY AppendProperties
<1>2. Len(s) \in Nat /\ DOMAIN s = 1..Len(s) /\ DOMAIN Append(s, key) = 1..(Len(s) + 1)
  BY <1>1, LenProperties
<1>3. ASSUME NEW i \in 1..(Len(s) + 1), NEW j \in 1..(Len(s) + 1), Append(s, key)[i] = Append(s, key)[j] PROVE i = j
  <2>1. CASE i = Len(s) + 1 /\ j # Len(s) + 1
    BY <2>1, <1>1, <1>2, <1>3 DEF Occurs
  <2>2. CASE j = Len(s) + 1 /\ i # Len(s) + 1
    BY <2>2, <1>1, <1>2, <1>3 DEF Occurs
  <2>3. CASE i # Len(s) + 1 /\ j # Len(s) + 1
    <3>1. i \in 1..Len(s) /\ j \in 1..Len(s)
      BY <2>3, <1>2
    <3> QED BY <3>1, <1>1, <1>2, <1>3 DEF Distinct
  <2> QED BY <2>1, <2>2, <2>3
<1>4. CharsOf(Append(s, key)) = CharsOf(s) + Chars[key]
  <2>1. Append(s, key) = s \o <<key>> /\ <<key>> \in Seq(Keys)
    BY AppendIsConcat
  <2> QED BY <2>1, CharsJoin, CharsOfOne
<1> QED BY <1>1, <1>2, <1>3, <1>4 DEF Distinct

\* Remembering a compilation.
LEMMA RememberKeeps ==
  ASSUME CacheInvariant, NEW key \in Keys \cup {Nil}, Remember(key)
  PROVE  CacheInvariant'
<1>1. cache \in Seq(Keys) /\ Distinct(cache) /\ cachedChars = CharsOf(cache) /\ cachedChars \in Nat
  BY DEF CacheInvariant, CacheAccounted, Distinct
<1>2. CASE key = Nil \/ Chars[key] > MaxChars
  BY <1>2 DEF Remember, cacheVars, CacheInvariant, CacheAccounted
<1>3. CASE ~(key = Nil \/ Chars[key] > MaxChars)
  <2> DEFINE left == Without(cache, key)
             keys == Append(left, key)
  <2>1. key \in Keys /\ Chars[key] \in Nat /\ Chars[key] <= MaxChars
    BY <1>3, PoolKeys, PoolBounds
  <2>2. /\ left \in Seq(Keys) /\ Distinct(left) /\ ~Occurs(key, left)
        /\ Occurs(key, cache) => CharsOf(cache) = CharsOf(left) + Chars[key]
        /\ ~Occurs(key, cache) => left = cache
    BY <2>1, <1>1, WithoutOne
  <2> HIDE DEF left
  <2>3. /\ keys \in Seq(Keys) /\ keys # <<>> /\ keys[Len(keys)] = key /\ Distinct(keys)
        /\ CharsOf(keys) = CharsOf(left) + Chars[key]
    BY <2>1, <2>2, PutLast
  <2>4. CharsOf(left) \in Nat
    BY <2>2, CharsJoin
  <2>5. (IF Cached(key) THEN cachedChars - Chars[key] ELSE cachedChars) + Chars[key] = CharsOf(keys)
    BY <2>1, <2>2, <2>3, <2>4, <1>1 DEF Cached, Occurs
  <2>6. Evict(keys, CharsOf(keys))
    BY <1>3, <2>5 DEF Remember, left
  <2> HIDE DEF keys
  <2> QED BY <2>1, <2>3, <2>6, EvictKeeps
<1> QED BY <1>2, <1>3

\* A hit only renews its entry.
LEMMA HitKeeps ==
  ASSUME CacheInvariant, NEW r \in Requests, Hit(r)
  PROVE  CacheInvariant'
<1> DEFINE key == KeyOf[r]
           left == Without(cache, key)
<1>1. cache \in Seq(Keys) /\ Distinct(cache) /\ cachedChars = CharsOf(cache) /\ cachedChars \in Nat
  BY DEF CacheInvariant, CacheAccounted, Distinct
<1>2. key \in Keys /\ Occurs(key, cache) /\ cache' = Append(left, key) /\ cachedChars' = cachedChars
  BY PoolKeys DEF Hit, Cached, Occurs
<1>3. /\ left \in Seq(Keys) /\ Distinct(left) /\ ~Occurs(key, left) /\ Len(left) = Len(cache) - 1
      /\ CharsOf(cache) = CharsOf(left) + Chars[key]
  BY <1>1, <1>2, WithoutOne
<1> HIDE DEF key, left
<1>4. /\ cache' \in Seq(Keys) /\ Distinct(cache') /\ Len(cache') = Len(left) + 1
      /\ CharsOf(cache') = CharsOf(left) + Chars[key]
  BY <1>2, <1>3, PutLast
<1>5. Len(cache') = Len(cache)
  BY <1>1, <1>3, <1>4
<1>6. cachedChars <= MaxChars /\ Len(cache) <= MaxEntries
  BY DEF CacheInvariant, CacheAccounted
<1> QED BY <1>1, <1>2, <1>3, <1>4, <1>5, <1>6 DEF CacheInvariant, CacheAccounted, Distinct

\* Every step of the pool keeps the cache's accounts: only a hit, a finished
\* compilation and close touch the cache.
LEMMA CacheStep ==
  ASSUME PoolInvariant, CacheInvariant, Next
  PROVE  CacheInvariant'
<1>1. ASSUME UNCHANGED cacheVars PROVE CacheInvariant'
  BY <1>1 DEF cacheVars, CacheInvariant, CacheAccounted
<1>2. ASSUME NEW r \in Requests, Check(r) PROVE CacheInvariant'
  <2>1. CASE Hit(r)
    BY <2>1, HitKeeps
  <2>2. CASE ~Hit(r)
    <3>1. UNCHANGED cacheVars
      BY <1>2, <2>2 DEF Check, Refuse, LimitReached, CheckWarm, CheckCold
    <3> QED BY <3>1, <1>1
  <2> QED BY <2>1, <2>2
<1>3. ASSUME NEW w \in Threads, Event(w) PROVE CacheInvariant'
  <2>1. CASE \E clean \in BOOLEAN :
               thread[w] = "running" /\ posted[w] # Nil /\ pending[w] = posted[w] /\ FinishDone(w, clean)
    <3>1. pending[w] \in Requests
      BY <2>1 DEF PoolInvariant, ThreadsTyped
    <3>2. KeyOf[pending[w]] \in Keys \cup {Nil}
      BY <3>1, PoolKeys
    <3>3. Remember(KeyOf[pending[w]]) \/ UNCHANGED cacheVars
      BY <2>1 DEF FinishDone
    <3> QED BY <3>2, <3>3, <1>1, RememberKeeps
  <2>2. CASE ~(\E clean \in BOOLEAN :
                 thread[w] = "running" /\ posted[w] # Nil /\ pending[w] = posted[w] /\ FinishDone(w, clean))
    <3>1. UNCHANGED cacheVars
      BY <1>3, <2>2 DEF Event, Reply, ErrorEvent, Exit, Terminated, IdleTimer, Expire, Abort
    <3> QED BY <3>1, <1>1
  <2> QED BY <2>1, <2>2
<1>4. CASE Close
  BY <1>4, CharsOfNone, PoolBounds DEF Close, CacheInvariant, CacheAccounted
<1>5. CASE CloseDone
  BY <1>5, <1>1 DEF CloseDone
<1> QED BY <1>2, <1>3, <1>4, <1>5 DEF Next

\* The cache's running character count is the true sum of its entries, its
\* entries are distinct and both bounds hold, for any keys, sizes and bounds.
THEOREM CacheIsAccounted == Spec => []CacheAccounted
<1>1. Init => CacheInvariant
  BY CharsOfNone, PoolBounds DEF Init, CacheInvariant, CacheAccounted
<1>2. PoolInvariant /\ CacheInvariant /\ [Next]_vars => CacheInvariant'
  <2>1. UNCHANGED vars /\ CacheInvariant => CacheInvariant'
    BY DEF vars, cacheVars, CacheInvariant, CacheAccounted
  <2> QED BY <2>1, CacheStep
<1>3. CacheInvariant => CacheAccounted
  BY DEF CacheInvariant
<1> QED BY <1>1, <1>2, <1>3, PoolSafe, PTL DEF Spec

-----------------------------------------------------------------------------
(* The service: its admission and that of its pool agree, and shutdown drains *)
(* before it closes.                                                          *)


Stages == {"none", "admitted", "compiling", "running", "settling", "returned"}
Shutdowns == {"open", "called", "draining", "runtime", "registry", "done"}

ServiceTyped ==
  /\ stage \in [Requests -> Stages]
  /\ cancelled \subseteq Requests /\ revoked \in BOOLEAN
  /\ awaited \subseteq Requests /\ shutdown \in Shutdowns

\* An execution that has not compiled has made no request, and only one that
\* compiles has a request in the pool.
CompileStages ==
  \A r \in Requests : /\ stage[r] \in {"none", "admitted"} => phase[r] = "new"
                      /\ phase[r] \in {"waiting", "ending"} => stage[r] = "compiling"

Admission == Cardinality(Active) <= MaxWorkers

\* From the abort on nothing is admitted, so what close awaits covers what is
\* active; the runtime closes after the pool and the last execution.
DrainOrder ==
  /\ shutdown # "open" => revoked
  /\ shutdown \notin {"open", "called"} => Active \subseteq awaited
  /\ shutdown \in {"runtime", "registry", "done"} => Active = {} /\ closing = "closed"

ServiceInvariant == /\ PoolInvariant /\ ServiceTyped /\ CompileStages /\ Admission
                    /\ AdmittedIsServed /\ DrainOrder

\* What the pool's own steps do to the requests the service sees.
PoolShape ==
  \A q \in Requests : /\ phase[q] = "new" => phase'[q] = "new"
                      /\ phase'[q] \in {"waiting", "ending"} => phase[q] \in {"waiting", "ending"}
                      /\ verdict'[q] = "limit" => verdict[q] = "limit"

\* Finishing and terminating threads settles requests that waited, never with
\* the limit error.
LEMMA StopShape ==
  ASSUME PoolInvariant, NEW S \in SUBSET Threads, NEW how, how # "limit", Stop(S, how)
  PROVE  PoolShape
<1> USE PoolNames DEF PoolInvariant
<1> DEFINE ended == {pending[w] : w \in S} \ {Nil}
<1>1. /\ verdict' = [r \in Requests |-> IF r \in ended THEN how ELSE verdict[r]]
      /\ phase' = [r \in Requests |-> IF r \in ended THEN EndPhase(server[r]) ELSE phase[r]]
  BY DEF Stop
<1>2. \A r \in ended : r \in Requests /\ phase[r] = "waiting"
  BY DEF ThreadsTyped, WaitersAreServed, Busy
<1> QED BY <1>1, <1>2 DEF PoolShape, EndPhase

\* The same of a result, and of every event of a thread.
LEMMA EventShape ==
  ASSUME PoolInvariant, NEW w \in Threads, Event(w)
  PROVE  PoolShape
<1> USE PoolNames DEF PoolInvariant
<1>1. CASE \E how \in Verdicts \ {"limit"} : Stop({w}, how)
  BY <1>1, StopShape
<1>2. CASE /\ pending[w] # Nil /\ \E clean \in BOOLEAN : FinishDone(w, clean)
  <2>1. pending[w] \in Requests /\ phase[pending[w]] = "waiting"
    BY <1>2 DEF ThreadsTyped, WaitersAreServed, Busy
  <2>2. /\ \E how \in {"miss", "bypass"} : verdict' = [verdict EXCEPT ![pending[w]] = how]
        /\ \E to \in {"done", "ending"} : phase' = [phase EXCEPT ![pending[w]] = to]
    BY <1>2 DEF FinishDone, EndPhase
  <2> QED BY <2>1, <2>2 DEF PoolShape, ThreadsTyped
<1>3. CASE UNCHANGED <<phase, verdict>>
  BY <1>3 DEF PoolShape
<1>4. CASE Terminated(w)
  BY <1>4 DEF Terminated, PoolShape
<1>5. Reply(w) => \/ UNCHANGED <<phase, verdict>>
                  \/ Stop({w}, "failed")
                  \/ pending[w] # Nil /\ \E clean \in BOOLEAN : FinishDone(w, clean)
  BY DEF Reply
<1>6. ErrorEvent(w) \/ Expire(w) \/ Abort(w) => \E how \in Verdicts \ {"limit"} : Stop({w}, how)
  BY DEF ErrorEvent, Expire, Abort, Verdicts
<1>7. Exit(w) => Stop({w}, "failed") \/ UNCHANGED <<phase, verdict>>
  BY DEF Exit
<1>8. IdleTimer(w) => UNCHANGED <<phase, verdict>>
  BY DEF IdleTimer, requestVars
<1>9. "failed" \in Verdicts \ {"limit"}
  BY DEF Verdicts
<1> QED BY <1>1, <1>2, <1>3, <1>4, <1>5, <1>6, <1>7, <1>8, <1>9 DEF Event

\* Aborting the signals of waiting compilations keeps the pool's invariant.
LEMMA AbortKeeps ==
  ASSUME PoolInvariant, NEW S \in SUBSET Requests, AbortCompilations(S),
         UNCHANGED <<thread, posted, closing>>
  PROVE  PoolInvariant' /\ PoolShape
<1> DEFINE T == {w \in Threads : pending[w] \in S}
<1>1. T \in SUBSET Threads /\ Stop(T, "aborted") /\ "aborted" \in Verdicts
  BY DEF AbortCompilations, Verdicts
<1>2. \A w \in T : w \in workers
  BY PoolNames DEF PoolInvariant, CapacityIsWork, Busy
<1>3. /\ thread' \in [Threads -> {"unborn", "running", "exited"}]
      /\ posted' \in [Threads -> Requests \cup {Nil}] /\ closing' \in {"open", "draining", "closed"}
  BY DEF PoolInvariant, ThreadsTyped
<1>4. PoolInvariant'
  BY <1>1, <1>2, <1>3, StopKeeps
<1>5. PoolShape
  BY <1>1, StopShape
<1> QED BY <1>4, <1>5

\* The heart of admission: an admitted execution that asks for a compiler finds
\* the limit not reached.  With no warm thread every worker serves a request of
\* another active execution, and those are fewer than the limit.
LEMMA NeverLimited ==
  ASSUME ServiceInvariant, NEW r \in Requests, stage[r] = "admitted"
  PROVE  ~LimitReached(r)
<1> SUFFICES ASSUME LimitReached(r) PROVE FALSE
  OBVIOUS
<1> USE PoolNames, PoolBounds, ServiceRequests DEF ServiceInvariant, PoolInvariant
<1> DEFINE Others == Active \ {r}
           f == [w \in workers |-> pending[w]]
<1>1. idle = Nil /\ workers = Busy /\ Cardinality(workers) >= MaxWorkers
  BY DEF LimitReached, Warm, CapacityIsWork, IdleSet
<1>2. Active \in SUBSET Requests /\ IsFiniteSet(Active) /\ r \in Active
  BY FS_Subset DEF Active
<1>3. IsFiniteSet(Others) /\ Cardinality(Others) = Cardinality(Active) - 1
  BY <1>2, FS_RemoveElement
<1>4. Cardinality(Active) \in Nat /\ Cardinality(Others) \in Nat
  BY <1>2, <1>3, FS_CardinalityType
<1>5. \A w \in workers : pending[w] \in Others /\ server[pending[w]] = w
  BY <1>1 DEF Busy, WaitersAreServed, ThreadsTyped, CompileStages, Active
<1>6. f \in [workers -> Others]
  BY <1>5
<1>7. \A x, y \in workers : f[x] = f[y] => x = y
  BY <1>5
<1>8. f \in Injection(workers, Others)
  BY <1>6, <1>7 DEF Injection, IsInjective
<1>9. Cardinality(workers) <= Cardinality(Others) /\ IsFiniteSet(workers)
  BY <1>3, <1>8, FS_Injection
<1>10. Cardinality(workers) \in Nat
  BY <1>9, FS_CardinalityType
<1> QED BY <1>1, <1>3, <1>4, <1>9, <1>10 DEF Admission

\* A step that admits nothing keeps the admission count.
LEMMA Rebuild ==
  ASSUME ServiceInvariant, PoolInvariant', ServiceTyped', CompileStages', AdmittedIsServed',
         DrainOrder', Active' \subseteq Active
  PROVE  ServiceInvariant'
<1>1. Active \in SUBSET Requests /\ IsFiniteSet(Active)
  BY FS_Subset, ServiceRequests DEF Active
<1>2. IsFiniteSet(Active') /\ Cardinality(Active') <= Cardinality(Active)
  BY <1>1, FS_Subset
<1>3. Cardinality(Active) \in Nat /\ Cardinality(Active') \in Nat
  BY <1>1, <1>2, FS_CardinalityType
<1>4. Cardinality(Active') <= MaxWorkers
  BY <1>2, <1>3, PoolBounds DEF ServiceInvariant, Admission
<1> QED BY <1>4 DEF ServiceInvariant, Admission

\* What check does to the requests: only its own moves, and it reports the
\* limit only where the limit is reached.
LEMMA CheckShape ==
  ASSUME PoolInvariant, NEW r \in Requests, Check(r)
  PROVE  /\ \A q \in Requests : q # r => phase'[q] = phase[q] /\ verdict'[q] = verdict[q]
         /\ verdict'[r] = "limit" => verdict[r] = "limit" \/ LimitReached(r)
         /\ closing' = closing
<1> USE DEF PoolInvariant, ThreadsTyped
<1>1. CASE Refuse(r) \/ Hit(r) \/ LimitReached(r)
  BY <1>1 DEF Refuse, Hit, LimitReached, Answer
<1>2. CASE \E sent \in BOOLEAN : CheckWarm(r, sent)
  BY <1>2 DEF CheckWarm, Serve
<1>3. CASE \E sent \in BOOLEAN : \E w \in Threads : CheckCold(r, w, sent)
  BY <1>3 DEF CheckCold, Serve
<1> QED BY <1>1, <1>2, <1>3 DEF Check

\* The steps of one execution.
LEMMA StepKeeps ==
  ASSUME ServiceInvariant, NEW r \in Requests, Step(r)
  PROVE  ServiceInvariant'
<1> USE DEF ServiceInvariant
<1>1. CASE Execute(r)
  <2>1. /\ stage[r] = "none" /\ stage' = [stage EXCEPT ![r] = "admitted"] /\ ~revoked
        /\ ~(Cardinality(Active) >= MaxWorkers)
        /\ UNCHANGED <<cancelled, revoked, awaited, shutdown, vars>>
    BY <1>1 DEF Execute, Unavailable
  <2>2. PoolInvariant'
    BY <2>1, PoolStutter DEF vars, threadVars
  <2>3. Active' = Active \cup {r} /\ r \notin Active
    BY <2>1 DEF Active, ServiceTyped
  <2>4. IsFiniteSet(Active)
    BY FS_Subset, ServiceRequests DEF Active
  <2>5. Cardinality(Active') = Cardinality(Active) + 1
    BY <2>3, <2>4, FS_AddElement
  <2>6. Admission'
    BY <2>1, <2>4, <2>5, FS_CardinalityType, PoolBounds DEF Admission
  <2>7. ServiceTyped'
    BY <2>1 DEF ServiceTyped, Stages
  <2>8. CompileStages' /\ AdmittedIsServed'
    BY <2>1 DEF CompileStages, AdmittedIsServed, ServiceTyped, vars, requestVars
  <2>9. DrainOrder'
    BY <2>1 DEF DrainOrder, ServiceTyped, Shutdowns
  <2> QED BY <2>2, <2>6, <2>7, <2>8, <2>9
<1>2. CASE Start(r)
  <2>1. /\ stage[r] = "admitted" /\ Check(r) /\ stage' = [stage EXCEPT ![r] = "compiling"]
        /\ UNCHANGED <<cancelled, revoked, awaited, shutdown>>
    BY <1>2 DEF Start
  <2>2. PoolInvariant'
    BY <2>1, CheckKeeps
  <2>3. /\ \A q \in Requests : q # r => phase'[q] = phase[q] /\ verdict'[q] = verdict[q]
        /\ verdict'[r] # "limit" /\ closing' = closing
    BY <2>1, CheckShape, NeverLimited DEF AdmittedIsServed
  <2>4. Active' = Active
    BY <2>1 DEF Active, ServiceTyped
  <2>5. ServiceTyped'
    BY <2>1 DEF ServiceTyped, Stages
  <2>6. CompileStages' /\ AdmittedIsServed'
    BY <2>1, <2>3 DEF CompileStages, AdmittedIsServed, ServiceTyped
  <2>7. DrainOrder'
    BY <2>1, <2>3, <2>4 DEF DrainOrder
  <2> QED BY <2>2, <2>4, <2>5, <2>6, <2>7, Rebuild
<1>3. CASE ExecuteRefused(r) \/ StartOversized(r) \/ Compiled(r) \/ SandboxEnds(r) \/ Finish(r)
  <2>1. /\ \/ stage[r] \in {"none", "admitted", "settling"} /\ stage' = [stage EXCEPT ![r] = "returned"]
           \/ stage[r] = "running" /\ stage' = [stage EXCEPT ![r] = "settling"]
           \/ stage[r] = "compiling" /\ phase[r] = "done" /\ stage' = [stage EXCEPT ![r] = "returned"]
           \/ stage[r] = "compiling" /\ phase[r] = "done" /\ stage' = [stage EXCEPT ![r] = "running"]
        /\ UNCHANGED <<cancelled, revoked, awaited, shutdown, vars>>
    BY <1>3 DEF ExecuteRefused, StartOversized, Compiled, SandboxEnds, Finish, Return
  <2>2. PoolInvariant'
    BY <2>1, PoolStutter DEF vars, threadVars
  <2>3. Active' \subseteq Active
    BY <2>1 DEF Active, ServiceTyped
  <2>4. ServiceTyped'
    BY <2>1 DEF ServiceTyped, Stages
  <2>5. CompileStages' /\ AdmittedIsServed'
    BY <2>1 DEF CompileStages, AdmittedIsServed, ServiceTyped, vars, requestVars
  <2>6. DrainOrder'
    BY <2>1, <2>3 DEF DrainOrder, vars
  <2> QED BY <2>2, <2>3, <2>4, <2>5, <2>6, Rebuild
<1>4. CASE CallerAborts(r)
  <2>1. /\ cancelled' = cancelled \cup {r} /\ AbortCompilations({r})
        /\ UNCHANGED <<stage, revoked, awaited, shutdown, thread, posted, closing>>
    BY <1>4 DEF CallerAborts
  <2>2. PoolInvariant' /\ PoolShape
    BY <2>1, AbortKeeps
  <2>3. ServiceTyped' /\ DrainOrder' /\ Active' = Active
    BY <2>1 DEF ServiceTyped, DrainOrder, Active
  <2>4. CompileStages' /\ AdmittedIsServed'
    BY <2>1, <2>2 DEF CompileStages, AdmittedIsServed, PoolShape
  <2> QED BY <2>2, <2>3, <2>4, Rebuild
<1> QED BY <1>1, <1>2, <1>3, <1>4 DEF Step

\* The steps of close, and of the pool.
LEMMA CloseStepKeeps ==
  ASSUME ServiceInvariant,
         ServiceClose \/ Drain \/ CloseRuntime \/ CloseRegistry \/ ShutdownDone \/ PoolEvent
  PROVE  ServiceInvariant'
<1> USE DEF ServiceInvariant
<1>1. CASE ServiceClose
  <2>1. /\ shutdown' = "called" /\ revoked' = TRUE /\ AbortCompilations(Requests)
        /\ UNCHANGED <<stage, cancelled, awaited, thread, posted, closing>>
    BY <1>1 DEF ServiceClose
  <2>2. PoolInvariant' /\ PoolShape
    BY <2>1, AbortKeeps
  <2>3. ServiceTyped' /\ DrainOrder' /\ Active' = Active
    BY <2>1 DEF ServiceTyped, DrainOrder, Active, Shutdowns
  <2>4. CompileStages' /\ AdmittedIsServed'
    BY <2>1, <2>2 DEF CompileStages, AdmittedIsServed, PoolShape
  <2> QED BY <2>2, <2>3, <2>4, Rebuild
<1>2. CASE Drain
  <2>1. /\ shutdown = "called" /\ shutdown' = "draining" /\ awaited' = Active /\ Close
        /\ UNCHANGED <<stage, cancelled, revoked>>
    BY <1>2 DEF Drain
  <2>2. PoolInvariant'
    BY <2>1, CloseKeeps
  <2>3. PoolShape
    <3>1. workers \in SUBSET Threads /\ Stop(workers, "failed")
      BY <2>1 DEF Close, PoolInvariant, ThreadsTyped
    <3> QED BY <3>1, StopShape
  <2>4. ServiceTyped' /\ DrainOrder' /\ Active' = Active
    BY <2>1 DEF ServiceTyped, DrainOrder, Active, Shutdowns
  <2>5. CompileStages' /\ AdmittedIsServed'
    BY <2>1, <2>3 DEF CompileStages, AdmittedIsServed, PoolShape
  <2> QED BY <2>2, <2>4, <2>5, Rebuild
<1>3. CASE CloseRuntime \/ CloseRegistry \/ ShutdownDone
  <2>1. /\ \/ shutdown = "draining" /\ shutdown' = "runtime" /\ Drained
           \/ shutdown = "runtime" /\ shutdown' = "registry"
           \/ shutdown = "registry" /\ shutdown' = "done"
        /\ UNCHANGED <<stage, cancelled, revoked, awaited, vars>>
    BY <1>3 DEF CloseRuntime, CloseRegistry, ShutdownDone, Advance
  <2>2. PoolInvariant'
    BY <2>1, PoolStutter DEF vars, threadVars
  <2>3. ServiceTyped' /\ Active' = Active
    BY <2>1 DEF ServiceTyped, Active, Shutdowns
  <2>4. DrainOrder'
    BY <2>1, <2>3 DEF DrainOrder, Drained, vars
  <2>5. CompileStages' /\ AdmittedIsServed'
    BY <2>1 DEF CompileStages, AdmittedIsServed, vars, requestVars
  <2> QED BY <2>2, <2>3, <2>4, <2>5, Rebuild
<1>4. CASE PoolEvent
  <2>1. UNCHANGED <<stage, cancelled, revoked, awaited, shutdown>>
    BY <1>4 DEF PoolEvent, serviceVars
  <2>2. /\ PoolInvariant' /\ PoolShape
        /\ closing' = closing \/ (closing = "draining" /\ closing' = "closed")
    <3>1. CASE CloseDone
      BY <3>1, CloseKeeps DEF CloseDone, PoolShape, requestVars
    <3>2. CASE \E w \in Threads : Event(w)
      <4>1. PICK w \in Threads : Event(w)
        BY <3>2
      <4>2. closing' = closing
        BY <4>1 DEF Event, Reply, ErrorEvent, Exit, Terminated, IdleTimer, Expire, Abort
      <4> QED BY <4>1, <4>2, EventKeeps, EventShape
    <3> QED BY <1>4, <3>1, <3>2 DEF PoolEvent, Event
  <2>3. ServiceTyped' /\ Active' = Active
    BY <2>1 DEF ServiceTyped, Active
  <2>4. DrainOrder'
    BY <2>1, <2>2, <2>3 DEF DrainOrder
  <2>5. CompileStages' /\ AdmittedIsServed'
    BY <2>1, <2>2 DEF CompileStages, AdmittedIsServed, PoolShape
  <2> QED BY <2>2, <2>3, <2>4, <2>5, Rebuild
<1> QED BY <1>1, <1>2, <1>3, <1>4

\* Admission, service and shutdown order hold in every reachable state.
THEOREM ServiceSafe == ServiceSpec => []ServiceInvariant
<1>1. ServiceInit => ServiceInvariant
  <2> SUFFICES ASSUME ServiceInit PROVE ServiceInvariant
    OBVIOUS
  <2>1. PoolInvariant
    BY PoolInit DEF ServiceInit
  <2>2. Active = {}
    BY DEF ServiceInit, Active
  <2>3. Admission
    BY <2>2, FS_EmptySet, PoolBounds DEF Admission
  <2>4. ServiceTyped /\ CompileStages /\ AdmittedIsServed /\ DrainOrder
    BY <2>2 DEF ServiceInit, Init, ServiceTyped, CompileStages, AdmittedIsServed, DrainOrder,
                Stages, Shutdowns
  <2> QED BY <2>1, <2>3, <2>4 DEF ServiceInvariant
<1>2. ServiceInvariant /\ [ServiceNext]_allVars => ServiceInvariant'
  <2> SUFFICES ASSUME ServiceInvariant, [ServiceNext]_allVars PROVE ServiceInvariant'
    OBVIOUS
  <2>1. CASE UNCHANGED allVars
    <3>1. UNCHANGED <<vars, stage, cancelled, revoked, awaited, shutdown>>
      BY <2>1 DEF allVars, serviceVars
    <3>2. PoolInvariant'
      BY <3>1, PoolStutter DEF vars, threadVars, ServiceInvariant
    <3>3. ServiceTyped' /\ CompileStages' /\ AdmittedIsServed' /\ DrainOrder' /\ Active' = Active
      BY <3>1 DEF vars, requestVars, ServiceInvariant, ServiceTyped, CompileStages,
                  AdmittedIsServed, DrainOrder, Active
    <3> QED BY <3>2, <3>3, Rebuild
  <2> QED BY <2>1, StepKeeps, CloseStepKeeps DEF ServiceNext
<1> QED BY <1>1, <1>2, PTL DEF ServiceSpec

\* The compiler pool never refuses an execution the service admitted.
THEOREM NeverRefused == ServiceSpec => []AdmittedIsServed
<1>1. ServiceInvariant => AdmittedIsServed
  BY DEF ServiceInvariant
<1> QED BY <1>1, ServiceSafe, PTL

\* No execution outlives the drain that precedes the runtime's close.
THEOREM DrainComplete == ServiceSpec => []NothingOutlivesDrain
<1>1. ServiceInvariant => NothingOutlivesDrain
  BY DEF ServiceInvariant, DrainOrder, NothingOutlivesDrain
<1> QED BY <1>1, ServiceSafe, PTL

\* The service and its pool agree on who may enter, for any limits.
THEOREM AdmissionAgrees == ServiceSpec => []ServiceKept
BY NeverRefused, DrainComplete, PTL DEF ServiceKept

\* A service that has closed runs no compiler thread.
THEOREM ServiceStops == ServiceSpec => []ServiceClosedStops
<1>1. ServiceInvariant => ServiceClosedStops
  BY ClosedPool DEF ServiceInvariant, DrainOrder, ServiceClosedStops, ClosedMeansStopped
<1> QED BY <1>1, ServiceSafe, PTL

-----------------------------------------------------------------------------
-----------------------------------------------------------------------------
(* The action registry: capacity is counted in units, each held by one index. *)

IndexRecord == [state : {"unused", "queued", "listing", "built", "failing", "ready", "failed"},
                before : Nat, content : Nat, attempt : Nat, users : Nat, raw : Nat, kept : Nat]
Discoveries == [index : [Indexes -> IndexRecord], current : [Providers -> 0 .. MaxIndexes], queue : Seq(Indexes)]
Height(d, i) == d.index[i].raw + d.index[i].kept

LEMMA IndexesFinite == IsFiniteSet(Indexes)
<1>1. MaxIndexes \in Int /\ 1 \in Int /\ IsFiniteSet(Providers)
  BY RegistryAssumption
<1>2. IsFiniteSet(1 .. MaxIndexes)
  BY <1>1, FS_Interval
<1> QED BY <1>1, <1>2, FS_Product DEF Indexes

\* What is known of a discovery record of the right type.
LEMMA DiscoveryTyped ==
  ASSUME NEW d \in Discoveries
  PROVE  /\ d.index \in [Indexes -> IndexRecord] /\ d.current \in [Providers -> 0 .. MaxIndexes] /\ d.queue \in Seq(Indexes)
         /\ \A i \in Indexes : /\ d.index[i] \in IndexRecord /\ d.index[i].raw \in Nat /\ d.index[i].kept \in Nat
                               /\ d.index[i].users \in Nat /\ Height(d, i) \in Nat
         /\ \A p \in Providers : d.current[p] \in Nat
<1>1. d.index \in [Indexes -> IndexRecord] /\ d.current \in [Providers -> 0 .. MaxIndexes] /\ d.queue \in Seq(Indexes)
  BY DEF Discoveries
<1>2. ASSUME NEW i \in Indexes PROVE d.index[i] \in IndexRecord
  BY <1>1
<1>3. ASSUME NEW i \in Indexes PROVE d.index[i].raw \in Nat /\ d.index[i].kept \in Nat /\ d.index[i].users \in Nat
  BY <1>2 DEF IndexRecord
<1>4. ASSUME NEW i \in Indexes PROVE Height(d, i) \in Nat
  BY <1>3 DEF Height
<1>5. \A p \in Providers : d.current[p] \in Nat
  BY <1>1, RegistryAssumption
<1> QED BY <1>1, <1>2, <1>3, <1>4, <1>5

LEMMA UnitsAre ==
  ASSUME NEW d \in Discoveries
  PROVE  /\ \A u : u \in UnitsOf(d) <=> u \in Indexes \X Nat /\ 1 <= u[2] /\ u[2] <= Height(d, u[1])
         /\ IsFiniteSet(UnitsOf(d)) /\ Used(d) \in Nat
<1> DEFINE Of(i) == {i} \X (1 .. d.index[i].raw + d.index[i].kept)
           Parts == {Of(i) : i \in Indexes}
<1>1. UnitsOf(d) = UNION Parts
  BY DEF UnitsOf
<1>2. \A i \in Indexes : Height(d, i) \in Nat /\ Of(i) = {i} \X (1 .. Height(d, i))
  BY DiscoveryTyped DEF Height
<1> HIDE DEF Of
<1>3. ASSUME NEW i \in Indexes PROVE IsFiniteSet(Of(i))
  <2>1. 1 \in Int /\ Height(d, i) \in Int
    BY <1>2
  <2>2. IsFiniteSet(1 .. Height(d, i)) /\ IsFiniteSet({i})
    BY <2>1, FS_Interval, FS_Singleton
  <2> QED BY <1>2, <2>2, FS_Product
<1>4. IsFiniteSet(Parts)
  <2> DEFINE f == [i \in Indexes |-> Of(i)]
  <2>1. f \in Surjection(Indexes, Parts)
    BY DEF Surjection
  <2> QED BY <2>1, IndexesFinite, FS_Surjection
<1>5. IsFiniteSet(UNION Parts)
  BY <1>3, <1>4, FS_UNION
<1>6. ASSUME NEW u PROVE u \in UNION Parts <=> u \in Indexes \X Nat /\ 1 <= u[2] /\ u[2] <= Height(d, u[1])
  <2>1. u \in UNION Parts <=> \E i \in Indexes : u \in Of(i)
    OBVIOUS
  <2>2. ASSUME NEW i \in Indexes, u \in Of(i) PROVE u \in Indexes \X Nat /\ 1 <= u[2] /\ u[2] <= Height(d, u[1])
    BY <1>2, <2>2
  <2>3. ASSUME u \in Indexes \X Nat, 1 <= u[2], u[2] <= Height(d, u[1]) PROVE u[1] \in Indexes /\ u \in Of(u[1])
    <3>1. PICK i \in Indexes, n \in Nat : u = <<i, n>>
      BY <2>3
    <3>2. u[1] = i /\ u[2] = n
      BY <3>1
    <3>3. n \in 1 .. Height(d, i)
      BY <2>3, <3>2, <1>2
    <3> QED BY <3>1, <3>2, <3>3, <1>2
  <2> QED BY <2>1, <2>2, <2>3
<1>7. Used(d) \in Nat
  BY <1>1, <1>5, FS_CardinalityType DEF Used
<1> QED BY <1>1, <1>5, <1>6, <1>7

\* When no index holds more, no more units are held.
LEMMA UnitsShrink ==
  ASSUME NEW d \in Discoveries, NEW e \in Discoveries, \A i \in Indexes : Height(e, i) <= Height(d, i)
  PROVE  Used(e) <= Used(d)
<1>1. ASSUME NEW u \in UnitsOf(e) PROVE u \in UnitsOf(d)
  <2>1. u \in Indexes \X Nat /\ 1 <= u[2] /\ u[2] <= Height(e, u[1])
    BY UnitsAre
  <2>2. u[1] \in Indexes /\ u[2] \in Nat
    BY <2>1
  <2>3. Height(e, u[1]) \in Nat /\ Height(d, u[1]) \in Nat /\ Height(e, u[1]) <= Height(d, u[1])
    BY <2>2, DiscoveryTyped
  <2>4. u[2] <= Height(d, u[1])
    BY <2>1, <2>2, <2>3
  <2> QED BY <2>1, <2>4, UnitsAre
<1> QED BY <1>1, UnitsAre, FS_Subset DEF Used

\* When one index holds n more and no other more, at most n more units are held.
LEMMA UnitsGrow ==
  ASSUME NEW d \in Discoveries, NEW e \in Discoveries, NEW j \in Indexes, NEW n \in Nat,
         \A i \in Indexes : i # j => Height(e, i) <= Height(d, i), Height(e, j) <= Height(d, j) + n
  PROVE  Used(e) <= Used(d) + n
<1> DEFINE h == Height(d, j)
           New == {j} \X (h + 1 .. h + n)
<1>1. h \in Nat /\ Height(e, j) \in Nat
  BY DiscoveryTyped
<1>2. IsFiniteSet(New) /\ Cardinality(New) = n
  <2>1. IsFiniteSet(h + 1 .. h + n) /\ Cardinality(h + 1 .. h + n) = n
    <3>1. h + 1 \in Int /\ h + n \in Int /\ (h + 1 > h + n => n = 0) /\ (h + n) - (h + 1) + 1 = n
      BY <1>1
    <3> QED BY <3>1, FS_Interval
  <2>2. IsFiniteSet({j}) /\ Cardinality({j}) = 1
    BY FS_Singleton
  <2>3. \A S, T : IsFiniteSet(S) /\ IsFiniteSet(T) =>
                   IsFiniteSet(S \X T) /\ Cardinality(S \X T) = Cardinality(S) * Cardinality(T)
    BY FS_Product
  <2>4. IsFiniteSet(New) /\ Cardinality(New) = Cardinality({j}) * Cardinality(h + 1 .. h + n)
    BY ONLY <2>1, <2>2, <2>3, Zenon
  <2> QED BY <2>1, <2>2, <2>4
<1>3. ASSUME NEW u \in UnitsOf(e) PROVE u \in UnitsOf(d) \cup New
  <2>1. u \in Indexes \X Nat /\ 1 <= u[2] /\ u[2] <= Height(e, u[1])
    BY UnitsAre
  <2>2. u[1] \in Indexes /\ u[2] \in Nat /\ u = <<u[1], u[2]>>
    BY <2>1
  <2>3. Height(e, u[1]) \in Nat /\ Height(d, u[1]) \in Nat
    BY <2>2, DiscoveryTyped
  <2>4. u[2] <= Height(d, u[1]) \/ (u[1] = j /\ u[2] \in h + 1 .. h + n)
    BY <2>1, <2>2, <2>3, <1>1
  <2>5. CASE u[2] <= Height(d, u[1])
    BY <2>1, <2>5, UnitsAre
  <2>6. CASE u[1] = j /\ u[2] \in h + 1 .. h + n
    BY <2>2, <2>6
  <2> QED BY <2>4, <2>5, <2>6
<1> HIDE DEF New, h
<1>4. IsFiniteSet(UnitsOf(d)) /\ Used(d) \in Nat /\ IsFiniteSet(UnitsOf(e)) /\ Used(e) \in Nat
  BY UnitsAre
<1>5. /\ IsFiniteSet(UnitsOf(d) \cup New)
      /\ Cardinality(UnitsOf(d) \cup New) = Cardinality(UnitsOf(d)) + Cardinality(New) - Cardinality(UnitsOf(d) \cap New)
  BY <1>2, <1>4, FS_Union
<1>6. Cardinality(UnitsOf(d) \cap New) \in Nat
  BY <1>4, FS_Intersection, FS_CardinalityType
<1>7. Cardinality(UnitsOf(d) \cup New) <= Used(d) + n
  BY <1>2, <1>4, <1>5, <1>6 DEF Used
<1>8. Used(e) <= Cardinality(UnitsOf(d) \cup New)
  BY <1>3, <1>5, FS_Subset DEF Used
<1>9. Cardinality(UnitsOf(d) \cup New) \in Nat
  BY <1>5, FS_CardinalityType
<1> QED BY <1>4, <1>7, <1>8, <1>9

\* What holds of the discovery record whatever the queries do: a record holds
\* what its state says; nothing that is over, unused and out of the map holds
\* anything; the capacity is not exceeded; the queue holds each index once.
UnitsMatch(d) == \A i \in Indexes : LET x == d.index[i] IN
  /\ x.state \in {"unused", "queued"} => x.raw = 0 /\ x.kept = 0
  /\ x.state = "listing" => IndexUnits <= x.raw /\ x.kept = 0
  /\ x.state \in {"ready", "failed"} => x.raw = 0
NothingLeaks(d) ==
  \A i \in Indexes : d.index[i].kept > 0 => Pending(d.index[i]) \/ d.index[i].users > 0 \/ IsCurrent(d, i)
CapacityHeld(d) == Used(d) <= Capacity /\ Cardinality(ActiveIndexes(d)) <= RawSlots
QueueSound(d) ==
  /\ \A k \in 1 .. Len(d.queue) : d.index[d.queue[k]].state = "queued"
  /\ \A k, l \in 1 .. Len(d.queue) : d.queue[k] = d.queue[l] => k = l

\* A step of the registry's own: producers move on and idle indexes leave the
\* map, nothing else.
MovesOn(d, e) ==
  /\ \A i \in Indexes :
       /\ e.index[i].users = d.index[i].users /\ e.index[i].before = d.index[i].before
       /\ e.index[i].content = d.index[i].content
       /\ \/ e.index[i].state = d.index[i].state
          \/ d.index[i].state = "queued" /\ e.index[i].state \in {"listing", "failing"}
  /\ \A p \in Providers : \/ e.current[p] = d.current[p]
                          \/ e.current[p] = 0 /\ ~Pending(d.index[<<p, d.current[p]>>])

LEMMA MovesOnTwice ==
  ASSUME NEW d \in Discoveries, NEW e \in Discoveries, NEW f \in Discoveries, MovesOn(d, e), MovesOn(e, f)
  PROVE  MovesOn(d, f)
<1>1. ASSUME NEW i \in Indexes
      PROVE  /\ f.index[i].users = d.index[i].users /\ f.index[i].before = d.index[i].before
             /\ f.index[i].content = d.index[i].content
             /\ \/ f.index[i].state = d.index[i].state
                \/ d.index[i].state = "queued" /\ f.index[i].state \in {"listing", "failing"}
             /\ Pending(e.index[i]) <=> Pending(d.index[i])
  BY DEF MovesOn, Pending
<1>2. ASSUME NEW p \in Providers
      PROVE  f.current[p] = d.current[p] \/ (f.current[p] = 0 /\ ~Pending(d.index[<<p, d.current[p]>>]))
  <2>1. e.current[p] = d.current[p] \/ (e.current[p] = 0 /\ ~Pending(d.index[<<p, d.current[p]>>]))
    BY DEF MovesOn
  <2>2. f.current[p] = e.current[p] \/ (f.current[p] = 0 /\ ~Pending(e.index[<<p, e.current[p]>>]))
    BY DEF MovesOn
  <2>3. CASE f.current[p] = e.current[p]
    BY <2>1, <2>3
  <2>4. CASE f.current[p] # e.current[p] /\ e.current[p] = d.current[p]
    <3>1. e.current[p] # 0 /\ e.current[p] \in 0 .. MaxIndexes
      BY <2>2, <2>4, DiscoveryTyped
    <3>2. <<p, d.current[p]>> \in Indexes
      BY <3>1, <2>4, RegistryAssumption DEF Indexes
    <3> QED BY <3>2, <1>1, <2>2, <2>4
  <2>5. CASE f.current[p] # e.current[p] /\ e.current[p] # d.current[p]
    BY <2>1, <2>2, <2>5
  <2> QED BY <2>3, <2>4, <2>5
<1> QED BY <1>1, <1>2 DEF MovesOn

\* What deleting indexes from the map changes.
LEMMA WithoutIs ==
  ASSUME NEW d \in Discoveries, NEW S \in SUBSET Indexes, NEW e, e = WithoutQuery(d, S)
  PROVE  /\ e \in Discoveries /\ e.queue = d.queue
         /\ \A i \in Indexes :
              /\ e.index[i].state = d.index[i].state /\ e.index[i].users = d.index[i].users
              /\ e.index[i].before = d.index[i].before /\ e.index[i].content = d.index[i].content
              /\ e.index[i].raw = d.index[i].raw
              /\ e.index[i].kept = IF i \in S THEN 0 ELSE d.index[i].kept
         /\ \A p \in Providers : e.current[p] = IF <<p, d.current[p]>> \in S THEN 0 ELSE d.current[p]
<1>1. d = [index |-> d.index, current |-> d.current, queue |-> d.queue]
  BY DEF Discoveries
<1> DEFINE X == [i \in Indexes |-> IF i \in S THEN [d.index[i] EXCEPT !.kept = 0] ELSE d.index[i]]
           C == [p \in Providers |-> IF <<p, d.current[p]>> \in S THEN 0 ELSE d.current[p]]
<1>2. e = [index |-> X, current |-> C, queue |-> d.queue]
  BY <1>1 DEF WithoutQuery
<1>3. X \in [Indexes -> IndexRecord]
  <2>1. ASSUME NEW i \in Indexes PROVE [d.index[i] EXCEPT !.kept = 0] \in IndexRecord /\ d.index[i] \in IndexRecord
    <3>1. d.index[i] \in IndexRecord
      BY DiscoveryTyped
    <3>2. PICK x : x = d.index[i] /\ x \in IndexRecord
      BY <3>1
    <3>3. [x EXCEPT !.kept = 0] \in IndexRecord
      BY <3>2 DEF IndexRecord
    <3> QED BY <3>2, <3>3
  <2> QED BY <2>1
<1>4. C \in [Providers -> 0 .. MaxIndexes]
  BY DiscoveryTyped, RegistryAssumption
<1>5. e \in Discoveries
  <2> HIDE DEF X, C
  <2> QED BY <1>2, <1>3, <1>4, DiscoveryTyped DEF Discoveries
<1>6. ASSUME NEW i \in Indexes
      PROVE  /\ e.index[i].state = d.index[i].state /\ e.index[i].users = d.index[i].users
             /\ e.index[i].before = d.index[i].before /\ e.index[i].content = d.index[i].content
             /\ e.index[i].raw = d.index[i].raw
             /\ e.index[i].kept = IF i \in S THEN 0 ELSE d.index[i].kept
  <2>1. e.index[i] = IF i \in S THEN [d.index[i] EXCEPT !.kept = 0] ELSE d.index[i]
    BY <1>2
  <2>2. d.index[i] \in IndexRecord
    BY DiscoveryTyped
  <2> QED BY <2>1, <2>2 DEF IndexRecord
<1>7. \A p \in Providers : e.current[p] = IF <<p, d.current[p]>> \in S THEN 0 ELSE d.current[p]
  BY <1>2
<1> QED BY <1>2, <1>5, <1>6, <1>7

\* Deleting indexes that no producer is at work on keeps everything.
LEMMA DroppingKeeps ==
  ASSUME NEW d \in Discoveries, NEW S \in SUBSET Indexes, \A i \in S : ~Pending(d.index[i]),
         NEW e, e = WithoutQuery(d, S)
  PROVE  /\ e \in Discoveries /\ MovesOn(d, e) /\ e.queue = d.queue
         /\ Used(e) <= Used(d) /\ ActiveIndexes(e) = ActiveIndexes(d)
         /\ CapacityHeld(d) => CapacityHeld(e)
         /\ UnitsMatch(d) => UnitsMatch(e)
         /\ NothingLeaks(d) => NothingLeaks(e)
         /\ QueueSound(d) => QueueSound(e)
<1>1. /\ e \in Discoveries /\ e.queue = d.queue
      /\ \A i \in Indexes :
           /\ e.index[i].state = d.index[i].state /\ e.index[i].users = d.index[i].users
           /\ e.index[i].before = d.index[i].before /\ e.index[i].content = d.index[i].content
           /\ e.index[i].raw = d.index[i].raw
           /\ e.index[i].kept = IF i \in S THEN 0 ELSE d.index[i].kept
      /\ \A p \in Providers : e.current[p] = IF <<p, d.current[p]>> \in S THEN 0 ELSE d.current[p]
  BY WithoutIs
<1>2. MovesOn(d, e)
  BY <1>1 DEF MovesOn
<1>3. Used(e) <= Used(d)
  <2>1. \A i \in Indexes : Height(e, i) <= Height(d, i)
    BY <1>1, DiscoveryTyped DEF Height
  <2> QED BY <2>1, <1>1, UnitsShrink
<1>4. ActiveIndexes(e) = ActiveIndexes(d)
  BY <1>1 DEF ActiveIndexes
<1>5. CapacityHeld(d) => CapacityHeld(e)
  <2>1. Used(e) \in Nat /\ Used(d) \in Nat /\ Capacity \in Nat
    BY <1>1, UnitsAre, RegistryAssumption
  <2> QED BY <2>1, <1>3, <1>4 DEF CapacityHeld
<1>6. UnitsMatch(d) => UnitsMatch(e)
  BY <1>1 DEF UnitsMatch
<1>7. ASSUME NothingLeaks(d) PROVE NothingLeaks(e)
  <2>1. SUFFICES ASSUME NEW i \in Indexes, e.index[i].kept > 0
                 PROVE  Pending(e.index[i]) \/ e.index[i].users > 0 \/ IsCurrent(e, i)
    BY DEF NothingLeaks
  <2>2. i \notin S /\ d.index[i].kept > 0
    BY <1>1, <2>1
  <2>3. Pending(d.index[i]) \/ d.index[i].users > 0 \/ IsCurrent(d, i)
    BY <1>7, <2>2 DEF NothingLeaks
  <2>4. i[1] \in Providers /\ i = <<i[1], i[2]>>
    BY DEF Indexes
  <2>5. IsCurrent(d, i) => IsCurrent(e, i)
    BY <2>2, <2>4, <1>1 DEF IsCurrent
  <2>6. Pending(e.index[i]) <=> Pending(d.index[i])
    BY <1>1 DEF Pending
  <2> QED BY <2>3, <2>5, <2>6, <1>1
<1>8. ASSUME QueueSound(d) PROVE QueueSound(e)
  <2>1. \A k \in 1 .. Len(d.queue) : d.queue[k] \in Indexes
    BY DiscoveryTyped, ElementOfSeq
  <2> QED BY <2>1, <1>1, <1>8 DEF QueueSound
<1> QED BY <1>1, <1>2, <1>3, <1>4, <1>5, <1>6, <1>7, <1>8

\* Room is made by deleting idle indexes: some set of them suffices, or all go.
LEMMA RoomIs ==
  ASSUME NEW d \in Discoveries, NEW units \in Nat
  PROVE  \E S \in SUBSET Evictable(d) : RoomFor(d, units) = WithoutQuery(d, S)
<1> DEFINE able == {S \in SUBSET Evictable(d) : FitsCapacity(WithoutQuery(d, S), units)}
           Smallest(S) == \A T \in able : Cardinality(S) <= Cardinality(T)
<1>1. CASE able = {}
  BY <1>1 DEF RoomFor
<1>2. CASE able # {}
  <2>1. IsFiniteSet(Evictable(d))
    BY IndexesFinite, FS_Subset DEF Evictable
  <2>2. \A S \in able : Cardinality(S) \in Nat
    BY <2>1, FS_Subset, FS_CardinalityType
  <2> DEFINE Sizes == {Cardinality(S) : S \in able}
  <2>3. Sizes \in SUBSET Nat /\ Sizes # {}
    BY <1>2, <2>2
  <2>4. PICK n \in Sizes : \A m \in Sizes : n <= m
    <3> HIDE DEF Sizes
    <3> QED BY <2>3, LeastNumber
  <2>5. \E S \in able : Smallest(S)
    <3>1. PICK S \in able : n = Cardinality(S)
      OBVIOUS
    <3> QED BY <3>1, <2>4
  <2>6. (CHOOSE S \in able : Smallest(S)) \in able
    <3> HIDE DEF able, Smallest
    <3> QED BY <2>5
  <2>7. RoomFor(d, units) = WithoutQuery(d, CHOOSE S \in able : Smallest(S))
    BY <1>2 DEF RoomFor
  <2> QED BY <2>6, <2>7
<1> QED BY <1>1, <1>2

LEMMA RoomKeeps ==
  ASSUME NEW d \in Discoveries, NEW units \in Nat, NEW e, e = RoomFor(d, units)
  PROVE  /\ e \in Discoveries /\ MovesOn(d, e) /\ e.queue = d.queue
         /\ Used(e) <= Used(d) /\ ActiveIndexes(e) = ActiveIndexes(d)
         /\ \A i \in Indexes : /\ e.index[i].state = d.index[i].state /\ e.index[i].raw = d.index[i].raw
                               /\ e.index[i].kept <= d.index[i].kept
                               /\ Pending(d.index[i]) => e.index[i].kept = d.index[i].kept
         /\ CapacityHeld(d) => CapacityHeld(e)
         /\ UnitsMatch(d) => UnitsMatch(e)
         /\ NothingLeaks(d) => NothingLeaks(e)
         /\ QueueSound(d) => QueueSound(e)
<1>1. PICK S \in SUBSET Evictable(d) : e = WithoutQuery(d, S)
  BY RoomIs
<1>2. S \in SUBSET Indexes /\ \A i \in S : ~Pending(d.index[i])
  BY DEF Evictable
<1>3. ASSUME NEW i \in Indexes
      PROVE  /\ e.index[i].state = d.index[i].state /\ e.index[i].raw = d.index[i].raw
             /\ e.index[i].kept <= d.index[i].kept
             /\ Pending(d.index[i]) => e.index[i].kept = d.index[i].kept
  <2>1. /\ e.index[i].state = d.index[i].state /\ e.index[i].raw = d.index[i].raw
        /\ e.index[i].kept = IF i \in S THEN 0 ELSE d.index[i].kept
    BY <1>1, <1>2, WithoutIs
  <2>2. d.index[i].kept \in Nat
    BY DiscoveryTyped
  <2> QED BY <2>1, <2>2, <1>2
<1>4. /\ e \in Discoveries /\ MovesOn(d, e) /\ e.queue = d.queue
      /\ Used(e) <= Used(d) /\ ActiveIndexes(e) = ActiveIndexes(d)
      /\ CapacityHeld(d) => CapacityHeld(e)
      /\ UnitsMatch(d) => UnitsMatch(e)
      /\ NothingLeaks(d) => NothingLeaks(e)
      /\ QueueSound(d) => QueueSound(e)
  BY <1>1, <1>2, DroppingKeeps
<1> QED BY <1>3, <1>4

\* Filtering a queue keeps its order: what stays is a subsequence without those
\* that go.
Filters(f, s, gone) ==
  /\ f \in [0 .. Len(s) -> Seq(Indexes)] /\ f[0] = <<>> /\ Staying(s, gone) = f[Len(s)]
  /\ \A n \in 1 .. Len(s) : f[n] = IF s[n] \in gone THEN f[n - 1] ELSE Append(f[n - 1], s[n])

LEMMA StayingDefined ==
  ASSUME NEW s \in Seq(Indexes), NEW gone
  PROVE  \E f : Filters(f, s, gone)
<1> DEFINE N == Len(s)
           Body(g) == [n \in 0 .. N |-> IF n = 0 THEN <<>> ELSE IF s[n] \in gone THEN g[n - 1] ELSE Append(g[n - 1], s[n])]
           upTo == CHOOSE g : g = Body(g)
           G == [p \in (1 .. N) \X Seq(Indexes) |-> IF s[p[1]] \in gone THEN p[2] ELSE Append(p[2], s[p[1]])]
<1>1. N \in Nat /\ (\A n \in 1 .. N : s[n] \in Indexes) /\ <<>> \in Seq(Indexes)
  BY LenProperties, ElementOfSeq
<1>2. G \in [(1 .. N) \X Seq(Indexes) -> Seq(Indexes)]
  <2>1. ASSUME NEW n \in 1 .. N, NEW c \in Seq(Indexes) PROVE Append(c, s[n]) \in Seq(Indexes)
    BY <1>1, AppendProperties
  <2> HIDE DEF N
  <2> QED BY <2>1
<1>3. \A n \in 1 .. N : \A c \in Seq(Indexes) : G[<<n, c>>] = IF s[n] \in gone THEN c ELSE Append(c, s[n])
  OBVIOUS
<1> HIDE DEF N, G
<1>4. PICK f : Follows(f, N, Seq(Indexes), <<>>, G)
  BY <1>1, <1>2, RecursionExists
<1>5. f \in [0 .. N -> Seq(Indexes)] /\ f[0] = <<>> /\ \A n \in 1 .. N : f[n] = G[<<n, f[n - 1]>>]
  BY <1>4 DEF Follows
<1>6. ASSUME NEW n \in 1 .. N PROVE f[n] = IF s[n] \in gone THEN f[n - 1] ELSE Append(f[n - 1], s[n])
  <2>1. n - 1 \in 0 .. N
    BY <1>1
  <2>2. f[n - 1] \in Seq(Indexes)
    BY <1>5, <2>1
  <2> QED BY <2>2, <1>3, <1>5
<1>7. f = Body(f)
  <2>1. ASSUME NEW n \in 0 .. N PROVE f[n] = Body(f)[n]
    <3>1. CASE n = 0
      BY <3>1, <1>5
    <3>2. CASE n # 0
      <4>1. n \in 1 .. N
        BY <3>2, <1>1
      <4>2. f[n] = IF s[n] \in gone THEN f[n - 1] ELSE Append(f[n - 1], s[n])
        BY <4>1, <1>6
      <4>3. Body(f)[n] = IF s[n] \in gone THEN f[n - 1] ELSE Append(f[n - 1], s[n])
        BY <3>2, Zenon
      <4> QED BY ONLY <4>2, <4>3
    <3> QED BY <3>1, <3>2
  <2> QED BY <2>1, <1>5
<1>8. upTo = Body(upTo)
  BY <1>7
<1>9. Staying(s, gone) = upTo[N]
  BY DEF Staying, N
<1> HIDE DEF upTo, Body
<1>10. \A n \in Nat : n <= N => upTo[n] = f[n]
  <2> DEFINE S == {n \in Nat : n <= N => upTo[n] = f[n]}
  <2>1. 0 \in S
    <3>1. Body(upTo)[0] = <<>>
      BY <1>1 DEF Body
    <3> QED BY <3>1, <1>8, <1>5
  <2>2. ASSUME NEW n \in Nat, n \in S PROVE n + 1 \in S
    <3>1. SUFFICES ASSUME n + 1 <= N PROVE upTo[n + 1] = f[n + 1]
      OBVIOUS
    <3>2. n + 1 \in 1 .. N /\ n + 1 \in 0 .. N /\ (n + 1) - 1 = n /\ n + 1 # 0 /\ upTo[n] = f[n]
      BY <2>2, <3>1, <1>1
    <3>3. Body(upTo)[n + 1] = IF s[n + 1] \in gone THEN upTo[n] ELSE Append(upTo[n], s[n + 1])
      BY <3>2 DEF Body
    <3> QED BY <3>2, <3>3, <1>6, <1>8
  <2> HIDE DEF S
  <2>3. \A n \in Nat : n \in S
    BY <2>1, <2>2, NumbersInduction
  <2> QED BY <2>3 DEF S
<1>11. upTo[N] = f[N]
  BY <1>1, <1>10
<1> QED BY <1>5, <1>6, <1>9, <1>11 DEF N, Filters

\* t holds some of the first n of s, each as often as there, and none that is gone.
Subsequence(t, s, gone, n) ==
  /\ t \in Seq(Indexes)
  /\ \A k \in 1 .. Len(t) : \E m \in 1 .. n : t[k] = s[m] /\ s[m] \notin gone
  /\ ((\A k, l \in 1 .. n : s[k] = s[l] => k = l) => \A k, l \in 1 .. Len(t) : t[k] = t[l] => k = l)
  /\ (n = 0 => t = <<>>)

LEMMA StayingIs ==
  ASSUME NEW s \in Seq(Indexes), NEW gone
  PROVE  Subsequence(Staying(s, gone), s, gone, Len(s))
<1>6. PICK f : Filters(f, s, gone)
  BY StayingDefined
<1>1. /\ f \in [0 .. Len(s) -> Seq(Indexes)] /\ f[0] = <<>> /\ Staying(s, gone) = f[Len(s)]
      /\ \A n \in 1 .. Len(s) : f[n] = IF s[n] \in gone THEN f[n - 1] ELSE Append(f[n - 1], s[n])
  BY <1>6 DEF Filters
<1>2. Len(s) \in Nat /\ \A n \in 1 .. Len(s) : s[n] \in Indexes
  BY LenProperties, ElementOfSeq
<1> DEFINE Good == {n \in Nat : n <= Len(s) => Subsequence(f[n], s, gone, n)}
<1>3. 0 \in Good
  <2>1. f[0] \in Seq(Indexes) /\ Len(f[0]) = 0
    BY <1>1
  <2> QED BY <2>1, <1>1 DEF Subsequence
<1>4. ASSUME NEW n \in Nat, n \in Good PROVE n + 1 \in Good
  <2>1. SUFFICES ASSUME n + 1 <= Len(s) PROVE Subsequence(f[n + 1], s, gone, n + 1)
    OBVIOUS
  <2>2. /\ Subsequence(f[n], s, gone, n) /\ n + 1 \in 1 .. Len(s) /\ n \in 0 .. Len(s) /\ s[n + 1] \in Indexes
        /\ f[n + 1] = IF s[n + 1] \in gone THEN f[n] ELSE Append(f[n], s[n + 1])
    BY <1>1, <1>2, <1>4, <2>1
  <2>3. PICK t : t = f[n] /\ t \in Seq(Indexes) /\ Len(t) \in Nat
    BY <2>2, LenProperties DEF Subsequence
  <2>4. /\ \A k \in 1 .. Len(t) : \E m \in 1 .. n : t[k] = s[m] /\ s[m] \notin gone
        /\ (\A k, l \in 1 .. n : s[k] = s[l] => k = l) => \A k, l \in 1 .. Len(t) : t[k] = t[l] => k = l
    BY <2>2, <2>3 DEF Subsequence
  <2>5. CASE s[n + 1] \in gone
    <3>1. f[n + 1] = t
      BY <2>2, <2>3, <2>5
    <3>2. \A k \in 1 .. Len(t) : \E m \in 1 .. n + 1 : t[k] = s[m] /\ s[m] \notin gone
      BY <2>4
    <3>3. (\A k, l \in 1 .. n + 1 : s[k] = s[l] => k = l) => \A k, l \in 1 .. Len(t) : t[k] = t[l] => k = l
      BY <2>4
    <3> QED BY <3>1, <3>2, <3>3, <2>3 DEF Subsequence
  <2>6. CASE s[n + 1] \notin gone
    <3>1. PICK u : u = Append(t, s[n + 1])
      OBVIOUS
    <3>2. /\ u \in Seq(Indexes) /\ Len(u) = Len(t) + 1 /\ u[Len(t) + 1] = s[n + 1]
          /\ \A k \in 1 .. Len(t) : u[k] = t[k]
      BY <3>1, <2>2, <2>3, AppendProperties
    <3>3. ASSUME NEW k \in 1 .. Len(u) PROVE k \in 1 .. Len(t) \/ k = Len(t) + 1
      BY <3>2, <2>3
    <3>4. ASSUME NEW k \in 1 .. Len(u) PROVE \E m \in 1 .. n + 1 : u[k] = s[m] /\ s[m] \notin gone
      <4>1. CASE k \in 1 .. Len(t)
        BY <4>1, <3>2, <2>4
      <4>2. CASE k = Len(t) + 1
        BY <4>2, <3>2, <2>6
      <4> QED BY <3>3, <4>1, <4>2
    <3>5. ASSUME \A k, l \in 1 .. n + 1 : s[k] = s[l] => k = l, NEW k \in 1 .. Len(u), NEW l \in 1 .. Len(u), u[k] = u[l]
          PROVE  k = l
      <4>1. \A i, j \in 1 .. Len(t) : t[i] = t[j] => i = j
        BY <3>5, <2>4
      <4>2. ASSUME NEW i \in 1 .. Len(t) PROVE t[i] # s[n + 1]
        <5>1. PICK m \in 1 .. n : t[i] = s[m]
          BY <2>4
        <5>2. m \in 1 .. n + 1 /\ n + 1 \in 1 .. n + 1 /\ m # n + 1
          OBVIOUS
        <5> QED BY <5>1, <5>2, <3>5
      <4>3. CASE k \in 1 .. Len(t) /\ l \in 1 .. Len(t)
        BY <4>1, <4>3, <3>2, <3>5
      <4>4. CASE k \in 1 .. Len(t) /\ l = Len(t) + 1
        BY <4>2, <4>4, <3>2, <3>5
      <4>5. CASE k = Len(t) + 1 /\ l \in 1 .. Len(t)
        BY <4>2, <4>5, <3>2, <3>5
      <4> QED BY <3>3, <4>3, <4>4, <4>5
    <3>6. f[n + 1] = u /\ n + 1 # 0
      BY <2>2, <2>3, <2>6, <3>1
    <3> QED BY <3>2, <3>4, <3>5, <3>6 DEF Subsequence
  <2> QED BY <2>5, <2>6
<1> HIDE DEF Good
<1>5. \A n \in Nat : n \in Good
  BY <1>3, <1>4, NumbersInduction
<1> QED BY <1>1, <1>2, <1>5 DEF Good

\* What cancelling queued producers changes.
LEMMA CancelIs ==
  ASSUME NEW d \in Discoveries, NEW S \in SUBSET Indexes, NEW e, e = FailingAll(d, S)
  PROVE  /\ e \in Discoveries /\ e.current = d.current /\ e.queue = Staying(d.queue, S)
         /\ \A i \in Indexes :
              /\ e.index[i].users = d.index[i].users /\ e.index[i].before = d.index[i].before
              /\ e.index[i].content = d.index[i].content
              /\ e.index[i].raw = d.index[i].raw /\ e.index[i].kept = d.index[i].kept
              /\ e.index[i].state = IF i \in S THEN "failing" ELSE d.index[i].state
<1>1. d = [index |-> d.index, current |-> d.current, queue |-> d.queue]
  BY DEF Discoveries
<1> DEFINE X == [i \in Indexes |-> IF i \in S THEN [d.index[i] EXCEPT !.state = "failing"] ELSE d.index[i]]
<1>2. e = [index |-> X, current |-> d.current, queue |-> Staying(d.queue, S)]
  BY <1>1 DEF FailingAll
<1>3. X \in [Indexes -> IndexRecord]
  <2>1. ASSUME NEW i \in Indexes PROVE [d.index[i] EXCEPT !.state = "failing"] \in IndexRecord /\ d.index[i] \in IndexRecord
    <3>1. PICK x : x = d.index[i] /\ x \in IndexRecord
      BY DiscoveryTyped
    <3>2. [x EXCEPT !.state = "failing"] \in IndexRecord
      BY <3>1 DEF IndexRecord
    <3> QED BY <3>1, <3>2
  <2> QED BY <2>1
<1>4. Staying(d.queue, S) \in Seq(Indexes)
  BY DiscoveryTyped, StayingIs DEF Subsequence
<1>5. e \in Discoveries
  <2> HIDE DEF X
  <2> QED BY <1>2, <1>3, <1>4, DiscoveryTyped DEF Discoveries
<1>6. ASSUME NEW i \in Indexes
      PROVE  /\ e.index[i].users = d.index[i].users /\ e.index[i].before = d.index[i].before
             /\ e.index[i].content = d.index[i].content
             /\ e.index[i].raw = d.index[i].raw /\ e.index[i].kept = d.index[i].kept
             /\ e.index[i].state = IF i \in S THEN "failing" ELSE d.index[i].state
  <2>1. e.index[i] = IF i \in S THEN [d.index[i] EXCEPT !.state = "failing"] ELSE d.index[i]
    BY <1>2
  <2>2. d.index[i] \in IndexRecord
    BY DiscoveryTyped
  <2> QED BY <2>1, <2>2 DEF IndexRecord
<1> QED BY <1>2, <1>5, <1>6

\* Cancelling queued producers keeps everything.
LEMMA CancelKeeps ==
  ASSUME NEW d \in Discoveries, NEW S \in SUBSET Indexes, \A i \in S : d.index[i].state = "queued",
         NEW e, e = FailingAll(d, S)
  PROVE  /\ e \in Discoveries /\ MovesOn(d, e) /\ (d.queue = <<>> => e.queue = <<>>)
         /\ Used(e) <= Used(d) /\ ActiveIndexes(e) = ActiveIndexes(d)
         /\ CapacityHeld(d) => CapacityHeld(e)
         /\ UnitsMatch(d) => UnitsMatch(e)
         /\ NothingLeaks(d) => NothingLeaks(e)
         /\ QueueSound(d) => QueueSound(e)
<1>1. /\ e \in Discoveries /\ e.current = d.current /\ e.queue = Staying(d.queue, S)
      /\ \A i \in Indexes :
           /\ e.index[i].users = d.index[i].users /\ e.index[i].before = d.index[i].before
           /\ e.index[i].content = d.index[i].content
           /\ e.index[i].raw = d.index[i].raw /\ e.index[i].kept = d.index[i].kept
           /\ e.index[i].state = IF i \in S THEN "failing" ELSE d.index[i].state
  BY CancelIs
<1>2. MovesOn(d, e)
  BY <1>1 DEF MovesOn
<1>3. Used(e) <= Used(d)
  <2>1. \A i \in Indexes : Height(e, i) <= Height(d, i)
    BY <1>1, DiscoveryTyped DEF Height
  <2> QED BY <2>1, <1>1, UnitsShrink
<1>4. ActiveIndexes(e) = ActiveIndexes(d)
  BY <1>1 DEF ActiveIndexes
<1>5. CapacityHeld(d) => CapacityHeld(e)
  <2>1. Used(e) \in Nat /\ Used(d) \in Nat /\ Capacity \in Nat
    BY <1>1, UnitsAre, RegistryAssumption
  <2> QED BY <2>1, <1>3, <1>4 DEF CapacityHeld
<1>6. UnitsMatch(d) => UnitsMatch(e)
  BY <1>1 DEF UnitsMatch
<1>7. NothingLeaks(d) => NothingLeaks(e)
  BY <1>1 DEF NothingLeaks, Pending, IsCurrent
<1>8. Subsequence(e.queue, d.queue, S, Len(d.queue))
  BY <1>1, DiscoveryTyped, StayingIs
<1>9. ASSUME QueueSound(d) PROVE QueueSound(e)
  <2>1. /\ \A k \in 1 .. Len(e.queue) : \E m \in 1 .. Len(d.queue) : e.queue[k] = d.queue[m] /\ d.queue[m] \notin S
        /\ \A k, l \in 1 .. Len(e.queue) : e.queue[k] = e.queue[l] => k = l
    BY <1>8, <1>9 DEF Subsequence, QueueSound
  <2>2. ASSUME NEW k \in 1 .. Len(e.queue) PROVE e.index[e.queue[k]].state = "queued"
    <3>1. PICK m \in 1 .. Len(d.queue) : e.queue[k] = d.queue[m] /\ d.queue[m] \notin S
      BY <2>1
    <3>2. d.queue[m] \in Indexes /\ d.index[d.queue[m]].state = "queued"
      BY <1>9, DiscoveryTyped, ElementOfSeq DEF QueueSound
    <3> QED BY <3>1, <3>2, <1>1
  <2> QED BY <2>1, <2>2 DEF QueueSound
<1>10. d.queue = <<>> => e.queue = <<>>
  <2>1. d.queue = <<>> => Len(d.queue) = 0
    OBVIOUS
  <2> QED BY <2>1, <1>8 DEF Subsequence
<1> QED BY <1>1, <1>2, <1>3, <1>4, <1>5, <1>6, <1>7, <1>9, <1>10

\* Releasing indexes that may have lost their last user: what nobody wants any
\* more is cancelled or deleted, so that nothing leaks from any of them.
LEMMA UnwantedKeeps ==
  ASSUME NEW d \in Discoveries, NEW S \in SUBSET Indexes, NEW e, e = Unwanted(d, S)
  PROVE  /\ e \in Discoveries /\ MovesOn(d, e) /\ (d.queue = <<>> => e.queue = <<>>)
         /\ CapacityHeld(d) => CapacityHeld(e)
         /\ UnitsMatch(d) => UnitsMatch(e)
         /\ (\A i \in Indexes \ S : d.index[i].kept > 0 => Pending(d.index[i]) \/ d.index[i].users > 0 \/ IsCurrent(d, i))
              => NothingLeaks(e)
         /\ QueueSound(d) => QueueSound(e)
<1> DEFINE alone == {i \in S : d.index[i].users = 0}
           recalled == {i \in alone : d.index[i].state = "queued"}
           dropped == {i \in alone : ~Pending(d.index[i]) /\ (d.index[i].state = "failed" \/ ~IsCurrent(d, i))}
<1>1. PICK c : c = FailingAll(d, recalled)
  OBVIOUS
<1>2. e = WithoutQuery(c, dropped)
  BY <1>1 DEF Unwanted
<1>3. recalled \in SUBSET Indexes /\ dropped \in SUBSET Indexes /\ \A i \in recalled : d.index[i].state = "queued"
  OBVIOUS
<1>13. \A i \in dropped : ~Pending(d.index[i]) /\ i \notin recalled
  BY DEF Pending
<1>14. \A i \in Indexes : i \in S /\ i \notin dropped => Pending(d.index[i]) \/ d.index[i].users # 0 \/ IsCurrent(d, i)
  OBVIOUS
<1> HIDE DEF recalled, dropped
<1>4. /\ c \in Discoveries /\ c.current = d.current
      /\ \A i \in Indexes :
           /\ c.index[i].users = d.index[i].users /\ c.index[i].kept = d.index[i].kept
           /\ c.index[i].state = IF i \in recalled THEN "failing" ELSE d.index[i].state
  BY <1>1, <1>3, CancelIs
<1>5. /\ MovesOn(d, c) /\ (d.queue = <<>> => c.queue = <<>>)
      /\ CapacityHeld(d) => CapacityHeld(c)
      /\ UnitsMatch(d) => UnitsMatch(c)
      /\ QueueSound(d) => QueueSound(c)
  BY <1>1, <1>3, CancelKeeps
<1>6. \A i \in dropped : ~Pending(c.index[i])
  BY <1>3, <1>4, <1>13 DEF Pending
<1>7. /\ e \in Discoveries /\ MovesOn(c, e) /\ e.queue = c.queue
      /\ CapacityHeld(c) => CapacityHeld(e)
      /\ UnitsMatch(c) => UnitsMatch(e)
      /\ QueueSound(c) => QueueSound(e)
  BY <1>2, <1>3, <1>4, <1>6, DroppingKeeps
<1>8. /\ \A i \in Indexes : /\ e.index[i].state = c.index[i].state /\ e.index[i].users = c.index[i].users
                            /\ e.index[i].kept = IF i \in dropped THEN 0 ELSE c.index[i].kept
      /\ \A p \in Providers : e.current[p] = IF <<p, c.current[p]>> \in dropped THEN 0 ELSE c.current[p]
  BY <1>2, <1>3, <1>4, WithoutIs
<1>9. MovesOn(d, e)
  BY <1>4, <1>5, <1>7, MovesOnTwice
<1>10. ASSUME \A i \in Indexes \ S : d.index[i].kept > 0 => Pending(d.index[i]) \/ d.index[i].users > 0 \/ IsCurrent(d, i)
       PROVE  NothingLeaks(e)
  <2>1. SUFFICES ASSUME NEW i \in Indexes, e.index[i].kept > 0
                 PROVE  Pending(e.index[i]) \/ e.index[i].users > 0 \/ IsCurrent(e, i)
    BY DEF NothingLeaks
  <2>2. i \notin dropped /\ d.index[i].kept > 0
    BY <1>4, <1>8, <2>1
  <2>3. Pending(d.index[i]) \/ d.index[i].users > 0 \/ IsCurrent(d, i)
    <3>1. d.index[i].users \in Nat
      BY DiscoveryTyped
    <3> QED BY <3>1, <1>10, <1>14, <2>2
  <2>4. i[1] \in Providers /\ i = <<i[1], i[2]>>
    BY DEF Indexes
  <2>5. IsCurrent(d, i) => IsCurrent(e, i)
    BY <2>2, <2>4, <1>4, <1>8 DEF IsCurrent
  <2>6. Pending(d.index[i]) => Pending(e.index[i])
    BY <1>4, <1>8 DEF Pending
  <2>7. e.index[i].users = d.index[i].users
    BY <1>4, <1>8
  <2> QED BY <2>3, <2>5, <2>6, <2>7
<1> QED BY <1>5, <1>7, <1>9, <1>10

Sound(d) == UnitsMatch(d) /\ NothingLeaks(d) /\ CapacityHeld(d) /\ QueueSound(d)

\* The head of the queue and what is behind it.
LEMMA QueueHead ==
  ASSUME NEW d \in Discoveries, QueueSound(d), d.queue # <<>>
  PROVE  /\ Head(d.queue) \in Indexes /\ d.index[Head(d.queue)].state = "queued"
         /\ Tail(d.queue) \in Seq(Indexes) /\ Len(Tail(d.queue)) = Len(d.queue) - 1 /\ Len(d.queue) \in Nat /\ Len(d.queue) > 0
         /\ \A k \in 1 .. Len(Tail(d.queue)) : /\ Tail(d.queue)[k] \in Indexes /\ Tail(d.queue)[k] # Head(d.queue)
                                               /\ d.index[Tail(d.queue)[k]].state = "queued"
         /\ \A k, l \in 1 .. Len(Tail(d.queue)) : Tail(d.queue)[k] = Tail(d.queue)[l] => k = l
<1>1. PICK s : s = d.queue /\ s \in Seq(Indexes) /\ s # <<>>
  BY DiscoveryTyped
<1>2. /\ Head(s) \in Indexes /\ Tail(s) \in Seq(Indexes) /\ Len(Tail(s)) = Len(s) - 1
      /\ \A k \in 1 .. Len(Tail(s)) : Tail(s)[k] = s[k + 1]
  BY <1>1, HeadTailProperties
<1>3. Head(s) = s[1] /\ Len(s) \in Nat /\ Len(s) > 0
  BY <1>1
<1>4. /\ \A k \in 1 .. Len(s) : s[k] \in Indexes /\ d.index[s[k]].state = "queued"
      /\ \A k, l \in 1 .. Len(s) : s[k] = s[l] => k = l
  BY <1>1, ElementOfSeq DEF QueueSound
<1>5. 1 \in 1 .. Len(s) /\ \A k \in 1 .. Len(Tail(s)) : k + 1 \in 1 .. Len(s) /\ k + 1 # 1 /\ k \in Nat
  BY <1>2, <1>3
<1>6. ASSUME NEW k \in 1 .. Len(Tail(s)) PROVE Tail(s)[k] \in Indexes /\ Tail(s)[k] # Head(s) /\ d.index[Tail(s)[k]].state = "queued"
  BY <1>2, <1>3, <1>4, <1>5
<1>7. ASSUME NEW k \in 1 .. Len(Tail(s)), NEW l \in 1 .. Len(Tail(s)), Tail(s)[k] = Tail(s)[l] PROVE k = l
  <2>1. s[k + 1] = s[l + 1] /\ k + 1 \in 1 .. Len(s) /\ l + 1 \in 1 .. Len(s) /\ k \in Nat /\ l \in Nat
    BY <1>2, <1>5, <1>7
  <2>2. k + 1 = l + 1
    BY <2>1, <1>4
  <2> QED BY <2>1, <2>2
<1> QED BY <1>1, <1>2, <1>3, <1>4, <1>5, <1>6, <1>7

\* The head of the queue leaves it, for its raw slot or for its failure.
HeadGone(e, f, i, to, n) ==
  /\ e.queue # <<>> /\ i = Head(e.queue) /\ f.current = e.current /\ f.queue = Tail(e.queue)
  /\ \/ to = "failing" /\ n = 0
     \/ to = "listing" /\ n = RawUnits /\ FitsCapacity(e, RawUnits) /\ Cardinality(ActiveIndexes(e)) < RawSlots
  /\ \A j \in Indexes : /\ f.index[j].users = e.index[j].users /\ f.index[j].before = e.index[j].before
                        /\ f.index[j].content = e.index[j].content /\ f.index[j].kept = e.index[j].kept
                        /\ f.index[j].state = IF j = i THEN to ELSE e.index[j].state
                        /\ f.index[j].raw = IF j = i THEN n ELSE e.index[j].raw

LEMMA HeadLeaves ==
  ASSUME NEW e \in Discoveries, NEW f \in Discoveries, Sound(e), NEW n \in Nat, NEW i, NEW to, HeadGone(e, f, i, to, n)
  PROVE  /\ MovesOn(e, f) /\ Sound(f) /\ ActiveIndexes(e) \subseteq ActiveIndexes(f)
         /\ Len(f.queue) = Len(e.queue) - 1
         /\ to = "listing" => ActiveIndexes(f) # {}
<1>10. e.queue # <<>> /\ f.current = e.current /\ f.queue = Tail(e.queue)
  BY DEF HeadGone
<1>13. \/ to = "failing" /\ n = 0
       \/ to = "listing" /\ n = RawUnits /\ FitsCapacity(e, RawUnits) /\ Cardinality(ActiveIndexes(e)) < RawSlots
  BY DEF HeadGone
<1>11. QueueSound(e)
  BY DEF Sound
<1>1. i = Head(e.queue)
  BY DEF HeadGone
<1>12. ASSUME NEW j \in Indexes
       PROVE  /\ f.index[j].users = e.index[j].users /\ f.index[j].before = e.index[j].before
              /\ f.index[j].content = e.index[j].content /\ f.index[j].kept = e.index[j].kept
              /\ f.index[j].state = IF j = i THEN to ELSE e.index[j].state
              /\ f.index[j].raw = IF j = i THEN n ELSE e.index[j].raw
  BY <1>1 DEF HeadGone
<1>2. /\ i \in Indexes /\ e.index[i].state = "queued" /\ e.index[i].raw = 0 /\ e.index[i].kept = 0
      /\ Len(f.queue) = Len(e.queue) - 1
  <2>1. Head(e.queue) \in Indexes /\ e.index[Head(e.queue)].state = "queued" /\ Len(Tail(e.queue)) = Len(e.queue) - 1
    BY <1>10, <1>11, QueueHead
  <2> QED BY <2>1, <1>1, <1>10 DEF Sound, UnitsMatch
<1>3. /\ \A k \in 1 .. Len(f.queue) : f.queue[k] \in Indexes /\ f.queue[k] # i /\ e.index[f.queue[k]].state = "queued"
      /\ \A k, l \in 1 .. Len(f.queue) : f.queue[k] = f.queue[l] => k = l
  <2>1. /\ \A k \in 1 .. Len(Tail(e.queue)) : /\ Tail(e.queue)[k] \in Indexes /\ Tail(e.queue)[k] # Head(e.queue)
                                            /\ e.index[Tail(e.queue)[k]].state = "queued"
        /\ \A k, l \in 1 .. Len(Tail(e.queue)) : Tail(e.queue)[k] = Tail(e.queue)[l] => k = l
    BY <1>10, <1>11, QueueHead
  <2> QED BY <2>1, <1>1, <1>10
<1>4. MovesOn(e, f)
  BY <1>1, <1>2, <1>10, <1>12, <1>13 DEF MovesOn
<1>5. QueueSound(f)
  BY <1>1, <1>3, <1>10, <1>12, <1>13 DEF QueueSound
<1>6. UnitsMatch(f)
  BY <1>1, <1>2, <1>10, <1>12, <1>13, RegistryAssumption, ZenonT(60) DEF Sound, UnitsMatch
<1>7. NothingLeaks(f)
  BY <1>1, <1>2, <1>10, <1>12, <1>13 DEF Sound, NothingLeaks, Pending, IsCurrent
<1>8. CASE to = "failing" /\ n = 0
  <2>1. ActiveIndexes(f) = ActiveIndexes(e)
    BY <1>1, <1>2, <1>8, <1>10, <1>12, <1>13 DEF ActiveIndexes
  <2>2. ASSUME NEW j \in Indexes PROVE Height(f, j) <= Height(e, j)
    <3>1. Height(f, j) = Height(e, j)
      BY <1>1, <1>2, <1>8, <1>10, <1>12, <1>13 DEF Height
    <3> QED BY <3>1, DiscoveryTyped
  <2>3. Used(f) <= Used(e) /\ Used(f) \in Nat /\ Used(e) \in Nat /\ Capacity \in Nat
    BY <2>2, UnitsShrink, UnitsAre, RegistryAssumption
  <2>4. CapacityHeld(f)
    BY <2>1, <2>3 DEF Sound, CapacityHeld
  <2> QED BY <1>2, <1>4, <1>5, <1>6, <1>7, <1>8, <2>1, <2>4 DEF Sound
<1>9. CASE to = "listing" /\ n = RawUnits /\ FitsCapacity(e, RawUnits) /\ Cardinality(ActiveIndexes(e)) < RawSlots
  <2>1. RawUnits \in Nat /\ RawUnits > 0
    BY RegistryAssumption
  <2>2. ActiveIndexes(f) = ActiveIndexes(e) \cup {i} /\ i \notin ActiveIndexes(e)
    BY <1>1, <1>2, <1>9, <1>10, <1>12, <1>13, <2>1 DEF ActiveIndexes
  <2>3. IsFiniteSet(ActiveIndexes(e))
    BY IndexesFinite, FS_Subset DEF ActiveIndexes
  <2>4. Cardinality(ActiveIndexes(f)) = Cardinality(ActiveIndexes(e)) + 1 /\ Cardinality(ActiveIndexes(e)) \in Nat
    BY <2>2, <2>3, FS_AddElement, FS_CardinalityType
  <2>5. Cardinality(ActiveIndexes(f)) <= RawSlots
    BY <2>4, <1>9 DEF RawSlots
  <2>6. (\A j \in Indexes : j # i => Height(f, j) <= Height(e, j)) /\ Height(f, i) <= Height(e, i) + RawUnits
    <3>1. ASSUME NEW j \in Indexes, j # i PROVE Height(f, j) = Height(e, j) /\ Height(e, j) \in Nat
      BY <1>1, <1>10, <1>12, <1>13, <3>1, DiscoveryTyped DEF Height
    <3>2. Height(f, i) = RawUnits /\ Height(e, i) = 0
      BY <1>1, <1>2, <1>9, <1>10, <1>12, <1>13, <2>1 DEF Height
    <3> QED BY <3>1, <3>2, <2>1
  <2>7. Used(f) <= Used(e) + RawUnits
    BY <1>2, <2>1, <2>6, UnitsGrow
  <2>8. Used(e) + RawUnits <= Capacity /\ Used(e) \in Nat /\ Used(f) \in Nat /\ Capacity \in Nat
    BY <1>9, UnitsAre, RegistryAssumption DEF FitsCapacity
  <2>9. CapacityHeld(f)
    BY <2>1, <2>5, <2>7, <2>8 DEF CapacityHeld
  <2> QED BY <1>2, <1>4, <1>5, <1>6, <1>7, <2>2, <2>9 DEF Sound
<1> QED BY <1>8, <1>9, <1>13

LEMMA PumpOnceKeeps ==
  ASSUME NEW d \in Discoveries, Sound(d), NEW f, f = PumpOnce(d)
  PROVE  /\ f \in Discoveries /\ MovesOn(d, f) /\ Sound(f) /\ ActiveIndexes(d) \subseteq ActiveIndexes(f)
         /\ Len(f.queue) <= Len(d.queue)
         /\ ActiveIndexes(f) # {} \/ d.queue = <<>> \/ Len(f.queue) = Len(d.queue) - 1
<1>1. PICK i : i = Head(d.queue)
  OBVIOUS
<1>2. PICK e : e = RoomFor(d, RawUnits)
  OBVIOUS
<1>3. RawUnits \in Nat /\ RawUnits > 0 /\ Len(d.queue) \in Nat
  BY RegistryAssumption, DiscoveryTyped, LenProperties
<1>4. f = IF d.queue = <<>> \/ Cardinality(ActiveIndexes(d)) >= RawSlots THEN d
          ELSE IF FitsCapacity(e, RawUnits) THEN [e EXCEPT !.queue = Tail(@), !.index[i].state = "listing", !.index[i].raw = RawUnits]
          ELSE IF ActiveIndexes(d) # {} THEN e ELSE Failing([e EXCEPT !.queue = Tail(@)], i)
  BY <1>1, <1>2 DEF PumpOnce
<1>5. /\ e \in Discoveries /\ MovesOn(d, e) /\ e.queue = d.queue /\ ActiveIndexes(e) = ActiveIndexes(d) /\ Sound(e)
  BY <1>2, <1>3, RoomKeeps DEF Sound
<1>6. CASE d.queue = <<>> \/ Cardinality(ActiveIndexes(d)) >= RawSlots
  <2>1. f = d
    BY <1>4, <1>6
  <2>2. MovesOn(d, d)
    BY DEF MovesOn
  <2>3. d.queue = <<>> \/ ActiveIndexes(d) # {}
    <3>1. SUFFICES ASSUME ActiveIndexes(d) = {}, d.queue # <<>> PROVE FALSE
      OBVIOUS
    <3>2. Cardinality(ActiveIndexes(d)) = 0
      BY <3>1, FS_EmptySet
    <3> QED BY <3>1, <3>2, <1>6 DEF RawSlots
  <2> QED BY <2>1, <2>2, <2>3, <1>3
<1>7. CASE /\ ~(d.queue = <<>> \/ Cardinality(ActiveIndexes(d)) >= RawSlots)
           /\ ~FitsCapacity(e, RawUnits) /\ ActiveIndexes(d) # {}
  <2>1. f = e
    BY <1>4, <1>7
  <2> QED BY <2>1, <1>3, <1>5, <1>7
<1>8. ASSUME ~(d.queue = <<>> \/ Cardinality(ActiveIndexes(d)) >= RawSlots),
             FitsCapacity(e, RawUnits) \/ ActiveIndexes(d) = {}
      PROVE  /\ f \in Discoveries /\ MovesOn(d, f) /\ Sound(f) /\ ActiveIndexes(d) \subseteq ActiveIndexes(f)
             /\ Len(f.queue) <= Len(d.queue)
             /\ ActiveIndexes(f) # {} \/ d.queue = <<>> \/ Len(f.queue) = Len(d.queue) - 1
  <2>1. PICK to, n : /\ to = IF FitsCapacity(e, RawUnits) THEN "listing" ELSE "failing"
                     /\ n = IF FitsCapacity(e, RawUnits) THEN RawUnits ELSE 0
    OBVIOUS
  <2>2. /\ i \in Indexes /\ Tail(e.queue) \in Seq(Indexes) /\ e.index[i].state = "queued" /\ e.index[i].raw = 0
        /\ e.queue # <<>> /\ i = Head(e.queue) /\ n \in Nat
    BY <1>1, <1>3, <1>5, <1>8, <2>1, QueueHead DEF Sound, UnitsMatch
  <2>3. e.index \in [Indexes -> IndexRecord] /\ e.index[i] \in IndexRecord
    BY <1>5, <2>2, DiscoveryTyped
  <2>4. PICK x : x = e.index[i] /\ x \in IndexRecord
    BY <2>3
  <2>5. PICK y : y = [x EXCEPT !.state = to, !.raw = n]
    OBVIOUS
  <2>6. /\ y \in IndexRecord /\ y.users = x.users /\ y.before = x.before /\ y.content = x.content /\ y.kept = x.kept
        /\ y.state = to /\ y.raw = n
    <3>1. to \in {"listing", "failing"}
      BY <2>1
    <3> QED BY <2>2, <2>4, <2>5, <3>1 DEF IndexRecord
  <2>7. e = [index |-> e.index, current |-> e.current, queue |-> e.queue]
    BY <1>5 DEF Discoveries
  <2>8. f = [index |-> [e.index EXCEPT ![i] = y], current |-> e.current, queue |-> Tail(e.queue)]
    <3>1. CASE FitsCapacity(e, RawUnits)
      <4>1. f = [e EXCEPT !.queue = Tail(@), !.index[i].state = "listing", !.index[i].raw = RawUnits]
        BY <1>4, <1>8, <3>1
      <4>2. to = "listing" /\ n = RawUnits
        BY <2>1, <3>1
      <4>3. PICK g : g = [[e EXCEPT !.queue = Tail(@)] EXCEPT !.index[i].state = "listing"]
        OBVIOUS
      <4>4. g = [index |-> [e.index EXCEPT ![i].state = "listing"], current |-> e.current, queue |-> Tail(e.queue)]
        BY <4>3, <2>7
      <4>5. f = [g EXCEPT !.index[i].raw = RawUnits]
        BY <4>1, <4>3
      <4>6. f = [index |-> [g.index EXCEPT ![i].raw = RawUnits], current |-> g.current, queue |-> g.queue]
        BY <4>4, <4>5
      <4>7. PICK z : z = [x EXCEPT !.state = "listing"]
        OBVIOUS
      <4>8. g.index = [e.index EXCEPT ![i] = z] /\ g.current = e.current /\ g.queue = Tail(e.queue)
        BY <4>4, <4>7, <2>2, <2>3, <2>4
      <4>9. y = [z EXCEPT !.raw = RawUnits]
        BY <4>2, <4>7, <2>4, <2>5 DEF IndexRecord
      <4>10. [g.index EXCEPT ![i].raw = RawUnits] = [e.index EXCEPT ![i] = y]
        BY <4>8, <4>9, <2>2, <2>3
      <4> QED BY <4>6, <4>8, <4>10
    <3>2. CASE ~FitsCapacity(e, RawUnits)
      <4>1. f = Failing([e EXCEPT !.queue = Tail(@)], i)
        BY <1>4, <1>8, <3>2
      <4>2. to = "failing" /\ n = 0 /\ x.raw = 0
        BY <2>1, <2>2, <2>4, <3>2
      <4>3. y = [x EXCEPT !.state = "failing"]
        BY <4>2, <2>4, <2>5 DEF IndexRecord
      <4>4. f = [index |-> [e.index EXCEPT ![i].state = "failing"], current |-> e.current, queue |-> Tail(e.queue)]
        BY <4>1, <2>7 DEF Failing
      <4> QED BY <4>3, <4>4, <2>2, <2>3, <2>4
    <3> QED BY <3>1, <3>2
  <2>9. f \in Discoveries /\ f.current = e.current /\ f.queue = Tail(e.queue)
    <3>1. [e.index EXCEPT ![i] = y] \in [Indexes -> IndexRecord]
      BY <2>3, <2>6
    <3> QED BY <3>1, <2>2, <2>8, <1>5, DiscoveryTyped DEF Discoveries
  <2>10. ASSUME NEW j \in Indexes
         PROVE  /\ f.index[j].users = e.index[j].users /\ f.index[j].before = e.index[j].before
                /\ f.index[j].content = e.index[j].content /\ f.index[j].kept = e.index[j].kept
                /\ f.index[j].state = IF j = i THEN to ELSE e.index[j].state
                /\ f.index[j].raw = IF j = i THEN n ELSE e.index[j].raw
    <3>1. f.index[j] = IF j = i THEN y ELSE e.index[j]
      BY <2>3, <2>8
    <3> QED BY <3>1, <2>4, <2>6
  <2>11. \/ to = "failing" /\ n = 0
         \/ to = "listing" /\ n = RawUnits /\ FitsCapacity(e, RawUnits) /\ Cardinality(ActiveIndexes(e)) < RawSlots
    <3>1. Cardinality(ActiveIndexes(e)) \in Nat
      BY IndexesFinite, FS_Subset, FS_CardinalityType DEF ActiveIndexes
    <3>2. CASE FitsCapacity(e, RawUnits)
      BY <3>1, <3>2, <2>1, <1>5, <1>8 DEF RawSlots
    <3>3. CASE ~FitsCapacity(e, RawUnits)
      BY <3>3, <2>1
    <3> QED BY <3>2, <3>3
  <2>12. MovesOn(e, f) /\ Sound(f) /\ ActiveIndexes(e) \subseteq ActiveIndexes(f) /\ Len(f.queue) = Len(e.queue) - 1
    <3>1. HeadGone(e, f, i, to, n)
      BY <2>2, <2>9, <2>10, <2>11 DEF HeadGone
    <3> QED BY <3>1, <1>5, <2>2, <2>9, HeadLeaves
  <2>13. MovesOn(d, f)
    BY <1>5, <2>9, <2>12, MovesOnTwice
  <2> QED BY <1>3, <1>5, <2>9, <2>12, <2>13
<1> QED BY <1>6, <1>7, <1>8

\* Pumping is as many steps as the queue was long, and then it is empty or a
\* producer is at work.
SoundOnes == {d \in Discoveries : Sound(d)}
Pumps(f, d) ==
  /\ f \in [0 .. Len(d.queue) -> SoundOnes] /\ f[0] = d /\ PumpedAll(d) = f[Len(d.queue)]
  /\ \A n \in 1 .. Len(d.queue) : f[n] = PumpOnce(f[n - 1])

LEMMA PumpedAllDefined ==
  ASSUME NEW d \in SoundOnes
  PROVE  \E f : Pumps(f, d)
<1> DEFINE N == Len(d.queue)
           Body(g) == [n \in 0 .. N |-> IF n = 0 THEN d ELSE PumpOnce(g[n - 1])]
           after == CHOOSE g : g = Body(g)
           G == [p \in (1 .. N) \X SoundOnes |-> PumpOnce(p[2])]
<1>1. N \in Nat
  <2>1. d.queue \in Seq(Indexes)
    BY DiscoveryTyped DEF SoundOnes
  <2> QED BY <2>1, LenProperties
<1>2. G \in [(1 .. N) \X SoundOnes -> SoundOnes]
  <2>1. ASSUME NEW e \in SoundOnes PROVE PumpOnce(e) \in SoundOnes
    BY PumpOnceKeeps DEF SoundOnes
  <2> HIDE DEF N
  <2> QED BY <2>1
<1>3. \A n \in 1 .. N : \A e \in SoundOnes : G[<<n, e>>] = PumpOnce(e)
  OBVIOUS
<1> HIDE DEF N, G
<1>4. PICK f : Follows(f, N, SoundOnes, d, G)
  BY <1>1, <1>2, RecursionExists
<1>5. f \in [0 .. N -> SoundOnes] /\ f[0] = d /\ \A n \in 1 .. N : f[n] = G[<<n, f[n - 1]>>]
  BY <1>4 DEF Follows
<1>6. ASSUME NEW n \in 1 .. N PROVE f[n] = PumpOnce(f[n - 1])
  <2>1. n - 1 \in 0 .. N
    BY <1>1
  <2>2. f[n - 1] \in SoundOnes
    BY <1>5, <2>1
  <2> QED BY <2>2, <1>3, <1>5
<1>7. f = Body(f)
  <2>1. ASSUME NEW n \in 0 .. N PROVE f[n] = Body(f)[n]
    <3>1. CASE n = 0
      BY <3>1, <1>5
    <3>2. CASE n # 0
      <4>1. n \in 1 .. N
        BY <3>2, <1>1
      <4> QED BY <4>1, <3>2, <1>6
    <3> QED BY <3>1, <3>2
  <2> QED BY <2>1, <1>5
<1>8. after = Body(after)
  BY <1>7
<1>9. PumpedAll(d) = after[N]
  BY DEF PumpedAll, N
<1> HIDE DEF after, Body
<1>10. \A n \in Nat : n <= N => after[n] = f[n]
  <2> DEFINE S == {n \in Nat : n <= N => after[n] = f[n]}
  <2>1. 0 \in S
    <3>1. Body(after)[0] = d
      BY <1>1 DEF Body
    <3> QED BY <3>1, <1>8, <1>5
  <2>2. ASSUME NEW n \in Nat, n \in S PROVE n + 1 \in S
    <3>1. SUFFICES ASSUME n + 1 <= N PROVE after[n + 1] = f[n + 1]
      OBVIOUS
    <3>2. n + 1 \in 1 .. N /\ n + 1 \in 0 .. N /\ (n + 1) - 1 = n /\ n + 1 # 0 /\ after[n] = f[n]
      BY <2>2, <3>1, <1>1
    <3>3. Body(after)[n + 1] = PumpOnce(after[n])
      BY <3>2 DEF Body
    <3> QED BY <3>2, <3>3, <1>6, <1>8
  <2> HIDE DEF S
  <2>3. \A n \in Nat : n \in S
    BY <2>1, <2>2, NumbersInduction
  <2> QED BY <2>3 DEF S
<1>11. after[N] = f[N]
  BY <1>1, <1>10
<1> QED BY <1>5, <1>6, <1>9, <1>11 DEF N, Pumps

LEMMA PumpedAllKeeps ==
  ASSUME NEW d \in Discoveries, Sound(d), NEW e, e = PumpedAll(d)
  PROVE  e \in Discoveries /\ MovesOn(d, e) /\ Sound(e) /\ (e.queue # <<>> => ActiveIndexes(e) # {})
<1>1. PICK f : Pumps(f, d)
  BY PumpedAllDefined DEF SoundOnes
<1>2. PICK N : N = Len(d.queue) /\ N \in Nat
  BY DiscoveryTyped, LenProperties
<1>3. /\ f \in [0 .. N -> SoundOnes] /\ f[0] = d /\ e = f[N]
      /\ \A n \in 1 .. N : f[n] = PumpOnce(f[n - 1])
  BY <1>1, <1>2 DEF Pumps
<1> DEFINE Ahead(x, n) == MovesOn(d, x) /\ (ActiveIndexes(x) # {} \/ Len(x.queue) <= N - n)
           Good == {n \in Nat : n <= N => Ahead(f[n], n)}
<1>4. 0 \in Good
  <2>1. MovesOn(d, d)
    BY DEF MovesOn
  <2> QED BY <2>1, <1>2, <1>3
<1>5. ASSUME NEW n \in Nat, n \in Good PROVE n + 1 \in Good
  <2>1. SUFFICES ASSUME n + 1 <= N PROVE Ahead(f[n + 1], n + 1)
    OBVIOUS
  <2>2. n + 1 \in 1 .. N /\ n \in 0 .. N /\ (n + 1) - 1 = n /\ n + 1 \in 0 .. N
    BY <1>2, <2>1
  <2>3. PICK x : x = f[n] /\ x \in Discoveries /\ Sound(x) /\ Ahead(x, n)
    BY <1>2, <1>3, <1>5, <2>1, <2>2 DEF SoundOnes
  <2>4. PICK y : y = f[n + 1] /\ y = PumpOnce(x)
    BY <1>3, <2>2, <2>3
  <2>5. /\ y \in Discoveries /\ MovesOn(x, y) /\ ActiveIndexes(x) \subseteq ActiveIndexes(y)
        /\ Len(y.queue) <= Len(x.queue)
        /\ ActiveIndexes(y) # {} \/ x.queue = <<>> \/ Len(y.queue) = Len(x.queue) - 1
    BY <2>3, <2>4, PumpOnceKeeps
  <2>6. MovesOn(d, y)
    BY <2>3, <2>5, MovesOnTwice
  <2>7. Len(x.queue) \in Nat /\ Len(y.queue) \in Nat /\ (x.queue = <<>> => Len(x.queue) = 0)
    BY <2>3, <2>5, DiscoveryTyped, LenProperties
  <2>8. ActiveIndexes(y) # {} \/ Len(y.queue) <= N - (n + 1)
    <3>1. CASE ActiveIndexes(x) # {}
      BY <3>1, <2>5
    <3>2. CASE Len(x.queue) <= N - n
      <4>1. CASE Len(y.queue) = Len(x.queue) - 1
        BY <3>2, <4>1, <1>2, <2>7
      <4>2. CASE x.queue = <<>>
        BY <4>2, <1>2, <2>1, <2>5, <2>7
      <4> QED BY <4>1, <4>2, <2>5
    <3> QED BY <3>1, <3>2, <2>3
  <2> QED BY <2>4, <2>6, <2>8
<1>6. \A n \in Nat : n \in Good
  <2> HIDE DEF Good
  <2> QED BY <1>4, <1>5, NumbersInduction, SMTT(40)
<1>7. Ahead(e, N) /\ e \in SoundOnes
  BY <1>2, <1>3, <1>6
<1>8. e.queue # <<>> => ActiveIndexes(e) # {}
  <2>1. e.queue \in Seq(Indexes) /\ Len(e.queue) \in Nat
    BY <1>7, DiscoveryTyped, LenProperties DEF SoundOnes
  <2>2. Len(e.queue) <= 0 => e.queue = <<>>
    BY <2>1, EmptySeq
  <2> QED BY <2>2, <1>2, <1>7
<1> QED BY <1>7, <1>8 DEF SoundOnes

LEMMA PumpedKeeps ==
  ASSUME NEW d \in Discoveries, Sound(d), registry # "open" => d.queue = <<>>, NEW e, e = Pumped(d)
  PROVE  /\ e \in Discoveries /\ MovesOn(d, e) /\ Sound(e)
         /\ (e.queue # <<>> => ActiveIndexes(e) # {}) /\ (registry # "open" => e.queue = <<>>)
<1>1. CASE registry = "open"
  BY <1>1, PumpedAllKeeps DEF Pumped
<1>2. CASE registry # "open"
  <2>1. MovesOn(d, d)
    BY DEF MovesOn
  <2> QED BY <1>2, <2>1 DEF Pumped
<1> QED BY <1>1, <1>2

-----------------------------------------------------------------------------
(* The registry's invariant.                                                  *)

Waiting(qry, i) == {q \in Queries : qry[q].pc = "waiting" /\ i \in qry[q].using}
QueryStates == [pc : {"idle", "waiting", "aborted", "failed", "answered"}, using : SUBSET Indexes, asked : [Providers -> Nat]]
RegistryTyped ==
  /\ disc \in Discoveries /\ revision \in [Providers -> Nat] /\ begun \in [Providers -> Nat]
  /\ query \in [Queries -> QueryStates] /\ registry \in {"open", "closing", "closed"}

\* An index was begun at a revision no later than the provider's, and its
\* content is of one between them.
RevisionsSound(d, rev) == \A i \in Indexes :
  /\ d.index[i].before <= rev[i[1]]
  /\ d.index[i].state \in {"built", "ready"} => d.index[i].before <= d.index[i].content /\ d.index[i].content <= rev[i[1]]
\* Only indexes that were begun are in use, and the map holds none other.
BegunSound(d, beg) ==
  /\ \A i \in Indexes : i[2] > beg[i[1]] => d.index[i].state = "unused"
  /\ \A p \in Providers : d.current[p] <= beg[p]
\* An index has as many users as queries wait for it.
UsersSound(d, beg, qry) == \A i \in Indexes :
  /\ d.index[i].users = Cardinality(Waiting(qry, i))
  /\ Waiting(qry, i) # {} => i[2] <= beg[i[1]]
\* Until the registry has closed, a producer at work is the map's.
MapSound(d, reg) == \A i \in Indexes : reg # "closed" /\ Pending(d.index[i]) => IsCurrent(d, i)
\* A query waits for indexes that will be no older than its question.
AskedSound(d, rev, qry) ==
  \A q \in Queries : qry[q].pc = "waiting" => \A i \in qry[q].using :
    /\ qry[q].asked[i[1]] <= rev[i[1]]
    /\ d.index[i].state = "ready" => qry[q].asked[i[1]] <= d.index[i].content
Consistent(d, rev, beg, qry, reg) ==
  RevisionsSound(d, rev) /\ BegunSound(d, beg) /\ UsersSound(d, beg, qry) /\ MapSound(d, reg) /\ AskedSound(d, rev, qry)
QueueServed(d, reg) == (reg # "open" => d.queue = <<>>) /\ (d.queue # <<>> => ActiveIndexes(d) # {})
RegistryInvariant ==
  RegistryTyped /\ Sound(disc) /\ Consistent(disc, revision, begun, query, registry) /\ QueueServed(disc, registry)

\* What the registry does of its own keeps all that relates it to the queries.
LEMMA MovesOnKeeps ==
  ASSUME NEW d \in Discoveries, NEW e \in Discoveries, MovesOn(d, e), Sound(e),
         NEW rev, NEW beg \in [Providers -> Nat], NEW qry \in [Queries -> QueryStates], NEW reg, Consistent(d, rev, beg, qry, reg)
  PROVE  Consistent(e, rev, beg, qry, reg)
<1>1. ASSUME NEW i \in Indexes
      PROVE  /\ e.index[i].users = d.index[i].users /\ e.index[i].before = d.index[i].before
             /\ e.index[i].content = d.index[i].content
             /\ \/ e.index[i].state = d.index[i].state
                \/ d.index[i].state = "queued" /\ e.index[i].state \in {"listing", "failing"}
  BY DEF MovesOn
<1>2. ASSUME NEW p \in Providers
      PROVE  e.current[p] = d.current[p] \/ (e.current[p] = 0 /\ ~Pending(d.index[<<p, d.current[p]>>]))
  BY DEF MovesOn
<1>3. ASSUME NEW i \in Indexes PROVE i[1] \in Providers /\ i = <<i[1], i[2]>>
  BY DEF Indexes
<1>4. RevisionsSound(e, rev)
  BY <1>1 DEF Consistent, RevisionsSound
<1>5. BegunSound(e, beg)
  <2>1. \A i \in Indexes : i[2] > beg[i[1]] => e.index[i].state = "unused"
    BY <1>1 DEF Consistent, BegunSound
  <2>2. ASSUME NEW p \in Providers PROVE e.current[p] <= beg[p]
    <3>1. d.current[p] <= beg[p] /\ beg[p] \in Nat
      BY DEF Consistent, BegunSound
    <3>2. e.current[p] = d.current[p] \/ e.current[p] = 0
      BY <1>2
    <3>3. CASE e.current[p] = 0
      BY <3>1, <3>3
    <3> QED BY <3>1, <3>2, <3>3
  <2> QED BY <2>1, <2>2 DEF BegunSound
<1>6. UsersSound(e, beg, qry)
  BY <1>1 DEF Consistent, UsersSound
<1>7. MapSound(e, reg)
  <2>1. SUFFICES ASSUME NEW i \in Indexes, reg # "closed", Pending(e.index[i]) PROVE IsCurrent(e, i)
    BY DEF MapSound
  <2>2. Pending(d.index[i])
    BY <1>1, <2>1 DEF Pending
  <2>3. IsCurrent(d, i)
    BY <2>1, <2>2 DEF Consistent, MapSound
  <2> QED BY <2>2, <2>3, <1>2, <1>3 DEF IsCurrent
<1>8. AskedSound(e, rev, qry)
  <2>1. SUFFICES ASSUME NEW q \in Queries, qry[q].pc = "waiting", NEW i \in qry[q].using
                 PROVE  /\ qry[q].asked[i[1]] <= rev[i[1]]
                        /\ e.index[i].state = "ready" => qry[q].asked[i[1]] <= e.index[i].content
    BY DEF AskedSound
  <2>2. i \in Indexes
    BY <2>1 DEF QueryStates
  <2>3. /\ qry[q].asked[i[1]] <= rev[i[1]]
        /\ d.index[i].state = "ready" => qry[q].asked[i[1]] <= d.index[i].content
    BY <2>1 DEF Consistent, AskedSound
  <2> QED BY <2>2, <2>3, <1>1
<1> QED BY <1>4, <1>5, <1>6, <1>7, <1>8 DEF Consistent

\* A step that ends by pumping the queue, with or without a release before it.
LEMMA PumpingEnds ==
  ASSUME NEW x \in Discoveries, Sound(x), registry # "open" => x.queue = <<>>, disc' = Pumped(x),
         Consistent(x, revision', begun', query', registry'), registry' = registry, registry \in {"open", "closing", "closed"},
         revision' \in [Providers -> Nat], begun' \in [Providers -> Nat], query' \in [Queries -> QueryStates]
  PROVE  RegistryInvariant'
<1>1. /\ disc' \in Discoveries /\ MovesOn(x, disc') /\ Sound(disc')
      /\ (disc'.queue # <<>> => ActiveIndexes(disc') # {}) /\ (registry # "open" => disc'.queue = <<>>)
  BY PumpedKeeps
<1>2. Consistent(disc', revision', begun', query', registry')
  BY <1>1, MovesOnKeeps
<1>3. RegistryTyped'
  BY <1>1 DEF RegistryTyped
<1>4. QueueServed(disc', registry')
  BY <1>1 DEF QueueServed
<1> QED BY <1>1, <1>2, <1>3, <1>4 DEF RegistryInvariant

LEMMA ReleaseEnds ==
  ASSUME NEW x \in Discoveries, UnitsMatch(x), CapacityHeld(x), QueueSound(x), NEW S \in SUBSET Indexes,
         \A j \in Indexes \ S : x.index[j].kept > 0 => Pending(x.index[j]) \/ x.index[j].users > 0 \/ IsCurrent(x, j),
         registry # "open" => x.queue = <<>>, disc' = Pumped(Unwanted(x, S)),
         Consistent(x, revision', begun', query', registry'), registry' = registry, registry \in {"open", "closing", "closed"},
         revision' \in [Providers -> Nat], begun' \in [Providers -> Nat], query' \in [Queries -> QueryStates]
  PROVE  RegistryInvariant'
<1>1. PICK e : e = Unwanted(x, S)
  OBVIOUS
<1>2. /\ e \in Discoveries /\ MovesOn(x, e) /\ (x.queue = <<>> => e.queue = <<>>)
      /\ Sound(e)
  BY <1>1, UnwantedKeeps DEF Sound
<1>3. Consistent(e, revision', begun', query', registry')
  BY <1>2, MovesOnKeeps
<1> QED BY <1>1, <1>2, <1>3, PumpingEnds

LEMMA RegistryInit == RegInit => RegistryInvariant
<1> SUFFICES ASSUME RegInit PROVE RegistryInvariant
  OBVIOUS
<1>1. /\ disc.index = [i \in Indexes |-> Unused] /\ disc.current = [p \in Providers |-> 0] /\ disc.queue = <<>>
      /\ disc = [index |-> [i \in Indexes |-> Unused], current |-> [p \in Providers |-> 0], queue |-> <<>>]
      /\ revision = [p \in Providers |-> 0] /\ begun = [p \in Providers |-> 0] /\ registry = "open"
      /\ query = [q \in Queries |-> [pc |-> "idle", using |-> {}, asked |-> [p \in Providers |-> 0]]]
  BY DEF RegInit
<1>2. /\ \A i \in Indexes : /\ disc.index[i].state = "unused" /\ disc.index[i].before = 0 /\ disc.index[i].users = 0
                            /\ disc.index[i].raw = 0 /\ disc.index[i].kept = 0
      /\ \A p \in Providers : disc.current[p] = 0
      /\ \A q \in Queries : query[q].pc = "idle"
      /\ Len(disc.queue) = 0
  BY <1>1 DEF Unused
<1>3. disc \in Discoveries
  <2>1. Unused \in IndexRecord
    BY DEF Unused, IndexRecord
  <2>2. [i \in Indexes |-> Unused] \in [Indexes -> IndexRecord]
    BY <2>1
  <2>3. [p \in Providers |-> 0] \in [Providers -> 0 .. MaxIndexes] /\ <<>> \in Seq(Indexes)
    BY RegistryAssumption
  <2> QED BY <1>1, <2>2, <2>3 DEF Discoveries
<1>4. RegistryTyped
  BY <1>1, <1>3 DEF RegistryTyped, QueryStates
<1>5. ActiveIndexes(disc) = {} /\ Used(disc) = 0
  <2>1. ActiveIndexes(disc) = {}
    BY <1>2 DEF ActiveIndexes
  <2>2. \A i \in Indexes : Height(disc, i) = 0
    BY <1>2 DEF Height
  <2>3. ASSUME NEW u \in UnitsOf(disc) PROVE FALSE
    <3>1. u \in Indexes \X Nat /\ 1 <= u[2] /\ u[2] <= Height(disc, u[1])
      BY <1>3, UnitsAre
    <3>2. u[1] \in Indexes /\ u[2] \in Nat
      BY <3>1
    <3> QED BY <3>1, <3>2, <2>2
  <2>4. UnitsOf(disc) = {}
    BY <2>3
  <2> QED BY <2>1, <2>4, FS_EmptySet DEF Used
<1>6. Sound(disc)
  <2>1. CapacityHeld(disc)
    BY <1>5, FS_EmptySet, RegistryAssumption DEF CapacityHeld, RawSlots
  <2>2. UnitsMatch(disc) /\ NothingLeaks(disc)
    BY <1>2 DEF UnitsMatch, NothingLeaks
  <2>3. QueueSound(disc)
    BY <1>2 DEF QueueSound
  <2> QED BY <2>1, <2>2, <2>3 DEF Sound
<1>7. Consistent(disc, revision, begun, query, registry)
  <2>1. \A i \in Indexes : i[1] \in Providers /\ i[2] \in Nat
    BY RegistryAssumption DEF Indexes
  <2>2. RevisionsSound(disc, revision)
    BY <1>1, <1>2, <2>1 DEF RevisionsSound
  <2>3. BegunSound(disc, begun)
    BY <1>1, <1>2 DEF BegunSound
  <2>4. \A i \in Indexes : Waiting(query, i) = {}
    BY <1>2 DEF Waiting
  <2>5. UsersSound(disc, begun, query)
    BY <1>2, <2>4, FS_EmptySet DEF UsersSound
  <2>6. MapSound(disc, registry)
    BY <1>2 DEF MapSound, Pending
  <2>7. AskedSound(disc, revision, query)
    BY <1>2 DEF AskedSound
  <2> QED BY <2>2, <2>3, <2>5, <2>6, <2>7 DEF Consistent
<1> QED BY <1>1, <1>4, <1>6, <1>7 DEF RegistryInvariant, QueueServed

LEMMA RegistryStutter == ASSUME RegistryInvariant, UNCHANGED regVars PROVE RegistryInvariant'
<1>1. disc' = disc /\ revision' = revision /\ begun' = begun /\ query' = query /\ registry' = registry
  BY DEF regVars
<1> QED BY <1>1 DEF RegistryInvariant, RegistryTyped

\* A provider changes: what was no later than its revision still is not.
LEMMA ReviseKeeps ==
  ASSUME RegistryInvariant, NEW p \in Providers, Revise(p)
  PROVE  RegistryInvariant'
<1>1. disc' = disc /\ begun' = begun /\ query' = query /\ registry' = registry /\ revision' = [revision EXCEPT ![p] = @ + 1]
  BY DEF Revise
<1>2. /\ disc \in Discoveries /\ revision \in [Providers -> Nat] /\ begun \in [Providers -> Nat]
      /\ query \in [Queries -> QueryStates] /\ registry \in {"open", "closing", "closed"}
      /\ Consistent(disc, revision, begun, query, registry)
  BY DEF RegistryInvariant, RegistryTyped
<1>3. revision' \in [Providers -> Nat] /\ \A r \in Providers : revision[r] \in Nat /\ revision'[r] \in Nat /\ revision[r] <= revision'[r]
  BY <1>1, <1>2
<1>4. \A i \in Indexes : i[1] \in Providers
  BY DEF Indexes
<1>5. RevisionsSound(disc, revision')
  <2>1. ASSUME NEW i \in Indexes
        PROVE  /\ disc.index[i].before <= revision'[i[1]]
               /\ disc.index[i].state \in {"built", "ready"} =>
                    disc.index[i].before <= disc.index[i].content /\ disc.index[i].content <= revision'[i[1]]
    <3>1. /\ disc.index[i].before <= revision[i[1]]
          /\ disc.index[i].state \in {"built", "ready"} =>
               disc.index[i].before <= disc.index[i].content /\ disc.index[i].content <= revision[i[1]]
      BY <1>2 DEF Consistent, RevisionsSound
    <3>2. disc.index[i].before \in Nat /\ disc.index[i].content \in Nat
      BY <1>2, DiscoveryTyped DEF IndexRecord
    <3>3. revision[i[1]] \in Nat /\ revision'[i[1]] \in Nat /\ revision[i[1]] <= revision'[i[1]]
      BY <1>3, <1>4
    <3> QED BY <3>1, <3>2, <3>3
  <2> QED BY <2>1 DEF RevisionsSound
<1>6. AskedSound(disc, revision', query)
  <2>1. SUFFICES ASSUME NEW q \in Queries, query[q].pc = "waiting", NEW i \in query[q].using
                 PROVE  /\ query[q].asked[i[1]] <= revision'[i[1]]
                        /\ disc.index[i].state = "ready" => query[q].asked[i[1]] <= disc.index[i].content
    BY DEF AskedSound
  <2>2. query[q].using \subseteq Indexes /\ query[q].asked \in [Providers -> Nat]
    BY <1>2 DEF QueryStates
  <2>3. i[1] \in Providers
    BY <2>2, <1>4
  <2>4. query[q].asked[i[1]] \in Nat
    BY <2>2, <2>3
  <2>5. /\ query[q].asked[i[1]] <= revision[i[1]]
        /\ disc.index[i].state = "ready" => query[q].asked[i[1]] <= disc.index[i].content
    BY <1>2, <2>1 DEF Consistent, AskedSound
  <2>6. revision[i[1]] \in Nat /\ revision'[i[1]] \in Nat /\ revision[i[1]] <= revision'[i[1]]
    BY <1>3, <2>3
  <2> QED BY <2>4, <2>5, <2>6
<1>7. Consistent(disc, revision', begun, query, registry)
  BY <1>2, <1>5, <1>6 DEF Consistent
<1> QED BY <1>1, <1>2, <1>3, <1>7 DEF RegistryInvariant, RegistryTyped

\* Closing cancels what is queued at once and empties the queue.
LEMMA ClosesKeeps ==
  ASSUME RegistryInvariant, RegistryCloses
  PROVE  RegistryInvariant'
<1>1. /\ registry = "open" /\ registry' = "closing" /\ revision' = revision /\ begun' = begun /\ query' = query
      /\ disc' = [FailingAll(disc, ToSet(disc.queue)) EXCEPT !.queue = <<>>]
  BY DEF RegistryCloses
<1>2. /\ disc \in Discoveries /\ revision \in [Providers -> Nat] /\ begun \in [Providers -> Nat]
      /\ query \in [Queries -> QueryStates] /\ Sound(disc)
      /\ Consistent(disc, revision, begun, query, registry)
  BY DEF RegistryInvariant, RegistryTyped
<1>3. PICK S : S = ToSet(disc.queue)
  OBVIOUS
<1>4. S \subseteq Indexes /\ \A i \in S : disc.index[i].state = "queued"
  <2>1. S = {disc.queue[k] : k \in DOMAIN disc.queue}
    BY <1>3 DEF ToSet
  <2>2. DOMAIN disc.queue = 1 .. Len(disc.queue) /\ \A k \in 1 .. Len(disc.queue) : disc.queue[k] \in Indexes
    BY <1>2, DiscoveryTyped, LenProperties, ElementOfSeq
  <2> QED BY <2>1, <2>2, <1>2 DEF Sound, QueueSound
<1>5. PICK e : e = FailingAll(disc, S)
  OBVIOUS
<1>6. /\ e \in Discoveries /\ MovesOn(disc, e) /\ Sound(e)
  BY <1>2, <1>4, <1>5, CancelKeeps DEF Sound
<1>7. Consistent(e, revision, begun, query, registry)
  BY <1>2, <1>6, MovesOnKeeps
<1>8. PICK f : f = disc'
  OBVIOUS
<1>9. e = [index |-> e.index, current |-> e.current, queue |-> e.queue]
  BY <1>6 DEF Discoveries
<1>10. f = [index |-> e.index, current |-> e.current, queue |-> <<>>]
  BY <1>1, <1>3, <1>5, <1>8, <1>9
<1>11. f.index = e.index /\ f.current = e.current /\ f.queue = <<>> /\ Len(f.queue) = 0
  BY <1>10
<1>12. f \in Discoveries
  BY <1>6, <1>10, DiscoveryTyped DEF Discoveries
<1>13. Sound(f)
  <2>1. UnitsMatch(f) /\ NothingLeaks(f)
    BY <1>6, <1>11 DEF Sound, UnitsMatch, NothingLeaks, IsCurrent
  <2>2. UnitsOf(f) = UnitsOf(e) /\ ActiveIndexes(f) = ActiveIndexes(e)
    BY <1>11 DEF UnitsOf, ActiveIndexes
  <2>3. CapacityHeld(f)
    BY <2>2, <1>6 DEF Sound, CapacityHeld, Used
  <2>4. QueueSound(f)
    BY <1>11 DEF QueueSound
  <2> QED BY <2>1, <2>3, <2>4 DEF Sound
<1>14. Consistent(f, revision, begun, query, registry')
  BY <1>1, <1>7, <1>11 DEF Consistent, RevisionsSound, BegunSound, UsersSound, MapSound, AskedSound, IsCurrent
<1>15. RegistryTyped' /\ QueueServed(f, registry')
  BY <1>1, <1>2, <1>8, <1>11, <1>12 DEF RegistryTyped, QueueServed
<1> QED BY <1>1, <1>8, <1>13, <1>14, <1>15 DEF RegistryInvariant

\* When the providers have closed the idle indexes and the map go.
LEMMA ClearKeeps ==
  ASSUME RegistryInvariant, ClearRegistry
  PROVE  RegistryInvariant'
<1>1. /\ registry = "closing" /\ registry' = "closed" /\ revision' = revision /\ begun' = begun /\ query' = query
      /\ disc' = [WithoutQuery(disc, Evictable(disc)) EXCEPT !.current = [p \in Providers |-> 0]]
  BY DEF ClearRegistry
<1>2. /\ disc \in Discoveries /\ revision \in [Providers -> Nat] /\ begun \in [Providers -> Nat]
      /\ query \in [Queries -> QueryStates] /\ Sound(disc)
      /\ Consistent(disc, revision, begun, query, registry) /\ QueueServed(disc, registry)
  BY DEF RegistryInvariant, RegistryTyped
<1>3. PICK S : S = Evictable(disc)
  OBVIOUS
<1>4. /\ S \subseteq Indexes /\ \A i \in S : ~Pending(disc.index[i])
      /\ \A i \in Indexes : IsCurrent(disc, i) /\ ~Pending(disc.index[i]) /\ disc.index[i].users = 0 => i \in S
  BY <1>3 DEF Evictable
<1>5. PICK e : e = WithoutQuery(disc, S)
  OBVIOUS
<1>6. /\ e \in Discoveries /\ MovesOn(disc, e) /\ Sound(e) /\ e.queue = disc.queue
  BY <1>2, <1>4, <1>5, DroppingKeeps DEF Sound
<1>7. Consistent(e, revision, begun, query, registry)
  BY <1>2, <1>6, MovesOnKeeps
<1>16. \A i \in Indexes : /\ e.index[i].state = disc.index[i].state /\ e.index[i].users = disc.index[i].users
                          /\ e.index[i].kept = IF i \in S THEN 0 ELSE disc.index[i].kept
  BY <1>2, <1>4, <1>5, WithoutIs
<1>8. PICK f : f = disc'
  OBVIOUS
<1>9. e = [index |-> e.index, current |-> e.current, queue |-> e.queue]
  BY <1>6 DEF Discoveries
<1>10. f = [index |-> e.index, current |-> [p \in Providers |-> 0], queue |-> e.queue]
  BY <1>1, <1>3, <1>5, <1>8, <1>9
<1>11. f.index = e.index /\ f.queue = e.queue /\ f.queue = <<>> /\ \A p \in Providers : f.current[p] = 0
  BY <1>1, <1>2, <1>6, <1>10 DEF QueueServed
<1>12. f \in Discoveries
  <2>1. [p \in Providers |-> 0] \in [Providers -> 0 .. MaxIndexes]
    BY RegistryAssumption
  <2> QED BY <2>1, <1>6, <1>10, DiscoveryTyped DEF Discoveries
<1>13. Sound(f)
  <2>1. UnitsMatch(f)
    BY <1>6, <1>11 DEF Sound, UnitsMatch
  <2>2. UnitsOf(f) = UnitsOf(e) /\ ActiveIndexes(f) = ActiveIndexes(e)
    BY <1>11 DEF UnitsOf, ActiveIndexes
  <2>3. CapacityHeld(f)
    BY <2>2, <1>6 DEF Sound, CapacityHeld, Used
  <2>4. QueueSound(f)
    BY <1>6, <1>11 DEF Sound, QueueSound
  <2>5. ASSUME NEW i \in Indexes, f.index[i].kept > 0 PROVE Pending(f.index[i]) \/ f.index[i].users > 0
    <3>1. i \notin S /\ disc.index[i].kept > 0
      BY <2>5, <1>11, <1>16
    <3>2. Pending(disc.index[i]) \/ disc.index[i].users > 0 \/ IsCurrent(disc, i)
      BY <3>1, <1>2 DEF Sound, NothingLeaks
    <3>3. Pending(disc.index[i]) \/ disc.index[i].users > 0 \/ disc.index[i].users = 0
      BY <1>2, DiscoveryTyped
    <3>4. Pending(disc.index[i]) \/ disc.index[i].users > 0
      BY <3>1, <3>2, <3>3, <1>4
    <3> QED BY <3>4, <1>11, <1>16 DEF Pending
  <2> QED BY <2>1, <2>3, <2>4, <2>5 DEF Sound, NothingLeaks
<1>14. Consistent(f, revision, begun, query, registry')
  <2>1. BegunSound(f, begun)
    BY <1>2, <1>7, <1>11 DEF Consistent, BegunSound
  <2> QED BY <2>1, <1>1, <1>7, <1>11 DEF Consistent, RevisionsSound, UsersSound, MapSound, AskedSound
<1>15. RegistryTyped' /\ QueueServed(f, registry')
  BY <1>1, <1>2, <1>8, <1>11, <1>12 DEF RegistryTyped, QueueServed
<1> QED BY <1>1, <1>8, <1>13, <1>14, <1>15 DEF RegistryInvariant

-----------------------------------------------------------------------------
(* What producers do to their own index.                                      *)

\* One producer's record changes, and it may go to the end of the queue.
Moved(d, f, i, y, n) == LET x == d.index[i] IN
  /\ f = [index |-> [d.index EXCEPT ![i] = y], current |-> d.current,
          queue |-> IF y.state = "queued" THEN Append(d.queue, i) ELSE d.queue]
  /\ x.state \in {"listing", "built"} /\ y \in IndexRecord /\ y.users = x.users
  /\ y.state \in {"listing", "built", "failing", "ready", "queued"}
  /\ y.raw + y.kept <= x.raw + x.kept + n /\ (n = 0 \/ FitsCapacity(d, n)) /\ (y.raw > 0 => x.raw > 0)
  /\ y.state = "listing" => IndexUnits <= y.raw /\ y.kept = 0
  /\ y.state = "queued" => y.raw = 0 /\ y.kept = 0
  /\ y.before <= revision[i[1]]
  /\ y.state \in {"built", "ready"} => y.before <= y.content /\ y.content <= revision[i[1]]
  /\ y.state = "ready" => y.raw = 0 /\ y.content = revision[i[1]] /\ registry = "open"

LEMMA MovedIs ==
  ASSUME NEW d \in Discoveries, NEW i \in Indexes, NEW y, NEW f, NEW n, Moved(d, f, i, y, n)
  PROVE  /\ f \in Discoveries /\ f.current = d.current
         /\ f.queue = IF y.state = "queued" THEN Append(d.queue, i) ELSE d.queue
         /\ f.index[i] = y /\ \A j \in Indexes : j # i => f.index[j] = d.index[j]
<1>1. PICK s : s = IF y.state = "queued" THEN Append(d.queue, i) ELSE d.queue
  OBVIOUS
<1>2. f = [index |-> [d.index EXCEPT ![i] = y], current |-> d.current, queue |-> s] /\ y \in IndexRecord
  BY <1>1 DEF Moved
<1>3. s \in Seq(Indexes)
  BY <1>1, DiscoveryTyped, AppendProperties
<1>4. [d.index EXCEPT ![i] = y] \in [Indexes -> IndexRecord]
  BY <1>2, DiscoveryTyped
<1>5. f \in Discoveries
  BY <1>2, <1>3, <1>4, DiscoveryTyped DEF Discoveries
<1>6. f.index[i] = y /\ \A j \in Indexes : j # i => f.index[j] = d.index[j]
  BY <1>2, DiscoveryTyped
<1> QED BY <1>1, <1>2, <1>5, <1>6

LEMMA MovedSound ==
  ASSUME NEW d \in Discoveries, Sound(d), NEW i \in Indexes, NEW y, NEW f, NEW n \in Nat, Moved(d, f, i, y, n),
         MapSound(d, registry)
  PROVE  Sound(f)
<1>1. /\ f \in Discoveries /\ f.current = d.current
      /\ f.queue = IF y.state = "queued" THEN Append(d.queue, i) ELSE d.queue
      /\ f.index[i] = y /\ \A j \in Indexes : j # i => f.index[j] = d.index[j]
  BY MovedIs
<1>2. PICK x : x = d.index[i] /\ x \in IndexRecord
  BY DiscoveryTyped
<1>3. /\ x.state \in {"listing", "built"} /\ y \in IndexRecord /\ y.users = x.users
      /\ y.state \in {"listing", "built", "failing", "ready", "queued"}
      /\ y.raw + y.kept <= x.raw + x.kept + n /\ (n = 0 \/ FitsCapacity(d, n)) /\ (y.raw > 0 => x.raw > 0)
      /\ y.state = "listing" => IndexUnits <= y.raw /\ y.kept = 0
      /\ y.state = "queued" => y.raw = 0 /\ y.kept = 0
      /\ y.state = "ready" => y.raw = 0 /\ registry = "open"
  BY <1>2 DEF Moved
<1>4. UnitsMatch(f)
  <2>1. SUFFICES ASSUME NEW j \in Indexes
        PROVE  /\ f.index[j].state \in {"unused", "queued"} => f.index[j].raw = 0 /\ f.index[j].kept = 0
               /\ f.index[j].state = "listing" => IndexUnits <= f.index[j].raw /\ f.index[j].kept = 0
               /\ f.index[j].state \in {"ready", "failed"} => f.index[j].raw = 0
    BY DEF UnitsMatch
  <2>2. CASE j = i
    BY <2>2, <1>1, <1>3
  <2>3. CASE j # i
    BY <2>3, <1>1 DEF Sound, UnitsMatch
  <2> QED BY <2>2, <2>3
<1>5. NothingLeaks(f)
  <2>1. SUFFICES ASSUME NEW j \in Indexes, f.index[j].kept > 0
                 PROVE  Pending(f.index[j]) \/ f.index[j].users > 0 \/ IsCurrent(f, j)
    BY DEF NothingLeaks
  <2>2. CASE j = i
    <3>1. Pending(y) \/ y.state = "ready"
      <4>1. y.state \in {"listing", "built", "failing", "ready", "queued"}
        BY <1>3
      <4> QED BY <4>1 DEF Pending
    <3>2. CASE y.state = "ready"
      <4>1. Pending(x) /\ registry = "open"
        BY <3>2, <1>3 DEF Pending
      <4>2. IsCurrent(d, i)
        BY <4>1, <1>2 DEF MapSound
      <4> QED BY <4>2, <2>2, <1>1 DEF IsCurrent
    <3> QED BY <3>1, <3>2, <2>2, <1>1
  <2>3. CASE j # i
    BY <2>1, <2>3, <1>1 DEF Sound, NothingLeaks, IsCurrent
  <2> QED BY <2>2, <2>3
<1>6. CapacityHeld(f)
  <2>1. ActiveIndexes(f) \subseteq ActiveIndexes(d)
    <3>1. SUFFICES ASSUME NEW j \in Indexes, f.index[j].raw > 0 PROVE d.index[j].raw > 0
      BY DEF ActiveIndexes
    <3>2. CASE j = i
      BY <3>1, <3>2, <1>1, <1>2, <1>3
    <3>3. CASE j # i
      BY <3>1, <3>3, <1>1
    <3> QED BY <3>2, <3>3
  <2>2. IsFiniteSet(ActiveIndexes(d))
    BY IndexesFinite, FS_Subset DEF ActiveIndexes
  <2>3. /\ Cardinality(ActiveIndexes(f)) <= Cardinality(ActiveIndexes(d))
        /\ Cardinality(ActiveIndexes(f)) \in Nat /\ Cardinality(ActiveIndexes(d)) \in Nat
    BY <2>1, <2>2, FS_Subset, FS_CardinalityType
  <2>4. ASSUME NEW j \in Indexes, j # i PROVE Height(f, j) <= Height(d, j)
    <3>1. Height(f, j) = Height(d, j)
      BY <2>4, <1>1 DEF Height
    <3> QED BY <3>1, DiscoveryTyped
  <2>5. Height(f, i) <= Height(d, i) + n
    BY <1>1, <1>2, <1>3 DEF Height
  <2>6. Used(f) <= Used(d) + n /\ Used(f) \in Nat /\ Used(d) \in Nat /\ Capacity \in Nat
    BY <1>1, <2>4, <2>5, UnitsGrow, UnitsAre, RegistryAssumption
  <2>7. Used(d) <= Capacity /\ Cardinality(ActiveIndexes(d)) <= RawSlots
    BY DEF Sound, CapacityHeld
  <2>8. Used(d) + n <= Capacity
    BY <2>6, <2>7, <1>3 DEF FitsCapacity
  <2>9. Cardinality(ActiveIndexes(f)) <= RawSlots
    BY <2>3, <2>7 DEF RawSlots
  <2> QED BY <2>6, <2>8, <2>9 DEF CapacityHeld
<1>7. QueueSound(f)
  <2>1. PICK s : s = d.queue /\ s \in Seq(Indexes) /\ Len(s) \in Nat
    BY DiscoveryTyped, LenProperties
  <2>2. /\ \A k \in 1 .. Len(s) : s[k] \in Indexes /\ d.index[s[k]].state = "queued"
        /\ \A k, l \in 1 .. Len(s) : s[k] = s[l] => k = l
    BY <2>1, ElementOfSeq DEF Sound, QueueSound
  <2>3. \A k \in 1 .. Len(s) : s[k] # i /\ f.index[s[k]].state = "queued"
    BY <2>2, <1>1, <1>2, <1>3
  <2>4. CASE y.state = "queued"
    <3>1. PICK t : t = f.queue /\ t = Append(s, i)
      BY <2>1, <2>4, <1>1
    <3>2. /\ Len(t) = Len(s) + 1 /\ t[Len(s) + 1] = i /\ \A k \in 1 .. Len(s) : t[k] = s[k]
      BY <3>1, <2>1, AppendProperties
    <3>3. \A k \in 1 .. Len(t) : k \in 1 .. Len(s) \/ k = Len(s) + 1
      BY <3>2, <2>1
    <3>4. \A k \in 1 .. Len(t) : f.index[t[k]].state = "queued"
      BY <3>2, <3>3, <2>3, <2>4, <1>1
    <3>5. \A k, l \in 1 .. Len(t) : t[k] = t[l] => k = l
      BY <3>2, <3>3, <2>2, <2>3
    <3> QED BY <3>1, <3>4, <3>5 DEF QueueSound
  <2>5. CASE y.state # "queued"
    BY <2>1, <2>2, <2>3, <2>5, <1>1 DEF QueueSound
  <2> QED BY <2>4, <2>5
<1> QED BY <1>4, <1>5, <1>6, <1>7 DEF Sound

LEMMA MovedConsistent ==
  ASSUME NEW d \in Discoveries, NEW i \in Indexes, NEW y, NEW f, NEW n \in Nat, Moved(d, f, i, y, n),
         revision \in [Providers -> Nat], begun \in [Providers -> Nat], query \in [Queries -> QueryStates],
         Consistent(d, revision, begun, query, registry)
  PROVE  Consistent(f, revision, begun, query, registry)
<1>1. f \in Discoveries /\ f.current = d.current /\ f.index[i] = y /\ \A j \in Indexes : j # i => f.index[j] = d.index[j]
  BY MovedIs
<1>2. PICK x : x = d.index[i] /\ x \in IndexRecord
  BY DiscoveryTyped
<1>3. /\ x.state \in {"listing", "built"} /\ y.users = x.users
      /\ y.before <= revision[i[1]]
      /\ y.state \in {"built", "ready"} => y.before <= y.content /\ y.content <= revision[i[1]]
      /\ y.state = "ready" => y.content = revision[i[1]]
  BY <1>2 DEF Moved
<1>4. RevisionsSound(f, revision)
  <2>1. SUFFICES ASSUME NEW j \in Indexes
        PROVE  /\ f.index[j].before <= revision[j[1]]
               /\ f.index[j].state \in {"built", "ready"} =>
                    f.index[j].before <= f.index[j].content /\ f.index[j].content <= revision[j[1]]
    BY DEF RevisionsSound
  <2>2. CASE j = i
    BY <2>2, <1>1, <1>3
  <2>3. CASE j # i
    BY <2>3, <1>1 DEF Consistent, RevisionsSound
  <2> QED BY <2>2, <2>3
<1>5. BegunSound(f, begun)
  <2>1. ASSUME NEW j \in Indexes, j[2] > begun[j[1]] PROVE f.index[j].state = "unused"
    <3>1. d.index[j].state = "unused"
      BY <2>1 DEF Consistent, BegunSound
    <3>2. j # i
      BY <3>1, <1>2, <1>3
    <3> QED BY <3>1, <3>2, <1>1
  <2> QED BY <2>1, <1>1 DEF Consistent, BegunSound
<1>6. UsersSound(f, begun, query)
  <2>1. \A j \in Indexes : f.index[j].users = d.index[j].users
    BY <1>1, <1>2, <1>3
  <2> QED BY <2>1 DEF Consistent, UsersSound
<1>7. MapSound(f, registry)
  <2>1. SUFFICES ASSUME NEW j \in Indexes, registry # "closed", Pending(f.index[j]) PROVE IsCurrent(f, j)
    BY DEF MapSound
  <2>2. Pending(d.index[j])
    <3>1. CASE j = i
      BY <3>1, <1>2, <1>3 DEF Pending
    <3>2. CASE j # i
      BY <3>2, <2>1, <1>1
    <3> QED BY <3>1, <3>2
  <2>3. IsCurrent(d, j)
    BY <2>1, <2>2 DEF Consistent, MapSound
  <2> QED BY <2>3, <1>1 DEF IsCurrent
<1>8. AskedSound(f, revision, query)
  <2>1. SUFFICES ASSUME NEW q \in Queries, query[q].pc = "waiting", NEW j \in query[q].using
                 PROVE  /\ query[q].asked[j[1]] <= revision[j[1]]
                        /\ f.index[j].state = "ready" => query[q].asked[j[1]] <= f.index[j].content
    BY DEF AskedSound
  <2>2. j \in Indexes
    BY <2>1 DEF QueryStates
  <2>3. /\ query[q].asked[j[1]] <= revision[j[1]]
        /\ d.index[j].state = "ready" => query[q].asked[j[1]] <= d.index[j].content
    BY <2>1 DEF Consistent, AskedSound
  <2>4. CASE j = i
    BY <2>3, <2>4, <1>1, <1>3
  <2>5. CASE j # i
    BY <2>2, <2>3, <2>5, <1>1
  <2> QED BY <2>4, <2>5
<1> QED BY <1>4, <1>5, <1>6, <1>7, <1>8 DEF Consistent

\* A discovery record is its three fields.
LEMMA DiscoveryIs ==
  ASSUME NEW d \in Discoveries
  PROVE  d = [index |-> d.index, current |-> d.current, queue |-> d.queue]
BY DEF Discoveries

\* The provider has listed its actions, or failed to: the slot shrinks to what
\* the index needs, room is made for it, and the index is built, or fails.
LEMMA ListedKeeps ==
  ASSUME RegistryInvariant, NEW i \in Indexes, ListedNames(i)
  PROVE  RegistryInvariant'
<1>1. /\ disc \in Discoveries /\ revision \in [Providers -> Nat] /\ begun \in [Providers -> Nat]
      /\ query \in [Queries -> QueryStates] /\ registry \in {"open", "closing", "closed"} /\ Sound(disc)
      /\ Consistent(disc, revision, begun, query, registry) /\ QueueServed(disc, registry)
  BY DEF RegistryInvariant, RegistryTyped
<1>2. PICK small, d : small = [disc EXCEPT !.index[i].raw = IndexUnits] /\ d = RoomFor(small, IndexUnits)
  OBVIOUS
<1>3. /\ disc.index[i].state = "listing"
      /\ \/ disc' = Failing(disc, i)
         \/ /\ registry = "open" /\ FitsCapacity(d, IndexUnits)
            /\ disc' = [d EXCEPT !.index[i].state = "built", !.index[i].kept = IndexUnits, !.index[i].content = revision[i[1]]]
         \/ registry = "open" /\ disc' = Failing(d, i)
      /\ revision' = revision /\ begun' = begun /\ query' = query /\ registry' = registry
  <2>1. /\ disc.index[i].state = "listing"
        /\ disc' \in {Failing(disc, i)} \union (IF registry # "open" THEN {}
             ELSE IF FitsCapacity(d, IndexUnits)
               THEN {[d EXCEPT !.index[i].state = "built", !.index[i].kept = IndexUnits, !.index[i].content = revision[i[1]]]}
               ELSE {Failing(d, i)})
        /\ revision' = revision /\ begun' = begun /\ query' = query /\ registry' = registry
    BY <1>2 DEF ListedNames
  <2> QED BY <2>1
<1>4. IndexUnits \in Nat /\ IndexUnits > 0 /\ 0 \in Nat /\ i[1] \in Providers
  BY RegistryAssumption DEF Indexes
<1>5. PICK x : x = disc.index[i] /\ x \in IndexRecord /\ x.state = "listing"
  BY <1>1, <1>3, DiscoveryTyped
<1>6. x.raw \in Nat /\ IndexUnits <= x.raw /\ x.kept = 0 /\ x.before \in Nat /\ x.before <= revision[i[1]]
  BY <1>1, <1>5 DEF Sound, UnitsMatch, IndexRecord, Consistent, RevisionsSound
\* From any sound record in which i is still at work, its failure is sound.
<1>7. ASSUME NEW c \in Discoveries, Sound(c), Consistent(c, revision, begun, query, registry), QueueServed(c, registry),
             c.index[i].state = "listing", c.index[i].raw > 0, disc' = Failing(c, i)
      PROVE  RegistryInvariant'
  <2>1. PICK z : z = c.index[i] /\ z \in IndexRecord
    BY <1>7, DiscoveryTyped
  <2>2. PICK y : y = [z EXCEPT !.state = "failing"]
    OBVIOUS
  <2>3. /\ y \in IndexRecord /\ y.users = z.users /\ y.before = z.before /\ y.state = "failing"
        /\ y.raw = z.raw /\ y.kept = z.kept /\ z.raw \in Nat /\ z.kept \in Nat
    BY <2>1, <2>2 DEF IndexRecord
  <2>4. disc' = [index |-> [c.index EXCEPT ![i] = y], current |-> c.current, queue |-> c.queue]
    <3>1. c = [index |-> c.index, current |-> c.current, queue |-> c.queue]
      BY <1>7, DiscoveryIs
    <3> QED BY <3>1, <1>7, <2>1, <2>2 DEF Failing
  <2>5. z.before <= revision[i[1]]
    BY <1>7, <2>1 DEF Consistent, RevisionsSound
  <2>6. Moved(c, disc', i, y, 0)
    BY <1>7, <2>1, <2>3, <2>4, <2>5 DEF Moved
  <2>7. Sound(disc') /\ Consistent(disc', revision, begun, query, registry)
    BY <1>1, <1>4, <1>7, <2>6, MovedSound, MovedConsistent DEF Consistent
  <2>8. disc' \in Discoveries /\ disc'.index[i].raw > 0 /\ disc'.queue = c.queue
    BY <1>4, <1>7, <2>1, <2>3, <2>6, MovedIs
  <2>9. QueueServed(disc', registry)
    BY <1>7, <2>8 DEF QueueServed, ActiveIndexes
  <2> QED BY <1>1, <1>3, <2>7, <2>8, <2>9 DEF RegistryInvariant, RegistryTyped
<1>8. CASE disc' = Failing(disc, i)
  <2>1. disc.index[i].raw > 0
    BY <1>4, <1>5, <1>6
  <2> QED BY <1>1, <1>3, <1>7, <1>8, <2>1
<1>9. ASSUME registry = "open" PROVE
        /\ d \in Discoveries /\ Sound(d) /\ Consistent(d, revision, begun, query, registry) /\ QueueServed(d, registry)
        /\ d.index[i].state = "listing" /\ d.index[i].raw = IndexUnits /\ d.index[i].kept = 0
        /\ d.index[i].before <= revision[i[1]]
  <2>1. PICK y : y = [x EXCEPT !.raw = IndexUnits]
    OBVIOUS
  <2>2. /\ y \in IndexRecord /\ y.users = x.users /\ y.before = x.before /\ y.state = "listing"
        /\ y.raw = IndexUnits /\ y.kept = 0
    BY <1>4, <1>5, <1>6, <2>1 DEF IndexRecord
  <2>3. small = [index |-> [disc.index EXCEPT ![i] = y], current |-> disc.current, queue |-> disc.queue]
    <3>1. disc = [index |-> disc.index, current |-> disc.current, queue |-> disc.queue]
      BY <1>1, DiscoveryIs
    <3> QED BY <3>1, <1>2, <1>5, <2>1
  <2>4. Moved(disc, small, i, y, 0)
    BY <1>4, <1>5, <1>6, <2>2, <2>3 DEF Moved
  <2>5. Sound(small) /\ Consistent(small, revision, begun, query, registry)
    BY <1>1, <1>4, <2>4, MovedSound, MovedConsistent DEF Consistent
  <2>6. small \in Discoveries /\ small.queue = disc.queue /\ small.index[i] = y
    BY <1>1, <2>2, <2>4, MovedIs
  <2>7. /\ d \in Discoveries /\ MovesOn(small, d) /\ d.queue = small.queue /\ Sound(d)
        /\ d.index[i].state = "listing" /\ d.index[i].raw = IndexUnits /\ d.index[i].kept = 0
    <3>1. Pending(small.index[i])
      BY <2>2, <2>6 DEF Pending
    <3>2. /\ d \in Discoveries /\ MovesOn(small, d) /\ d.queue = small.queue /\ Sound(d)
          /\ d.index[i].state = small.index[i].state /\ d.index[i].raw = small.index[i].raw
          /\ d.index[i].kept = small.index[i].kept
      <4>1. small \in Discoveries /\ IndexUnits \in Nat /\ d = RoomFor(small, IndexUnits)
        BY <1>2, <1>4, <2>6
      <4>2. d \in Discoveries /\ MovesOn(small, d) /\ d.queue = small.queue
        BY <4>1, RoomKeeps
      <4>3. Sound(d)
        BY <4>1, <2>5, RoomKeeps DEF Sound
      <4>4. /\ d.index[i].state = small.index[i].state /\ d.index[i].raw = small.index[i].raw
            /\ d.index[i].kept = small.index[i].kept
        BY <3>1, <4>1, RoomKeeps
      <4> QED BY <4>2, <4>3, <4>4
    <3> QED BY <3>2, <2>2, <2>6
  <2>8. Consistent(d, revision, begun, query, registry)
    BY <1>1, <2>5, <2>6, <2>7, MovesOnKeeps
  <2>9. QueueServed(d, registry)
    BY <1>4, <1>9, <2>7 DEF QueueServed, ActiveIndexes
  <2>10. d.index[i].before <= revision[i[1]]
    BY <2>8 DEF Consistent, RevisionsSound
  <2> QED BY <2>7, <2>8, <2>9, <2>10
<1>10. CASE registry = "open" /\ disc' = Failing(d, i)
  BY <1>4, <1>7, <1>9, <1>10
<1>11. CASE /\ registry = "open" /\ FitsCapacity(d, IndexUnits)
            /\ disc' = [d EXCEPT !.index[i].state = "built", !.index[i].kept = IndexUnits, !.index[i].content = revision[i[1]]]
  <2>1. PICK z : z = d.index[i] /\ z \in IndexRecord
    BY <1>9, <1>11, DiscoveryTyped
  <2>2. PICK y1, y2, y : y1 = [z EXCEPT !.state = "built"] /\ y2 = [y1 EXCEPT !.kept = IndexUnits] /\ y = [y2 EXCEPT !.content = revision[i[1]]]
    OBVIOUS
  <2>3. revision[i[1]] \in Nat
    BY <1>1, <1>4
  <2>4. y1 \in IndexRecord /\ y2 \in IndexRecord
    BY <1>4, <2>1, <2>2 DEF IndexRecord
  <2>5. /\ y \in IndexRecord /\ y.users = z.users /\ y.before = z.before /\ y.state = "built"
        /\ y.raw = z.raw /\ y.kept = IndexUnits /\ y.content = revision[i[1]]
    BY <1>4, <2>1, <2>2, <2>3 DEF IndexRecord
  <2>6. PICK e1, e2 : e1 = [d EXCEPT !.index[i].state = "built"] /\ e2 = [e1 EXCEPT !.index[i].kept = IndexUnits]
    OBVIOUS
  <2>7. disc' = [e2 EXCEPT !.index[i].content = revision[i[1]]]
    BY <1>11, <2>6
  <2>8. e1 = [index |-> [d.index EXCEPT ![i] = y1], current |-> d.current, queue |-> d.queue]
    <3>1. d = [index |-> d.index, current |-> d.current, queue |-> d.queue]
      BY <1>9, <1>11, DiscoveryIs
    <3> QED BY <3>1, <2>1, <2>2, <2>6
  <2>9. d.index \in [Indexes -> IndexRecord] /\ d.queue \in Seq(Indexes) /\ d.current \in [Providers -> 0 .. MaxIndexes]
    BY <1>9, <1>11, DiscoveryTyped
  <2>10. e1 \in Discoveries /\ e1.index[i] = y1
    BY <2>4, <2>8, <2>9 DEF Discoveries
  <2>11. e2 = [index |-> [e1.index EXCEPT ![i] = y2], current |-> e1.current, queue |-> e1.queue]
    <3>1. e1 = [index |-> e1.index, current |-> e1.current, queue |-> e1.queue]
      BY <2>10, DiscoveryIs
    <3> QED BY <3>1, <2>2, <2>6, <2>10
  <2>12. e2 = [index |-> [d.index EXCEPT ![i] = y2], current |-> d.current, queue |-> d.queue]
    BY <2>8, <2>9, <2>11
  <2>13. e2 \in Discoveries /\ e2.index[i] = y2
    BY <2>4, <2>9, <2>12 DEF Discoveries
  <2>14. disc' = [index |-> [e2.index EXCEPT ![i] = y], current |-> e2.current, queue |-> e2.queue]
    <3>1. e2 = [index |-> e2.index, current |-> e2.current, queue |-> e2.queue]
      BY <2>13, DiscoveryIs
    <3> QED BY <3>1, <2>2, <2>7, <2>13
  <2>15. disc' = [index |-> [d.index EXCEPT ![i] = y], current |-> d.current, queue |-> d.queue]
    BY <2>9, <2>12, <2>14
  <2>16. Moved(d, disc', i, y, IndexUnits)
    <3>1. y.raw + y.kept <= z.raw + z.kept + IndexUnits
      BY <1>4, <1>9, <1>11, <2>1, <2>5
    <3>2. z.state = "listing" /\ z.before <= revision[i[1]] /\ (y.raw > 0 => z.raw > 0)
      BY <1>9, <1>11, <2>1, <2>5
    <3>3. y.before <= revision[i[1]] /\ y.before <= y.content /\ y.content <= revision[i[1]]
      BY <3>2, <2>3, <2>5
    <3> QED BY <3>1, <3>2, <3>3, <1>11, <2>1, <2>5, <2>15 DEF Moved
  <2>17. Sound(disc') /\ Consistent(disc', revision, begun, query, registry)
    BY <1>1, <1>4, <1>9, <1>11, <2>16, MovedSound, MovedConsistent DEF Consistent
  <2>18. disc' \in Discoveries /\ disc'.index[i].raw > 0 /\ disc'.queue = d.queue
    <3>1. disc' \in Discoveries /\ disc'.index[i] = y
      <4>1. d \in Discoveries
        BY <1>9, <1>11
      <4> QED BY <4>1, <2>16, MovedIs
    <3>2. disc'.queue = d.queue
      BY <2>15
    <3> QED BY <3>1, <3>2, <1>4, <1>9, <1>11, <2>1, <2>5
  <2>19. QueueServed(disc', registry)
    BY <1>9, <1>11, <2>18 DEF QueueServed, ActiveIndexes
  <2> QED BY <1>1, <1>3, <2>17, <2>18, <2>19 DEF RegistryInvariant, RegistryTyped
<1> QED BY <1>3, <1>8, <1>10, <1>11

\* The slot is given back and the revision looked at again.
LEMMA FinishKeeps ==
  ASSUME RegistryInvariant, NEW i \in Indexes, FinishQuery(i)
  PROVE  RegistryInvariant'
<1>1. /\ disc \in Discoveries /\ revision \in [Providers -> Nat] /\ begun \in [Providers -> Nat]
      /\ query \in [Queries -> QueryStates] /\ registry \in {"open", "closing", "closed"} /\ Sound(disc)
      /\ Consistent(disc, revision, begun, query, registry) /\ QueueServed(disc, registry)
  BY DEF RegistryInvariant, RegistryTyped
<1>2. PICK f : f = Checked(disc, i)
  OBVIOUS
<1>3. /\ disc.index[i].state = "built" /\ disc' = Pumped(f)
      /\ revision' = revision /\ begun' = begun /\ query' = query /\ registry' = registry
  BY <1>2 DEF FinishQuery
<1>4. PICK x, now : x = disc.index[i] /\ x \in IndexRecord /\ x.state = "built" /\ now = revision[i[1]] /\ now \in Nat
  <2>1. i[1] \in Providers
    BY DEF Indexes
  <2> QED BY <2>1, <1>1, <1>3, DiscoveryTyped
<1>5. /\ x.raw \in Nat /\ x.kept \in Nat /\ x.before \in Nat /\ x.content \in Nat
      /\ x.before <= x.content /\ x.content <= now
  BY <1>1, <1>4 DEF IndexRecord, Consistent, RevisionsSound
<1>6. PICK e, r : e = [disc EXCEPT !.index[i].raw = 0] /\ r = [x EXCEPT !.raw = 0]
  OBVIOUS
<1>7. /\ r \in IndexRecord /\ r.users = x.users /\ r.before = x.before /\ r.content = x.content
      /\ r.state = "built" /\ r.raw = 0 /\ r.kept = x.kept /\ r.attempt = x.attempt
  BY <1>4, <1>6 DEF IndexRecord
<1>8. e = [index |-> [disc.index EXCEPT ![i] = r], current |-> disc.current, queue |-> disc.queue]
  <2>1. disc = [index |-> disc.index, current |-> disc.current, queue |-> disc.queue]
    BY <1>1, DiscoveryIs
  <2> QED BY <2>1, <1>4, <1>6
<1>9. /\ disc.index \in [Indexes -> IndexRecord] /\ disc.queue \in Seq(Indexes) /\ disc.current \in [Providers -> 0 .. MaxIndexes]
  BY <1>1, DiscoveryTyped
<1>10. e \in Discoveries /\ e.index[i] = r
  BY <1>7, <1>8, <1>9 DEF Discoveries
<1>11. ASSUME NEW y \in IndexRecord, NEW c, c = [e.index EXCEPT ![i] = y]
       PROVE  c = [disc.index EXCEPT ![i] = y]
  BY <1>8, <1>9, <1>11
<1>12. f = IF registry # "open" THEN Failing(e, i)
           ELSE IF x.before = now THEN [e EXCEPT !.index[i].state = "ready"]
           ELSE IF x.attempt = 1
             THEN [e EXCEPT !.index[i] = [@ EXCEPT !.state = "queued", !.kept = 0, !.before = now, !.attempt = 2], !.queue = Append(@, i)]
             ELSE Failing([e EXCEPT !.index[i].kept = 0], i)
  BY <1>2, <1>4, <1>6 DEF Checked
<1>13. ASSUME NEW y, Moved(disc, f, i, y, 0), registry # "open" => f.queue = disc.queue PROVE RegistryInvariant'
  <2>1. Sound(f) /\ Consistent(f, revision, begun, query, registry)
    BY <1>1, <1>13, MovedSound, MovedConsistent DEF Consistent
  <2>2. f \in Discoveries
    BY <1>1, <1>13, MovedIs
  <2>3. registry # "open" => f.queue = <<>>
    BY <1>1, <1>13 DEF QueueServed
  <2> QED BY <1>1, <1>3, <2>1, <2>2, <2>3, PumpingEnds
<1>14. CASE registry # "open"
  <2>1. PICK y : y = [r EXCEPT !.state = "failing"]
    OBVIOUS
  <2>2. /\ y \in IndexRecord /\ y.users = x.users /\ y.before = x.before
        /\ y.state = "failing" /\ y.raw = 0 /\ y.kept = x.kept
    BY <1>7, <2>1 DEF IndexRecord
  <2>3. f = [index |-> [disc.index EXCEPT ![i] = y], current |-> disc.current, queue |-> disc.queue]
    <3>1. e = [index |-> e.index, current |-> e.current, queue |-> e.queue]
      BY <1>10, DiscoveryIs
    <3> QED BY <3>1, <1>8, <1>10, <1>11, <1>12, <1>14, <2>1, <2>2 DEF Failing
  <2>4. Moved(disc, f, i, y, 0)
    BY <1>4, <1>5, <2>2, <2>3 DEF Moved
  <2> QED BY <1>13, <2>3, <2>4
<1>15. CASE registry = "open" /\ x.before = now
  <2>1. PICK y : y = [r EXCEPT !.state = "ready"]
    OBVIOUS
  <2>2. /\ y \in IndexRecord /\ y.users = x.users /\ y.before = x.before /\ y.content = x.content
        /\ y.state = "ready" /\ y.raw = 0 /\ y.kept = x.kept
    BY <1>7, <2>1 DEF IndexRecord
  <2>3. f = [index |-> [disc.index EXCEPT ![i] = y], current |-> disc.current, queue |-> disc.queue]
    <3>1. e = [index |-> e.index, current |-> e.current, queue |-> e.queue]
      BY <1>10, DiscoveryIs
    <3> QED BY <3>1, <1>8, <1>10, <1>11, <1>12, <1>15, <2>1, <2>2
  <2>4. Moved(disc, f, i, y, 0)
    BY <1>4, <1>5, <1>15, <2>2, <2>3 DEF Moved
  <2> QED BY <1>13, <1>15, <2>4
<1>16. CASE registry = "open" /\ x.before # now /\ x.attempt = 1
  <2>1. PICK y : y = [r EXCEPT !.state = "queued", !.kept = 0, !.before = now, !.attempt = 2]
    OBVIOUS
  <2>2. /\ y \in IndexRecord /\ y.users = x.users /\ y.before = now
        /\ y.state = "queued" /\ y.raw = 0 /\ y.kept = 0
    BY <1>4, <1>7, <2>1, ZenonT(60) DEF IndexRecord
  <2>3. f = [e EXCEPT !.index[i] = [@ EXCEPT !.state = "queued", !.kept = 0, !.before = now, !.attempt = 2], !.queue = Append(@, i)]
    BY <1>12, <1>16
  <2>4. f = [index |-> [e.index EXCEPT ![i] = y], current |-> e.current, queue |-> Append(e.queue, i)]
    <3>1. e = [index |-> e.index, current |-> e.current, queue |-> e.queue]
      BY <1>8
    <3> QED BY <3>1, <1>10, <2>1, <2>3
  <2>5. f = [index |-> [disc.index EXCEPT ![i] = y], current |-> disc.current, queue |-> Append(disc.queue, i)]
    BY <1>8, <1>11, <2>2, <2>4
  <2>6. Moved(disc, f, i, y, 0)
    BY <1>4, <1>5, <2>2, <2>5 DEF Moved
  <2> QED BY <1>13, <1>16, <2>6
<1>17. CASE registry = "open" /\ x.before # now /\ x.attempt # 1
  <2>1. PICK y0, y, e0 : y0 = [r EXCEPT !.kept = 0] /\ y = [y0 EXCEPT !.state = "failing"] /\ e0 = [e EXCEPT !.index[i].kept = 0]
    OBVIOUS
  <2>2. y0 \in IndexRecord
    BY <1>7, <2>1 DEF IndexRecord
  <2>3. /\ y \in IndexRecord /\ y.users = x.users /\ y.before = x.before
        /\ y.state = "failing" /\ y.raw = 0 /\ y.kept = 0
    BY <1>7, <2>1 DEF IndexRecord
  <2>4. e0 = [index |-> [disc.index EXCEPT ![i] = y0], current |-> disc.current, queue |-> disc.queue]
    <3>1. e = [index |-> e.index, current |-> e.current, queue |-> e.queue]
      BY <1>10, DiscoveryIs
    <3> QED BY <3>1, <1>8, <1>10, <1>11, <2>1, <2>2
  <2>5. e0 \in Discoveries /\ e0.index[i] = y0
    BY <1>9, <2>2, <2>4 DEF Discoveries
  <2>6. f = [index |-> [e0.index EXCEPT ![i] = y], current |-> e0.current, queue |-> e0.queue]
    <3>1. f = [e0 EXCEPT !.index[i].state = "failing"]
      BY <1>12, <1>17, <2>1 DEF Failing
    <3>2. e0 = [index |-> e0.index, current |-> e0.current, queue |-> e0.queue]
      BY <2>5, DiscoveryIs
    <3> QED BY <3>1, <3>2, <2>1, <2>5
  <2>7. f = [index |-> [disc.index EXCEPT ![i] = y], current |-> disc.current, queue |-> disc.queue]
    BY <1>9, <2>4, <2>6
  <2>8. Moved(disc, f, i, y, 0)
    BY <1>4, <1>5, <2>3, <2>7 DEF Moved
  <2> QED BY <1>13, <1>17, <2>8
<1> QED BY <1>14, <1>15, <1>16, <1>17

\* A producer that has failed leaves the map and its slot, and is released.
LEMMA FailKeeps ==
  ASSUME RegistryInvariant, NEW i \in Indexes, Fail(i)
  PROVE  RegistryInvariant'
<1>1. /\ disc \in Discoveries /\ revision \in [Providers -> Nat] /\ begun \in [Providers -> Nat]
      /\ query \in [Queries -> QueryStates] /\ registry \in {"open", "closing", "closed"} /\ Sound(disc)
      /\ Consistent(disc, revision, begun, query, registry) /\ QueueServed(disc, registry)
  BY DEF RegistryInvariant, RegistryTyped
<1>2. PICK d : d = [disc EXCEPT !.index[i].state = "failed", !.index[i].raw = 0, !.current[i[1]] = IF @ = i[2] THEN 0 ELSE @]
  OBVIOUS
<1>3. /\ disc.index[i].state = "failing" /\ disc' = Pumped(Unwanted(d, {i}))
      /\ revision' = revision /\ begun' = begun /\ query' = query /\ registry' = registry
  BY <1>2 DEF Fail
<1>4. PICK x, p : x = disc.index[i] /\ x \in IndexRecord /\ p = i[1] /\ p \in Providers /\ i = <<p, i[2]>>
  BY <1>1, DiscoveryTyped DEF Indexes
<1>5. PICK y0, y : y0 = [x EXCEPT !.state = "failed"] /\ y = [y0 EXCEPT !.raw = 0]
  OBVIOUS
<1>6. /\ y0 \in IndexRecord /\ y \in IndexRecord /\ y.users = x.users /\ y.before = x.before /\ y.content = x.content
      /\ y.state = "failed" /\ y.raw = 0 /\ y.kept = x.kept /\ x.raw \in Nat /\ x.kept \in Nat
  BY <1>4, <1>5 DEF IndexRecord
<1>7. /\ disc.index \in [Indexes -> IndexRecord] /\ disc.queue \in Seq(Indexes) /\ disc.current \in [Providers -> 0 .. MaxIndexes]
  BY <1>1, DiscoveryTyped
<1>8. PICK e0, e : e0 = [disc EXCEPT !.index[i].state = "failed"] /\ e = [e0 EXCEPT !.index[i].raw = 0]
  OBVIOUS
<1>9. e0 = [index |-> [disc.index EXCEPT ![i] = y0], current |-> disc.current, queue |-> disc.queue]
  <2>1. disc = [index |-> disc.index, current |-> disc.current, queue |-> disc.queue]
    BY <1>1, DiscoveryIs
  <2> QED BY <2>1, <1>4, <1>5, <1>8
<1>10. e0 \in Discoveries /\ e0.index[i] = y0
  BY <1>6, <1>7, <1>9 DEF Discoveries
<1>11. e = [index |-> [e0.index EXCEPT ![i] = y], current |-> e0.current, queue |-> e0.queue]
  <2>1. e0 = [index |-> e0.index, current |-> e0.current, queue |-> e0.queue]
    BY <1>10, DiscoveryIs
  <2> QED BY <2>1, <1>5, <1>8, <1>10
<1>12. e = [index |-> [disc.index EXCEPT ![i] = y], current |-> disc.current, queue |-> disc.queue]
  BY <1>7, <1>9, <1>11
<1>13. d = [e EXCEPT !.current[p] = IF @ = i[2] THEN 0 ELSE @]
  BY <1>2, <1>4, <1>8
<1>14. PICK C : C = [disc.current EXCEPT ![p] = IF disc.current[p] = i[2] THEN 0 ELSE disc.current[p]]
  OBVIOUS
<1>15. d = [index |-> [disc.index EXCEPT ![i] = y], current |-> C, queue |-> disc.queue]
  BY <1>12, <1>13, <1>14
<1>16. C \in [Providers -> 0 .. MaxIndexes] /\ \A q \in Providers : C[q] = IF q = p /\ disc.current[q] = i[2] THEN 0 ELSE disc.current[q]
  BY <1>4, <1>7, <1>14, RegistryAssumption
<1>17. d \in Discoveries
  <2>1. [disc.index EXCEPT ![i] = y] \in [Indexes -> IndexRecord]
    BY <1>6, <1>7
  <2> QED BY <2>1, <1>7, <1>15, <1>16 DEF Discoveries
<1>18. d.index[i] = y /\ (\A j \in Indexes : j # i => d.index[j] = disc.index[j]) /\ d.current = C /\ d.queue = disc.queue
  BY <1>7, <1>15
<1>19. \A j \in Indexes : j # i /\ IsCurrent(disc, j) => IsCurrent(d, j)
  <2>1. SUFFICES ASSUME NEW j \in Indexes, j # i, disc.current[j[1]] = j[2] PROVE C[j[1]] = j[2]
    BY <1>18 DEF IsCurrent
  <2>2. j = <<j[1], j[2]>> /\ j[1] \in Providers
    BY DEF Indexes
  <2>3. ~(j[1] = p /\ disc.current[j[1]] = i[2])
    BY <2>1, <2>2, <1>4
  <2> QED BY <2>1, <2>2, <2>3, <1>16
<1>20. UnitsMatch(d)
  <2>1. SUFFICES ASSUME NEW j \in Indexes
        PROVE  /\ d.index[j].state \in {"unused", "queued"} => d.index[j].raw = 0 /\ d.index[j].kept = 0
               /\ d.index[j].state = "listing" => IndexUnits <= d.index[j].raw /\ d.index[j].kept = 0
               /\ d.index[j].state \in {"ready", "failed"} => d.index[j].raw = 0
    BY DEF UnitsMatch
  <2>2. CASE j = i
    BY <2>2, <1>6, <1>18
  <2>3. CASE j # i
    BY <2>3, <1>1, <1>18 DEF Sound, UnitsMatch
  <2> QED BY <2>2, <2>3
<1>21. CapacityHeld(d)
  <2>1. ActiveIndexes(d) \subseteq ActiveIndexes(disc)
    <3>1. SUFFICES ASSUME NEW j \in Indexes, d.index[j].raw > 0 PROVE disc.index[j].raw > 0
      BY DEF ActiveIndexes
    <3>2. j # i
      BY <3>1, <1>6, <1>18
    <3> QED BY <3>1, <3>2, <1>18
  <2>2. IsFiniteSet(ActiveIndexes(disc))
    BY IndexesFinite, FS_Subset DEF ActiveIndexes
  <2>3. /\ Cardinality(ActiveIndexes(d)) <= Cardinality(ActiveIndexes(disc))
        /\ Cardinality(ActiveIndexes(d)) \in Nat /\ Cardinality(ActiveIndexes(disc)) \in Nat
    BY <2>1, <2>2, FS_Subset, FS_CardinalityType
  <2>4. ASSUME NEW j \in Indexes PROVE Height(d, j) <= Height(disc, j)
    <3>1. CASE j = i
      BY <3>1, <1>4, <1>6, <1>18 DEF Height
    <3>2. CASE j # i
      <4>1. Height(d, j) = Height(disc, j)
        BY <3>2, <1>18 DEF Height
      <4> QED BY <4>1, <1>1, DiscoveryTyped
    <3> QED BY <3>1, <3>2
  <2>5. Used(d) <= Used(disc) /\ Used(d) \in Nat /\ Used(disc) \in Nat /\ Capacity \in Nat
    BY <1>1, <1>17, <2>4, UnitsShrink, UnitsAre, RegistryAssumption
  <2> QED BY <2>3, <2>5, <1>1 DEF Sound, CapacityHeld, RawSlots
<1>22. QueueSound(d)
  <2>1. ASSUME NEW k \in 1 .. Len(disc.queue) PROVE d.index[disc.queue[k]].state = "queued"
    <3>1. disc.queue[k] \in Indexes /\ disc.index[disc.queue[k]].state = "queued"
      BY <1>1, <1>7, ElementOfSeq DEF Sound, QueueSound
    <3> QED BY <3>1, <1>3, <1>18
  <2> QED BY <2>1, <1>1, <1>18 DEF Sound, QueueSound
<1>23. \A j \in Indexes \ {i} : d.index[j].kept > 0 => Pending(d.index[j]) \/ d.index[j].users > 0 \/ IsCurrent(d, j)
  BY <1>1, <1>18, <1>19 DEF Sound, NothingLeaks
<1>24. Consistent(d, revision, begun, query, registry)
  <2>1. RevisionsSound(d, revision)
    <3>1. SUFFICES ASSUME NEW j \in Indexes
          PROVE  /\ d.index[j].before <= revision[j[1]]
                 /\ d.index[j].state \in {"built", "ready"} =>
                      d.index[j].before <= d.index[j].content /\ d.index[j].content <= revision[j[1]]
      BY DEF RevisionsSound
    <3>2. CASE j = i
      BY <3>2, <1>1, <1>4, <1>6, <1>18 DEF Consistent, RevisionsSound
    <3>3. CASE j # i
      BY <3>3, <1>1, <1>18 DEF Consistent, RevisionsSound
    <3> QED BY <3>2, <3>3
  <2>2. BegunSound(d, begun)
    <3>1. ASSUME NEW j \in Indexes, j[2] > begun[j[1]] PROVE d.index[j].state = "unused"
      <4>1. disc.index[j].state = "unused"
        BY <3>1, <1>1 DEF Consistent, BegunSound
      <4> QED BY <4>1, <1>3, <1>18
    <3>2. ASSUME NEW q \in Providers PROVE d.current[q] <= begun[q]
      <4>1. disc.current[q] <= begun[q] /\ begun[q] \in Nat
        BY <1>1 DEF Consistent, BegunSound
      <4>2. CASE q = p /\ disc.current[q] = i[2]
        BY <4>1, <4>2, <1>16, <1>18
      <4>3. CASE ~(q = p /\ disc.current[q] = i[2])
        BY <4>1, <4>3, <1>16, <1>18
      <4> QED BY <4>2, <4>3
    <3> QED BY <3>1, <3>2 DEF BegunSound
  <2>3. UsersSound(d, begun, query)
    <3>1. \A j \in Indexes : d.index[j].users = disc.index[j].users
      BY <1>4, <1>6, <1>18
    <3> QED BY <3>1, <1>1 DEF Consistent, UsersSound
  <2>4. MapSound(d, registry)
    <3>1. SUFFICES ASSUME NEW j \in Indexes, registry # "closed", Pending(d.index[j]) PROVE IsCurrent(d, j)
      BY DEF MapSound
    <3>2. j # i
      BY <3>1, <1>6, <1>18 DEF Pending
    <3> QED BY <3>1, <3>2, <1>1, <1>18, <1>19 DEF Consistent, MapSound
  <2>5. AskedSound(d, revision, query)
    <3>1. SUFFICES ASSUME NEW q \in Queries, query[q].pc = "waiting", NEW j \in query[q].using
                   PROVE  /\ query[q].asked[j[1]] <= revision[j[1]]
                          /\ d.index[j].state = "ready" => query[q].asked[j[1]] <= d.index[j].content
      BY DEF AskedSound
    <3>2. j \in Indexes
      BY <1>1, <3>1 DEF QueryStates
    <3>3. /\ query[q].asked[j[1]] <= revision[j[1]]
          /\ disc.index[j].state = "ready" => query[q].asked[j[1]] <= disc.index[j].content
      BY <1>1, <3>1 DEF Consistent, AskedSound
    <3> QED BY <3>2, <3>3, <1>6, <1>18
  <2> QED BY <2>1, <2>2, <2>3, <2>4, <2>5 DEF Consistent
<1>25. registry # "open" => d.queue = <<>>
  BY <1>1, <1>18 DEF QueueServed
<1>26. {i} \in SUBSET Indexes
  OBVIOUS
<1> QED BY <1>1, <1>3, <1>17, <1>20, <1>21, <1>22, <1>23, <1>24, <1>25, <1>26, ReleaseEnds

-----------------------------------------------------------------------------
(* Queries come and go.                                                       *)

\* A set in some order, each element once.
LEMMA SetToSeqIs ==
  ASSUME NEW S, IsFiniteSet(S)
  PROVE  /\ SetToSeq(S) \in Seq(S)
         /\ \A k, l \in 1 .. Len(SetToSeq(S)) : SetToSeq(S)[k] = SetToSeq(S)[l] => k = l
<1>1. PICK n : n = Cardinality(S) /\ n \in Nat
  BY FS_CardinalityType
<1>2. \E f \in [1 .. n -> S] : IsInjective(f)
  BY <1>1, FS_CardinalityType DEF ExistsBijection, Bijection, Injection
<1>3. PICK f : f = SetToSeq(S)
  OBVIOUS
<1>4. f \in [1 .. n -> S] /\ IsInjective(f)
  BY <1>1, <1>2, <1>3 DEF SetToSeq
<1>5. f \in Seq(S) /\ Len(f) = n
  BY <1>1, <1>4
<1>6. \A k, l \in 1 .. n : f[k] = f[l] => k = l
  BY <1>4 DEF IsInjective
<1> QED BY <1>3, <1>5, <1>6

LEMMA WaitingFinite == ASSUME NEW qry, NEW i PROVE IsFiniteSet(Waiting(qry, i)) /\ Cardinality(Waiting(qry, i)) \in Nat
<1>1. Waiting(qry, i) \in SUBSET Queries /\ IsFiniteSet(Queries)
  BY RegistryAssumption DEF Waiting
<1> QED BY <1>1, FS_Subset, FS_CardinalityType

\* A query leaves: each of its indexes has one user less, and those nobody uses
\* any more are released.
LEMMA LeaveKeeps ==
  ASSUME RegistryInvariant, NEW q \in Queries, Leave(q)
  PROVE  RegistryInvariant'
<1>1. /\ disc \in Discoveries /\ revision \in [Providers -> Nat] /\ begun \in [Providers -> Nat]
      /\ query \in [Queries -> QueryStates] /\ registry \in {"open", "closing", "closed"} /\ Sound(disc)
      /\ Consistent(disc, revision, begun, query, registry) /\ QueueServed(disc, registry)
  BY DEF RegistryInvariant, RegistryTyped
<1>2. PICK S : S = query[q].using
  OBVIOUS
<1>3. query[q].pc = "waiting" /\ S \subseteq Indexes
  BY <1>1, <1>2 DEF Leave, QueryStates
<1>4. PICK to \in {"aborted", "failed", "answered"} : query' = [query EXCEPT ![q].pc = to]
  <2>1. \/ query' = [query EXCEPT ![q].pc = "aborted"] \/ query' = [query EXCEPT ![q].pc = "failed"]
        \/ query' = [query EXCEPT ![q].pc = IF registry = "open" THEN "answered" ELSE "failed"]
    BY DEF Leave
  <2> QED BY <2>1
<1>5. PICK X : X = [i \in Indexes |-> IF i \in S THEN [disc.index[i] EXCEPT !.users = @ - 1] ELSE disc.index[i]]
  OBVIOUS
<1>6. PICK d : d = [index |-> X, current |-> disc.current, queue |-> disc.queue]
  OBVIOUS
<1>7. disc' = Pumped(Unwanted(d, S)) /\ revision' = revision /\ begun' = begun /\ registry' = registry
  <2>1. disc' = Left(disc, S) /\ revision' = revision /\ begun' = begun /\ registry' = registry
    BY <1>2 DEF Leave
  <2>2. disc = [index |-> disc.index, current |-> disc.current, queue |-> disc.queue]
    BY <1>1, DiscoveryIs
  <2>3. d = [disc EXCEPT !.index = [i \in Indexes |-> IF i \in S THEN [disc.index[i] EXCEPT !.users = @ - 1] ELSE disc.index[i]]]
    BY <2>2, <1>5, <1>6
  <2> QED BY <2>1, <2>3 DEF Left
<1>8. /\ query' \in [Queries -> QueryStates] /\ query'[q].pc # "waiting"
      /\ \A o \in Queries : o # q => query'[o] = query[o]
  BY <1>1, <1>4 DEF QueryStates
<1>9. ASSUME NEW i \in Indexes
      PROVE  /\ i \in S => /\ q \in Waiting(query, i) /\ Waiting(query', i) = Waiting(query, i) \ {q}
             /\ i \notin S => Waiting(query', i) = Waiting(query, i)
  BY <1>2, <1>3, <1>8 DEF Waiting
<1>10. ASSUME NEW i \in Indexes
       PROVE  /\ disc.index[i].users = Cardinality(Waiting(query, i)) /\ disc.index[i].users \in Nat
              /\ i \in S => /\ disc.index[i].users - 1 \in Nat
                            /\ disc.index[i].users - 1 = Cardinality(Waiting(query', i))
  <2>1. disc.index[i].users = Cardinality(Waiting(query, i)) /\ disc.index[i].users \in Nat
    BY <1>1, DiscoveryTyped DEF Consistent, UsersSound
  <2>2. ASSUME i \in S PROVE disc.index[i].users - 1 = Cardinality(Waiting(query', i))
    BY <1>9, <2>1, <2>2, WaitingFinite, FS_RemoveElement
  <2> QED BY <2>1, <2>2, WaitingFinite
<1>11. ASSUME NEW i \in Indexes
       PROVE  /\ d.index[i] \in IndexRecord
              /\ d.index[i].state = disc.index[i].state /\ d.index[i].before = disc.index[i].before
              /\ d.index[i].content = disc.index[i].content /\ d.index[i].raw = disc.index[i].raw
              /\ d.index[i].kept = disc.index[i].kept
              /\ d.index[i].users = IF i \in S THEN disc.index[i].users - 1 ELSE disc.index[i].users
  <2>1. PICK x, y : x = disc.index[i] /\ x \in IndexRecord /\ y = [x EXCEPT !.users = @ - 1]
    BY <1>1, DiscoveryTyped
  <2>2. d.index[i] = IF i \in S THEN y ELSE x
    BY <1>5, <1>6, <2>1
  <2>3. /\ y.state = x.state /\ y.before = x.before /\ y.content = x.content /\ y.raw = x.raw /\ y.kept = x.kept
        /\ y.users = x.users - 1 /\ (x.users - 1 \in Nat => y \in IndexRecord)
    BY <2>1 DEF IndexRecord
  <2> QED BY <2>1, <2>2, <2>3, <1>10
<1>12. d.current = disc.current /\ d.queue = disc.queue
  BY <1>6
<1>13. d \in Discoveries
  <2>1. X \in [Indexes -> IndexRecord]
    BY <1>5, <1>6, <1>11
  <2> QED BY <2>1, <1>1, <1>6, DiscoveryTyped DEF Discoveries
<1>14. UnitsMatch(d)
  BY <1>1, <1>11 DEF Sound, UnitsMatch
<1>15. CapacityHeld(d)
  <2>1. UnitsOf(d) = UnitsOf(disc) /\ ActiveIndexes(d) = ActiveIndexes(disc)
    BY <1>11 DEF UnitsOf, ActiveIndexes
  <2> QED BY <2>1, <1>1 DEF Sound, CapacityHeld, Used
<1>16. QueueSound(d)
  <2>1. ASSUME NEW k \in 1 .. Len(disc.queue) PROVE d.index[disc.queue[k]].state = "queued"
    <3>1. disc.queue[k] \in Indexes /\ disc.index[disc.queue[k]].state = "queued"
      BY <1>1, DiscoveryTyped, ElementOfSeq DEF Sound, QueueSound
    <3> QED BY <3>1, <1>11
  <2> QED BY <2>1, <1>1, <1>12 DEF Sound, QueueSound
<1>17. \A j \in Indexes \ S : d.index[j].kept > 0 => Pending(d.index[j]) \/ d.index[j].users > 0 \/ IsCurrent(d, j)
  BY <1>1, <1>11, <1>12 DEF Sound, NothingLeaks, Pending, IsCurrent
<1>18. Consistent(d, revision, begun, query', registry)
  <2>1. RevisionsSound(d, revision) /\ BegunSound(d, begun)
    BY <1>1, <1>11, <1>12 DEF Consistent, RevisionsSound, BegunSound
  <2>2. UsersSound(d, begun, query')
    <3>1. SUFFICES ASSUME NEW i \in Indexes
                   PROVE  /\ d.index[i].users = Cardinality(Waiting(query', i))
                          /\ Waiting(query', i) # {} => i[2] <= begun[i[1]]
      BY DEF UsersSound
    <3>2. d.index[i].users = Cardinality(Waiting(query', i))
      BY <1>9, <1>10, <1>11
    <3>3. Waiting(query', i) \subseteq Waiting(query, i)
      BY <1>9
    <3>4. Waiting(query, i) # {} => i[2] <= begun[i[1]]
      BY <1>1 DEF Consistent, UsersSound
    <3> QED BY <3>2, <3>3, <3>4
  <2>3. MapSound(d, registry)
    BY <1>1, <1>11, <1>12 DEF Consistent, MapSound, Pending, IsCurrent
  <2>4. AskedSound(d, revision, query')
    <3>1. SUFFICES ASSUME NEW o \in Queries, query'[o].pc = "waiting", NEW j \in query'[o].using
                   PROVE  /\ query'[o].asked[j[1]] <= revision[j[1]]
                          /\ d.index[j].state = "ready" => query'[o].asked[j[1]] <= d.index[j].content
      BY DEF AskedSound
    <3>2. o # q /\ query'[o] = query[o]
      BY <1>8, <3>1
    <3>3. j \in Indexes
      BY <1>1, <3>1, <3>2 DEF QueryStates
    <3>4. /\ query[o].asked[j[1]] <= revision[j[1]]
          /\ disc.index[j].state = "ready" => query[o].asked[j[1]] <= disc.index[j].content
      BY <1>1, <3>1, <3>2 DEF Consistent, AskedSound
    <3> QED BY <3>2, <3>3, <3>4, <1>11
  <2> QED BY <2>1, <2>2, <2>3, <2>4 DEF Consistent
<1>19. registry # "open" => d.queue = <<>>
  BY <1>1, <1>12 DEF QueueServed
<1> QED BY <1>1, <1>3, <1>7, <1>8, <1>13, <1>14, <1>15, <1>16, <1>17, <1>18, <1>19, ReleaseEnds

\* A query arrives: it joins the index of each provider or begins one, and the
\* stale index of a provider it begins one for leaves the map.
LEMMA QueryKeeps ==
  ASSUME RegistryInvariant, NEW q \in Queries, Query(q)
  PROVE  RegistryInvariant'
<1>1. /\ disc \in Discoveries /\ revision \in [Providers -> Nat] /\ begun \in [Providers -> Nat]
      /\ query \in [Queries -> QueryStates] /\ registry \in {"open", "closing", "closed"} /\ Sound(disc)
      /\ Consistent(disc, revision, begun, query, registry) /\ QueueServed(disc, registry)
  BY DEF RegistryInvariant, RegistryTyped
<1>2. PICK new, use, stale, gone, freed :
        /\ new = {p \in Providers : ~Joined(disc, p)}
        /\ use = {<<p, IF p \in new THEN begun[p] + 1 ELSE disc.current[p]>> : p \in Providers}
        /\ stale = {<<p, disc.current[p]>> : p \in {p \in new : disc.current[p] # 0}}
        /\ gone = {i \in stale : disc.index[i].users = 0} /\ freed = WithoutQuery(disc, gone)
  OBVIOUS
<1>3. PICK B, X, C, T :
        /\ B = [p \in Providers |-> IF p \in new THEN begun[p] + 1 ELSE begun[p]]
        /\ X = [i \in Indexes |->
                  IF i \notin use THEN freed.index[i]
                  ELSE IF i[1] \notin new THEN [freed.index[i] EXCEPT !.users = @ + 1]
                  ELSE [Unused EXCEPT !.state = "queued", !.before = revision[i[1]], !.attempt = 1, !.users = 1]]
        /\ C = [p \in Providers |-> IF p \in new THEN begun[p] + 1 ELSE disc.current[p]]
        /\ T = {i \in use : i[1] \in new}
  OBVIOUS
<1>4. PICK d : d = [index |-> X, current |-> C, queue |-> disc.queue \o SetToSeq(T)]
  OBVIOUS
<1>5. /\ query[q].pc = "idle" /\ registry = "open" /\ \A p \in new : begun[p] < MaxIndexes
      /\ query' = [query EXCEPT ![q] = [pc |-> "waiting", using |-> use, asked |-> revision]]
      /\ begun' = B /\ disc' = Pumped(d) /\ revision' = revision /\ registry' = registry
  BY <1>2, <1>3, <1>4 DEF Query
\* What joining means, provider by provider.
<1>6. ASSUME NEW p \in Providers
      PROVE  /\ begun[p] \in Nat /\ disc.current[p] \in Nat /\ disc.current[p] <= begun[p] /\ disc.current[p] <= MaxIndexes
             /\ revision[p] \in Nat /\ MaxIndexes \in Nat
             /\ p \notin new => /\ disc.current[p] # 0
                                /\ \/ Pending(disc.index[<<p, disc.current[p]>>])
                                   \/ disc.index[<<p, disc.current[p]>>].before = revision[p]
             /\ p \in new /\ disc.current[p] # 0 => ~Pending(disc.index[<<p, disc.current[p]>>])
  <2>1. begun[p] \in Nat /\ disc.current[p] \in Nat /\ disc.current[p] <= begun[p] /\ revision[p] \in Nat
    BY <1>1, DiscoveryTyped DEF Consistent, BegunSound
  <2>2. disc.current[p] \in 0 .. MaxIndexes /\ MaxIndexes \in Nat
    BY <1>1, DiscoveryTyped, RegistryAssumption
  <2>3. p \in new <=> ~Joined(disc, p)
    BY <1>2
  <2> QED BY <2>1, <2>2, <2>3 DEF Joined
<1>7. ASSUME NEW i \in Indexes
      PROVE  /\ i[1] \in Providers /\ i[2] \in Nat /\ i[2] # 0 /\ i = <<i[1], i[2]>>
             /\ i \in use <=> i[2] = IF i[1] \in new THEN begun[i[1]] + 1 ELSE disc.current[i[1]]
             /\ i \in gone <=> i[1] \in new /\ i[2] = disc.current[i[1]] /\ disc.index[i].users = 0
  <2>1. PICK p \in Providers, n \in 1 .. MaxIndexes : i = <<p, n>> /\ i[1] = p /\ i[2] = n
    BY DEF Indexes
  <2>2. n \in Nat /\ n # 0
    BY RegistryAssumption
  <2>3. i \in use <=> n = IF p \in new THEN begun[p] + 1 ELSE disc.current[p]
    BY <1>2, <2>1
  <2>4. i \in stale <=> p \in new /\ n = disc.current[p]
    BY <1>2, <2>1, <2>2
  <2> QED BY <1>2, <2>1, <2>2, <2>3, <2>4
<1>8. use \subseteq Indexes /\ gone \subseteq Indexes
  <2>1. ASSUME NEW p \in Providers PROVE <<p, IF p \in new THEN begun[p] + 1 ELSE disc.current[p]>> \in Indexes
    <3>1. CASE p \in new
      <4>1. begun[p] + 1 \in 1 .. MaxIndexes
        <5>1. begun[p] \in Nat /\ MaxIndexes \in Nat /\ begun[p] < MaxIndexes
          BY <3>1, <1>5, <1>6
        <5> QED BY ONLY <5>1
      <4> QED BY <3>1, <4>1 DEF Indexes
    <3>2. CASE p \notin new
      <4>1. disc.current[p] \in 1 .. MaxIndexes
        <5>1. disc.current[p] \in Nat /\ MaxIndexes \in Nat /\ disc.current[p] # 0 /\ disc.current[p] <= MaxIndexes
          BY <3>2, <1>6
        <5> QED BY ONLY <5>1
      <4> QED BY <3>2, <4>1 DEF Indexes
    <3> QED BY <3>1, <3>2
  <2>2. ASSUME NEW p \in Providers, disc.current[p] # 0 PROVE <<p, disc.current[p]>> \in Indexes
    <3>1. disc.current[p] \in 1 .. MaxIndexes
      <4>1. disc.current[p] \in Nat /\ MaxIndexes \in Nat /\ disc.current[p] # 0 /\ disc.current[p] <= MaxIndexes
        BY <2>2, <1>6
      <4> QED BY ONLY <4>1
    <3> QED BY <3>1 DEF Indexes
  <2>3. use \subseteq Indexes
    BY <1>2, <2>1
  <2>4. gone \subseteq Indexes
    BY <1>2, <2>2
  <2> QED BY <2>3, <2>4
\* The three kinds of index: not of this query, joined by it, begun by it.
<1>9. ASSUME NEW i \in Indexes
      PROVE  /\ freed.index[i].state = disc.index[i].state /\ freed.index[i].users = disc.index[i].users
             /\ freed.index[i].before = disc.index[i].before /\ freed.index[i].content = disc.index[i].content
             /\ freed.index[i].raw = disc.index[i].raw
             /\ freed.index[i].kept = (IF i \in gone THEN 0 ELSE disc.index[i].kept)
             /\ freed.index[i] \in IndexRecord
  BY <1>1, <1>2, <1>8, WithoutIs, DiscoveryTyped, SMTT(40)
<1>10. ASSUME NEW i \in Indexes, i \notin use
       PROVE  /\ d.index[i] \in IndexRecord
              /\ d.index[i].state = disc.index[i].state /\ d.index[i].users = disc.index[i].users
              /\ d.index[i].before = disc.index[i].before /\ d.index[i].content = disc.index[i].content
              /\ d.index[i].raw = disc.index[i].raw
              /\ d.index[i].kept = IF i \in gone THEN 0 ELSE disc.index[i].kept
  <2>1. d.index[i] = freed.index[i]
    BY <1>3, <1>4, <1>10
  <2> QED BY <2>1, <1>9
<1>11. ASSUME NEW i \in Indexes, i \in use, i[1] \notin new
       PROVE  /\ d.index[i] \in IndexRecord
              /\ d.index[i].state = disc.index[i].state /\ d.index[i].users = disc.index[i].users + 1
              /\ d.index[i].before = disc.index[i].before /\ d.index[i].content = disc.index[i].content
              /\ d.index[i].raw = disc.index[i].raw /\ d.index[i].kept = disc.index[i].kept
              /\ IsCurrent(disc, i) /\ (Pending(disc.index[i]) \/ disc.index[i].before = revision[i[1]])
  <2>1. PICK x, y : x = freed.index[i] /\ x \in IndexRecord /\ y = [x EXCEPT !.users = @ + 1]
    BY <1>9
  <2>2. d.index[i] = y
    BY <1>3, <1>4, <1>11, <2>1
  <2>3. /\ y \in IndexRecord /\ y.state = x.state /\ y.before = x.before /\ y.content = x.content /\ y.raw = x.raw /\ y.kept = x.kept
        /\ y.users = x.users + 1
    BY <2>1 DEF IndexRecord
  <2>4. i \notin gone /\ i = <<i[1], disc.current[i[1]]>> /\ i[1] \in Providers
    BY <1>7, <1>11
  <2>5. IsCurrent(disc, i) /\ (Pending(disc.index[i]) \/ disc.index[i].before = revision[i[1]])
    BY <1>6, <1>7, <1>11, <2>4 DEF IsCurrent
  <2> QED BY <2>1, <2>2, <2>3, <2>4, <2>5, <1>9
<1>12. ASSUME NEW i \in Indexes, i \in T
       PROVE  /\ i \in use /\ i[1] \in new /\ i[2] = begun[i[1]] + 1
              /\ d.index[i] \in IndexRecord
              /\ d.index[i].state = "queued" /\ d.index[i].users = 1 /\ d.index[i].before = revision[i[1]]
              /\ d.index[i].raw = 0 /\ d.index[i].kept = 0
              /\ disc.index[i].state = "unused" /\ Waiting(query, i) = {}
  <2>1. i \in use /\ i[1] \in new /\ i[2] = begun[i[1]] + 1 /\ i[1] \in Providers
    BY <1>3, <1>7, <1>12
  <2>2. d.index[i] = [Unused EXCEPT !.state = "queued", !.before = revision[i[1]], !.attempt = 1, !.users = 1]
    BY <1>3, <1>4, <2>1
  <2>3. d.index[i] = [state |-> "queued", before |-> revision[i[1]], content |-> 0, attempt |-> 1, users |-> 1, raw |-> 0, kept |-> 0]
    BY <2>2 DEF Unused
  <2>4. revision[i[1]] \in Nat /\ begun[i[1]] \in Nat
    BY <1>6, <2>1
  <2>5. d.index[i] \in IndexRecord
    BY <2>3, <2>4 DEF IndexRecord
  <2>6. i[2] > begun[i[1]] /\ ~(i[2] <= begun[i[1]])
    BY <2>1, <2>4
  <2>7. disc.index[i].state = "unused" /\ Waiting(query, i) = {}
    BY <1>1, <2>6 DEF Consistent, BegunSound, UsersSound
  <2> QED BY <2>1, <2>3, <2>5, <2>7
<1>13. \A i \in Indexes : i \in use /\ i[1] \in new => i \in T
  BY <1>3
<1>14. /\ T \subseteq Indexes /\ IsFiniteSet(T) /\ SetToSeq(T) \in Seq(T)
       /\ \A k, l \in 1 .. Len(SetToSeq(T)) : SetToSeq(T)[k] = SetToSeq(T)[l] => k = l
  <2>1. T \subseteq Indexes
    BY <1>3, <1>8
  <2>2. IsFiniteSet(T)
    BY <2>1, IndexesFinite, FS_Subset
  <2> QED BY <2>1, <2>2, SetToSeqIs
<1>15. PICK s, t : /\ s = disc.queue /\ s \in Seq(Indexes) /\ t = SetToSeq(T) /\ t \in Seq(Indexes)
                   /\ Len(s) \in Nat /\ Len(t) \in Nat /\ \A k \in 1 .. Len(t) : t[k] \in T
  <2>1. disc.queue \in Seq(Indexes) /\ SetToSeq(T) \in Seq(Indexes)
    BY <1>1, <1>14, DiscoveryTyped
  <2>2. \A k \in 1 .. Len(SetToSeq(T)) : SetToSeq(T)[k] \in T
    BY <1>14, ElementOfSeq
  <2> QED BY <2>1, <2>2, LenProperties
<1>16. PICK c : /\ c = d.queue /\ c \in Seq(Indexes) /\ Len(c) = Len(s) + Len(t)
                /\ \A k \in 1 .. Len(s) + Len(t) : c[k] = IF k <= Len(s) THEN s[k] ELSE t[k - Len(s)]
  <2>1. d.queue = s \o t
    BY <1>4, <1>15
  <2>2. s \in Seq(Indexes) /\ t \in Seq(Indexes)
    BY <1>15
  <2>3. PICK u : u = s \o t
    OBVIOUS
  <2>4. /\ u \in Seq(Indexes) /\ Len(u) = Len(s) + Len(t)
        /\ \A k \in 1 .. Len(s) + Len(t) : u[k] = IF k <= Len(s) THEN s[k] ELSE t[k - Len(s)]
    BY <2>2, <2>3, ConcatProperties
  <2> QED BY <2>1, <2>3, <2>4
<1>17. d.index = X /\ d.current = C /\ \A p \in Providers : d.current[p] = IF p \in new THEN begun[p] + 1 ELSE disc.current[p]
  BY <1>3, <1>4
<1>18. \A i \in Indexes : i \notin use \/ (i \in use /\ i[1] \notin new) \/ i \in T
  BY <1>13
<1>19. d \in Discoveries
  <2>1. ASSUME NEW i \in Indexes PROVE X[i] \in IndexRecord
    BY <1>10, <1>11, <1>12, <1>17, <1>18, SMTT(40)
  <2>2. X \in [Indexes -> IndexRecord]
    BY <2>1, <1>3
  <2>3. ASSUME NEW p \in Providers PROVE C[p] \in 0 .. MaxIndexes
    <3>1. C[p] = IF p \in new THEN begun[p] + 1 ELSE disc.current[p]
      BY <1>3
    <3>2. CASE p \in new
      <4>1. begun[p] \in Nat /\ MaxIndexes \in Nat /\ begun[p] < MaxIndexes
        BY <3>2, <1>5, <1>6
      <4>2. begun[p] + 1 \in 0 .. MaxIndexes
        BY ONLY <4>1
      <4> QED BY <3>1, <3>2, <4>2
    <3>3. CASE p \notin new
      <4>1. disc.current[p] \in 0 .. MaxIndexes
        BY <1>1, DiscoveryTyped
      <4> QED BY <3>1, <3>3, <4>1
    <3> QED BY <3>2, <3>3
  <2>4. C \in [Providers -> 0 .. MaxIndexes]
    BY <2>3, <1>3
  <2> QED BY <2>2, <2>4, <1>4, <1>16 DEF Discoveries
<1>20. UnitsMatch(d)
  <2>1. SUFFICES ASSUME NEW j \in Indexes
        PROVE  /\ d.index[j].state \in {"unused", "queued"} => d.index[j].raw = 0 /\ d.index[j].kept = 0
               /\ d.index[j].state = "listing" => IndexUnits <= d.index[j].raw /\ d.index[j].kept = 0
               /\ d.index[j].state \in {"ready", "failed"} => d.index[j].raw = 0
    BY DEF UnitsMatch
  <2>2. /\ disc.index[j].state \in {"unused", "queued"} => disc.index[j].raw = 0 /\ disc.index[j].kept = 0
        /\ disc.index[j].state = "listing" => IndexUnits <= disc.index[j].raw /\ disc.index[j].kept = 0
        /\ disc.index[j].state \in {"ready", "failed"} => disc.index[j].raw = 0
    BY <1>1 DEF Sound, UnitsMatch
  <2>3. CASE j \notin use
    BY <2>2, <2>3, <1>10
  <2>4. CASE j \in use /\ j[1] \notin new
    BY <2>2, <2>4, <1>11
  <2>5. CASE j \in T
    BY <2>5, <1>12
  <2> QED BY <2>3, <2>4, <2>5, <1>18
<1>21. CapacityHeld(d)
  <2>1. ASSUME NEW j \in Indexes
        PROVE  d.index[j].raw \in {0, disc.index[j].raw} /\ d.index[j].kept \in {0, disc.index[j].kept}
    BY <1>10, <1>11, <1>12, <1>18
  <2>2. ActiveIndexes(d) \subseteq ActiveIndexes(disc)
    BY <2>1 DEF ActiveIndexes
  <2>3. IsFiniteSet(ActiveIndexes(disc))
    BY IndexesFinite, FS_Subset DEF ActiveIndexes
  <2>4. /\ Cardinality(ActiveIndexes(d)) <= Cardinality(ActiveIndexes(disc))
        /\ Cardinality(ActiveIndexes(d)) \in Nat /\ Cardinality(ActiveIndexes(disc)) \in Nat
    BY <2>2, <2>3, FS_Subset, FS_CardinalityType
  <2>5. ASSUME NEW j \in Indexes PROVE Height(d, j) <= Height(disc, j)
    <3>1. disc.index[j].raw \in Nat /\ disc.index[j].kept \in Nat
      BY <1>1, DiscoveryTyped
    <3> QED BY <3>1, <2>1 DEF Height
  <2>6. Used(d) <= Used(disc) /\ Used(d) \in Nat /\ Used(disc) \in Nat /\ Capacity \in Nat
    BY <1>1, <1>19, <2>5, UnitsShrink, UnitsAre, RegistryAssumption
  <2> QED BY <2>4, <2>6, <1>1 DEF Sound, CapacityHeld, RawSlots
<1>22. QueueSound(d)
  <2>1. ASSUME NEW k \in 1 .. Len(s)
        PROVE  s[k] \in Indexes /\ s[k] \notin T /\ d.index[s[k]].state = "queued"
    <3>1. s[k] \in Indexes /\ disc.index[s[k]].state = "queued"
      BY <1>1, <1>15, ElementOfSeq DEF Sound, QueueSound
    <3>2. s[k] \notin T
      BY <3>1, <1>12
    <3> QED BY <3>1, <3>2, <1>10, <1>11, <1>18
  <2>2. \A k \in 1 .. Len(t) : t[k] \in T /\ d.index[t[k]].state = "queued"
    BY <1>12, <1>14, <1>15
  <2>3. /\ \A k, l \in 1 .. Len(s) : s[k] = s[l] => k = l
        /\ \A k, l \in 1 .. Len(t) : t[k] = t[l] => k = l
    BY <1>1, <1>14, <1>15 DEF Sound, QueueSound
  <2>4. ASSUME NEW k \in 1 .. Len(c)
        PROVE  /\ k \in 1 .. Len(s) => c[k] = s[k]
               /\ k \notin 1 .. Len(s) => k - Len(s) \in 1 .. Len(t) /\ c[k] = t[k - Len(s)]
    <3>1. Len(s) \in Nat /\ Len(t) \in Nat
      BY <1>15
    <3>2. k \in 1 .. Len(s) + Len(t)
      BY <1>16
    <3>3. c[k] = IF k <= Len(s) THEN s[k] ELSE t[k - Len(s)]
      BY <3>2, <1>16
    <3>4. /\ k \in 1 .. Len(s) => k <= Len(s)
          /\ k \notin 1 .. Len(s) => k - Len(s) \in 1 .. Len(t) /\ ~(k <= Len(s))
      BY ONLY <3>1, <3>2
    <3> QED BY ONLY <3>3, <3>4
  <2>5. ASSUME NEW k \in 1 .. Len(c) PROVE d.index[c[k]].state = "queued"
    <3>1. CASE k \in 1 .. Len(s)
      BY <3>1, <2>1, <2>4
    <3>2. CASE k \notin 1 .. Len(s)
      BY <3>2, <2>2, <2>4
    <3> QED BY <3>1, <3>2
  <2>6. ASSUME NEW k \in 1 .. Len(c), NEW l \in 1 .. Len(c), c[k] = c[l] PROVE k = l
    <3>1. CASE k \in 1 .. Len(s) /\ l \in 1 .. Len(s)
      BY <3>1, <2>3, <2>4, <2>6
    <3>2. CASE k \in 1 .. Len(s) /\ l \notin 1 .. Len(s)
      BY <3>2, <2>1, <2>2, <2>4, <2>6
    <3>3. CASE k \notin 1 .. Len(s) /\ l \in 1 .. Len(s)
      BY <3>3, <2>1, <2>2, <2>4, <2>6
    <3>4. CASE k \notin 1 .. Len(s) /\ l \notin 1 .. Len(s)
      <4>1. k - Len(s) \in 1 .. Len(t) /\ l - Len(s) \in 1 .. Len(t) /\ t[k - Len(s)] = t[l - Len(s)]
        BY <3>4, <2>4, <2>6
      <4>2. k - Len(s) = l - Len(s)
        BY <4>1, <2>3
      <4> QED BY <4>2, <1>15, <1>16
    <3> QED BY <3>1, <3>2, <3>3, <3>4
  <2> QED BY <2>5, <2>6, <1>16 DEF QueueSound
<1>23. NothingLeaks(d)
  <2>1. SUFFICES ASSUME NEW j \in Indexes, d.index[j].kept > 0
                 PROVE  Pending(d.index[j]) \/ d.index[j].users > 0 \/ IsCurrent(d, j)
    BY DEF NothingLeaks
  <2>2. CASE j \in use
    <3>1. d.index[j].users > 0
      <4>1. disc.index[j].users \in Nat
        BY <1>1, DiscoveryTyped
      <4>2. d.index[j].users = disc.index[j].users + 1 \/ d.index[j].users = 1
        BY <2>2, <1>11, <1>12, <1>18
      <4> QED BY <4>1, <4>2
    <3> QED BY <3>1
  <2>3. CASE j \notin use
    <3>1. j \notin gone /\ disc.index[j].kept > 0
      BY <2>1, <2>3, <1>10
    <3>2. Pending(disc.index[j]) \/ disc.index[j].users > 0 \/ IsCurrent(disc, j)
      BY <3>1, <1>1 DEF Sound, NothingLeaks
    <3>3. IsCurrent(disc, j) => disc.index[j].users > 0
      <4>1. SUFFICES ASSUME IsCurrent(disc, j) PROVE disc.index[j].users > 0
        OBVIOUS
      <4>2. j[1] \in new /\ j[2] = disc.current[j[1]]
        BY <4>1, <2>3, <1>7 DEF IsCurrent
      <4>3. disc.index[j].users # 0 /\ disc.index[j].users \in Nat
        BY <4>2, <3>1, <1>1, <1>7, DiscoveryTyped
      <4> QED BY <4>3
    <3> QED BY <3>2, <3>3, <2>3, <1>10 DEF Pending
  <2> QED BY <2>2, <2>3
<1>24. /\ query' \in [Queries -> QueryStates] /\ query'[q].pc = "waiting" /\ query'[q].using = use /\ query'[q].asked = revision
       /\ \A o \in Queries : o # q => query'[o] = query[o]
  <2>1. [pc |-> "waiting", using |-> use, asked |-> revision] \in QueryStates
    BY <1>1, <1>8 DEF QueryStates
  <2> QED BY <2>1, <1>1, <1>5
<1>25. begun' \in [Providers -> Nat] /\ \A p \in Providers : /\ begun'[p] = (IF p \in new THEN begun[p] + 1 ELSE begun[p])
                                                            /\ begun[p] <= begun'[p]
  <2>1. ASSUME NEW p \in Providers
        PROVE  /\ begun'[p] = (IF p \in new THEN begun[p] + 1 ELSE begun[p])
               /\ begun[p] <= begun'[p] /\ begun'[p] \in Nat
    <3>1. begun'[p] = (IF p \in new THEN begun[p] + 1 ELSE begun[p])
      BY <1>3, <1>5
    <3>2. begun[p] \in Nat
      BY <1>1
    <3> QED BY <3>1, <3>2
  <2>2. begun' = [p \in Providers |-> begun'[p]]
    BY <1>3, <1>5
  <2> QED BY <2>1, <2>2
<1>26. ASSUME NEW i \in Indexes
       PROVE  /\ i \in use => Waiting(query', i) = Waiting(query, i) \cup {q} /\ q \notin Waiting(query, i)
              /\ i \notin use => Waiting(query', i) = Waiting(query, i)
  BY <1>5, <1>24 DEF Waiting
<1>27. RevisionsSound(d, revision)
  <2>1. SUFFICES ASSUME NEW j \in Indexes
        PROVE  /\ d.index[j].before <= revision[j[1]]
               /\ d.index[j].state \in {"built", "ready"} =>
                    d.index[j].before <= d.index[j].content /\ d.index[j].content <= revision[j[1]]
    BY DEF RevisionsSound
  <2>2. /\ disc.index[j].before <= revision[j[1]]
        /\ disc.index[j].state \in {"built", "ready"} =>
             disc.index[j].before <= disc.index[j].content /\ disc.index[j].content <= revision[j[1]]
    BY <1>1 DEF Consistent, RevisionsSound
  <2>3. CASE j \notin use
    BY <2>2, <2>3, <1>10
  <2>4. CASE j \in use /\ j[1] \notin new
    BY <2>2, <2>4, <1>11
  <2>5. CASE j \in T
    <3>1. d.index[j].before = revision[j[1]] /\ d.index[j].state = "queued"
      BY <2>5, <1>12
    <3>2. revision[j[1]] \in Nat
      BY <1>1, <1>7
    <3> QED BY <3>1, <3>2
  <2> QED BY <2>3, <2>4, <2>5, <1>18
<1>28. BegunSound(d, begun')
  <2>1. ASSUME NEW j \in Indexes, j[2] > begun'[j[1]] PROVE d.index[j].state = "unused"
    <3>1. j[1] \in Providers /\ j[2] \in Nat
      BY <1>7
    <3>2. begun'[j[1]] \in Nat /\ begun[j[1]] \in Nat /\ begun[j[1]] <= begun'[j[1]]
      BY <3>1, <1>6, <1>25
    <3>3. disc.index[j].state = "unused"
      <4>1. j[2] > begun[j[1]]
        BY <2>1, <3>1, <3>2
      <4> QED BY <4>1, <1>1 DEF Consistent, BegunSound
    <3>4. j \notin T
      <4>1. SUFFICES ASSUME j \in T PROVE FALSE
        OBVIOUS
      <4>2. j[2] = begun[j[1]] + 1 /\ begun'[j[1]] = begun[j[1]] + 1
        BY <4>1, <3>1, <1>12, <1>25
      <4> QED BY <4>2, <2>1, <3>2
    <3> QED BY <3>3, <3>4, <1>10, <1>11, <1>18
  <2>2. ASSUME NEW p \in Providers PROVE d.current[p] <= begun'[p]
    <3>1. /\ d.current[p] = (IF p \in new THEN begun[p] + 1 ELSE disc.current[p])
          /\ begun'[p] = (IF p \in new THEN begun[p] + 1 ELSE begun[p])
          /\ begun[p] \in Nat /\ disc.current[p] <= begun[p]
      BY <1>6, <1>17, <1>25
    <3> QED BY <3>1
  <2> QED BY <2>1, <2>2 DEF BegunSound
<1>29. UsersSound(d, begun', query')
  <2>1. SUFFICES ASSUME NEW i \in Indexes
                 PROVE  /\ d.index[i].users = Cardinality(Waiting(query', i))
                        /\ Waiting(query', i) # {} => i[2] <= begun'[i[1]]
    BY DEF UsersSound
  <2>2. disc.index[i].users = Cardinality(Waiting(query, i)) /\ (Waiting(query, i) # {} => i[2] <= begun[i[1]])
    BY <1>1 DEF Consistent, UsersSound
  <2>3. /\ i[1] \in Providers /\ i[2] \in Nat /\ begun[i[1]] \in Nat /\ begun'[i[1]] \in Nat
        /\ begun[i[1]] <= begun'[i[1]] /\ disc.current[i[1]] \in Nat /\ disc.current[i[1]] <= begun[i[1]]
    BY <1>6, <1>7, <1>25
  <2>4. CASE i \notin use
    BY <2>2, <2>3, <2>4, <1>10, <1>26
  <2>5. CASE i \in use
    <3>1. Cardinality(Waiting(query', i)) = Cardinality(Waiting(query, i)) + 1
      BY <2>5, <1>26, WaitingFinite, FS_AddElement
    <3>2. CASE i[1] \notin new
      <4>1. i[2] = disc.current[i[1]]
        BY <2>5, <3>2, <1>7
      <4> QED BY <4>1, <3>1, <3>2, <2>2, <2>3, <2>5, <1>11
    <3>3. CASE i \in T
      <4>1. Cardinality(Waiting(query, i)) = 0
        BY <3>3, <1>12, FS_EmptySet
      <4>2. i[1] \in new /\ i[2] = begun[i[1]] + 1 /\ d.index[i].users = 1
        BY <3>3, <1>12
      <4>3. begun'[i[1]] = begun[i[1]] + 1
        BY <4>2, <2>3, <1>25
      <4> QED BY <4>1, <4>2, <4>3, <3>1, <2>3
    <3> QED BY <3>2, <3>3, <2>5, <1>13
  <2> QED BY <2>4, <2>5
<1>30. MapSound(d, registry)
  <2>1. SUFFICES ASSUME NEW j \in Indexes, registry # "closed", Pending(d.index[j]) PROVE IsCurrent(d, j)
    BY DEF MapSound
  <2>2. j[1] \in Providers
    BY <1>7
  <2>3. CASE j \in T
    BY <2>2, <2>3, <1>12, <1>17 DEF IsCurrent
  <2>4. CASE j \in use /\ j[1] \notin new
    BY <2>2, <2>4, <1>7, <1>17 DEF IsCurrent
  <2>5. CASE j \notin use
    <3>1. Pending(disc.index[j])
      BY <2>1, <2>5, <1>10 DEF Pending
    <3>2. disc.current[j[1]] = j[2]
      BY <2>1, <3>1, <1>1 DEF Consistent, MapSound, IsCurrent
    <3>3. j[1] \in new
      BY <3>2, <2>5, <1>7
    <3>4. j = <<j[1], disc.current[j[1]]>> /\ disc.current[j[1]] # 0
      BY <3>2, <1>7
    <3>5. ~Pending(disc.index[j])
      BY <3>3, <3>4, <2>2, <1>6
    <3> QED BY <3>1, <3>5
  <2> QED BY <2>3, <2>4, <2>5, <1>18
<1>31. AskedSound(d, revision, query')
  <2>1. SUFFICES ASSUME NEW o \in Queries, query'[o].pc = "waiting", NEW j \in query'[o].using
                 PROVE  /\ query'[o].asked[j[1]] <= revision[j[1]]
                        /\ d.index[j].state = "ready" => query'[o].asked[j[1]] <= d.index[j].content
    BY DEF AskedSound
  <2>2. CASE o = q
    <3>1. j \in use /\ j \in Indexes /\ query'[o].asked = revision
      BY <2>1, <2>2, <1>8, <1>24
    <3>2. revision[j[1]] \in Nat
      BY <3>1, <1>6, <1>7
    <3>3. ASSUME d.index[j].state = "ready" PROVE revision[j[1]] <= d.index[j].content
      <4>1. j[1] \notin new
        BY <3>1, <3>3, <1>12, <1>13
      <4>2. disc.index[j].state = "ready" /\ d.index[j].content = disc.index[j].content
        BY <3>1, <3>3, <4>1, <1>11
      <4>3. disc.index[j].before = revision[j[1]]
        BY <3>1, <4>1, <4>2, <1>11 DEF Pending
      <4>4. disc.index[j].before <= disc.index[j].content
        BY <3>1, <4>2, <1>1 DEF Consistent, RevisionsSound
      <4> QED BY <4>2, <4>3, <4>4
    <3> QED BY <3>1, <3>2, <3>3
  <2>3. CASE o # q
    <3>1. query'[o] = query[o] /\ query[o].pc = "waiting" /\ j \in query[o].using
      BY <2>1, <2>3, <1>24
    <3>2. j \in Indexes
      BY <3>1, <1>1 DEF QueryStates
    <3>3. /\ query[o].asked[j[1]] <= revision[j[1]]
          /\ disc.index[j].state = "ready" => query[o].asked[j[1]] <= disc.index[j].content
      BY <3>1, <1>1 DEF Consistent, AskedSound
    <3>4. ASSUME d.index[j].state = "ready" PROVE disc.index[j].state = "ready" /\ d.index[j].content = disc.index[j].content
      BY <3>2, <3>4, <1>10, <1>11, <1>12, <1>18
    <3> QED BY <3>1, <3>3, <3>4
  <2> QED BY <2>2, <2>3
<1>32. Consistent(d, revision', begun', query', registry')
  BY <1>5, <1>27, <1>28, <1>29, <1>30, <1>31 DEF Consistent
<1>33. Sound(d)
  BY <1>20, <1>21, <1>22, <1>23 DEF Sound
<1> QED BY <1>1, <1>5, <1>19, <1>24, <1>25, <1>32, <1>33, PumpingEnds

LEMMA RegistryStep == ASSUME RegistryInvariant, [RegNext]_regVars PROVE RegistryInvariant'
<1>1. ASSUME NEW q \in Queries, Query(q) PROVE RegistryInvariant'
  BY <1>1, QueryKeeps
<1>2. ASSUME NEW q \in Queries, Leave(q) PROVE RegistryInvariant'
  BY <1>2, LeaveKeeps
<1>3. ASSUME NEW i \in Indexes, ListedNames(i) PROVE RegistryInvariant'
  BY <1>3, ListedKeeps
<1>4. ASSUME NEW i \in Indexes, FinishQuery(i) PROVE RegistryInvariant'
  BY <1>4, FinishKeeps
<1>5. ASSUME NEW i \in Indexes, Fail(i) PROVE RegistryInvariant'
  BY <1>5, FailKeeps
<1>6. ASSUME NEW p \in Providers, Revise(p) PROVE RegistryInvariant'
  BY <1>6, ReviseKeeps
<1> QED BY <1>1, <1>2, <1>3, <1>4, <1>5, <1>6, ClosesKeeps, ClearKeeps, RegistryStutter DEF RegNext

\* The invariant says all that the registry promises.
LEMMA RegistryPromises == RegistryInvariant => RegistryKept
<1> SUFFICES ASSUME RegistryInvariant PROVE RegistryKept
  OBVIOUS
<1>1. /\ disc \in Discoveries /\ query \in [Queries -> QueryStates] /\ Sound(disc)
      /\ Consistent(disc, revision, begun, query, registry) /\ QueueServed(disc, registry)
  BY DEF RegistryInvariant, RegistryTyped
<1>2. CapacityKept
  BY <1>1 DEF Sound, CapacityHeld, NothingLeaks, CapacityKept
<1>3. QueueMoves
  BY <1>1 DEF QueueServed, QueueMoves
<1>4. AnswersCurrent
  <2>1. SUFFICES ASSUME NEW q \in Queries, query[q].pc = "waiting", NEW i \in query[q].using, disc.index[i].state = "ready"
                 PROVE  disc.index[i].content >= query[q].asked[i[1]]
    BY DEF AnswersCurrent
  <2>2. query[q].asked[i[1]] <= disc.index[i].content
    BY <1>1, <2>1 DEF Consistent, AskedSound
  <2> QED BY <2>2
<1> QED BY <1>2, <1>3, <1>4 DEF RegistryKept

\* Whatever queries come and go, whichever producers fail or whose providers
\* change meanwhile, and however the registry is closed: its capacity is never
\* exceeded and never leaks, its queue moves, and no query is answered from an
\* index older than its question.
THEOREM RegistryHolds == RegSpec => []RegistryKept
<1>1. RegInit => RegistryInvariant
  BY RegistryInit
<1>2. RegistryInvariant /\ [RegNext]_regVars => RegistryInvariant'
  BY RegistryStep
<1>3. RegistryInvariant => RegistryKept
  BY RegistryPromises
<1> QED BY <1>1, <1>2, <1>3, PTL DEF RegSpec
=============================================================================
