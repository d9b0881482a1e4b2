---------------------------- MODULE CompilerPool ----------------------------
(* The per-service pool of TypeScript compiler threads and its bounded        *)
(* compilation cache: runtime/compiler-pool.ts.  One JavaScript thread runs   *)
(* the pool; check, close, timers, abort listeners and worker events are      *)
(* atomic handlers, and everything a compiler thread does reaches the pool    *)
(* through one of them.                                                       *)
EXTENDS Naturals, Sequences, FiniteSets, Functions

CONSTANTS Requests,    \* calls of check; each is made at most once
          Threads,     \* worker threads, in the order they may be spawned
          Keys,        \* cache keys: declarations digest plus source
          Nil,         \* "undefined"
          KeyOf,       \* the key of a request; Nil for a custom or oversized one
          Custom,      \* the requests that name their own worker URL
          Chars,       \* characters a key and its emitted text take in the cache
          MaxWorkers,  \* maxWorkers
          MaxUses,     \* COMPILER_WORKER_MAX_USES
          MaxEntries,  \* MAX_COMPILER_CACHE_ENTRIES
          MaxChars     \* MAX_COMPILER_CACHE_CHARS

ASSUME PoolNames == Nil \notin Requests \cup Threads \cup Keys
ASSUME PoolKeys == /\ KeyOf \in [Requests -> Keys \cup {Nil}]
                   /\ Custom \subseteq Requests
                   /\ \A r \in Custom : KeyOf[r] = Nil
                   /\ Chars \in [Keys -> Nat]
ASSUME PoolBounds == /\ MaxWorkers \in Nat \ {0}
                     /\ MaxUses \in Nat \ {0}
                     /\ MaxEntries \in Nat \ {0}
                     /\ MaxChars \in Nat

VARIABLES
  workers,      \* #workers: the threads that hold capacity
  retiring,     \* #retiring: threads whose termination has begun
  idle,         \* #idle: the one retained warm thread, or Nil
  timers,       \* threads whose idle timer is armed
  uses,         \* state.uses
  pending,      \* state.pending: the request a thread works for, or Nil
  termination,  \* state.termination: "none", "begun" or "settled"
  thread,       \* the operating-system side: "unborn", "running" or "exited"
  posted,       \* the request last posted to a thread, or Nil
  phase,        \* of a request: "new", "waiting", "ending" or "done"
  verdict,      \* how finish settled a request; "none" before
  server,       \* the thread that serves a request, or Nil
  cache,        \* #cache, as its keys from the oldest to the newest
  cachedChars,  \* #cachedChars
  closing       \* #closed and #closing: "open", "draining" or "closed"

poolVars == <<workers, retiring, idle, timers, uses, termination, thread>>
requestVars == <<pending, posted, phase, verdict, server>>
cacheVars == <<cache, cachedChars>>
vars == <<poolVars, requestVars, cacheVars, closing>>

Verdicts == {"none", "hit", "miss", "bypass", "failed", "timeout", "aborted", "limit"}

Init ==
  /\ workers = {} /\ retiring = {} /\ idle = Nil /\ timers = {}
  /\ uses = [w \in Threads |-> 0]
  /\ pending = [w \in Threads |-> Nil]
  /\ termination = [w \in Threads |-> "none"]
  /\ thread = [w \in Threads |-> "unborn"]
  /\ posted = [w \in Threads |-> Nil]
  /\ phase = [r \in Requests |-> "new"]
  /\ verdict = [r \in Requests |-> "none"]
  /\ server = [r \in Requests |-> Nil]
  /\ cache = <<>> /\ cachedChars = 0
  /\ closing = "open"

-----------------------------------------------------------------------------
(* The cache                                                                  *)

CharsOf(keys) == LET upTo[n \in 0..Len(keys)] == IF n = 0 THEN 0 ELSE upTo[n - 1] + Chars[keys[n]]
                 IN upTo[Len(keys)]
Without(keys, key) ==
  IF \E i \in DOMAIN keys : keys[i] = key
  THEN LET at == CHOOSE i \in DOMAIN keys : keys[i] = key
       IN SubSeq(keys, 1, at - 1) \o SubSeq(keys, at + 1, Len(keys))
  ELSE keys
Cached(key) == \E i \in DOMAIN cache : cache[i] = key

\* The eviction loop: drop the oldest entries until both bounds hold.
Evict(keys, chars) ==
  LET Left(n) == SubSeq(keys, n + 1, Len(keys))
      Count(n) == chars - CharsOf(SubSeq(keys, 1, n))
      Fits(n) == Len(Left(n)) <= MaxEntries /\ Count(n) <= MaxChars
      Fewest == CHOOSE n \in 0..Len(keys) :
                  Fits(n) /\ \A m \in 0..(n - 1) : ~Fits(m)
  IN /\ cache' = Left(Fewest)
     /\ cachedChars' = Count(Fewest)

\* Mutant: an entry that replaces one of the same key is counted again.
RememberRecounted(key) ==
  IF key = Nil \/ Chars[key] > MaxChars
  THEN UNCHANGED cacheVars
  ELSE Evict(Append(Without(cache, key), key), cachedChars + Chars[key])

\* #remember, of a compilation with emitted text and no errors.
Remember(key) ==
  IF key = Nil \/ Chars[key] > MaxChars
  THEN UNCHANGED cacheVars
  ELSE Evict(Append(Without(cache, key), key),
             (IF Cached(key) THEN cachedChars - Chars[key] ELSE cachedChars) + Chars[key])

-----------------------------------------------------------------------------
(* Threads                                                                    *)

\* #terminate, for each thread of a set: detach the idle worker, give the
\* capacity back at once, and retain the termination for close.
Terminate(S) ==
  LET fresh == {w \in S : termination[w] = "none"} IN
  /\ idle' = IF idle \in S THEN Nil ELSE idle
  /\ timers' = timers \ S
  /\ workers' = workers \ S
  /\ termination' = [w \in Threads |-> IF w \in fresh THEN "begun" ELSE termination[w]]
  /\ retiring' = retiring \cup fresh

\* Mutant: the caller is answered as soon as its request has failed.
EndPhaseEarly(w) == "done"

\* The caller of a request is answered once the termination it waits for ends.
EndPhase(w) == IF termination[w] = "settled" THEN "done" ELSE "ending"

\* finish with an error, for each request the threads of S work on; the
\* threads are terminated.
Stop(S, how) ==
  LET ended == {pending[w] : w \in S} \ {Nil} IN
  /\ pending' = [w \in Threads |-> IF w \in S THEN Nil ELSE pending[w]]
  /\ verdict' = [r \in Requests |-> IF r \in ended THEN how ELSE verdict[r]]
  /\ phase' = [r \in Requests |-> IF r \in ended THEN EndPhase(server[r]) ELSE phase[r]]
  /\ Terminate(S)
  /\ UNCHANGED <<uses, server>>

\* finish with a result: remember it, then retain the worker as the one idle
\* worker or terminate it.
FinishDone(w, clean) ==
  LET r == pending[w]
      keep == /\ closing = "open" /\ idle = Nil
              /\ r \notin Custom /\ uses[w] + 1 < MaxUses
  IN /\ pending' = [pending EXCEPT ![w] = Nil]
     /\ verdict' = [verdict EXCEPT ![r] = IF KeyOf[r] = Nil THEN "bypass" ELSE "miss"]
     /\ uses' = [uses EXCEPT ![w] = @ + 1]
     /\ IF clean THEN Remember(KeyOf[r]) ELSE UNCHANGED cacheVars
     /\ IF keep
        THEN /\ idle' = w
             /\ timers' = timers \cup {w}
             /\ phase' = [phase EXCEPT ![r] = "done"]
             /\ UNCHANGED <<workers, retiring, termination>>
        ELSE /\ phase' = [phase EXCEPT ![r] = EndPhase(w)]
             /\ Terminate({w})
     /\ UNCHANGED server

-----------------------------------------------------------------------------
(* check                                                                      *)

\* Settled inside check itself: nothing was acquired.
Answer(r, how) ==
  /\ phase' = [phase EXCEPT ![r] = "done"]
  /\ verdict' = [verdict EXCEPT ![r] = how]
  /\ UNCHANGED <<pending, posted, server, poolVars, closing>>

\* The pool is closed, or the caller's signal is aborted already.
Refuse(r) ==
  /\ phase[r] = "new"
  /\ \/ closing # "open" /\ Answer(r, "failed")
     \/ closing = "open" /\ Answer(r, "aborted")
  /\ UNCHANGED cacheVars

\* A hit becomes the newest entry.
Hit(r) ==
  /\ phase[r] = "new" /\ closing = "open"
  /\ KeyOf[r] # Nil /\ Cached(KeyOf[r])
  /\ cache' = Append(Without(cache, KeyOf[r]), KeyOf[r])
  /\ Answer(r, "hit")
  /\ UNCHANGED cachedChars

Misses(r) == /\ phase[r] = "new" /\ closing = "open"
             /\ KeyOf[r] # Nil => ~Cached(KeyOf[r])
Warm(r) == r \notin Custom /\ idle # Nil

\* #acquire rejects: every worker holds capacity and none is reusable.
LimitReached(r) ==
  /\ Misses(r) /\ ~Warm(r)
  /\ Cardinality(workers) >= MaxWorkers
  /\ Answer(r, "limit")
  /\ UNCHANGED cacheVars

\* The request takes thread w; if the message cannot be posted the request
\* ends at once and the worker with it.
Serve(r, w, sent) ==
  /\ server' = [server EXCEPT ![r] = w]
  /\ IF sent
     THEN /\ pending' = [pending EXCEPT ![w] = r]
          /\ posted' = [posted EXCEPT ![w] = r]
          /\ phase' = [phase EXCEPT ![r] = "waiting"]
          /\ UNCHANGED <<verdict, termination, retiring>>
     ELSE /\ verdict' = [verdict EXCEPT ![r] = "failed"]
          /\ phase' = [phase EXCEPT ![r] = "ending"]
          /\ termination' = [termination EXCEPT ![w] = "begun"]
          /\ retiring' = retiring \cup {w}
          /\ UNCHANGED <<pending, posted>>

CheckWarm(r, sent) ==
  /\ Misses(r) /\ Warm(r)
  /\ Serve(r, idle, sent)
  /\ idle' = Nil
  /\ timers' = timers \ {idle}
  /\ workers' = IF sent THEN workers ELSE workers \ {idle}
  /\ UNCHANGED <<uses, thread, cacheVars, closing>>

CheckCold(r, w, sent) ==
  /\ Misses(r) /\ ~Warm(r)
  /\ Cardinality(workers) < MaxWorkers
  /\ thread[w] = "unborn"
  /\ Serve(r, w, sent)
  /\ thread' = [thread EXCEPT ![w] = "running"]
  /\ workers' = IF sent THEN workers \cup {w} ELSE workers
  /\ UNCHANGED <<idle, timers, uses, cacheVars, closing>>

-----------------------------------------------------------------------------
(* Worker events, timers, the caller's signal                                 *)

\* The "message" listener; a reply to a request that is no longer pending is
\* dropped.
Reply(w) ==
  /\ thread[w] = "running" /\ posted[w] # Nil
  /\ IF pending[w] = posted[w]
     THEN /\ \/ \E clean \in BOOLEAN : FinishDone(w, clean)
             \/ Stop({w}, "failed") /\ UNCHANGED cacheVars
          /\ UNCHANGED <<thread, closing>>
     ELSE UNCHANGED <<poolVars, pending, phase, verdict, server, cacheVars, closing>>
  /\ posted' = [posted EXCEPT ![w] = Nil]

\* The "error" listener: an uncaught exception in the compiler thread.
ErrorEvent(w) ==
  /\ thread[w] = "running" /\ termination[w] = "none"
  /\ Stop({w}, "failed")
  /\ UNCHANGED <<thread, posted, cacheVars, closing>>

\* The "exit" listener, whether the pool asked for it or not.
Exit(w) ==
  /\ thread[w] = "running"
  /\ thread' = [thread EXCEPT ![w] = "exited"]
  /\ posted' = [posted EXCEPT ![w] = Nil]
  /\ IF pending[w] # Nil
     THEN Stop({w}, "failed")
     ELSE /\ idle' = IF idle = w THEN Nil ELSE idle
          /\ timers' = timers \ {w}
          /\ workers' = workers \ {w}
          /\ UNCHANGED <<retiring, termination, uses, pending, phase, verdict, server>>
  /\ UNCHANGED <<cacheVars, closing>>

\* Mutant: no reaction completes the requests that wait for the termination.
TerminatedSilently(w) ==
  /\ termination[w] = "begun" /\ thread[w] = "exited"
  /\ termination' = [termination EXCEPT ![w] = "settled"]
  /\ retiring' = retiring \ {w}
  /\ UNCHANGED <<workers, idle, timers, uses, thread, requestVars, cacheVars, closing>>

\* The termination promise: it settles when the thread has exited, and its
\* reactions run in the same turn.
Terminated(w) ==
  /\ termination[w] = "begun" /\ thread[w] = "exited"
  /\ termination' = [termination EXCEPT ![w] = "settled"]
  /\ retiring' = retiring \ {w}
  /\ phase' = [r \in Requests |->
                 IF phase[r] = "ending" /\ server[r] = w THEN "done" ELSE phase[r]]
  /\ UNCHANGED <<workers, idle, timers, uses, thread, pending, posted, verdict,
                 server, cacheVars, closing>>

IdleTimer(w) ==
  /\ w \in timers
  /\ Terminate({w})
  /\ UNCHANGED <<uses, thread, requestVars, cacheVars, closing>>

\* The request's timer, and the abort listener of its signal.
Expire(w) ==
  /\ pending[w] # Nil
  /\ Stop({w}, "timeout")
  /\ UNCHANGED <<thread, posted, cacheVars, closing>>

Abort(w) ==
  /\ pending[w] # Nil
  /\ Stop({w}, "aborted")
  /\ UNCHANGED <<thread, posted, cacheVars, closing>>

-----------------------------------------------------------------------------
(* close                                                                      *)

\* Every worker is finished and terminated in one turn; a second call only
\* clears the cache again.
Close ==
  /\ closing = "open"
  /\ closing' = "draining"
  /\ cache' = <<>> /\ cachedChars' = 0
  /\ Stop(workers, "failed")
  /\ UNCHANGED <<thread, posted>>

CloseDone ==
  /\ closing = "draining" /\ retiring = {}
  /\ closing' = "closed"
  /\ UNCHANGED <<poolVars, requestVars, cacheVars>>

Check(r) == \/ Refuse(r) \/ Hit(r) \/ LimitReached(r)
            \/ \E sent \in BOOLEAN :
                 \/ CheckWarm(r, sent)
                 \/ \E w \in Threads : CheckCold(r, w, sent)

Event(w) == \/ Reply(w) \/ ErrorEvent(w) \/ Exit(w) \/ Terminated(w)
            \/ IdleTimer(w) \/ Expire(w) \/ Abort(w)

Next == \/ \E r \in Requests : Check(r)
        \/ \E w \in Threads : Event(w)
        \/ Close
        \/ CloseDone

Spec == Init /\ [][Next]_vars

\* Timers fire, threads asked to terminate exit, and promise reactions run.
FairSpec ==
  /\ Spec
  /\ \A w \in Threads : /\ WF_vars(Expire(w))
                        /\ WF_vars(termination[w] = "begun" /\ Exit(w))
                        /\ WF_vars(Terminated(w))
                        /\ WF_vars(IdleTimer(w))
  /\ WF_vars(CloseDone)

-----------------------------------------------------------------------------
(* Properties                                                                 *)

ThreadsTyped ==
  /\ workers \subseteq Threads /\ retiring \subseteq Threads
  /\ timers \subseteq Threads /\ idle \in Threads \cup {Nil}
  /\ uses \in [Threads -> Nat]
  /\ pending \in [Threads -> Requests \cup {Nil}]
  /\ posted \in [Threads -> Requests \cup {Nil}]
  /\ termination \in [Threads -> {"none", "begun", "settled"}]
  /\ thread \in [Threads -> {"unborn", "running", "exited"}]
  /\ phase \in [Requests -> {"new", "waiting", "ending", "done"}]
  /\ verdict \in [Requests -> Verdicts]
  /\ server \in [Requests -> Threads \cup {Nil}]
  /\ closing \in {"open", "draining", "closed"}

\* Every variable keeps its shape; the character count never goes negative.
TypeOK == ThreadsTyped /\ cache \in Seq(Keys) /\ cachedChars \in Nat

Busy == {w \in Threads : pending[w] # Nil}
IdleSet == {idle} \ {Nil}

\* Capacity is held by the threads at work and the one warm thread, and by no
\* other: releasing it at the start of a termination neither leaks a slot nor
\* frees the slot of a thread that still works.
CapacityIsWork == workers = Busy \cup IdleSet /\ Busy \cap IdleSet = {}

\* A running compiler thread is always reachable by close: it holds capacity
\* or its termination is retained, so none is lost without an owner.
NoOrphanThread == \A w \in Threads : thread[w] = "running" => w \in workers \cup retiring

\* A request that waits has a thread at work on it and no termination of that
\* thread has begun; each thread serves one request.
WaitersAreServed ==
  /\ \A r \in Requests : phase[r] = "waiting" =>
       /\ server[r] \in Threads
       /\ pending[server[r]] = r
       /\ termination[server[r]] = "none"
  /\ \A w \in Busy : phase[pending[w]] = "waiting" /\ server[pending[w]] = w

\* The running count of cached characters is the true sum, however concurrent
\* misses of one key, hits and evictions fall; entries are distinct and both
\* bounds hold between handlers.
CacheAccounted ==
  /\ cachedChars = CharsOf(cache)
  /\ cachedChars <= MaxChars /\ Len(cache) <= MaxEntries
  /\ \A i, j \in DOMAIN cache : cache[i] = cache[j] => i = j

\* When close has resolved no compiler thread runs and no caller still waits.
ClosedMeansStopped ==
  closing = "closed" => /\ \A w \in Threads : thread[w] # "running"
                        /\ \A r \in Requests : phase[r] \in {"new", "done"}

\* A caller is told of a failure only when the thread that failed it has gone.
FailureAfterExit ==
  \A r \in Requests :
    phase[r] = "done" /\ server[r] # Nil /\ verdict[r] \in {"failed", "timeout", "aborted"}
      => thread[server[r]] = "exited"

\* Compiler threads stay owned from spawn to exit: by the work they do, by their
\* idleness or by a termination that somebody awaits.
ThreadsOwned == CapacityIsWork /\ NoOrphanThread /\ WaitersAreServed /\ FailureAfterExit

\* Every request that was admitted is answered.
RequestsSettle == \A r \in Requests : (phase[r] = "waiting") ~> (phase[r] = "done")

=============================================================================
