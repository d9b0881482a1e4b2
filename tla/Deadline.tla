------------------------------ MODULE Deadline ------------------------------
(* The deadline of runtime/deadline.ts on its two shared 64-bit atomics, the  *)
(* start and the expiry.  Any thread that holds the buffer may build the      *)
(* deadline, raise the expiry with extendTo, a compare-and-exchange loop, and *)
(* force it into the past with expireNow.  This is what the class promises to *)
(* any callers; the runtime lets the host raise and the worker force.  All    *)
(* threads read one clock, in ticks.  Definitions whose comment speaks of "a" *)
(* loop, expiry or extension are defective variants of the one below them.    *)
EXTENDS Integers

CONSTANTS Timeout,  \* the requested timeout
          Maximum,  \* the cap of every extension
          Holders,  \* threads that share the buffer
          Floors,   \* timeouts that exact actions ask for
          MaxNow    \* the clock stops there (bounds the model)

ASSUME DeadlineConstants ==
  /\ Timeout \in Nat \ {0} /\ Maximum \in Nat \ {0}
  /\ Floors \subseteq Int /\ MaxNow \in Nat

VARIABLES
  now,    \* performance.now()
  start,  \* sharedState[0]
  cell,   \* sharedState[1], the expiry; 0 until the deadline is built
  built,  \* the thread has its FabricDeadline
  pc,     \* extendTo: "idle", "looping", "loaded" or "accepting"
  prev,   \* extendTo's previous
  req     \* the timeout extendTo was asked for

deadlineVars == <<now, start, cell, built, pc, prev, req>>

Smaller(a, b) == IF a < b THEN a ELSE b
Larger(a, b) == IF a < b THEN b ELSE a

Expired == now >= cell
maximumAt == start + Maximum
Requested(t) == start + req[t]

DeadlineInit ==
  /\ now \in 0..MaxNow /\ start = 0 /\ cell = 0
  /\ built = [t \in Holders |-> FALSE]
  /\ pc = [t \in Holders |-> "idle"]
  /\ prev = [t \in Holders |-> 0] /\ req = [t \in Holders |-> 1]

Tick ==
  /\ now < MaxNow
  /\ now' = now + 1
  /\ UNCHANGED <<start, cell, built, pc, prev, req>>

\* The constructor: the first one starts the deadline, a later one adopts it.
\* The first has the buffer to itself, so its two stores are one step.
Construct(t) ==
  /\ ~built[t]
  /\ built' = [built EXCEPT ![t] = TRUE]
  /\ IF cell = 0
     THEN start' = now /\ cell' = now + Smaller(Maximum, Timeout)
     ELSE UNCHANGED <<start, cell>>
  /\ UNCHANGED <<now, pc, prev, req>>

\* extendTo begins: nothing to do for a deadline that has passed.
Extend(t, floor) ==
  /\ built[t] /\ pc[t] = "idle"
  /\ pc' = [pc EXCEPT ![t] = IF Expired THEN "accepting" ELSE "looping"]
  /\ req' = IF Expired THEN req ELSE [req EXCEPT ![t] = Larger(1, floor)]
  /\ UNCHANGED <<now, start, cell, built, prev>>

\* The loop reads the expiry.
Load(t) ==
  /\ pc[t] = "looping"
  /\ prev' = [prev EXCEPT ![t] = cell]
  /\ pc' = [pc EXCEPT ![t] = "loaded"]
  /\ UNCHANGED <<now, start, cell, built, req>>

\* The expiry that extendTo would store.
Raised(t) == Smaller(maximumAt, Larger(prev[t], Requested(t)))

\* A loop that gives up when another thread was faster.
SwapOnce(t) ==
  /\ pc[t] = "loaded"
  /\ IF now >= prev[t] \/ Raised(t) <= prev[t] \/ cell # prev[t]
     THEN UNCHANGED cell ELSE cell' = Raised(t)
  /\ pc' = [pc EXCEPT ![t] = "accepting"]
  /\ UNCHANGED <<now, start, built, prev, req>>

\* The rest of the loop's body: give up, exchange, or load again.
Swap(t) ==
  /\ pc[t] = "loaded"
  /\ \/ /\ now >= prev[t] \/ Raised(t) <= prev[t]
        /\ pc' = [pc EXCEPT ![t] = "accepting"]
        /\ UNCHANGED cell
     \/ /\ now < prev[t] /\ Raised(t) > prev[t] /\ cell = prev[t]
        /\ cell' = Raised(t)
        /\ pc' = [pc EXCEPT ![t] = "accepting"]
     \/ /\ now < prev[t] /\ Raised(t) > prev[t] /\ cell # prev[t]
        /\ pc' = [pc EXCEPT ![t] = "looping"]
        /\ UNCHANGED cell
  /\ UNCHANGED <<now, start, built, prev, req>>

\* extendTo returns the timeout in force.
Accept(t) ==
  /\ pc[t] = "accepting"
  /\ pc' = [pc EXCEPT ![t] = "idle"]
  /\ UNCHANGED <<now, start, cell, built, prev, req>>

\* expireNow.
ExpireNow(t) ==
  /\ built[t] /\ pc[t] = "idle"
  /\ cell' = IF start = 0 THEN -1 ELSE start
  /\ UNCHANGED <<now, start, built, pc, prev, req>>

DeadlineStep(t) == Load(t) \/ Swap(t) \/ Accept(t)

DeadlineNext ==
  \/ Tick
  \/ \E t \in Holders : \/ Construct(t) \/ DeadlineStep(t) \/ ExpireNow(t)
                        \/ \E floor \in Floors : Extend(t, floor)

DeadlineSpec == DeadlineInit /\ [][DeadlineNext]_deadlineVars

-----------------------------------------------------------------------------
(* Properties                                                                 *)

\* The types of the deadline; a request is never for less than one tick.
DeadlineTypeOK ==
  /\ now \in Nat /\ start \in Nat /\ cell \in Int
  /\ built \in [Holders -> BOOLEAN]
  /\ pc \in [Holders -> {"idle", "looping", "loaded", "accepting"}]
  /\ prev \in [Holders -> Int] /\ req \in [Holders -> Nat \ {0}]

\* No extension, whoever makes it, passes the configured maximum.
Capped == cell # 0 => cell <= maximumAt

\* A deadline that was forced to expire stays expired: no extension in flight
\* in another thread brings it back.
ForcedIsFinal == [][cell # 0 /\ cell <= start => cell' <= start']_deadlineVars

\* The deadline is built once: nothing starts it again, and otherwise it moves
\* forward or is forced into the past.
MovesForward ==
  [][cell # 0 => start' = start /\ cell' # 0 /\ (cell' >= cell \/ cell' <= start)]_deadlineVars

\* An extension that returns has taken effect, up to the maximum, unless the
\* deadline was forced to expire or the expiry it read had passed: two threads
\* that extend at once do not lose the longer request.
ExtensionKept ==
  [][\A t \in Holders : pc[t] = "loaded" /\ pc'[t] = "accepting" =>
       \/ cell' >= Smaller(maximumAt, Requested(t))
       \/ cell' <= start
       \/ now >= prev[t]]_deadlineVars

\* The shared deadline under contention: what was forced stays forced, and what
\* was extended stays extended.
DeadlineKept == ForcedIsFinal /\ ExtensionKept

=============================================================================
