----------------------------- MODULE GuestBridge -----------------------------
(* The guest's side of the bridge: runtime/guest-bootstrap.ts.  A program     *)
(* makes host calls directly and from the items of a parallel() helper; one   *)
(* semaphore of the execution queues what exceeds the host's limit, and       *)
(* cancel() stops the queue and decides the run unless the program has.       *)
(* Item i makes call i; the calls after Items are made directly.  Nested      *)
(* helpers, whose calls are further direct ones, facades and the check that   *)
(* arguments are strict JSON are left out.                                    *)
EXTENDS Naturals, Sequences, FiniteSets, SequencesExt, FiniteSetsExt
CONSTANTS Items, Direct, MaxParallel,
          Widths                              \* the concurrencies a helper may ask for
ASSUME GuestAssumption == {Items, Direct} \subseteq Nat /\ MaxParallel \in Nat \ {0} /\ Widths \subseteq Nat \ {0}
VARIABLES sem,     \* activeHostCalls, hostCallWaiters, hostCallsStopped
          host,    \* [call -> unused, queued, granted, working, done or failed]
          fan,     \* the helper: workers, cursor, stopped, what came of each item, its own outcome
          program  \* running, returned or cancelled
guestVars == <<sem, host, fan, program>>

HostCalls == 1 .. Items + Direct
GuestInit ==
  /\ sem = [active |-> 0, waiters |-> <<>>, stopped |-> FALSE]
  /\ host = [c \in HostCalls |-> "unused"]
  /\ fan = [width |-> 0, cursor |-> 0, stopped |-> FALSE, outcome |-> "none", item |-> [i \in 1..Items |-> "unused"]]
  /\ program = "running"

(* acquireHostCall and releaseHostCall: a permit that is released while a     *)
(* call waits passes to it without being counted anew.                        *)
Acquire(c) ==
  IF sem.stopped THEN host' = [host EXCEPT ![c] = "failed"] /\ UNCHANGED sem
  ELSE IF sem.active < MaxParallel
       THEN host' = [host EXCEPT ![c] = "granted"] /\ sem' = [sem EXCEPT !.active = @ + 1]
       ELSE host' = [host EXCEPT ![c] = "queued"] /\ sem' = [sem EXCEPT !.waiters = Append(@, c)]
ReleasedTo(c, end) ==
  IF ~sem.stopped /\ sem.waiters # <<>>
  THEN host' = [host EXCEPT ![c] = end, ![Head(sem.waiters)] = "granted"] /\ sem' = [sem EXCEPT !.waiters = Tail(@)]
  ELSE host' = [host EXCEPT ![c] = end] /\ sem' = [sem EXCEPT !.active = @ - 1]

(* call: a direct one, the bridge that takes it or throws, its settlement.    *)
CallDirectly(c) == /\ program = "running" /\ c > Items /\ host[c] = "unused"
                   /\ Acquire(c) /\ UNCHANGED <<fan, program>>
Bridge(c) == /\ host[c] = "granted" /\ UNCHANGED <<fan, program>>
             /\ \/ host' = [host EXCEPT ![c] = "working"] /\ UNCHANGED sem
                \/ ReleasedTo(c, "failed")
Settle(c) == /\ host[c] = "working" /\ UNCHANGED <<fan, program>>
             /\ \E end \in {"done", "failed"} : ReleasedTo(c, end)

(* parallel: its workers take items by one cursor until it ends or one fails; *)
(* an item may fail before its call is made.                                  *)
Fan(n) ==
  /\ program = "running" /\ fan.outcome = "none" /\ Items > 0
  /\ fan' = [fan EXCEPT !.width = Min({Items, MaxParallel, n}), !.outcome = "pending"]
  /\ UNCHANGED <<sem, host, program>>
RunningItems == {i \in 1..Items : fan.item[i] = "running"}
Decided(f) ==
  IF f.outcome = "pending" /\ ~(\E i \in 1..Items : f.item[i] = "running") /\ ~f.stopped /\ f.cursor = Items
  THEN [f EXCEPT !.outcome = "fulfilled"] ELSE f
Broken(f, i) == [f EXCEPT !.item[i] = "failed", !.stopped = TRUE, !.outcome = "rejected"]
Take ==
  /\ fan.outcome # "none" /\ ~fan.stopped /\ fan.cursor < Items /\ Cardinality(RunningItems) < fan.width
  /\ LET i == fan.cursor + 1
         taken == [fan EXCEPT !.cursor = i, !.item[i] = "running"] IN
     \/ Acquire(i) /\ fan' = taken
     \/ fan' = Broken(taken, i) /\ UNCHANGED <<sem, host>>
  /\ UNCHANGED program
ItemEnds(i) ==
  /\ i \in RunningItems /\ UNCHANGED <<sem, host, program>>
  /\ \/ host[i] = "done" /\ fan' = Decided([fan EXCEPT !.item[i] = "done"])
     \/ host[i] = "failed" /\ fan' = Broken(fan, i)

(* run and cancel: the queue is stopped before the race is decided, and what  *)
(* has a permit keeps it.                                                     *)
Returns == program = "running" /\ program' = "returned" /\ UNCHANGED <<sem, host, fan>>
CancelGuest ==
  /\ ~sem.stopped
  /\ sem' = [sem EXCEPT !.stopped = TRUE, !.waiters = <<>>]
  /\ host' = [c \in HostCalls |-> IF c \in Range(sem.waiters) THEN "failed" ELSE host[c]]
  /\ program' = IF program = "running" THEN "cancelled" ELSE program
  /\ UNCHANGED fan
GuestNext == \/ \E c \in HostCalls : CallDirectly(c) \/ Bridge(c) \/ Settle(c)
             \/ (\E n \in Widths : Fan(n)) \/ Take \/ (\E i \in 1..Items : ItemEnds(i)) \/ Returns \/ CancelGuest
GuestSpec == GuestInit /\ [][GuestNext]_guestVars

(* No permit is lost or made up, whichever way a call ends: those counted are *)
(* those held, never more than the host admits; a call waits, in its turn,    *)
(* only while all are held, and none waits once the run was cancelled.        *)
PermitsHeld ==
  /\ sem.active = Cardinality({c \in HostCalls : host[c] \in {"granted", "working"}}) /\ sem.active <= MaxParallel
  /\ Range(sem.waiters) = {c \in HostCalls : host[c] = "queued"} /\ IsInjective(sem.waiters)
  /\ sem.waiters # <<>> => sem.active = MaxParallel /\ ~sem.stopped
(* parallel() promises all results or the failure of one: it is fulfilled     *)
(* only when each item is done, is rejected as soon as one failed, and never  *)
(* stays open when nothing of it runs.                                        *)
ResultsComplete ==
  /\ fan.outcome = "fulfilled" => \A i \in 1..Items : fan.item[i] = "done"
  /\ fan.outcome = "rejected" <=> \E i \in 1..Items : fan.item[i] = "failed"
  /\ fan.outcome = "pending" /\ RunningItems = {} => fan.cursor < Items
GuestKept == PermitsHeld /\ ResultsComplete
=============================================================================
