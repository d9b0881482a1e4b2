----------------------------- MODULE HostBridge -----------------------------
(* The host calls of executions: the bridge of execution-service.ts          *)
(* (#execute), its approvals, and the invocation in core/action-registry.ts. *)
(* A call is admitted against the quotas of its execution, a local effect    *)
(* waits for the effect before it, the registry reserves the resources it    *)
(* writes, the provider takes a lock of its own, the user is asked, and only *)
(* then the provider acts.  Cancellation leaves a call at its next check; it *)
(* does not end a lock being taken, a prompt, or the action.  Catalogue      *)
(* pages, schemas and the text of results are left out.                      *)
EXTENDS Naturals, Sequences, FiniteSets
CONSTANTS Executions, Resources,
          Kinds,                                 \* [execution -> the kinds of calls its guest makes]
          MaxCalls,                              \* [execution -> its quota of calls]
          MaxConcurrent, MaxApprovals
ASSUME BridgeAssumption == /\ Kinds \in [Executions -> SUBSET {"effect", "write", "read", "switch"}]
                           /\ MaxCalls \in [Executions -> Nat] /\ {MaxConcurrent, MaxApprovals} \subseteq Nat
VARIABLES run,     \* [execution -> [stage, cancelled, calls, active, prompts, switching, working]]
          call     \* [execution \X number -> [kind, resource, pc, began, published, outcome]]
bridgeVars == <<run, call>>

Ids == UNION {{e} \X (1 .. MaxCalls[e]) : e \in Executions}
NoCall == [kind |-> "none", resource |-> "none", pc |-> "unused", began |-> FALSE, published |-> FALSE, told |-> FALSE, ok |-> FALSE]
BridgeInit ==
  /\ run = [e \in Executions |-> [stage |-> "running", cancelled |-> FALSE, calls |-> 0, active |-> 0, prompts |-> 0,
                                  switching |-> FALSE, working |-> FALSE]]
  /\ call = [c \in Ids |-> NoCall]

Effect(c) == call[c].kind = "effect"
WriteLike(c) == call[c].kind \in {"effect", "write"}
(* #activeWrites: from the reservation until everything of the call settled. *)
ReservedCalls(c) == WriteLike(c) /\ call[c].pc \in {"locking", "approving", "approved", "acting", "unlocking"}
Overlapping(c) == \E d \in Ids \ {c} : ReservedCalls(d) /\ call[d].resource = call[c].resource
BridgeStep(c, pc) == [call EXCEPT ![c].pc = pc]
(* A call ends: the guest hears of it, the bridge's count goes down.         *)
Ends(c, good) == /\ call' = [call EXCEPT ![c].pc = "settled", ![c].ok = good]
                 /\ run' = [run EXCEPT ![c[1]].active = @ - 1]
Stopped(c) == run[c[1]].cancelled

(* The guest calls: quotas first, then the rules of a workspace switch.      *)
Admit(e, k, r) ==
  LET c == <<e, run[e].calls + 1>> IN
  /\ run[e].stage = "running" /\ run[e].calls < MaxCalls[e]
  /\ IF run[e].active = MaxConcurrent \/ run[e].switching \/ (k = "switch" /\ run[e].working)
       THEN run' = [run EXCEPT ![e].calls = @ + 1] /\ call' = [call EXCEPT ![c].pc = "settled"]
       ELSE /\ call' = [call EXCEPT ![c] = [NoCall EXCEPT !.kind = k, !.resource = r, !.pc = IF k = "effect" THEN "chained" ELSE "preparing"]]
            /\ run' = [run EXCEPT ![e].calls = @ + 1, ![e].active = @ + 1, ![e].switching = @ \/ k = "switch",
                         ![e].working = @ \/ k # "switch"]
(* localEffectTail: the predecessor of a local effect.                       *)
Before(c) == {d \in Ids : d[1] = c[1] /\ d[2] < c[2] /\ Effect(d)}
Free(c) == \A d \in Before(c) : call[d].pc = "settled"
Chained(c) == Free(c) /\ \A d \in Before(c) : call[d].ok
Unchain(c) ==
  /\ call[c].pc = "chained"
  /\ \/ Chained(c) /\ call' = BridgeStep(c, "preparing") /\ UNCHANGED run
     \/ ~Chained(c) /\ (\E d \in Before(c) : call[d].pc = "settled" /\ ~call[d].ok) /\ Ends(c, FALSE)
(* Description, preparation and validation, then the write reservation.      *)
Prepare(c) ==
  /\ call[c].pc = "preparing"
  /\ \/ Ends(c, FALSE)
     \/ ~Stopped(c) /\ ~(WriteLike(c) /\ Overlapping(c)) /\ call' = BridgeStep(c, "locking") /\ UNCHANGED run
Promptable(e) == run[e].prompts < MaxApprovals
(* reserveInvocation takes the provider's own lock, which cancellation does  *)
(* not race; then the approver allows, denies or asks, and asking is charged *)
(* before the prompt.                                                        *)
Locked(c) == LET e == c[1] IN
  /\ call[c].pc = "locking"
  /\ \/ Ends(c, FALSE)                                   \* the lock is refused
     \/ call' = BridgeStep(c, "unlocking") /\ UNCHANGED run    \* denied, over the quota, or cancelled
     \/ ~Stopped(c) /\ call' = BridgeStep(c, "approved") /\ UNCHANGED run
     \/ /\ ~Stopped(c) /\ Promptable(e) /\ call' = BridgeStep(c, "approving")
        /\ run' = [run EXCEPT ![e].prompts = @ + 1]
Answered(c) ==
  /\ call[c].pc = "approving" /\ UNCHANGED run
  /\ \/ ~Stopped(c) /\ call' = BridgeStep(c, "approved")
     \/ call' = BridgeStep(c, "unlocking")
Act(c) ==
  /\ call[c].pc = "approved" /\ UNCHANGED run
  /\ call' = IF Stopped(c) THEN BridgeStep(c, "unlocking") ELSE [call EXCEPT ![c].pc = "acting", ![c].began = TRUE]
(* The provider settles.  What it published is remembered: from its error,   *)
(* and for a local effect from its result, though the call fails afterwards. *)
Acknowledged(c, done, good) == done /\ (~good \/ Effect(c))
Acted(c) ==
  /\ call[c].pc = "acting" /\ UNCHANGED run
  /\ \E done \in (IF WriteLike(c) THEN BOOLEAN ELSE {FALSE}), good \in BOOLEAN :
       /\ call' = [call EXCEPT ![c].pc = "unlocking", ![c].published = done,
                               ![c].told = Acknowledged(c, done, good), ![c].ok = good /\ ~Stopped(c)]
(* The reservation is released; a failing release fails the call.            *)
Unlock(c) ==
  /\ call[c].pc = "unlocking"
  /\ \E released \in BOOLEAN : Ends(c, call[c].ok /\ released)

(* The execution is cancelled; the guest returns; the effects that need      *)
(* settlement are awaited before the execution is reported.                  *)
Cancel(e) == /\ run[e].stage # "returned" /\ ~run[e].cancelled
             /\ run' = [run EXCEPT ![e].cancelled = TRUE] /\ UNCHANGED call
ReturnGuest(e) == run[e].stage = "running" /\ run' = [run EXCEPT ![e].stage = "draining"] /\ UNCHANGED call
NeedsSettlement(c) == Effect(c)
\* As if a queued effect were not waited for.
DrainedOfActive(e) == \A c \in Ids : c[1] = e /\ NeedsSettlement(c) => call[c].pc # "acting"
DrainedCalls(e) == \A c \in Ids : c[1] = e /\ NeedsSettlement(c) => call[c].pc = "settled"
Report(e) == /\ run[e].stage = "draining" /\ DrainedCalls(e)
             /\ run' = [run EXCEPT ![e].stage = "returned"] /\ UNCHANGED call
BridgeNext == \/ \E e \in Executions : Cancel(e) \/ ReturnGuest(e) \/ Report(e) \/ \E k \in Kinds[e], r \in Resources : Admit(e, k, r)
              \/ \E c \in Ids : Unchain(c) \/ Prepare(c) \/ Locked(c) \/ Answered(c) \/ Act(c) \/ Acted(c) \/ Unlock(c)
BridgeSpec == BridgeInit /\ [][BridgeNext]_bridgeVars

(* A local effect that failed, uncertain as its result may be, is the last   *)
(* of its execution that acts, even if the guest catches the error.          *)
FailurePoisons ==
  \A c, d \in Ids : d \in Before(c) /\ Effect(c) /\ call[d].pc = "settled" /\ ~call[d].ok => ~call[c].began
(* Effects of one execution do not act at once, and no two calls, whichever  *)
(* executions they belong to, write one resource at the same time.           *)
WritersExclude ==
  \A c, d \in Ids : c # d /\ call[c].pc = "acting" /\ call[d].pc = "acting" =>
    /\ ~(Effect(c) /\ Effect(d) /\ c[1] = d[1])
    /\ ~(WriteLike(c) /\ WriteLike(d) /\ call[c].resource = call[d].resource)
(* An execution is not reported while a local effect of it may still act,    *)
(* and a workspace is switched only by an execution that does nothing else.  *)
ReportedIsSettled ==
  /\ \A c \in Ids : run[c[1]].stage = "returned" /\ Effect(c) => call[c].pc = "settled"
  /\ \A c, d \in Ids : c[1] = d[1] /\ call[c].kind = "switch" => d = c \/ call[d].kind = "none"
(* A local effect that has written and whose call then fails, by a failing   *)
(* release of its lock or by a cancellation, tells so in its audit.          *)
PublicationTold ==
  \A c \in Ids : Effect(c) /\ call[c].pc = "settled" /\ call[c].published /\ ~call[c].ok => call[c].told
============================================================================
