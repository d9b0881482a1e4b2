------------------------------ MODULE McpSession ------------------------------
(***************************************************************************)
(* One MCP session of the Agent (kiro/mcp-session.ts, its lifecycle, its   *)
(* two tool handlers and its workspace binding): the calls of a client     *)
(* share one replaceable runtime, whose authority over a workspace follows *)
(* the session's binding.                                                  *)
(*                                                                         *)
(* Everything that creates, leases, replaces or closes a runtime, and      *)
(* everything that changes the binding, runs one at a time in the order of *)
(* the promise chain "tail"; an operation at its head may wait there for a *)
(* drain or for the runtime factory.  Between two waits the code runs to   *)
(* completion, so each action is one such stretch.                         *)
(*                                                                         *)
(* The file system is outside: a root is readable with some identity       *)
(* (device and inode), or it is not (identity 0), and may change at any    *)
(* time.  Aliases of a root (symbolic links in its parents), names and the *)
(* paths the code refuses as too broad are left out.                       *)
(***************************************************************************)
EXTENDS Naturals, Sequences, FiniteSets

CONSTANTS Calls,        \* tool calls of the client
          Session,      \* the session's own entry in the chain: its close
          Roots,        \* workspace directories
          NoRoot,
          Setups,       \* how a session may be launched and used
          MaxRuntimes,  \* bound on the runtimes ever created
          MaxIdentity,  \* identities a directory may have are 1..MaxIdentity
          MaxChanges    \* bound on the changes of the file system

Setup == [roots : SUBSET Roots,             \* the directories in question
          launch : Roots \cup {NoRoot},     \* where Kiro was launched, if anywhere
          injected : BOOLEAN,               \* the host supplied the first runtime
          kinds : SUBSET {"exec", "info", "workspace"},       \* tools called
          switches : SUBSET {"select", "attach", "detach"},   \* and asked for
          fail : BOOLEAN,                   \* factories and cleanups may fail
          close : BOOLEAN]                  \* the session is closed at some time

ASSUME SessionAssumption ==
    /\ Session \notin Calls
    /\ NoRoot \notin Roots /\ Setups \subseteq Setup
    /\ MaxRuntimes \in Nat \ {0} /\ MaxIdentity \in Nat \ {0}
    /\ MaxChanges \in Nat

VARIABLES setup,       \* the setup of this session
          disk,        \* the identity each root has now, 0 when unreadable
          changes,     \* how often the file system changed
          candidates,  \* the client's usable roots with the identity they had
          binding,     \* the workspace binding
          autobind,    \* whether a single root may still be bound unasked
          advertised,  \* whether the client ever advertised a root
          blocked,     \* whether the last roots request failed
          runtime,     \* the published runtime, or NoRuntime
          identity,    \* what it was published for
          runtimes,    \* every runtime created so far
          tail,        \* the lifecycle chain; its head is running
          calls,       \* the locals of each tool call
          active,      \* calls whose execution holds a lease of its runtime
          failed,      \* whether a cleanup has failed (sticky)
          closer       \* the close of the session

file == <<setup, disk, changes>>
workspace == <<candidates, binding, autobind, advertised, blocked>>
owned == <<runtime, identity, runtimes, failed>>
vars == <<file, workspace, owned, tail, calls, active, closer>>

Runtimes == 1 .. MaxRuntimes
NoRuntime == 0
Identities == 0 .. MaxIdentity

Nowhere == [root |-> NoRoot, id |-> 0]
Workspace == [root : Roots \cup {NoRoot}, id : Identities]
Binding == [root : Roots \cup {NoRoot}, id : Identities,
            source : {"none", "client-roots", "manual"}]
Unbound == [root |-> NoRoot, id |-> 0, source |-> "none"]
Mutation == [action : {"none", "select", "attach", "detach"},
             root : Roots \cup {NoRoot}, id : Identities]
NoMutation == [action |-> "none", root |-> NoRoot, id |-> 0]
Snapshot == [listed : BOOLEAN, roots : SUBSET setup.roots]
Published == [kind : {"none", "injected", "bound", "unavailable"},
              root : Roots \cup {NoRoot}, id : Identities]

Runtime == [status : {"none", "making", "open", "draining", "closing",
                      "closed", "failed", "void"},
            workspace : Workspace,   \* what its providers may touch
            client : BOOLEAN,        \* whether its Navigator lease is live
            leases : SUBSET Calls]   \* what its disposal waits for

Call == [kind : {"none", "exec", "info", "workspace"},
         at : {"idle", "snapshot", "queued", "draining", "making",
               "discarding", "synced", "prompting", "running", "settled",
               "returning", "done"},
         op : {"none", "sync", "runtime", "acquire", "mutate", "deferred"},
         snap : Snapshot,
         aborted : BOOLEAN,             \* its controller
         wait : Runtimes \cup {0},      \* the runtime it waits for
         target : Published,            \* what that runtime is made for
         grant : Workspace,             \* the workspace it will be granted
         lease : Runtimes \cup {0},
         pinned : Workspace,            \* the binding at the acquisition
         switched : BOOLEAN,            \* its one switch has been asked for
         prompt : Mutation,             \* the switch it is asking the user
         mutation : Mutation,           \* the prepared switch
         outcome : {"none", "not-committed", "committed", "failed",
                    "cancelled", "uncertain"},
         applied : BOOLEAN,             \* ghost: its switch changed the binding
         handle : BOOLEAN]              \* its response names an artifact

Ended(status) == [status |-> status, workspace |-> Nowhere, client |-> FALSE,
                  leases |-> {}]

FreshCall == [kind |-> "none", at |-> "idle", op |-> "none",
              snap |-> [listed |-> FALSE, roots |-> {}], aborted |-> FALSE,
              wait |-> 0, target |-> [kind |-> "none", root |-> NoRoot, id |-> 0],
              grant |-> Nowhere, lease |-> 0, pinned |-> Nowhere,
              switched |-> FALSE, prompt |-> NoMutation, mutation |-> NoMutation,
              outcome |-> "none", applied |-> FALSE, handle |-> FALSE]

----------------------------------------------------------------------------
(* The binding. *)

BindingIdentity == [root |-> binding.root, id |-> binding.id]

\* #canonical and the comparison with what was bound
Same(r, i) == i # 0 /\ disk[r] = i

Listed(r) == IF r \in DOMAIN candidates THEN candidates[r] ELSE 0

workspaceObservation ==
    CASE binding = Unbound -> "unbound"
      [] /\ binding # Unbound
         /\ binding.source = "client-roots" => Listed(binding.root) = binding.id
         /\ Same(binding.root, binding.id) -> "verified"
      [] OTHER -> "unavailable"

unavailableWorkspace == blocked /\ binding.source # "manual"
Blocked == unavailableWorkspace \/ workspaceObservation = "unavailable"

\* what a runtime obtained now is published for, and may touch
Target == [kind |-> IF Blocked THEN "unavailable" ELSE "bound",
           root |-> binding.root, id |-> binding.id]
Grant == IF ~Blocked /\ workspaceObservation = "verified"
         THEN BindingIdentity ELSE Nowhere

updateClientRoots(roots) ==
    LET found == {r \in roots : disk[r] # 0}
        kept  == /\ binding.root \in roots
                 /\ disk[binding.root] \in {0, binding.id}
        drop  == binding.source = "client-roots" /\ ~kept
        auto  == autobind /\ ~drop /\ Cardinality(found) <= 1
        bind  == auto /\ binding = Unbound /\ found # {}
    IN  /\ candidates' = [r \in found |-> disk[r]]
        /\ autobind' = (auto /\ ~bind)
        /\ \/ /\ bind
              /\ \E r \in found : binding' = [root |-> r, id |-> disk[r],
                                              source |-> "client-roots"]
           \/ ~bind /\ binding' = IF drop THEN Unbound ELSE binding

\* what commitMutation requires, and what it makes of the binding
Valid(m) == \/ m.action = "detach"
            \/ m.action = "select" /\ Same(m.root, Listed(m.root))
            \/ m.action = "attach" /\ Same(m.root, m.id)

Switched(m) ==
    CASE m.action = "detach" -> Unbound
      [] m.action = "select" -> [root |-> m.root, id |-> Listed(m.root),
                                 source |-> "client-roots"]
      [] m.action = "attach" -> [root |-> m.root, id |-> m.id, source |-> "manual"]

----------------------------------------------------------------------------
(* The lifecycle chain. *)

Retiring == closer # "open"
Available == ~Retiring /\ ~failed

Turn(c) == tail # <<>> /\ Head(tail) = c /\ calls[c].at = "queued"
Running(c, op) == Turn(c) /\ calls[c].op = op

\* the operation is over and its call goes on
Leave(c, at) == /\ tail' = Tail(tail)
                /\ calls' = [calls EXCEPT ![c] = [FreshCall EXCEPT
                       !.at = at, !.kind = calls[c].kind,
                       !.aborted = calls[c].aborted, !.mutation = calls[c].mutation]]

\* the response, with the workspace transition it reports
Respond(c, outcome, applied) ==
    calls' = [calls EXCEPT ![c] = [FreshCall EXCEPT
                  !.at = IF calls[c].op = "deferred" THEN "settled" ELSE "done",
                  !.outcome = outcome, !.applied = applied]]

Failure(c) == IF calls[c].mutation = NoMutation THEN "none"
              ELSE IF calls[c].aborted THEN "cancelled" ELSE "failed"
Fail(c) == tail' = Tail(tail) /\ Respond(c, Failure(c), FALSE)

\* disposeRuntime up to its first wait: the leases are aborted, the Navigator
\* lease is closed, and whoever asked waits for the shared promise
Dispose(locals, c, r, at) ==
    LET first == runtimes[r].status \in {"making", "open"}
        held  == {d \in active : calls[d].lease = r}
    IN  /\ runtimes' = IF first THEN [runtimes EXCEPT ![r] = [@ EXCEPT
                                    !.status = "draining", !.client = FALSE, !.leases = held]]
                                ELSE runtimes
        /\ calls' = [d \in Calls |->
              [locals[d] EXCEPT !.aborted = @ \/ (first /\ d \in held),
                                !.at = IF d = c THEN at ELSE @,
                                !.wait = IF d = c THEN r ELSE @]]

\* the runtime was never published
DiscardUnpublished(c, r) == Dispose(calls, c, r, "discarding") /\ UNCHANGED tail

\* its leases have really settled; the runtime itself is closed
DrainedByTimeout(r) ==
    /\ runtimes[r].status = "draining"
    /\ runtimes' = [runtimes EXCEPT ![r] = [@ EXCEPT !.status = "closing", !.leases = {}]]
    /\ UNCHANGED <<file, workspace, runtime, identity, failed, tail, calls,
                   active, closer>>
Drained(r) ==
    /\ runtimes[r].status = "draining"
    /\ runtimes[r].leases \cap active = {}
    /\ runtimes' = [runtimes EXCEPT ![r] = [@ EXCEPT !.status = "closing", !.leases = {}]]
    /\ UNCHANGED <<file, workspace, runtime, identity, failed, tail, calls,
                   active, closer>>

RuntimeClosed(r) ==
    /\ runtimes[r].status = "closing"
    /\ \/ /\ runtimes' = [runtimes EXCEPT ![r] = Ended("closed")]
          /\ runtime' = IF runtime = r THEN NoRuntime ELSE runtime
          /\ identity' = IF runtime = r THEN FreshCall.target ELSE identity
          /\ UNCHANGED failed
       \/ /\ setup.fail
          /\ runtimes' = [runtimes EXCEPT ![r] = Ended("failed")]
          /\ failed' = TRUE
          /\ UNCHANGED <<runtime, identity>>
    /\ UNCHANGED <<file, workspace, tail, calls, active, closer>>

----------------------------------------------------------------------------
(* A call arrives; the client's roots are read before anything else. *)

Begin(c) ==
    /\ calls[c].at = "idle" /\ ~Retiring
    /\ calls' = [calls EXCEPT ![c] = [@ EXCEPT !.at = "snapshot"]]
    /\ UNCHANGED <<file, workspace, owned, tail, active, closer>>

Observe(c) ==
    /\ calls[c].at = "snapshot"
    /\ \E s \in Snapshot :
          /\ ~s.listed => s.roots = {}
          /\ calls' = [calls EXCEPT ![c] = [@ EXCEPT !.snap = s, !.at = "queued",
                                                     !.op = "sync"]]
    /\ tail' = Append(tail, c)
    /\ UNCHANGED <<file, workspace, owned, active, closer>>

\* the operation of syncWorkspace: adopt the roots, and retire a runtime whose
\* workspace changed or can no longer be verified
Adopt(s) ==
    LET seen == advertised \/ (s.listed /\ s.roots # {})
        launch == s.roots = {} /\ ~seen /\ setup.launch # NoRoot
    IN  /\ blocked' = ~s.listed
        /\ advertised' = seen
        /\ IF s.listed
           THEN updateClientRoots(IF launch THEN {setup.launch} ELSE s.roots)
           ELSE UNCHANGED <<candidates, binding, autobind>>

Sync(c) ==
    /\ Running(c, "sync") /\ Available
    /\ UNCHANGED file
    /\ Adopt(calls[c].snap)
    /\ \/ /\ BindingIdentity' # BindingIdentity \/ Blocked'
          /\ runtime # NoRuntime
          /\ Dispose(calls, c, runtime, "draining")
          /\ UNCHANGED tail
       \/ /\ (BindingIdentity' = BindingIdentity /\ ~Blocked') \/ runtime = NoRuntime
          /\ Leave(c, "synced")
          /\ UNCHANGED runtimes
    /\ UNCHANGED <<runtime, identity, failed, active, closer>>

\* an operation that finds the session unavailable, or its call cancelled
Refused(c) ==
    /\ Turn(c)
    /\ \/ ~Available
       \/ calls[c].aborted /\ calls[c].op \in {"acquire", "mutate", "deferred"}
    /\ Fail(c)
    /\ UNCHANGED <<file, workspace, owned, active, closer>>

\* once the roots are in, each tool looks at its arguments
StartExec(c) ==
    /\ calls[c].at = "synced" /\ "exec" \in setup.kinds
    /\ tail' = Append(tail, c)
    /\ calls' = [calls EXCEPT ![c] = [@ EXCEPT !.kind = "exec", !.at = "queued",
                                               !.op = "acquire"]]
    /\ UNCHANGED <<file, workspace, owned, active, closer>>

StartInfo(c) ==
    /\ calls[c].at = "synced" /\ "info" \in setup.kinds
    /\ \/ /\ Blocked
          /\ Respond(c, "none", FALSE)
          /\ UNCHANGED tail
       \/ /\ ~Blocked
          /\ tail' = Append(tail, c)
          /\ calls' = [calls EXCEPT ![c] = [@ EXCEPT !.kind = "info", !.at = "queued",
                                                     !.op = "runtime"]]
    /\ UNCHANGED <<file, workspace, owned, active, closer>>

\* attaching needs a runtime, for its approval budget, and then the user
Asked(a, r) == [action |-> a, root |-> IF a = "detach" THEN NoRoot ELSE r,
                id |-> IF a = "attach" THEN disk[r] ELSE 0]
Possible(m) == /\ m.action = "select" => /\ ~unavailableWorkspace
                                         /\ m.root \in DOMAIN candidates
               /\ m.action = "attach" => m.id # 0

StartWorkspace(c) ==
    /\ calls[c].at = "synced" /\ "workspace" \in setup.kinds
    /\ \E a \in setup.switches, r \in setup.roots :
          LET m    == Asked(a, r)
              next == IF a # "attach" THEN "mutate"
                      ELSE IF runtime = NoRuntime THEN "runtime" ELSE "none"
          IN  \/ /\ Possible(m)
                 /\ calls' = [calls EXCEPT ![c] = [@ EXCEPT !.kind = "workspace",
                        !.mutation = m, !.op = next,
                        !.at = IF next = "none" THEN "prompting" ELSE "queued"]]
                 /\ tail' = IF next = "none" THEN tail ELSE Append(tail, c)
              \/ /\ ~Possible(m)
                 /\ Respond(c, IF calls[c].aborted THEN "cancelled" ELSE "failed", FALSE)
                 /\ UNCHANGED tail
    /\ UNCHANGED <<file, workspace, owned, active, closer>>

\* the user answers; approval is for the directory that was shown
Prompted(c) ==
    /\ calls[c].at = "prompting"
    /\ \/ /\ ~calls[c].aborted
          /\ Same(calls[c].mutation.root, calls[c].mutation.id)
          /\ tail' = Append(tail, c)
          /\ calls' = [calls EXCEPT ![c] = [@ EXCEPT !.at = "queued", !.op = "mutate"]]
       \/ /\ Respond(c, Failure(c), FALSE)
          /\ UNCHANGED tail
    /\ UNCHANGED <<file, workspace, owned, active, closer>>

----------------------------------------------------------------------------
(* runtimeForIdentity: reuse the published runtime or replace it. *)

\* the runtime r is at hand: getRuntime returns it, acquireRuntime leases it
\* and the execution starts before the chain moves on
Obtained(c, r) ==
    \/ /\ calls[c].op = "runtime"
       /\ IF calls[c].kind = "info"
          THEN tail' = Tail(tail) /\ Respond(c, "none", FALSE)
          ELSE Leave(c, "prompting")
       /\ UNCHANGED active
    \/ /\ calls[c].op = "acquire" /\ Available /\ ~calls[c].aborted
       /\ tail' = Tail(tail)
       /\ active' = active \cup {c}
       /\ calls' = [calls EXCEPT ![c] = [FreshCall EXCEPT !.kind = "exec",
              !.at = "running", !.lease = r, !.pinned = BindingIdentity]]
    \/ /\ calls[c].op = "acquire" /\ (~Available \/ calls[c].aborted)
       /\ Fail(c)
       /\ UNCHANGED active

\* createRuntimeFor up to the wait for the factory; the Navigator binding
\* verifies the directory again and refuses a changed one
Make(c, target, grant) ==
    LET fresh == {r \in Runtimes : runtimes[r].status = "none"}
        r == CHOOSE r \in fresh : TRUE
    IN
    \/ /\ Available /\ fresh # {}
       /\ grant = Nowhere \/ Same(grant.root, grant.id)
       /\ runtimes' = [runtimes EXCEPT ![r] = [status |-> "making",
              workspace |-> grant, client |-> grant # Nowhere, leases |-> {}]]
       /\ calls' = [calls EXCEPT ![c] = [@ EXCEPT !.at = "making", !.wait = r,
                                                  !.target = target, !.grant = grant]]
       /\ UNCHANGED tail
    \/ /\ \/ ~Available \/ fresh = {}   \* at the bound: as a factory that rejects
          \/ grant # Nowhere /\ ~Same(grant.root, grant.id)
       /\ Fail(c)
       /\ UNCHANGED runtimes

Obtain(c) ==
    /\ Turn(c) /\ calls[c].op \in {"runtime", "acquire"} /\ Available
    /\ calls[c].op = "acquire" => ~calls[c].aborted
    /\ \/ /\ runtime # NoRuntime /\ identity = Target
          /\ Obtained(c, runtime)
          /\ UNCHANGED <<identity, runtimes>>
       \/ /\ runtime # NoRuntime /\ identity.kind = "injected"
          /\ identity' = Target
          /\ Obtained(c, runtime)
          /\ UNCHANGED runtimes
       \/ /\ runtime # NoRuntime /\ identity.kind = "injected" /\ setup.fail
          /\ DiscardUnpublished(c, runtime)
          /\ UNCHANGED <<identity, active>>
       \/ /\ runtime # NoRuntime /\ identity # Target /\ identity.kind # "injected"
          /\ Dispose([calls EXCEPT ![c] = [@ EXCEPT !.target = Target, !.grant = Grant]],
                     c, runtime, "draining")
          /\ UNCHANGED <<identity, tail, active>>
       \/ /\ runtime = NoRuntime
          /\ Make(c, Target, Grant)
          /\ UNCHANGED <<identity, active>>
    /\ UNCHANGED <<file, workspace, runtime, failed, closer>>

\* the factory settles; publication re-checks that the session still lives
Made(c) ==
    LET r == calls[c].wait
        unreadable == calls[c].grant # Nowhere /\ disk[calls[c].grant.root] = 0
    IN
    /\ calls[c].at = "making"
    /\ \/ /\ setup.fail
          /\ runtimes' = [runtimes EXCEPT ![r] = Ended("void")]
          /\ Fail(c)
          /\ UNCHANGED <<runtime, identity, active>>
       \/ /\ Retiring \/ unreadable \/ setup.fail
          /\ DiscardUnpublished(c, r)
          /\ UNCHANGED <<runtime, identity, active>>
       \/ /\ ~Retiring /\ ~unreadable
          /\ runtimes' = [runtimes EXCEPT ![r] = [@ EXCEPT !.status = "open"]]
          /\ runtime' = r
          /\ identity' = calls[c].target
          /\ Obtained(c, r)
    /\ UNCHANGED <<file, workspace, failed, closer>>

Discarded(c) ==
    /\ calls[c].at = "discarding"
    /\ runtimes[calls[c].wait].status \in {"closed", "failed"}
    /\ Fail(c)
    /\ UNCHANGED <<file, workspace, owned, active, closer>>

----------------------------------------------------------------------------
(* Workspace switches. *)

\* the assignment of commitMutation; a refusal there leaves the caller unsure
Commit(c) ==
    LET m == calls[c].mutation IN
    /\ tail' = Tail(tail)
    /\ \/ /\ Valid(m)
          /\ binding' = Switched(m)
          /\ autobind' = FALSE
          /\ Respond(c, "committed", TRUE)
       \/ /\ ~Valid(m)
          /\ Respond(c, "uncertain", FALSE)
          /\ UNCHANGED <<binding, autobind>>
    /\ UNCHANGED <<candidates, advertised, blocked>>

\* binding.status(): a bound workspace counts only while it is verified
UnchangedAnyRoot(m) ==
    \/ m.action = "select" /\ workspaceObservation = "verified"
    \/ m.action = "detach" /\ workspaceObservation # "verified"
Unchanged(m) ==
    \/ /\ m.action = "select"
       /\ workspaceObservation = "verified" /\ binding.root = m.root
    \/ m.action = "detach" /\ workspaceObservation # "verified"

\* the operation of callWorkspace
Mutate(c) ==
    /\ Running(c, "mutate") /\ Available /\ ~calls[c].aborted
    /\ \/ /\ Unchanged(calls[c].mutation) \/ runtime = NoRuntime
          /\ Commit(c)
          /\ UNCHANGED runtimes
       \/ /\ ~Unchanged(calls[c].mutation) /\ runtime # NoRuntime
          /\ Dispose(calls, c, runtime, "draining")
          /\ UNCHANGED <<workspace, tail>>
    /\ UNCHANGED <<file, runtime, identity, failed, active, closer>>

\* the operation of commitDeferredWorkspace, after a successful execution
Deferred(c) ==
    /\ Running(c, "deferred") /\ Available /\ ~calls[c].aborted
    /\ \/ /\ BindingIdentity # calls[c].pinned
          /\ Fail(c)
          /\ UNCHANGED <<workspace, runtimes>>
       \/ /\ BindingIdentity = calls[c].pinned /\ runtime = NoRuntime
          /\ Commit(c)
          /\ UNCHANGED runtimes
       \/ /\ BindingIdentity = calls[c].pinned /\ runtime # NoRuntime
          /\ Dispose(calls, c, runtime, "draining")
          /\ UNCHANGED <<workspace, tail>>
    /\ UNCHANGED <<file, runtime, identity, failed, active, closer>>

\* after the drain the direct path asks again whether the session lives, the
\* deferred one only whether its call was cancelled
CommitThenCheck(c) ==
    IF ~calls[c].aborted THEN Commit(c)
    ELSE /\ tail' = Tail(tail)
         /\ binding' = Switched(calls[c].mutation)
         /\ autobind' = FALSE
         /\ Respond(c, "uncertain", TRUE)
         /\ UNCHANGED <<candidates, advertised, blocked>>
CommitDrained(c) ==
    IF ~calls[c].aborted /\ (calls[c].op = "mutate" => Available)
    THEN Commit(c) ELSE Fail(c) /\ UNCHANGED workspace

\* the disposal an operation waits for is over
Resume(c) ==
    LET s == runtimes[calls[c].wait].status IN
    /\ calls[c].at = "draining" /\ s \in {"closed", "failed"}
    /\ \/ /\ s = "failed" /\ Fail(c)
          /\ UNCHANGED <<workspace, runtimes>>
       \/ /\ s = "closed" /\ calls[c].op = "sync"
          /\ Leave(c, "synced")
          /\ UNCHANGED <<workspace, runtimes>>
       \/ /\ s = "closed" /\ calls[c].op \in {"runtime", "acquire"}
          /\ Make(c, calls[c].target, calls[c].grant)
          /\ UNCHANGED workspace
       \/ /\ s = "closed" /\ calls[c].op \in {"mutate", "deferred"}
          /\ CommitDrained(c)
          /\ UNCHANGED runtimes
    /\ UNCHANGED <<file, runtime, identity, failed, active, closer>>

----------------------------------------------------------------------------
(* callMcpExecution while its execution holds a lease. *)

\* the guest asks for its one switch; attaching asks the user first
Prepare(c) ==
    /\ calls[c].at = "running" /\ ~calls[c].switched /\ ~calls[c].aborted
    /\ \E a \in setup.switches, r \in setup.roots :
          LET m == Asked(a, r)
          IN  /\ Possible(m)
              /\ calls' = [calls EXCEPT ![c] = [@ EXCEPT !.switched = TRUE,
                     !.mutation = IF a = "attach" THEN NoMutation ELSE m,
                     !.prompt = IF a = "attach" THEN m ELSE NoMutation]]
    /\ UNCHANGED <<file, workspace, owned, tail, active, closer>>

Answer(c) ==
    LET m == calls[c].prompt IN
    /\ calls[c].at = "running" /\ m # NoMutation
    /\ \/ /\ ~calls[c].aborted /\ Same(m.root, m.id)
          /\ calls' = [calls EXCEPT ![c] = [@ EXCEPT !.prompt = NoMutation, !.mutation = m]]
       \/ calls' = [calls EXCEPT ![c] = [@ EXCEPT !.prompt = NoMutation]]
    /\ UNCHANGED <<file, workspace, owned, tail, active, closer>>

\* a prepared switch is committed only after a success, once this call has
\* given its own lease back
DeferHolding(c) ==
    /\ ~calls[c].aborted /\ calls[c].mutation # NoMutation
    /\ tail' = Append(tail, c)
    /\ calls' = [calls EXCEPT ![c] = [@ EXCEPT !.at = "queued", !.op = "deferred",
                                               !.prompt = NoMutation]]
    /\ UNCHANGED active
Defer(c) ==
    /\ ~calls[c].aborted /\ calls[c].mutation # NoMutation
    /\ active' = active \ {c}
    /\ tail' = Append(tail, c)
    /\ calls' = [calls EXCEPT ![c] = [@ EXCEPT !.at = "queued", !.op = "deferred",
                                               !.lease = 0, !.prompt = NoMutation]]

\* the execution has settled
End(c) ==
    /\ calls[c].at = "running"
    /\ \/ Defer(c)
       \/ /\ calls' = [calls EXCEPT ![c] = [@ EXCEPT !.at = "settled", !.prompt = NoMutation,
                 !.mutation = NoMutation,
                 !.outcome = IF calls[c].mutation = NoMutation
                                THEN "none" ELSE "not-committed"]]
          /\ UNCHANGED <<tail, active>>
    /\ UNCHANGED <<file, workspace, owned, closer>>

\* the result is projected, keeping what does not fit as an artifact
Project(c) ==
    /\ calls[c].at = "settled"
    /\ \/ calls' = [calls EXCEPT ![c] = [@ EXCEPT !.at = "returning"]]
       \/ /\ Available
          /\ calls' = [calls EXCEPT ![c] = [@ EXCEPT !.at = "returning", !.handle = TRUE]]
    /\ UNCHANGED <<file, workspace, owned, tail, active, closer>>

\* the response leaves after an optional analysis of the Navigator
Return(c) ==
    /\ calls[c].at = "returning"
    /\ calls' = [calls EXCEPT ![c] = [FreshCall EXCEPT !.at = "done",
           !.outcome = calls[c].outcome, !.applied = calls[c].applied,
           !.handle = calls[c].handle /\ Available]]
    /\ active' = active \ {c}
    /\ UNCHANGED <<file, workspace, owned, tail, closer>>

\* the client cancels, or the outer deadline of the request passes
Abort(c) ==
    /\ calls[c].at \notin {"idle", "settled", "returning", "done"}
    /\ ~calls[c].aborted /\ calls[c].kind # "info"
    /\ calls' = [calls EXCEPT ![c] = [@ EXCEPT !.aborted = TRUE]]
    /\ UNCHANGED <<file, workspace, owned, tail, active, closer>>

----------------------------------------------------------------------------
(* Shutdown. *)

Close ==
    /\ closer = "open" /\ setup.close
    /\ closer' = "queued"
    /\ tail' = Append(tail, Session)
    /\ calls' = [c \in Calls |-> [calls[c] EXCEPT !.aborted = @ \/ c \in active]]
    /\ UNCHANGED <<file, workspace, owned, active>>

CloseRuntimeNow ==
    /\ closer = "queued"
    /\ \/ /\ runtime = NoRuntime
          /\ closer' = "settling"
          /\ tail' = SelectSeq(tail, LAMBDA e : e # Session)
          /\ UNCHANGED <<runtimes, calls>>
       \/ /\ runtime # NoRuntime /\ Head(tail) = Session
          /\ closer' = "draining"
          /\ Dispose(calls, Session, runtime, "draining")
          /\ UNCHANGED tail
    /\ UNCHANGED <<file, workspace, runtime, identity, failed, active>>
CloseRuntime ==
    /\ closer = "queued" /\ tail # <<>> /\ Head(tail) = Session
    /\ IF runtime = NoRuntime
       THEN /\ closer' = "settling"
            /\ tail' = Tail(tail)
            /\ UNCHANGED <<runtimes, calls>>
       ELSE /\ closer' = "draining"
            /\ Dispose(calls, Session, runtime, "draining")
            /\ UNCHANGED tail
    /\ UNCHANGED <<file, workspace, runtime, identity, failed, active>>

CloseDrained ==
    /\ closer = "draining"
    /\ runtime # NoRuntime => runtimes[runtime].status = "failed"
    /\ closer' = "settling"
    /\ tail' = Tail(tail)
    /\ UNCHANGED <<file, workspace, owned, calls, active>>

Closed ==
    /\ closer = "settling"
    /\ \/ ~failed /\ closer' = "resolved"
       \/ (failed \/ setup.fail) /\ closer' = "rejected"
    /\ UNCHANGED <<file, workspace, owned, tail, calls, active>>

----------------------------------------------------------------------------

\* a directory is removed, replaced, or becomes readable again
Change(r) ==
    /\ changes < MaxChanges
    /\ \E i \in Identities \ {disk[r]} : disk' = [disk EXCEPT ![r] = i]
    /\ changes' = changes + 1
    /\ UNCHANGED <<setup, workspace, owned, tail, calls, active, closer>>

Init ==
    /\ setup \in Setups
    /\ disk = [r \in Roots |-> 1] /\ changes = 0
    /\ candidates = [r \in {} |-> 0] /\ binding = Unbound /\ autobind = TRUE
    /\ advertised = FALSE /\ blocked = FALSE
    /\ runtime = IF setup.injected THEN 1 ELSE NoRuntime
    /\ identity = [kind |-> IF setup.injected THEN "injected" ELSE "none",
                   root |-> NoRoot, id |-> 0]
    /\ runtimes = [r \in Runtimes |->
          [status |-> IF setup.injected /\ r = 1 THEN "open" ELSE "none",
           workspace |-> Nowhere, client |-> FALSE, leases |-> {}]]
    /\ tail = <<>> /\ calls = [c \in Calls |-> FreshCall]
    /\ active = {} /\ failed = FALSE /\ closer = "open"

CallStep(c) ==
    \/ Begin(c) \/ Observe(c) \/ Sync(c) \/ Refused(c)
    \/ StartExec(c) \/ StartInfo(c) \/ StartWorkspace(c) \/ Prompted(c)
    \/ Obtain(c) \/ Made(c) \/ Discarded(c) \/ Mutate(c) \/ Deferred(c) \/ Resume(c)
    \/ Prepare(c) \/ Answer(c) \/ End(c) \/ Project(c) \/ Return(c) \/ Abort(c)

SessionStep == Close \/ CloseRuntime \/ CloseDrained \/ Closed

Next == \/ \E c \in Calls : CallStep(c)
        \/ \E r \in Runtimes : Drained(r) \/ RuntimeClosed(r)
        \/ SessionStep
        \/ \E r \in setup.roots : Change(r)

Spec == Init /\ [][Next]_vars

----------------------------------------------------------------------------
(* Properties. *)

(* Every variable keeps its type. *)
TypeOK ==
    /\ setup \in Setups
    /\ disk \in [Roots -> Identities] /\ changes \in 0 .. MaxChanges
    /\ DOMAIN candidates \subseteq Roots
    /\ \A r \in DOMAIN candidates : candidates[r] \in Identities \ {0}
    /\ binding \in Binding /\ (binding = Unbound \/ binding.id # 0)
    /\ autobind \in BOOLEAN /\ advertised \in BOOLEAN /\ blocked \in BOOLEAN
    /\ runtime \in Runtimes \cup {NoRuntime} /\ identity \in Published
    /\ runtimes \in [Runtimes -> Runtime]
    /\ tail \in Seq(Calls \cup {Session})
    /\ calls \in [Calls -> Call]
    /\ active \subseteq Calls /\ failed \in BOOLEAN
    /\ closer \in {"open", "queued", "draining", "settling", "resolved", "rejected"}

(* Authority over a workspace never outlives its binding: an execution whose *)
(* runtime was granted a workspace is either still bound to that very        *)
(* directory or has been aborted (mcp-workspace.ts, "or guest authority      *)
(* could outlive a changed binding"; syncWorkspace).                         *)
AuthorityFollowsBinding ==
    \A c \in active :
       LET w == runtimes[calls[c].lease].workspace
       IN  w = Nowhere \/ w = BindingIdentity \/ calls[c].aborted

(* A requested switch that changes the binding is committed only after every *)
(* execution of the old runtime has settled.                                 *)
DrainedBeforeCommit ==
    [][\A c \in Calls : (calls'[c].applied /\ ~calls[c].applied
                          /\ BindingIdentity' # BindingIdentity)
                            => active' = {}]_vars

(* Once a close or a failed cleanup is known, no execution starts any more,  *)
(* not even one whose runtime was being made at the time.                    *)
NothingAcquiredAfterwards ==
    [][(closer # "open" \/ failed) => active' \subseteq active]_vars

(* When the close of the session settles, its executions have ended and      *)
(* every runtime is closed or recorded as a failed cleanup; it reports       *)
(* success only if none failed.                                              *)
QuietAfterClose ==
    closer \in {"resolved", "rejected"} =>
       /\ active = {}
       /\ \A r \in Runtimes :
             runtimes[r].status \in {"none", "void", "closed"}
                                    \cup (IF closer = "resolved" THEN {} ELSE {"failed"})

(* A response reports a switch as committed exactly when it took effect.     *)
OutcomeTrue ==
    \A c \in Calls : calls[c].at = "done" =>
                        (calls[c].outcome = "committed" <=> calls[c].applied)

(* Every variable keeps its type, and a response tells what became of its    *)
(* switch.                                                                   *)
ResponsesTrue == TypeOK /\ OutcomeTrue

(* Once the client has advertised roots, the launch directory becomes usable *)
(* only because the client lists it ("their removal must not silently        *)
(* reactivate the launch directory").                                        *)
LaunchStaysOut ==
    [][(advertised /\ setup.launch \in DOMAIN candidates'
                   /\ setup.launch \notin DOMAIN candidates)
          => setup.launch \in calls[Head(tail)].snap.roots]_vars

(* A switch is made between executions: the old runtime's have settled before *)
(* it, none starts on its way out, and a launch directory that the client     *)
(* dropped does not come back with it.                                        *)
SwitchesClean == DrainedBeforeCommit /\ NothingAcquiredAfterwards /\ LaunchStaysOut
=============================================================================
