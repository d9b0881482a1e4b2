--------------------------- MODULE McpSessionProofs ---------------------------
(***************************************************************************)
(* McpSession, for any number of calls, roots, runtimes and setups: the    *)
(* chain runs one operation at a time, an execution's lease keeps its      *)
(* runtime from being closed under it, a response tells what happened to   *)
(* the binding, and a close leaves nothing behind.                         *)
(***************************************************************************)
EXTENDS McpSession, TLAPS

-----------------------------------------------------------------------------
(* The inductive invariant.                                                 *)

\* Where a call stands at the head of the chain, waiting.
Waiting == {"draining", "making", "discarding"}
\* Where a call may still hold its lease.
Leasing == {"running", "settled", "returning"}
\* Where a switch has been decided.
Decided == {"settled", "returning", "done"}

\* A switch that is asked for, or prepared, is one the setup allows.
MutationSound(m) ==
    /\ m.action \in setup.switches \cup {"none"}
    /\ m.action \in {"select", "attach"} => m.root \in Roots

\* The locals of a call fit each other.
LocalSound(k) ==
    /\ MutationSound(k.mutation) /\ MutationSound(k.prompt)
    /\ k.kind = "exec" => "exec" \in setup.kinds
    /\ k.kind = "workspace" => "workspace" \in setup.kinds
    /\ k.op = "acquire" => k.kind = "exec"
    /\ k.op = "runtime" => k.kind \in {"info", "workspace"}
    /\ k.op = "mutate" \/ k.at = "prompting" => k.kind = "workspace"
    /\ k.op = "deferred" => k.at \in {"queued", "draining"}
    /\ k.at \in {"queued", "draining"} => k.op # "none"
    /\ k.at \in {"making", "discarding"} => k.op \in {"runtime", "acquire"}
    /\ k.applied => k.at \in Decided
    /\ k.outcome = "committed" <=> k.applied
LocalsSound == \A c \in Calls : LocalSound(calls[c])

\* Only the head of the chain waits: the operations run one at a time.
HeadWaits ==
    /\ \A c \in Calls : calls[c].at \in Waiting => tail # <<>> /\ Head(tail) = c
    /\ closer = "draining" => tail # <<>> /\ Head(tail) = Session

\* What is made or waited for is for the workspace bound at the time.
Meant(k) ==
    /\ k.grant \in {Nowhere, [root |-> k.target.root, id |-> k.target.id]}
    /\ k.target.kind # "injected"
    /\ k.target.root = binding.root /\ k.target.id = binding.id

\* A runtime is published, or somebody at the head waits for it to be made or
\* to be closed, or it is over.
RuntimesSound ==
    /\ runtime # NoRuntime =>
          /\ runtimes[runtime].status \in {"open", "draining", "closing", "failed"}
          /\ runtimes[runtime].workspace \in
                {Nowhere, [root |-> identity.root, id |-> identity.id]}
          /\ identity.kind = "injected" => runtimes[runtime].workspace = Nowhere
    /\ \A r \in Runtimes :
          /\ runtimes[r].status = "open" => r = runtime
          /\ runtimes[r].status = "making" =>
                \E c \in Calls : calls[c].at = "making" /\ calls[c].wait = r
          /\ runtimes[r].status \in {"draining", "closing"} =>
                \/ \E c \in Calls : /\ calls[c].at \in {"draining", "discarding"}
                                    /\ calls[c].wait = r
                \/ closer = "draining" /\ r = runtime
          /\ runtimes[r].status = "failed" => failed

WaitsSound ==
    \A c \in Calls :
       LET k == calls[c]
           s == runtimes[k.wait].status
       IN  /\ k.at \in Waiting => k.wait \in Runtimes
           /\ k.at = "making" =>
                 /\ s = "making" /\ runtime = NoRuntime /\ Meant(k)
                 /\ runtimes[k.wait].workspace = k.grant
           /\ k.at = "draining" =>
                 /\ \/ s \in {"draining", "closing"} /\ k.wait = runtime
                    \/ s = "closed" /\ runtime = NoRuntime
                    \/ s = "failed"
                 /\ k.op \in {"runtime", "acquire"} => Meant(k)
           /\ k.at = "discarding" => /\ s \in {"draining", "closing", "closed", "failed"}
                                     /\ runtime \in {NoRuntime, k.wait}

\* A lease keeps its runtime published; one that is being drained waits for
\* every lease and has aborted it.
LeasesSound ==
    \A c \in active :
       /\ calls[c].at \in Leasing /\ calls[c].kind = "exec"
       /\ runtime # NoRuntime /\ calls[c].lease = runtime
       /\ \/ runtimes[runtime].status = "open"
          \/ /\ runtimes[runtime].status = "draining"
             /\ c \in runtimes[runtime].leases /\ calls[c].aborted

\* Once the close has drained the runtime nothing waits, and nothing is left.
CloseSound ==
    closer \in {"settling", "resolved", "rejected"} =>
       /\ runtime # NoRuntime => runtimes[runtime].status = "failed"
       /\ \A c \in Calls : calls[c].at \notin Waiting
       /\ closer = "resolved" => ~failed

SessionInvariant ==
    TypeOK /\ LocalsSound /\ HeadWaits /\ RuntimesSound /\ WaitsSound
           /\ LeasesSound /\ CloseSound

-----------------------------------------------------------------------------
(* The steps, by what they do to the chain and to the runtimes.             *)

\* A call keeps its locals, but that it may be aborted.
Kept(d) ==
    /\ calls'[d].at = calls[d].at /\ calls'[d].op = calls[d].op
    /\ calls'[d].kind = calls[d].kind /\ calls'[d].wait = calls[d].wait
    /\ calls'[d].target = calls[d].target /\ calls'[d].grant = calls[d].grant
    /\ calls'[d].lease = calls[d].lease /\ calls'[d].mutation = calls[d].mutation
    /\ calls'[d].prompt = calls[d].prompt /\ calls'[d].outcome = calls[d].outcome
    /\ calls'[d].applied = calls[d].applied
    /\ calls[d].aborted => calls'[d].aborted

\* A call moves without waiting; a lease it still holds is the same.
Moved(d) ==
    /\ calls[d].at \notin Waiting /\ calls'[d].at \notin Waiting
    /\ LocalSound(calls'[d])
    /\ d \in active' => /\ calls'[d].at \in Leasing
                        /\ calls'[d].kind = calls[d].kind
                        /\ calls'[d].lease = calls[d].lease
                        /\ calls[d].aborted => calls'[d].aborted

\* Nobody at the head moves, and nothing is acquired.
AsideStep ==
    /\ \A d \in Calls : Kept(d) \/ Moved(d)
    /\ tail' = tail \/ \E e \in Calls \cup {Session} : tail' = Append(tail, e)
    /\ active' \subseteq active
    /\ closer' = closer \/ (closer = "open" /\ closer' = "queued")
    /\ UNCHANGED <<setup, binding, owned>>

\* The execution of c starts under a lease of the runtime r.
Leases(c, r) ==
    /\ Available /\ active' = active \cup {c} /\ calls'[c].at = "running"
    /\ calls'[c].kind = "exec" /\ calls'[c].lease = r

\* The call c at the head leaves the chain for good or for its next errand.
HeadMoves(c) ==
    /\ tail # <<>> /\ Head(tail) = c /\ tail' = Tail(tail)
    /\ \A d \in Calls \ {c} : Kept(d)
    /\ calls'[c].at \notin Waiting /\ LocalSound(calls'[c])
    /\ UNCHANGED <<setup, failed, closer>>

\* It waited for nothing, or for a runtime that is closed now.
LeaveStep(c) ==
    /\ HeadMoves(c)
    /\ \/ calls[c].at = "queued"
       \/ calls[c].at \in Waiting /\ runtimes[calls[c].wait].status \in {"closed", "failed"}
    /\ UNCHANGED <<runtimes, runtime>>
    /\ \/ identity' = identity
       \/ /\ runtime # NoRuntime /\ identity.kind = "injected"
          /\ identity' \in Published /\ identity'.kind # "injected"
    /\ \/ active' = active
       \/ /\ runtime # NoRuntime /\ runtimes[runtime].status = "open"
          /\ calls[c].at = "queued" /\ Leases(c, runtime)

\* The runtime that it had made is published, or came to nothing.
MadeStep(c, r) ==
    /\ HeadMoves(c) /\ calls[c].at = "making" /\ calls[c].wait = r
    /\ \A q \in Runtimes \ {r} : runtimes'[q] = runtimes[q]
    /\ \/ /\ runtimes'[r].status = "void" /\ UNCHANGED <<runtime, identity, active>>
       \/ /\ runtimes'[r].status = "open"
          /\ runtimes'[r].workspace = runtimes[r].workspace
          /\ runtime' = r /\ identity' = calls[c].target
          /\ active' = active \/ Leases(c, r)

\* The head waits for the runtime r, whose leases it aborts, to be closed.
DisposeStep(c, r) ==
    /\ tail # <<>> /\ Head(tail) = c /\ UNCHANGED tail
    /\ \A d \in Calls \ {c} : Kept(d)
    /\ \A d \in active : calls[d].lease = r => calls'[d].aborted
    /\ runtimes[r].status \in {"making", "open"}
    /\ \A q \in Runtimes \ {r} : runtimes'[q] = runtimes[q]
    /\ runtimes'[r].status = "draining"
    /\ runtimes'[r].workspace = runtimes[r].workspace
    /\ runtimes'[r].leases = {d \in active : calls[d].lease = r}
    /\ UNCHANGED <<setup, active, runtime, identity, failed>>
    /\ \/ /\ c \in Calls /\ closer \in {"open", "queued"} /\ UNCHANGED closer
          /\ calls[c].at \in {"queued", "making"} /\ c \notin active /\ LocalSound(calls'[c]) /\ calls'[c].wait = r
          /\ runtimes[r].status = "making" => calls[c].at = "making" /\ calls[c].wait = r
          /\ \/ calls'[c].at = "discarding"
             \/ /\ calls'[c].at = "draining" /\ r = runtime
                /\ calls'[c].op \in {"runtime", "acquire"} =>
                      Meant(calls'[c]) /\ UNCHANGED binding
       \/ c = Session /\ closer = "queued" /\ closer' = "draining" /\ r = runtime

\* The head waits for a new runtime.
MakeStep(c, r) ==
    /\ tail # <<>> /\ Head(tail) = c /\ UNCHANGED tail
    /\ \A d \in Calls \ {c} : Kept(d)
    /\ runtime = NoRuntime /\ runtimes[r].status = "none"
    /\ \/ calls[c].at = "queued"
       \/ calls[c].at = "draining" /\ runtimes[calls[c].wait].status = "closed"
    /\ \A q \in Runtimes \ {r} : runtimes'[q] = runtimes[q]
    /\ runtimes'[r].status = "making" /\ runtimes'[r].workspace = calls'[c].grant
    /\ calls'[c].at = "making" /\ calls'[c].wait = r /\ LocalSound(calls'[c])
    /\ Meant(calls'[c]) /\ Available
    /\ UNCHANGED <<setup, binding, active, runtime, identity, failed, closer>>

-----------------------------------------------------------------------------
(* Types.                                                                   *)

FileTyped ==
    /\ setup \in Setups
    /\ disk \in [Roots -> Identities] /\ changes \in 0 .. MaxChanges
WorkspaceTyped ==
    /\ DOMAIN candidates \subseteq Roots
    /\ \A r \in DOMAIN candidates : candidates[r] \in Identities \ {0}
    /\ binding \in Binding /\ (binding = Unbound \/ binding.id # 0)
    /\ autobind \in BOOLEAN /\ advertised \in BOOLEAN /\ blocked \in BOOLEAN
OwnedTyped ==
    /\ runtime \in Runtimes \cup {NoRuntime} /\ identity \in Published
    /\ runtimes \in [Runtimes -> Runtime] /\ failed \in BOOLEAN
ChainTyped ==
    /\ tail \in Seq(Calls \cup {Session}) /\ active \subseteq Calls
    /\ closer \in {"open", "queued", "draining", "settling", "resolved", "rejected"}
CallsTyped == calls \in [Calls -> Call]

\* The types of the variables, by what they belong to.
LEMMA Types ==
  TypeOK <=> FileTyped /\ WorkspaceTyped /\ OwnedTyped /\ ChainTyped /\ CallsTyped
BY DEF TypeOK, FileTyped, WorkspaceTyped, OwnedTyped, ChainTyped, CallsTyped

\* What the runtimes and the chain are for each other.
Orderly == LocalsSound /\ HeadWaits /\ RuntimesSound /\ WaitsSound /\ LeasesSound
                       /\ CloseSound

\* A call that keeps its locals keeps them fitting.
LEMMA KeptSound ==
  ASSUME LocalsSound, NEW d \in Calls, Kept(d)
  PROVE  LocalSound(calls'[d])
BY DEF LocalsSound, LocalSound, Kept, MutationSound

\* While a call is at the head, no other waits and the close does not drain.
LEMMA HeadAlone ==
  ASSUME HeadWaits, NEW c \in Calls, Head(tail) = c
  PROVE  /\ \A d \in Calls \ {c} : calls[d].at \notin Waiting
         /\ closer # "draining"
BY SessionAssumption DEF HeadWaits

\* A step aside keeps everything in order.
LEMMA AsideKept ==
  ASSUME OwnedTyped, ChainTyped, Orderly, AsideStep
  PROVE  OwnedTyped' /\ ChainTyped' /\ Orderly'
<1> USE DEF Orderly, AsideStep, owned
<1>1. OwnedTyped'
  BY DEF OwnedTyped, Runtime, Workspace, Published
<1>2. ChainTyped'
  BY DEF ChainTyped
<1>3. LocalsSound'
  <2> SUFFICES ASSUME NEW d \in Calls PROVE LocalSound(calls'[d])
    BY DEF LocalsSound, LocalSound, MutationSound
  <2> QED BY KeptSound DEF Moved
<1>4. \A d \in Calls : calls'[d].at \in Waiting => Kept(d) /\ calls[d].at \in Waiting
  BY DEF Kept, Moved
<1>5. \A d \in Calls : calls[d].at \in Waiting => Kept(d)
  BY DEF Moved
<1>6. tail # <<>> => tail' # <<>> /\ Head(tail') = Head(tail)
  BY DEF ChainTyped
<1>7. HeadWaits'
  BY <1>4, <1>6 DEF HeadWaits
<1>8. RuntimesSound'
  BY <1>5 DEF RuntimesSound, Kept, Waiting
<1>9. WaitsSound'
  <2> SUFFICES ASSUME NEW d \in Calls, calls'[d].at \in Waiting
               PROVE  /\ calls'[d].wait = calls[d].wait /\ calls'[d].at = calls[d].at
                      /\ calls'[d].op = calls[d].op /\ calls'[d].grant = calls[d].grant
                      /\ calls'[d].target = calls[d].target
    BY DEF WaitsSound, Meant, Waiting
  <2> QED BY <1>4 DEF Kept
<1>10. LeasesSound'
  <2> SUFFICES ASSUME NEW d \in active'
               PROVE  /\ calls'[d].at \in Leasing /\ calls'[d].kind = calls[d].kind
                      /\ calls'[d].lease = calls[d].lease
                      /\ calls[d].aborted => calls'[d].aborted
    BY DEF LeasesSound
  <2>1. d \in Calls /\ calls[d].at \in Leasing
    BY DEF ChainTyped, LeasesSound
  <2> QED BY <2>1 DEF Kept, Moved
<1>11. CloseSound'
  BY <1>4 DEF CloseSound
<1> QED BY <1>1, <1>2, <1>3, <1>7, <1>8, <1>9, <1>10, <1>11

\* The head leaves and nobody else waits.
LEMMA HeadMoved ==
  ASSUME ChainTyped, Orderly, NEW c \in Calls, HeadMoves(c)
  PROVE  /\ LocalsSound' /\ HeadWaits'
         /\ \A d \in Calls : calls'[d].at \notin Waiting
         /\ closer' # "draining"
         /\ tail' \in Seq(Calls \cup {Session})
<1> USE DEF Orderly, HeadMoves
<1>1. \A d \in Calls \ {c} : calls[d].at \notin Waiting /\ closer # "draining"
  BY HeadAlone
<1>2. \A d \in Calls : calls'[d].at \notin Waiting
  BY <1>1 DEF Kept
<1>3. LocalsSound'
  <2> SUFFICES ASSUME NEW d \in Calls PROVE LocalSound(calls'[d])
    BY DEF LocalsSound, LocalSound, MutationSound
  <2> QED BY KeptSound
<1>4. closer' # "draining"
  BY HeadAlone
<1>5. tail' \in Seq(Calls \cup {Session})
  BY DEF ChainTyped
<1> QED BY <1>2, <1>3, <1>4, <1>5 DEF HeadWaits

\* A call that leaves the chain keeps everything in order.
LEMMA LeaveKept ==
  ASSUME OwnedTyped, ChainTyped, Orderly, NEW c \in Calls, LeaveStep(c)
  PROVE  OwnedTyped' /\ ChainTyped' /\ Orderly'
<1> USE DEF Orderly, LeaveStep
<1>1. HeadMoves(c)
  OBVIOUS
<1>2. /\ LocalsSound' /\ HeadWaits' /\ closer' # "draining"
      /\ \A d \in Calls : calls'[d].at \notin Waiting
      /\ tail' \in Seq(Calls \cup {Session})
  BY HeadMoved
<1>3. OwnedTyped'
  BY DEF OwnedTyped, HeadMoves, Runtime, Workspace, Published
<1>4. ChainTyped'
  BY <1>2 DEF ChainTyped, HeadMoves, Leases
<1>5. \A d \in Calls \ {c} : calls[d].at \notin Waiting
  BY HeadAlone DEF HeadMoves
<1>6. closer # "draining"
  BY HeadAlone DEF HeadMoves
<1>7. \A r \in Runtimes : runtimes[r].status \notin {"making", "draining", "closing"}
  BY <1>5, <1>6 DEF RuntimesSound, WaitsSound, Waiting
<1>8. RuntimesSound'
  <2>1. \A r \in Runtimes :
           /\ runtimes'[r].status = "open" => r = runtime'
           /\ runtimes'[r].status \notin {"making", "draining", "closing"}
           /\ runtimes'[r].status = "failed" => failed'
    BY <1>7 DEF RuntimesSound, HeadMoves
  <2>2. ASSUME runtime' # NoRuntime
        PROVE  /\ runtimes'[runtime'].status \in {"open", "draining", "closing", "failed"}
               /\ runtimes'[runtime'].workspace \in
                    {Nowhere, [root |-> identity'.root, id |-> identity'.id]}
               /\ identity'.kind = "injected" => runtimes'[runtime'].workspace = Nowhere
    BY <2>2 DEF RuntimesSound
  <2> QED BY <2>1, <2>2 DEF RuntimesSound
<1>9. WaitsSound'
  BY <1>2 DEF WaitsSound, Waiting
<1>10. LeasesSound'
  <2> SUFFICES ASSUME NEW d \in active'
               PROVE  /\ calls'[d].at \in Leasing /\ calls'[d].kind = "exec"
                      /\ runtime # NoRuntime /\ calls'[d].lease = runtime
                      /\ \/ runtimes[runtime].status = "open"
                         \/ /\ runtimes[runtime].status = "draining"
                            /\ d \in runtimes[runtime].leases /\ calls'[d].aborted
    BY DEF LeasesSound
  <2>1. CASE Leases(c, runtime) /\ d = c /\ runtime # NoRuntime /\ runtimes[runtime].status = "open"
    BY <2>1 DEF Leases, Leasing
  <2>2. CASE d \in active
    <3>1. d # c
      BY <2>2 DEF LeasesSound, Leasing, Waiting
    <3>2. Kept(d)
      BY <2>2, <3>1 DEF HeadMoves, ChainTyped
    <3> QED BY <2>2, <3>2 DEF LeasesSound, Kept
  <2> QED BY <2>1, <2>2 DEF Leases
<1>11. CloseSound'
  BY <1>2 DEF CloseSound, HeadMoves
<1> QED BY <1>2, <1>3, <1>4, <1>8, <1>9, <1>10, <1>11

\* The end of a call's wait for the runtime it had made.
LEMMA MadeKept ==
  ASSUME OwnedTyped, OwnedTyped', ChainTyped, Orderly, NEW c \in Calls,
         NEW r, MadeStep(c, r)
  PROVE  ChainTyped' /\ Orderly'
<1> USE DEF Orderly, MadeStep
<1>1. HeadMoves(c)
  OBVIOUS
<1>2. /\ LocalsSound' /\ HeadWaits' /\ closer' # "draining"
      /\ \A d \in Calls : calls'[d].at \notin Waiting
      /\ tail' \in Seq(Calls \cup {Session})
  BY HeadMoved
<1>3. ChainTyped'
  BY <1>2 DEF ChainTyped, HeadMoves, Leases
<1>4. \A d \in Calls \ {c} : calls[d].at \notin Waiting
  BY HeadAlone DEF HeadMoves
<1>5. closer # "draining"
  BY HeadAlone DEF HeadMoves
<1>6. /\ r \in Runtimes /\ runtime = NoRuntime /\ runtimes[r].status = "making"
      /\ runtimes[r].workspace = calls[c].grant
      /\ calls[c].grant \in {Nowhere, [root |-> calls[c].target.root,
                                       id |-> calls[c].target.id]}
      /\ calls[c].target.kind # "injected"
  BY DEF WaitsSound, Waiting, Meant
<1>7. active = {}
  BY <1>6 DEF LeasesSound
<1>8. \A q \in Runtimes : q # r =>
         runtimes[q].status \notin {"open", "making", "draining", "closing"}
  BY <1>4, <1>5, <1>6 DEF RuntimesSound, WaitsSound, Waiting, NoRuntime, Runtimes
<1>9. \A q \in Runtimes : q # r => runtimes'[q] = runtimes[q]
  OBVIOUS
<1>10. RuntimesSound'
  <2>1. \A q \in Runtimes :
           /\ runtimes'[q].status = "open" => q = runtime'
           /\ runtimes'[q].status \notin {"making", "draining", "closing"}
           /\ runtimes'[q].status = "failed" => failed'
    BY <1>6, <1>8, <1>9 DEF RuntimesSound, HeadMoves
  <2>2. ASSUME runtime' # NoRuntime
        PROVE  /\ runtimes'[runtime'].status \in {"open", "draining", "closing", "failed"}
               /\ runtimes'[runtime'].workspace \in
                    {Nowhere, [root |-> identity'.root, id |-> identity'.id]}
               /\ identity'.kind = "injected" => runtimes'[runtime'].workspace = Nowhere
    BY <1>6, <2>2
  <2> QED BY <2>1, <2>2 DEF RuntimesSound
<1>11. WaitsSound'
  BY <1>2 DEF WaitsSound, Waiting
<1>12. LeasesSound'
  BY <1>6, <1>7 DEF LeasesSound, Leases, Leasing, Runtimes, NoRuntime
<1>13. closer' \notin {"settling", "resolved", "rejected"}
  BY DEF CloseSound, HeadMoves, Waiting
<1>14. CloseSound'
  BY <1>13 DEF CloseSound
<1> QED BY <1>2, <1>3, <1>10, <1>11, <1>12, <1>14

\* A new runtime is being made while nobody else waits.
LEMMA MakeKept ==
  ASSUME OwnedTyped, OwnedTyped', ChainTyped, Orderly, NEW c \in Calls,
         NEW r \in Runtimes, MakeStep(c, r)
  PROVE  ChainTyped' /\ Orderly'
<1> USE DEF Orderly, MakeStep
<1>1. \A d \in Calls \ {c} : calls[d].at \notin Waiting
  BY HeadAlone
<1>2. closer # "draining"
  BY HeadAlone
<1>3. \A d \in Calls \ {c} : calls'[d].at \notin Waiting
  BY <1>1 DEF Kept
<1>4. ChainTyped'
  BY DEF ChainTyped
<1>5. LocalsSound'
  <2> SUFFICES ASSUME NEW d \in Calls PROVE LocalSound(calls'[d])
    BY DEF LocalsSound, LocalSound, MutationSound
  <2> QED BY KeptSound
<1>6. HeadWaits'
  BY <1>2, <1>3 DEF HeadWaits
<1>7. \A q \in Runtimes : runtimes[q].status \notin {"open", "making", "draining", "closing"}
  BY <1>1, <1>2 DEF RuntimesSound, WaitsSound, Waiting, NoRuntime, Runtimes
<1>8. \A q \in Runtimes : q # r => runtimes'[q] = runtimes[q]
  OBVIOUS
<1>9. RuntimesSound'
  BY <1>7, <1>8 DEF RuntimesSound
<1>10. WaitsSound'
  BY <1>3 DEF WaitsSound, Waiting, Meant
<1>11. LeasesSound'
  BY DEF LeasesSound
<1>12. CloseSound'
  BY DEF CloseSound, Available, Retiring
<1> QED BY <1>4, <1>5, <1>6, <1>9, <1>10, <1>11, <1>12

\* The head begins to wait for a runtime to be closed.
LEMMA DisposeKept ==
  ASSUME OwnedTyped, OwnedTyped', ChainTyped, Orderly, NEW c, NEW r \in Runtimes,
         DisposeStep(c, r)
  PROVE  ChainTyped' /\ Orderly'
<1> USE DEF Orderly, DisposeStep
<1>1. \A d \in Calls \ {c} : calls[d].at \notin Waiting
  BY SessionAssumption DEF HeadWaits
<1>2. c \in Calls => closer # "draining"
  BY SessionAssumption DEF HeadWaits
<1>3. \A d \in Calls \ {c} : Kept(d) /\ calls'[d].at \notin Waiting
  BY <1>1 DEF Kept
<1>4. ChainTyped'
  BY DEF ChainTyped
<1>5. LocalsSound'
  <2> SUFFICES ASSUME NEW d \in Calls PROVE LocalSound(calls'[d])
    BY DEF LocalsSound, LocalSound, MutationSound
  <2> QED BY KeptSound, SessionAssumption
<1>6. HeadWaits'
  BY <1>2, <1>3 DEF HeadWaits
<1>7. runtimes[r].status = "open" => r = runtime
  BY DEF RuntimesSound
<1>8. runtimes[r].status = "making" => c \in Calls /\ calls[c].at = "making" /\ calls[c].wait = r
  BY DEF RuntimesSound, NoRuntime, Runtimes
<1>9. c \in Calls /\ calls[c].at = "making" => runtime = NoRuntime /\ calls[c].wait = r
  BY <1>7, <1>8 DEF WaitsSound, NoRuntime, Runtimes
<1>10. \A q \in Runtimes : q # r =>
          /\ runtimes[q].status \notin {"making", "draining", "closing"}
          /\ runtimes'[q] = runtimes[q]
  <2> SUFFICES ASSUME NEW q \in Runtimes, q # r
               PROVE  runtimes[q].status \notin {"making", "draining", "closing"}
    OBVIOUS
  <2>1. \A d \in Calls : calls[d].at \in Waiting => calls[d].at = "making" /\ calls[d].wait = r
    BY <1>1, <1>9, SessionAssumption DEF Waiting
  <2>2. closer # "draining"
    BY <1>2
  <2> QED BY <2>1, <2>2 DEF RuntimesSound, Waiting
<1>11. RuntimesSound'
  <2>1. ASSUME NEW q \in Runtimes
        PROVE  /\ runtimes'[q].status = "open" => q = runtime'
               /\ runtimes'[q].status # "making"
               /\ runtimes'[q].status \in {"draining", "closing"} =>
                     \/ \E d \in Calls : /\ calls'[d].at \in {"draining", "discarding"}
                                         /\ calls'[d].wait = q
                     \/ closer' = "draining" /\ q = runtime'
               /\ runtimes'[q].status = "failed" => failed'
    <3>1. CASE q = r
      BY <3>1
    <3>2. CASE q # r
      BY <3>2, <1>10 DEF RuntimesSound
    <3> QED BY <3>1, <3>2
  <2>2. ASSUME runtime' # NoRuntime
        PROVE  /\ runtimes'[runtime'].status \in {"open", "draining", "closing", "failed"}
               /\ runtimes'[runtime'].workspace \in
                    {Nowhere, [root |-> identity'.root, id |-> identity'.id]}
               /\ identity'.kind = "injected" => runtimes'[runtime'].workspace = Nowhere
    <3>1. runtime \in Runtimes
      BY <2>2 DEF OwnedTyped
    <3>2. runtimes'[runtime].workspace = runtimes[runtime].workspace
      BY <3>1, <1>10
    <3>3. runtimes'[runtime].status \in {"open", "draining", "closing", "failed"}
      BY <2>2, <3>1, <1>10 DEF RuntimesSound
    <3> QED BY <2>2, <3>2, <3>3 DEF RuntimesSound
  <2> QED BY <2>1, <2>2 DEF RuntimesSound
<1>12. WaitsSound'
  <2> SUFFICES ASSUME NEW d \in Calls, calls'[d].at \in Waiting
               PROVE  /\ calls'[d].wait = r
                      /\ \/ calls'[d].at = "discarding" /\ runtime \in {NoRuntime, r}
                         \/ /\ calls'[d].at = "draining" /\ r = runtime
                            /\ calls'[d].op \in {"runtime", "acquire"} =>
                                  Meant(calls'[d]) /\ UNCHANGED binding
    BY DEF WaitsSound, Waiting, Meant
  <2>1. d = c /\ c \in Calls
    BY <1>3
  <2>2. runtime \in {NoRuntime, r}
    BY <1>7, <1>8, <1>9
  <2> QED BY <2>1, <2>2, SessionAssumption
<1>13. LeasesSound'
  <2> SUFFICES ASSUME NEW d \in active
               PROVE  /\ calls'[d].at \in Leasing /\ calls'[d].kind = "exec"
                      /\ runtime # NoRuntime /\ calls'[d].lease = runtime
                      /\ runtimes'[runtime].status = "draining"
                      /\ d \in runtimes'[runtime].leases /\ calls'[d].aborted
    BY DEF LeasesSound
  <2>1. d \in Calls /\ d # c
    BY SessionAssumption DEF ChainTyped
  <2>2. Kept(d)
    BY <2>1
  <2>3. runtime # NoRuntime /\ calls[d].lease = runtime
    BY DEF LeasesSound
  <2>4. r = runtime
    BY <1>7, <1>8, <1>9, <2>3
  <2> QED BY <2>2, <2>3, <2>4 DEF LeasesSound, Kept
<1>14. CloseSound'
  BY DEF CloseSound
<1> QED BY <1>4, <1>5, <1>6, <1>11, <1>12, <1>13, <1>14

-----------------------------------------------------------------------------
(* The steps of a runtime that is closed, and of the close.                 *)

\* The leases of a draining runtime have settled, so nobody holds it any more.
LEMMA DrainedKept ==
  ASSUME TypeOK, Orderly, NEW r \in Runtimes, Drained(r)
  PROVE  TypeOK' /\ Orderly'
<1> USE DEF Orderly, Drained, file, workspace
<1>1. runtimes[r].status = "draining" /\ runtimes[r].leases \cap active = {}
  OBVIOUS
<1>2. runtimes' = [runtimes EXCEPT ![r].status = "closing", ![r].leases = {}]
  OBVIOUS
<1>3. runtimes \in [Runtimes -> Runtime]
  BY DEF TypeOK
<1>4. [runtimes[r] EXCEPT !.status = "closing", !.leases = {}] \in Runtime
  BY <1>3, Zenon DEF Runtime
<1>5. /\ \A q \in Runtimes : q # r => runtimes'[q] = runtimes[q]
      /\ runtimes' \in [Runtimes -> Runtime]
  BY <1>2, <1>3, <1>4
<1>6. runtimes'[r].status = "closing" /\ runtimes'[r].workspace = runtimes[r].workspace
  BY <1>2, <1>3 DEF Runtime
<1>7. Call' = Call
  BY DEF Call, Snapshot
<1>8. TypeOK'
  BY <1>5, <1>7 DEF TypeOK
<1>9. RuntimesSound'
  <2>1. ASSUME NEW q \in Runtimes
        PROVE  /\ runtimes'[q].status = "open" => q = runtime
               /\ runtimes'[q].status = "making" =>
                     \E c \in Calls : calls[c].at = "making" /\ calls[c].wait = q
               /\ runtimes'[q].status \in {"draining", "closing"} =>
                     \/ \E c \in Calls : /\ calls[c].at \in {"draining", "discarding"}
                                         /\ calls[c].wait = q
                     \/ closer = "draining" /\ q = runtime
               /\ runtimes'[q].status = "failed" => failed
    <3>1. CASE q = r
      BY <3>1, <1>1, <1>6 DEF RuntimesSound
    <3>2. CASE q # r
      BY <3>2, <1>5 DEF RuntimesSound
    <3> QED BY <3>1, <3>2
  <2>2. ASSUME runtime # NoRuntime
        PROVE  /\ runtimes'[runtime].status \in {"open", "draining", "closing", "failed"}
               /\ runtimes'[runtime].workspace = runtimes[runtime].workspace
    BY <2>2, <1>5, <1>6 DEF RuntimesSound, TypeOK
  <2> QED BY <2>1, <2>2 DEF RuntimesSound
<1>10. WaitsSound'
  <2> SUFFICES ASSUME NEW c \in Calls, calls[c].at \in Waiting
               PROVE  \/ runtimes'[calls[c].wait] = runtimes[calls[c].wait]
                      \/ /\ runtimes[calls[c].wait].status = "draining"
                         /\ runtimes'[calls[c].wait].status = "closing"
    BY DEF WaitsSound, Waiting, Meant
  <2>1. calls[c].wait \in Runtimes
    BY DEF WaitsSound
  <2> QED BY <2>1, <1>1, <1>5, <1>6
<1>11. LeasesSound'
  <2> SUFFICES ASSUME NEW d \in active
               PROVE  runtimes'[runtime] = runtimes[runtime]
    BY DEF LeasesSound
  <2>1. runtime \in Runtimes /\ r # runtime
    BY <1>1 DEF LeasesSound, TypeOK
  <2> QED BY <2>1, <1>5
<1>12. CloseSound'
  <2> SUFFICES ASSUME closer \in {"settling", "resolved", "rejected"}, runtime # NoRuntime
               PROVE  runtimes'[runtime].status = "failed"
    BY DEF CloseSound
  <2>1. runtime \in Runtimes /\ r # runtime
    BY <1>1 DEF CloseSound, TypeOK
  <2> QED BY <2>1, <1>5 DEF CloseSound
<1>13. LocalsSound' /\ HeadWaits'
  BY DEF LocalsSound, LocalSound, MutationSound, HeadWaits
<1> QED BY <1>8, <1>9, <1>10, <1>11, <1>12, <1>13

\* A runtime is closed, or its cleanup fails.
LEMMA RuntimeClosedKept ==
  ASSUME TypeOK, Orderly, NEW r \in Runtimes, RuntimeClosed(r)
  PROVE  TypeOK' /\ Orderly'
<1> USE DEF Orderly, file, workspace
<1> DEFINE s == runtimes'[r].status
<1>1. /\ runtimes[r].status = "closing" /\ runtimes \in [Runtimes -> Runtime]
      /\ UNCHANGED <<file, workspace, tail, calls, active, closer>>
  BY DEF RuntimeClosed, TypeOK
<1>2. Ended("closed") \in Runtime /\ Ended("failed") \in Runtime
  BY SessionAssumption DEF Ended, Runtime, Nowhere, Workspace, Identities
<1>3. /\ \A q \in Runtimes : q # r => runtimes'[q] = runtimes[q]
      /\ runtimes' \in [Runtimes -> Runtime]
      /\ runtimes'[r] \in {Ended("closed"), Ended("failed")}
  BY <1>1, <1>2 DEF RuntimeClosed
<1>4. /\ s \in {"closed", "failed"} /\ runtimes'[r].workspace = Nowhere
      /\ s = "closed" =>
            /\ failed' = failed
            /\ runtime' = (IF runtime = r THEN NoRuntime ELSE runtime)
            /\ identity' = (IF runtime = r THEN FreshCall.target ELSE identity)
      /\ s = "failed" => failed' = TRUE /\ runtime' = runtime /\ identity' = identity
  BY <1>1, <1>2 DEF RuntimeClosed, Ended
<1>5. FreshCall.target \in Published
  BY SessionAssumption DEF FreshCall, Published, Identities
<1>6. runtime' \in {runtime, NoRuntime} /\ failed' \in BOOLEAN /\ identity' \in Published
  BY <1>4, <1>5 DEF TypeOK
<1>7. Call' = Call
  BY <1>1 DEF Call, Snapshot
<1>8. TypeOK'
  BY <1>1, <1>3, <1>6, <1>7 DEF TypeOK
<1>9. r # NoRuntime
  BY DEF Runtimes, NoRuntime
<1> HIDE DEF s
<1>10. RuntimesSound'
  <2>1. ASSUME NEW q \in Runtimes
        PROVE  /\ runtimes'[q].status = "open" => q = runtime'
               /\ runtimes'[q].status = "making" =>
                     \E c \in Calls : calls[c].at = "making" /\ calls[c].wait = q
               /\ runtimes'[q].status \in {"draining", "closing"} =>
                     \/ \E c \in Calls : /\ calls[c].at \in {"draining", "discarding"}
                                         /\ calls[c].wait = q
                     \/ closer = "draining" /\ q = runtime'
               /\ runtimes'[q].status = "failed" => failed'
    <3>1. CASE q = r
      BY <3>1, <1>4 DEF s
    <3>2. CASE q # r
      <4>1. runtimes'[q] = runtimes[q]
        BY <3>2, <1>3
      <4>2. q = runtime => q = runtime'
        BY <3>2, <1>4
      <4>3. failed => failed'
        BY <1>4
      <4> QED BY <4>1, <4>2, <4>3 DEF RuntimesSound
    <3> QED BY <3>1, <3>2
  <2>2. ASSUME runtime' # NoRuntime
        PROVE  /\ runtimes'[runtime'].status \in {"open", "draining", "closing", "failed"}
               /\ runtimes'[runtime'].workspace \in
                    {Nowhere, [root |-> identity'.root, id |-> identity'.id]}
               /\ identity'.kind = "injected" => runtimes'[runtime'].workspace = Nowhere
    <3>1. runtime' = runtime /\ runtime \in Runtimes
      BY <2>2, <1>6 DEF TypeOK
    <3>2. CASE runtime = r
      BY <3>1, <3>2, <2>2, <1>4, <1>9 DEF s
    <3>3. CASE runtime # r
      <4>1. runtimes'[runtime] = runtimes[runtime] /\ identity' = identity
        BY <3>1, <3>3, <1>3, <1>4
      <4> QED BY <4>1, <3>1, <2>2 DEF RuntimesSound
    <3> QED BY <3>2, <3>3
  <2> QED BY <2>1, <2>2, <1>1 DEF RuntimesSound
<1>11. WaitsSound'
  <2> SUFFICES ASSUME NEW c \in Calls, calls[c].at \in Waiting
               PROVE  LET k == calls[c]
                          t == runtimes'[k.wait].status
                      IN  /\ k.wait \in Runtimes
                          /\ k.at = "making" =>
                               /\ t = "making" /\ runtime' = NoRuntime /\ Meant(k)
                               /\ runtimes'[k.wait].workspace = k.grant
                          /\ k.at = "draining" =>
                               /\ \/ t \in {"draining", "closing"} /\ k.wait = runtime'
                                  \/ t = "closed" /\ runtime' = NoRuntime
                                  \/ t = "failed"
                               /\ k.op \in {"runtime", "acquire"} => Meant(k)
                          /\ k.at = "discarding" =>
                               /\ t \in {"draining", "closing", "closed", "failed"}
                               /\ runtime' \in {NoRuntime, k.wait}
    BY <1>1 DEF WaitsSound, Waiting, Meant
  <2>1. calls[c].wait \in Runtimes
    BY DEF WaitsSound
  <2>2. CASE calls[c].wait = r
    BY <2>1, <2>2, <1>1, <1>4, <1>6, <1>9 DEF WaitsSound, s
  <2>3. CASE calls[c].wait # r
    <3>1. runtimes'[calls[c].wait] = runtimes[calls[c].wait]
      BY <2>1, <2>3, <1>3
    <3>2. runtime = calls[c].wait => runtime' = runtime
      BY <2>3, <1>4
    <3> QED BY <2>1, <3>1, <3>2, <1>6 DEF WaitsSound
  <2> QED BY <2>2, <2>3
<1>12. LeasesSound'
  <2> SUFFICES ASSUME NEW d \in active
               PROVE  runtimes'[runtime] = runtimes[runtime] /\ runtime' = runtime
    BY <1>1 DEF LeasesSound
  <2>1. runtime \in Runtimes /\ r # runtime
    BY <1>1 DEF LeasesSound, TypeOK
  <2> QED BY <2>1, <1>3, <1>4
<1>13. closer \notin {"settling", "resolved", "rejected"}
  BY <1>1 DEF CloseSound, RuntimesSound, Waiting
<1>14. CloseSound'
  BY <1>1, <1>13 DEF CloseSound
<1>15. LocalsSound' /\ HeadWaits'
  BY <1>1 DEF LocalsSound, LocalSound, MutationSound, HeadWaits
<1> QED BY <1>8, <1>10, <1>11, <1>12, <1>14, <1>15

\* The close comes to nothing to drain, or to a drain that is over.
LEMMA CloserKept ==
  ASSUME ChainTyped, Orderly, tail # <<>>, Head(tail) = Session, tail' = Tail(tail),
         closer' = "settling", UNCHANGED <<setup, binding, owned, calls, active>>,
         runtime # NoRuntime => runtimes[runtime].status = "failed"
  PROVE  ChainTyped' /\ Orderly'
<1> USE DEF Orderly, owned
<1>1. \A c \in Calls : calls[c].at \notin Waiting
  BY SessionAssumption DEF HeadWaits
<1>2. ChainTyped'
  BY DEF ChainTyped
<1>3. LocalsSound'
  BY DEF LocalsSound, LocalSound, MutationSound
<1>4. HeadWaits'
  BY <1>1 DEF HeadWaits
<1>5. RuntimesSound'
  <2>1. \A r \in Runtimes : r # NoRuntime
    BY DEF Runtimes, NoRuntime
  <2>2. \A r \in Runtimes : runtimes[r].status \notin {"draining", "closing"}
    BY <1>1, <2>1 DEF RuntimesSound, Waiting
  <2> QED BY <2>2 DEF RuntimesSound
<1>6. WaitsSound'
  BY <1>1 DEF WaitsSound, Waiting
<1>7. LeasesSound'
  BY DEF LeasesSound
<1>8. CloseSound'
  BY <1>1 DEF CloseSound
<1> QED BY <1>2, <1>3, <1>4, <1>5, <1>6, <1>7, <1>8

\* The close waits for a runtime whose cleanup had failed before.
LEMMA CloserWaits ==
  ASSUME OwnedTyped, ChainTyped, Orderly, tail # <<>>, Head(tail) = Session, UNCHANGED tail,
         closer = "queued", closer' = "draining", UNCHANGED <<setup, binding, owned, active>>,
         \A d \in Calls : Kept(d)
  PROVE  ChainTyped' /\ Orderly'
<1> USE DEF Orderly, owned
<1>1. \A c \in Calls : calls[c].at \notin Waiting /\ calls'[c].at \notin Waiting
  BY SessionAssumption DEF HeadWaits, Kept
<1>2. ChainTyped'
  BY DEF ChainTyped
<1>3. LocalsSound'
  <2> SUFFICES ASSUME NEW d \in Calls PROVE LocalSound(calls'[d])
    BY DEF LocalsSound, LocalSound, MutationSound
  <2> QED BY KeptSound
<1>4. HeadWaits'
  BY <1>1 DEF HeadWaits
<1>5. RuntimesSound'
  BY <1>1 DEF RuntimesSound, Waiting
<1>6. WaitsSound'
  BY <1>1 DEF WaitsSound, Waiting
<1>7. LeasesSound'
  BY DEF LeasesSound, Kept, ChainTyped
<1>8. CloseSound'
  BY DEF CloseSound
<1> QED BY <1>2, <1>3, <1>4, <1>5, <1>6, <1>7, <1>8

-----------------------------------------------------------------------------
(* What the operators of the chain do to the calls.                         *)

\* The locals of a fresh call are of their types and fit each other.
LEMMA FreshTyped ==
  ASSUME setup \in Setups
  PROVE  /\ FreshCall \in Call /\ LocalSound(FreshCall)
         /\ FreshCall.target \in Published /\ NoMutation \in Mutation
         /\ Nowhere \in Workspace /\ Unbound \in Binding
<1>1. [listed |-> FALSE, roots |-> {}] \in Snapshot
  BY DEF Snapshot
<1>2. NoMutation \in Mutation /\ Nowhere \in Workspace /\ Unbound \in Binding
  BY SessionAssumption
  DEF NoMutation, Mutation, Nowhere, Workspace, Unbound, Binding, Identities
<1>3. [kind |-> "none", root |-> NoRoot, id |-> 0] \in Published
  BY SessionAssumption DEF Published, Identities
<1>4. FreshCall \in Call
  BY <1>1, <1>2, <1>3 DEF FreshCall, Call
<1>5. LocalSound(FreshCall)
  BY DEF FreshCall, LocalSound, MutationSound, NoMutation, Decided
<1> QED BY <1>2, <1>3, <1>4, <1>5 DEF FreshCall

\* The types that most steps leave alone.
Standing == FileTyped /\ WorkspaceTyped /\ OwnedTyped /\ ChainTyped /\ CallsTyped /\ Orderly

\* One call's locals change.
LEMMA Replaced ==
  ASSUME CallsTyped, NEW c \in Calls, NEW k \in Call, setup' = setup,
         calls' = [calls EXCEPT ![c] = k]
  PROVE  /\ CallsTyped' /\ calls'[c] = k
         /\ \A d \in Calls \ {c} : calls'[d] = calls[d] /\ Kept(d)
<1>1. Call' = Call
  BY DEF Call, Snapshot
<1>2. calls' \in [Calls -> Call] /\ calls'[c] = k
  BY DEF CallsTyped
<1>3. \A d \in Calls \ {c} : calls'[d] = calls[d]
  BY DEF CallsTyped
<1> QED BY <1>1, <1>2, <1>3 DEF CallsTyped, Kept

Outcomes == {"none", "not-committed", "committed", "failed", "cancelled", "uncertain"}

\* A response: the call is over, or has settled with its lease given back.
LEMMA RespondEffect ==
  ASSUME CallsTyped, setup \in Setups, setup' = setup, NEW c \in Calls,
         NEW o \in Outcomes, NEW b \in BOOLEAN, Respond(c, o, b)
  PROVE  /\ CallsTyped'
         /\ \A d \in Calls \ {c} : calls'[d] = calls[d] /\ Kept(d)
         /\ calls'[c].at \in {"settled", "done"}
         /\ calls'[c].outcome = o /\ calls'[c].applied = b
         /\ (o = "committed" <=> b) => LocalSound(calls'[c])
<1> DEFINE f == FreshCall
           k == [f EXCEPT !.at = IF calls[c].op = "deferred" THEN "settled" ELSE "done",
                          !.outcome = o, !.applied = b]
<1>1. calls' = [calls EXCEPT ![c] = k]
  BY DEF Respond
<1>2. k.at \in {"settled", "done"} /\ k.outcome = o /\ k.applied = b
  BY DEF FreshCall
<1>3. (o = "committed" <=> b) => LocalSound(k)
  BY DEF FreshCall, LocalSound, MutationSound, NoMutation, Decided
<1>4. f \in Call
  BY FreshTyped
<1>5. (IF calls[c].op = "deferred" THEN "settled" ELSE "done") \in {"settled", "done"}
  OBVIOUS
<1> HIDE DEF f
<1>6. \A a \in {"settled", "done"} : [f EXCEPT !.at = a, !.outcome = o, !.applied = b] \in Call
  BY ZenonT(60), <1>4 DEF Call, Outcomes
<1>7. k \in Call
  BY <1>5, <1>6
<1> HIDE DEF k
<1> QED BY <1>1, <1>2, <1>3, <1>7, Replaced

\* A failure commits nothing.
LEMMA FailEffect ==
  ASSUME CallsTyped, setup \in Setups, setup' = setup, NEW c \in Calls, Fail(c)
  PROVE  /\ CallsTyped' /\ tail' = Tail(tail)
         /\ \A d \in Calls \ {c} : calls'[d] = calls[d] /\ Kept(d)
         /\ calls'[c].at \in {"settled", "done"} /\ ~calls'[c].applied
         /\ LocalSound(calls'[c])
<1>1. Failure(c) \in {"none", "cancelled", "failed"}
  BY DEF Failure
<1>2. Respond(c, Failure(c), FALSE) /\ tail' = Tail(tail)
  BY DEF Fail
<1> QED BY <1>1, <1>2, RespondEffect DEF Outcomes

\* Fresh locals with the kind, the abort and the switch of a call are a call's.
LEMMA LeftTyped ==
  ASSUME NEW f \in Call, NEW k \in Call, NEW a \in {"synced", "prompting"}
  PROVE  [f EXCEPT !.at = a, !.kind = k.kind, !.aborted = k.aborted,
                   !.mutation = k.mutation] \in Call
BY ZenonT(60) DEF Call

\* A call that leaves the chain goes on with its kind, abort and switch.
LEMMA LeaveEffect ==
  ASSUME CallsTyped, setup \in Setups, setup' = setup, NEW c \in Calls,
         LocalSound(calls[c]), NEW a \in {"synced", "prompting"},
         a = "prompting" => calls[c].kind = "workspace", Leave(c, a)
  PROVE  /\ CallsTyped' /\ tail' = Tail(tail)
         /\ \A d \in Calls \ {c} : calls'[d] = calls[d] /\ Kept(d)
         /\ calls'[c].at = a /\ ~calls'[c].applied /\ LocalSound(calls'[c])
<1> DEFINE f == FreshCall
           k == [f EXCEPT !.at = a, !.kind = calls[c].kind,
                   !.aborted = calls[c].aborted, !.mutation = calls[c].mutation]
<1>1. calls' = [calls EXCEPT ![c] = k] /\ tail' = Tail(tail)
  BY DEF Leave
<1>2. k.at = a /\ ~k.applied
  BY DEF FreshCall
<1>3. LocalSound(k)
  BY DEF FreshCall, LocalSound, MutationSound, NoMutation, Decided
<1>4. f \in Call /\ calls[c] \in Call
  BY FreshTyped DEF CallsTyped
<1> HIDE DEF f
<1>5. k \in Call
  BY <1>4, LeftTyped
<1> HIDE DEF k
<1> QED BY <1>1, <1>2, <1>3, <1>5, Replaced

\* A call that is aborted, or sent to wait, keeps its type.
LEMMA Redirected ==
  ASSUME NEW k \in Call, NEW b \in BOOLEAN
  PROVE  /\ [k EXCEPT !.aborted = b, !.at = k.at, !.wait = k.wait] \in Call
         /\ \A a \in {"draining", "discarding"}, w \in Runtimes :
               [k EXCEPT !.aborted = b, !.at = a, !.wait = w] \in Call
<1>1. [k EXCEPT !.aborted = b, !.at = k.at, !.wait = k.wait] \in Call
  BY Zenon DEF Call
<1>2. ASSUME NEW a \in {"draining", "discarding"}, NEW w \in Runtimes
      PROVE  [k EXCEPT !.aborted = b, !.at = a, !.wait = w] \in Call
  BY Zenon DEF Call
<1> QED BY <1>1, <1>2

\* A disposal sends the asking call to wait; the one that begins to close the
\* runtime aborts its leases, and it will wait for them.
LEMMA DisposeEffect ==
  ASSUME CallsTyped, OwnedTyped, active \subseteq Calls, setup' = setup, NEW c,
         NEW r \in Runtimes, NEW a \in {"draining", "discarding"},
         NEW l \in [Calls -> Call], \A d \in Calls \ {c} : l[d] = calls[d],
         Dispose(l, c, r, a)
  PROVE  /\ CallsTyped' /\ runtimes' \in [Runtimes -> Runtime]
         /\ \A d \in Calls \ {c} : Kept(d)
         /\ c \in Calls =>
              /\ calls'[c].at = a /\ calls'[c].wait = r
              /\ calls'[c].op = l[c].op /\ calls'[c].kind = l[c].kind
              /\ calls'[c].target = l[c].target /\ calls'[c].grant = l[c].grant
              /\ calls'[c].mutation = l[c].mutation /\ calls'[c].prompt = l[c].prompt
              /\ calls'[c].outcome = l[c].outcome /\ calls'[c].applied = l[c].applied
         /\ runtimes[r].status \in {"making", "open"} =>
              /\ \A d \in active : calls[d].lease = r => calls'[d].aborted
              /\ \A q \in Runtimes \ {r} : runtimes'[q] = runtimes[q]
              /\ runtimes'[r].status = "draining"
              /\ runtimes'[r].workspace = runtimes[r].workspace
              /\ runtimes'[r].leases = {d \in active : calls[d].lease = r}
         /\ runtimes[r].status \notin {"making", "open"} => runtimes' = runtimes
<1> DEFINE held == {d \in active : calls[d].lease = r}
           first == runtimes[r].status \in {"making", "open"}
           p == [runtimes[r] EXCEPT !.status = "draining", !.client = FALSE, !.leases = held]
           k(d) == [l[d] EXCEPT !.aborted = @ \/ (first /\ d \in held),
                                !.at = IF d = c THEN a ELSE @,
                                !.wait = IF d = c THEN r ELSE @]
<1>1. runtimes' = IF first THEN [runtimes EXCEPT ![r] = p] ELSE runtimes
  BY DEF Dispose
<1>2. calls' = [d \in Calls |-> k(d)]
  BY DEF Dispose
<1>3. runtimes \in [Runtimes -> Runtime] /\ runtimes[r] \in Runtime
  BY DEF OwnedTyped
<1>4. p \in Runtime
  BY <1>3, Zenon DEF Runtime
<1>5. p.status = "draining" /\ p.workspace = runtimes[r].workspace /\ p.leases = held
  BY <1>3 DEF Runtime
<1>6. ASSUME NEW d \in Calls
      PROVE  /\ k(d) \in Call
             /\ k(d).op = l[d].op /\ k(d).kind = l[d].kind
             /\ k(d).target = l[d].target /\ k(d).grant = l[d].grant
             /\ k(d).lease = l[d].lease
             /\ k(d).mutation = l[d].mutation /\ k(d).prompt = l[d].prompt
             /\ k(d).outcome = l[d].outcome /\ k(d).applied = l[d].applied
             /\ k(d).at = (IF d = c THEN a ELSE l[d].at)
             /\ k(d).wait = (IF d = c THEN r ELSE l[d].wait)
             /\ l[d].aborted \/ (first /\ d \in held) => k(d).aborted
  <2>1. l[d] \in Call
    OBVIOUS
  <2>2. /\ k(d).op = l[d].op /\ k(d).kind = l[d].kind
        /\ k(d).target = l[d].target /\ k(d).grant = l[d].grant
        /\ k(d).lease = l[d].lease
        /\ k(d).mutation = l[d].mutation /\ k(d).prompt = l[d].prompt
        /\ k(d).outcome = l[d].outcome /\ k(d).applied = l[d].applied
        /\ k(d).at = (IF d = c THEN a ELSE l[d].at)
        /\ k(d).wait = (IF d = c THEN r ELSE l[d].wait)
        /\ l[d].aborted \/ (first /\ d \in held) => k(d).aborted
    BY <2>1 DEF Call
  <2> DEFINE b == l[d].aborted \/ (first /\ d \in held)
  <2>3. b \in BOOLEAN
    BY Zenon
  <2> HIDE DEF b
  <2>4. CASE d = c
    <3>1. [l[d] EXCEPT !.aborted = b, !.at = a, !.wait = r] \in Call
      BY <2>1, <2>3, Redirected
    <3> QED BY <2>2, <2>4, <3>1 DEF b
  <2>5. CASE d # c
    <3>1. [l[d] EXCEPT !.aborted = b, !.at = l[d].at, !.wait = l[d].wait] \in Call
      BY <2>1, <2>3, Redirected
    <3> QED BY SMTT(40), <2>2, <2>5, <3>1 DEF b
  <2> QED BY <2>4, <2>5
<1> HIDE DEF k, p, first
<1>7. Call' = Call
  BY DEF Call, Snapshot
<1>8. CallsTyped'
  BY <1>2, <1>6, <1>7 DEF CallsTyped
<1>9. \A d \in Calls \ {c} : Kept(d)
  BY <1>2, <1>6 DEF Kept
<1>10. runtimes' \in [Runtimes -> Runtime]
  BY <1>1, <1>3, <1>4
<1>11. first => /\ \A q \in Runtimes \ {r} : runtimes'[q] = runtimes[q]
                /\ runtimes'[r] = p
  BY <1>1, <1>3
<1>12. first => \A d \in active : calls[d].lease = r => calls'[d].aborted
  BY <1>2, <1>6
<1> QED BY <1>1, <1>2, <1>5, <1>6, <1>8, <1>9, <1>10, <1>11, <1>12 DEF first

-----------------------------------------------------------------------------
(* The actions that wait for nothing.                                       *)

Typed == FileTyped /\ WorkspaceTyped /\ OwnedTyped /\ CallsTyped

\* An action of one call that is not at the head is a step aside.
LEMMA AsideOf ==
  ASSUME Standing, NEW c \in Calls, CallsTyped', \A d \in Calls \ {c} : Kept(d),
         calls[c].at \notin Waiting, calls'[c].at \notin Waiting, LocalSound(calls'[c]),
         UNCHANGED <<file, workspace, owned, closer>>,
         tail' = tail \/ tail' = Append(tail, c),
         active' \subseteq active,
         c \in active' => /\ calls'[c].at \in Leasing /\ calls'[c].kind = calls[c].kind
                          /\ calls'[c].lease = calls[c].lease
                          /\ calls[c].aborted => calls'[c].aborted
  PROVE  AsideStep /\ Typed'
<1>1. AsideStep
  BY DEF AsideStep, Moved, file, workspace, owned
<1>2. FileTyped' /\ WorkspaceTyped' /\ OwnedTyped'
  BY DEF Standing, FileTyped, WorkspaceTyped, OwnedTyped, file, workspace, owned,
         Published, Runtime, Workspace
<1> QED BY <1>1, <1>2 DEF Typed

\* A call that neither waits nor holds a lease gets new locals.
LEMMA AsideWith ==
  ASSUME Standing, NEW c \in Calls, NEW k \in Call, calls' = [calls EXCEPT ![c] = k],
         calls[c].at \notin Waiting \cup Leasing, k.at \notin Waiting, LocalSound(k),
         UNCHANGED <<file, workspace, owned, closer, active>>,
         tail' = tail \/ tail' = Append(tail, c)
  PROVE  AsideStep /\ Typed'
<1>1. setup' = setup /\ CallsTyped
  BY DEF file, Standing
<1>2. CallsTyped' /\ calls'[c] = k /\ \A d \in Calls \ {c} : Kept(d)
  BY <1>1, Replaced
<1>3. c \notin active
  BY DEF Standing, Orderly, LeasesSound
<1> QED BY <1>2, <1>3, AsideOf

\* What holds of any call.
LEMMA CallFacts ==
  ASSUME Standing, NEW c \in Calls
  PROVE  /\ calls[c] \in Call /\ LocalSound(calls[c]) /\ setup \in Setup /\ setup \in Setups
         /\ c \in active => /\ calls[c].at \in Leasing /\ calls[c].kind = "exec"
                            /\ runtime # NoRuntime /\ calls[c].lease = runtime
BY SessionAssumption DEF Standing, CallsTyped, FileTyped, Orderly, LocalsSound, LeasesSound

LEMMA BeginDoes ==
  ASSUME Standing, NEW c \in Calls, Begin(c)
  PROVE  AsideStep /\ Typed'
<1> DEFINE k == [calls[c] EXCEPT !.at = "snapshot"]
<1>1. calls[c] \in Call /\ LocalSound(calls[c])
  BY CallFacts
<1>2. k \in Call
  BY <1>1, Zenon DEF Call
<1>3. k.at = "snapshot" /\ LocalSound(k)
  BY <1>1 DEF Call, LocalSound, Begin, Decided
<1>4. calls' = [calls EXCEPT ![c] = k]
  BY DEF Begin
<1> HIDE DEF k
<1> QED BY <1>2, <1>3, <1>4, AsideWith DEF Begin, Waiting, Leasing

LEMMA ObserveDoes ==
  ASSUME Standing, NEW c \in Calls, Observe(c)
  PROVE  AsideStep /\ Typed'
<1>1. calls[c] \in Call /\ LocalSound(calls[c])
  BY CallFacts
<1>2. PICK s \in Snapshot :
         calls' = [calls EXCEPT ![c] = [calls[c] EXCEPT !.snap = s, !.at = "queued", !.op = "sync"]]
  BY DEF Observe
<1> DEFINE k == [calls[c] EXCEPT !.snap = s, !.at = "queued", !.op = "sync"]
<1>3. k \in Call
  BY ZenonT(60), <1>1 DEF Call
<1>4. k.at = "queued" /\ LocalSound(k)
  BY <1>1 DEF Call, LocalSound, Observe, Decided
<1>5. calls' = [calls EXCEPT ![c] = k]
  BY <1>2
<1> HIDE DEF k
<1> QED BY <1>3, <1>4, <1>5, AsideWith DEF Observe, Waiting, Leasing

LEMMA StartExecDoes ==
  ASSUME Standing, NEW c \in Calls, StartExec(c)
  PROVE  AsideStep /\ Typed'
<1> DEFINE k == [calls[c] EXCEPT !.kind = "exec", !.at = "queued", !.op = "acquire"]
<1>1. calls[c] \in Call /\ LocalSound(calls[c])
  BY CallFacts
<1>2. k \in Call
  BY ZenonT(60), <1>1 DEF Call
<1>3. k.at = "queued" /\ LocalSound(k)
  BY <1>1 DEF Call, LocalSound, StartExec, Decided
<1>4. calls' = [calls EXCEPT ![c] = k]
  BY DEF StartExec
<1> HIDE DEF k
<1> QED BY <1>2, <1>3, <1>4, AsideWith DEF StartExec, Waiting, Leasing

\* A call that holds no lease and does not wait is answered at once.
LEMMA AnsweredAside ==
  ASSUME Standing, NEW c \in Calls, NEW o \in Outcomes \ {"committed"},
         Respond(c, o, FALSE), calls[c].at \notin Waiting \cup Leasing,
         UNCHANGED <<file, workspace, owned, tail, closer, active>>
  PROVE  AsideStep /\ Typed'
<1>1. setup' = setup /\ CallsTyped /\ setup \in Setups
  BY CallFacts DEF file, Standing
<1>2. /\ CallsTyped' /\ LocalSound(calls'[c]) /\ calls'[c].at \in {"settled", "done"}
      /\ \A d \in Calls \ {c} : Kept(d)
  BY <1>1, RespondEffect
<1>3. c \notin active
  BY CallFacts
<1> QED BY <1>2, <1>3, AsideOf DEF Waiting

LEMMA StartInfoDoes ==
  ASSUME Standing, NEW c \in Calls, StartInfo(c)
  PROVE  AsideStep /\ Typed'
<1> DEFINE k == [calls[c] EXCEPT !.kind = "info", !.at = "queued", !.op = "runtime"]
<1>1. calls[c] \in Call /\ LocalSound(calls[c])
  BY CallFacts
<1>2. k \in Call
  BY ZenonT(60), <1>1 DEF Call
<1>3. k.at = "queued" /\ LocalSound(k)
  BY <1>1 DEF Call, LocalSound, StartInfo, Decided
<1>4. CASE Respond(c, "none", FALSE) /\ UNCHANGED tail
  BY <1>4, AnsweredAside DEF StartInfo, Waiting, Leasing, Outcomes
<1>5. CASE calls' = [calls EXCEPT ![c] = k] /\ tail' = Append(tail, c)
  <2> HIDE DEF k
  <2> QED BY <1>2, <1>3, <1>5, AsideWith DEF StartInfo, Waiting, Leasing
<1> QED BY <1>4, <1>5 DEF StartInfo

\* A switch that may be asked for.
LEMMA AskedSound ==
  ASSUME Standing, NEW a \in setup.switches, NEW r \in setup.roots
  PROVE  Asked(a, r) \in Mutation /\ MutationSound(Asked(a, r))
<1>1. setup \in Setup /\ disk \in [Roots -> Identities]
  BY SessionAssumption DEF Standing, FileTyped
<1>2. a \in {"select", "attach", "detach"} /\ r \in Roots
  BY <1>1 DEF Setup
<1>3. disk[r] \in Identities /\ 0 \in Identities
  BY <1>1, <1>2, SessionAssumption DEF Identities
<1> QED BY <1>2, <1>3 DEF Asked, Mutation, MutationSound

\* A call with its switch is of its type.
LEMMA SwitchTyped ==
  ASSUME NEW q \in Call, NEW m \in Mutation
  PROVE  /\ [q EXCEPT !.kind = "workspace", !.mutation = m, !.op = "mutate", !.at = "queued"] \in Call
         /\ [q EXCEPT !.kind = "workspace", !.mutation = m, !.op = "runtime", !.at = "queued"] \in Call
         /\ [q EXCEPT !.kind = "workspace", !.mutation = m, !.op = "none", !.at = "prompting"] \in Call
<1>1. [q EXCEPT !.kind = "workspace", !.mutation = m, !.op = "mutate", !.at = "queued"] \in Call
  BY ZenonT(60) DEF Call
<1>2. [q EXCEPT !.kind = "workspace", !.mutation = m, !.op = "runtime", !.at = "queued"] \in Call
  BY ZenonT(60) DEF Call
<1>3. [q EXCEPT !.kind = "workspace", !.mutation = m, !.op = "none", !.at = "prompting"] \in Call
  BY ZenonT(60) DEF Call
<1> QED BY <1>1, <1>2, <1>3

LEMMA StartWorkspaceDoes ==
  ASSUME Standing, NEW c \in Calls, StartWorkspace(c)
  PROVE  AsideStep /\ Typed'
<1>1. calls[c] \in Call /\ LocalSound(calls[c])
  BY CallFacts
<1>2. PICK a \in setup.switches, r \in setup.roots :
        LET m    == Asked(a, r)
            next == IF a # "attach" THEN "mutate"
                    ELSE IF runtime = NoRuntime THEN "runtime" ELSE "none"
        IN  \/ /\ calls' = [calls EXCEPT ![c] = [calls[c] EXCEPT !.kind = "workspace",
                      !.mutation = m, !.op = next,
                      !.at = IF next = "none" THEN "prompting" ELSE "queued"]]
               /\ tail' = IF next = "none" THEN tail ELSE Append(tail, c)
            \/ /\ Respond(c, IF calls[c].aborted THEN "cancelled" ELSE "failed", FALSE)
               /\ UNCHANGED tail
  BY DEF StartWorkspace
<1>3. PICK m : m = Asked(a, r)
  OBVIOUS
<1>4. m \in Mutation /\ MutationSound(m)
  BY <1>3, AskedSound
<1>5. PICK next \in {"none", "sync", "runtime", "acquire", "mutate", "deferred"} :
         next = IF a # "attach" THEN "mutate"
                ELSE IF runtime = NoRuntime THEN "runtime" ELSE "none"
  OBVIOUS
<1>6. PICK at \in {"prompting", "queued"} :
         /\ at = IF next = "none" THEN "prompting" ELSE "queued"
  OBVIOUS
<1> DEFINE k == [calls[c] EXCEPT !.kind = "workspace", !.mutation = m, !.op = next, !.at = at]
<1>7. k \in Call
  <2>1. \A q \in Call :
           /\ [q EXCEPT !.kind = "workspace", !.mutation = m, !.op = "mutate", !.at = "queued"] \in Call
           /\ [q EXCEPT !.kind = "workspace", !.mutation = m, !.op = "runtime", !.at = "queued"] \in Call
           /\ [q EXCEPT !.kind = "workspace", !.mutation = m, !.op = "none", !.at = "prompting"] \in Call
    BY <1>4, SwitchTyped
  <2> QED BY ZenonT(60), <1>1, <1>5, <1>6, <2>1
<1>8. k.at = at /\ LocalSound(k)
  BY <1>1, <1>4, <1>5, <1>6 DEF Call, LocalSound, StartWorkspace, Decided
<1>9. CASE Respond(c, IF calls[c].aborted THEN "cancelled" ELSE "failed", FALSE)
           /\ UNCHANGED tail
  <2>1. PICK o \in {"cancelled", "failed"} :
           o = IF calls[c].aborted THEN "cancelled" ELSE "failed"
    OBVIOUS
  <2>2. Respond(c, o, FALSE)
    BY <1>9, <2>1
  <2> QED BY <1>9, <2>2, AnsweredAside DEF StartWorkspace, Waiting, Leasing, Outcomes
<1>10. CASE /\ calls' = [calls EXCEPT ![c] = k]
            /\ tail' = tail \/ tail' = Append(tail, c)
  <2> HIDE DEF k
  <2> QED BY <1>7, <1>8, <1>10, AsideWith DEF StartWorkspace, Waiting, Leasing
<1> QED BY <1>2, <1>3, <1>5, <1>6, <1>9, <1>10

LEMMA PromptedDoes ==
  ASSUME Standing, NEW c \in Calls, Prompted(c)
  PROVE  AsideStep /\ Typed'
<1> DEFINE k == [calls[c] EXCEPT !.at = "queued", !.op = "mutate"]
<1>1. calls[c] \in Call /\ LocalSound(calls[c])
  BY CallFacts
<1>2. k \in Call
  BY ZenonT(60), <1>1 DEF Call
<1>3. k.at = "queued" /\ LocalSound(k)
  BY <1>1 DEF Call, LocalSound, Prompted, Decided
<1>4. CASE Respond(c, Failure(c), FALSE) /\ UNCHANGED tail
  <2>1. Failure(c) \in Outcomes \ {"committed"}
    BY DEF Failure, Outcomes
  <2> QED BY <1>4, <2>1, AnsweredAside DEF Prompted, Waiting, Leasing
<1>5. CASE calls' = [calls EXCEPT ![c] = k] /\ tail' = Append(tail, c)
  <2> HIDE DEF k
  <2> QED BY <1>2, <1>3, <1>5, AsideWith DEF Prompted, Waiting, Leasing
<1> QED BY <1>4, <1>5 DEF Prompted

LEMMA PrepareDoes ==
  ASSUME Standing, NEW c \in Calls, Prepare(c)
  PROVE  AsideStep /\ Typed'
<1>1. calls[c] \in Call /\ LocalSound(calls[c]) /\ setup' = setup /\ CallsTyped
  BY CallFacts DEF Prepare, file, Standing
<1>2. PICK a \in setup.switches, r \in setup.roots :
         calls' = [calls EXCEPT ![c] = [calls[c] EXCEPT !.switched = TRUE,
                     !.mutation = IF a = "attach" THEN NoMutation ELSE Asked(a, r),
                     !.prompt = IF a = "attach" THEN Asked(a, r) ELSE NoMutation]]
  BY DEF Prepare
<1>3. NoMutation \in Mutation /\ MutationSound(NoMutation)
  BY SessionAssumption DEF NoMutation, Mutation, MutationSound, Identities
<1>4. PICK m \in Mutation : /\ m = IF a = "attach" THEN NoMutation ELSE Asked(a, r)
                            /\ MutationSound(m)
  BY <1>3, AskedSound
<1>5. PICK p \in Mutation : /\ p = IF a = "attach" THEN Asked(a, r) ELSE NoMutation
                            /\ MutationSound(p)
  BY <1>3, AskedSound
<1> DEFINE k == [calls[c] EXCEPT !.switched = TRUE, !.mutation = m, !.prompt = p]
<1>6. k \in Call
  BY <1>1, Zenon DEF Call
<1>7. /\ k.at = "running" /\ k.kind = calls[c].kind /\ k.lease = calls[c].lease
      /\ k.aborted = calls[c].aborted /\ LocalSound(k)
  BY <1>1, <1>4, <1>5 DEF Call, LocalSound, Prepare, Decided
<1>8. calls' = [calls EXCEPT ![c] = k]
  BY <1>2, <1>4, <1>5
<1> HIDE DEF k
<1>9. CallsTyped' /\ calls'[c] = k /\ \A d \in Calls \ {c} : Kept(d)
  BY <1>1, <1>6, <1>8, Replaced
<1> QED BY <1>7, <1>9, AsideOf DEF Prepare, Waiting, Leasing

LEMMA AnswerDoes ==
  ASSUME Standing, NEW c \in Calls, Answer(c)
  PROVE  AsideStep /\ Typed'
<1>1. calls[c] \in Call /\ LocalSound(calls[c]) /\ setup' = setup /\ CallsTyped
  BY CallFacts DEF Answer, file, Standing
<1>2. NoMutation \in Mutation /\ MutationSound(NoMutation)
  BY SessionAssumption DEF NoMutation, Mutation, MutationSound, Identities
<1>3. calls[c].prompt \in Mutation /\ calls[c].mutation \in Mutation
  BY <1>1 DEF Call
<1>4. PICK m \in Mutation :
         /\ m \in {calls[c].prompt, calls[c].mutation}
         /\ calls' = [calls EXCEPT ![c] = [calls[c] EXCEPT !.prompt = NoMutation, !.mutation = m]]
  <2>1. [calls[c] EXCEPT !.prompt = NoMutation]
          = [calls[c] EXCEPT !.prompt = NoMutation, !.mutation = calls[c].mutation]
    BY <1>1 DEF Call
  <2>2. CASE calls' = [calls EXCEPT ![c] = [calls[c] EXCEPT !.prompt = NoMutation]]
    BY <1>3, <2>1, <2>2
  <2>3. CASE calls' = [calls EXCEPT ![c] = [calls[c] EXCEPT !.prompt = NoMutation,
                                                       !.mutation = calls[c].prompt]]
    BY <1>3, <2>3
  <2> QED BY <2>2, <2>3 DEF Answer
<1> DEFINE k == [calls[c] EXCEPT !.prompt = NoMutation, !.mutation = m]
<1>5. k \in Call
  BY <1>1, <1>2, Zenon DEF Call
<1>6. /\ k.at = "running" /\ k.kind = calls[c].kind /\ k.lease = calls[c].lease
      /\ k.aborted = calls[c].aborted /\ LocalSound(k)
  BY <1>1, <1>2, <1>4 DEF Call, LocalSound, Answer, Decided
<1>7. calls' = [calls EXCEPT ![c] = k]
  BY <1>4
<1> HIDE DEF k
<1>8. CallsTyped' /\ calls'[c] = k /\ \A d \in Calls \ {c} : Kept(d)
  BY <1>1, <1>5, <1>7, Replaced
<1> QED BY <1>6, <1>8, AsideOf DEF Answer, Waiting, Leasing

LEMMA EndDoes ==
  ASSUME Standing, NEW c \in Calls, End(c)
  PROVE  AsideStep /\ Typed'
<1>1. calls[c] \in Call /\ LocalSound(calls[c]) /\ setup' = setup /\ CallsTyped
  BY CallFacts DEF End, file, Standing
<1>2. NoMutation \in Mutation /\ MutationSound(NoMutation)
  BY SessionAssumption DEF NoMutation, Mutation, MutationSound, Identities
<1>3. CASE Defer(c)
  <2> DEFINE k == [calls[c] EXCEPT !.at = "queued", !.op = "deferred", !.lease = 0,
                                   !.prompt = NoMutation]
  <2>1. k \in Call
    BY ZenonT(60), <1>1, <1>2 DEF Call
  <2>2. k.at = "queued" /\ LocalSound(k)
    BY <1>1, <1>2 DEF Call, LocalSound, End, Decided
  <2>3. calls' = [calls EXCEPT ![c] = k] /\ active' = active \ {c} /\ tail' = Append(tail, c)
    BY <1>3 DEF Defer
  <2> HIDE DEF k
  <2>4. CallsTyped' /\ calls'[c] = k /\ \A d \in Calls \ {c} : Kept(d)
    BY <1>1, <2>1, <2>3, Replaced
  <2> QED BY <2>2, <2>3, <2>4, AsideOf DEF End, Waiting, Leasing
<1>4. CASE /\ calls' = [calls EXCEPT ![c] = [calls[c] EXCEPT !.at = "settled",
                 !.prompt = NoMutation, !.mutation = NoMutation,
                 !.outcome = IF calls[c].mutation = NoMutation
                             THEN "none" ELSE "not-committed"]]
           /\ UNCHANGED <<tail, active>>
  <2>1. PICK o \in {"none", "not-committed"} :
           o = IF calls[c].mutation = NoMutation THEN "none" ELSE "not-committed"
    OBVIOUS
  <2> DEFINE k == [calls[c] EXCEPT !.at = "settled", !.prompt = NoMutation,
                                   !.mutation = NoMutation, !.outcome = o]
  <2>2. k \in Call
    BY ZenonT(60), <1>1, <1>2 DEF Call
  <2>3. /\ k.at = "settled" /\ k.kind = calls[c].kind /\ k.lease = calls[c].lease
        /\ k.aborted = calls[c].aborted /\ LocalSound(k)
    BY <1>1, <1>2 DEF Call, LocalSound, End, Decided
  <2>4. calls' = [calls EXCEPT ![c] = k]
    BY <1>4, <2>1
  <2> HIDE DEF k
  <2>5. CallsTyped' /\ calls'[c] = k /\ \A d \in Calls \ {c} : Kept(d)
    BY <1>1, <2>2, <2>4, Replaced
  <2> QED BY <1>4, <2>3, <2>5, AsideOf DEF End, Waiting, Leasing
<1> QED BY <1>3, <1>4 DEF End

LEMMA ProjectDoes ==
  ASSUME Standing, NEW c \in Calls, Project(c)
  PROVE  AsideStep /\ Typed'
<1>1. calls[c] \in Call /\ LocalSound(calls[c]) /\ setup' = setup /\ CallsTyped
  BY CallFacts DEF Project, file, Standing
<1>2. PICK h \in BOOLEAN :
         calls' = [calls EXCEPT ![c] = [calls[c] EXCEPT !.at = "returning", !.handle = h]]
  <2>1. [calls[c] EXCEPT !.at = "returning"]
          = [calls[c] EXCEPT !.at = "returning", !.handle = calls[c].handle]
    BY <1>1 DEF Call
  <2>2. calls[c].handle \in BOOLEAN
    BY <1>1, Zenon DEF Call
  <2>3. CASE calls' = [calls EXCEPT ![c] = [calls[c] EXCEPT !.at = "returning"]]
    BY <2>1, <2>2, <2>3, Zenon
  <2>4. CASE calls' = [calls EXCEPT ![c] = [calls[c] EXCEPT !.at = "returning", !.handle = TRUE]]
    BY <2>4, Zenon
  <2> QED BY <2>3, <2>4 DEF Project
<1> DEFINE k == [calls[c] EXCEPT !.at = "returning", !.handle = h]
<1>3. k \in Call
  BY <1>1, Zenon DEF Call
<1>4. /\ k.at = "returning" /\ k.kind = calls[c].kind /\ k.lease = calls[c].lease
      /\ k.aborted = calls[c].aborted /\ LocalSound(k)
  BY <1>1 DEF Call, LocalSound, Project, Decided
<1>5. calls' = [calls EXCEPT ![c] = k]
  BY <1>2
<1> HIDE DEF k
<1>6. CallsTyped' /\ calls'[c] = k /\ \A d \in Calls \ {c} : Kept(d)
  BY <1>1, <1>3, <1>5, Replaced
<1> QED BY <1>4, <1>6, AsideOf DEF Project, Waiting, Leasing

\* What a call returns is of its type.
LEMMA OutcomeTyped ==
  ASSUME NEW g \in Call, NEW o \in Outcomes
  PROVE  [g EXCEPT !.at = "done", !.outcome = o] \in Call
<1>1. o \in {"none", "not-committed", "committed", "failed", "cancelled", "uncertain"}
  BY DEF Outcomes
<1> QED BY ZenonT(60), <1>1 DEF Call
LEMMA ReturnTyped ==
  ASSUME NEW f \in Call, NEW h \in BOOLEAN, NEW b \in BOOLEAN, NEW o \in Outcomes
  PROVE  [f EXCEPT !.at = "done", !.outcome = o, !.applied = b, !.handle = h] \in Call
<1>1. ASSUME NEW g \in Call PROVE [g EXCEPT !.applied = b, !.handle = h] \in Call
  BY <1>1, Zenon DEF Call
<1> QED BY <1>1, OutcomeTyped

LEMMA ReturnDoes ==
  ASSUME Standing, NEW c \in Calls, Return(c)
  PROVE  AsideStep /\ Typed'
<1>1. /\ calls[c] \in Call /\ LocalSound(calls[c]) /\ setup' = setup /\ CallsTyped
      /\ setup \in Setups
  BY CallFacts DEF Return, file, Standing
<1>2. (calls[c].handle /\ Available) \in BOOLEAN
  BY Zenon
<1>3. PICK h \in BOOLEAN : h = (calls[c].handle /\ Available)
  BY <1>2, Zenon
<1> DEFINE f == FreshCall
           k == [f EXCEPT !.at = "done", !.outcome = calls[c].outcome,
                          !.applied = calls[c].applied, !.handle = h]
<1>4. k.at = "done" /\ LocalSound(k)
  BY <1>1 DEF FreshCall, LocalSound, MutationSound, NoMutation, Decided
<1>5. calls' = [calls EXCEPT ![c] = k] /\ active' = active \ {c}
  BY <1>3 DEF Return
<1>6. f \in Call
  BY <1>1, FreshTyped
<1> HIDE DEF f
<1>7. k \in Call
  <2>1. /\ calls[c].outcome \in {"none", "not-committed", "committed", "failed", "cancelled",
                                 "uncertain"}
        /\ calls[c].applied \in BOOLEAN
    BY <1>1, Zenon DEF Call
  <2> QED BY <1>6, <2>1, ReturnTyped DEF Outcomes
<1> HIDE DEF k
<1>8. CallsTyped' /\ calls'[c] = k /\ \A d \in Calls \ {c} : Kept(d)
  BY <1>1, <1>5, <1>7, Replaced
<1> QED BY <1>4, <1>5, <1>8, AsideOf DEF Return, Waiting, Leasing

\* An abort, of one call or of all that hold a lease, changes nothing else.
LEMMA AbortedAside ==
  ASSUME Standing, CallsTyped', \A d \in Calls : Kept(d),
         UNCHANGED <<setup, workspace, owned, active>>, FileTyped',
         tail' = tail \/ \E e \in Calls \cup {Session} : tail' = Append(tail, e),
         closer' = closer \/ (closer = "open" /\ closer' = "queued")
  PROVE  AsideStep /\ Typed'
<1>1. AsideStep
  BY DEF AsideStep, workspace, owned
<1>2. WorkspaceTyped' /\ OwnedTyped'
  BY DEF Standing, WorkspaceTyped, OwnedTyped, workspace, owned, Published, Runtime, Workspace
<1> QED BY <1>1, <1>2 DEF Typed

LEMMA AbortDoes ==
  ASSUME Standing, NEW c \in Calls, Abort(c)
  PROVE  AsideStep /\ Typed'
<1> DEFINE k == [calls[c] EXCEPT !.aborted = TRUE]
<1>1. calls[c] \in Call /\ setup' = setup /\ CallsTyped /\ UNCHANGED file
  BY CallFacts DEF Abort, file, Standing
<1>2. k \in Call
  BY <1>1, Zenon DEF Call
<1>3. calls' = [calls EXCEPT ![c] = k]
  BY DEF Abort
<1>4. CallsTyped' /\ calls'[c] = k /\ \A d \in Calls \ {c} : Kept(d)
  BY <1>1, <1>2, <1>3, Replaced
<1>5. Kept(c)
  BY <1>1, <1>4 DEF Kept, Call
<1>6. FileTyped'
  BY <1>1 DEF Standing, FileTyped, file
<1> QED BY <1>1, <1>4, <1>5, <1>6, AbortedAside DEF Abort

LEMMA CloseDoes ==
  ASSUME Standing, Close
  PROVE  AsideStep /\ Typed'
<1>1. UNCHANGED file /\ setup' = setup
  BY DEF Close, file
<1>2. ASSUME NEW d \in Calls
      PROVE  Kept(d) /\ calls'[d] \in Call
  <2>1. calls[d] \in Call
    BY CallFacts
  <2>2. (calls[d].aborted \/ d \in active) \in BOOLEAN
    BY Zenon
  <2>3. PICK b \in BOOLEAN : b = (calls[d].aborted \/ d \in active)
    BY <2>2, Zenon
  <2>4. calls'[d] = [calls[d] EXCEPT !.aborted = b]
    BY <2>3 DEF Close
  <2>5. [calls[d] EXCEPT !.aborted = b] \in Call
    BY <2>1, Zenon DEF Call
  <2>6. calls[d].aborted => b
    BY <2>3
  <2> QED BY <2>1, <2>4, <2>5, <2>6 DEF Kept, Call
<1>3. Call' = Call
  BY <1>1 DEF Call, Snapshot
<1>4. CallsTyped'
  BY <1>2, <1>3 DEF Close, CallsTyped
<1>5. FileTyped'
  BY <1>1 DEF Standing, FileTyped, file
<1> QED BY <1>1, <1>2, <1>4, <1>5, AbortedAside DEF Close

LEMMA ChangeDoes ==
  ASSUME Standing, NEW r \in setup.roots, Change(r)
  PROVE  AsideStep /\ Typed'
<1>1. setup' = setup /\ calls' = calls
  BY DEF Change
<1>2. CallsTyped'
  <2>1. Call' = Call
    BY <1>1 DEF Call, Snapshot
  <2> QED BY <1>1, <2>1 DEF CallsTyped, Standing
<1>3. \A d \in Calls : Kept(d)
  BY <1>1 DEF Kept
<1>4. FileTyped'
  <2>1. disk' \in [Roots -> Identities]
    BY DEF Standing, FileTyped, Change
  <2>2. changes' \in 0 .. MaxChanges
    BY SessionAssumption DEF Standing, FileTyped, Change
  <2> QED BY <1>1, <2>1, <2>2 DEF Standing, FileTyped
<1> QED BY <1>1, <1>2, <1>3, <1>4, AbortedAside DEF Change, owned, workspace

-----------------------------------------------------------------------------
(* The actions at the head of the chain.                                    *)

LEMMA AdoptTyped ==
  ASSUME Standing, NEW s \in Snapshot, Adopt(s)
  PROVE  WorkspaceTyped'
<1>1. setup \in Setup /\ disk \in [Roots -> Identities] /\ WorkspaceTyped
  BY SessionAssumption DEF Standing, FileTyped
<1>2. (advertised \/ (s.listed /\ s.roots # {})) \in BOOLEAN
  BY Zenon
<1>3. advertised' \in BOOLEAN
  BY <1>2, Zenon DEF Adopt
<1>4. (~s.listed) \in BOOLEAN
  BY Zenon
<1>5. blocked' \in BOOLEAN
  BY <1>4, Zenon DEF Adopt
<1>6. CASE UNCHANGED <<candidates, binding, autobind>>
  BY <1>1, <1>3, <1>5, <1>6 DEF WorkspaceTyped
<1>7. ASSUME NEW roots, roots \subseteq Roots, updateClientRoots(roots)
      PROVE  WorkspaceTyped'
  <2> DEFINE found == {r \in roots : disk[r] # 0}
             drop == binding.source = "client-roots"
                     /\ ~(binding.root \in roots /\ disk[binding.root] \in {0, binding.id})
             auto == autobind /\ ~drop /\ Cardinality(found) <= 1
             bind == auto /\ binding = Unbound /\ found # {}
  <2>1. /\ candidates' = [r \in found |-> disk[r]]
        /\ autobind' = (auto /\ ~bind)
        /\ \/ bind /\ \E r \in found : binding' = [root |-> r, id |-> disk[r],
                                                   source |-> "client-roots"]
           \/ ~bind /\ binding' = IF drop THEN Unbound ELSE binding
    BY <1>7 DEF updateClientRoots
  <2>2. /\ DOMAIN candidates' \subseteq Roots
        /\ \A r \in DOMAIN candidates' : candidates'[r] \in Identities \ {0}
    BY <1>1, <1>7, <2>1
  <2>3. Unbound \in Binding
    BY SessionAssumption DEF Unbound, Binding, Identities
  <2>4. binding' \in Binding /\ (binding' = Unbound \/ binding'.id # 0)
    <3>1. CASE \E r \in found : binding' = [root |-> r, id |-> disk[r],
                                            source |-> "client-roots"]
      <4>1. PICK r \in found : binding' = [root |-> r, id |-> disk[r], source |-> "client-roots"]
        BY <3>1
      <4>2. r \in Roots /\ disk[r] \in Identities /\ disk[r] # 0
        BY <1>1, <1>7
      <4> QED BY <4>1, <4>2 DEF Binding
    <3>2. CASE binding' = Unbound \/ binding' = binding
      BY <3>2, <2>3, <1>1 DEF WorkspaceTyped
    <3> QED BY <2>1, <3>1, <3>2
  <2>5. autobind' \in BOOLEAN
    <3>1. (auto /\ ~bind) \in BOOLEAN
      BY Zenon
    <3> QED BY <2>1, <3>1, Zenon
  <2> QED BY <1>3, <1>5, <2>2, <2>4, <2>5 DEF WorkspaceTyped
<1>8. s.roots \subseteq Roots /\ (setup.launch # NoRoot => {setup.launch} \subseteq Roots)
  BY <1>1 DEF Snapshot, Setup
<1> QED BY <1>6, <1>7, <1>8 DEF Adopt

\* A commit answers its call, with the binding it was prepared for or without.
LEMMA CommitEffect ==
  ASSUME Standing, NEW c \in Calls, setup' = setup, Commit(c)
  PROVE  /\ WorkspaceTyped' /\ CallsTyped' /\ tail' = Tail(tail)
         /\ \A d \in Calls \ {c} : Kept(d)
         /\ calls'[c].at \in {"settled", "done"} /\ LocalSound(calls'[c])
<1> DEFINE m == calls[c].mutation
<1>1. CallsTyped /\ setup \in Setups /\ calls[c] \in Call /\ m \in Mutation
  BY CallFacts DEF Standing, Call
<1>2. /\ WorkspaceTyped /\ tail' = Tail(tail)
      /\ UNCHANGED <<candidates, advertised, blocked>>
  BY DEF Commit, Standing
<1>3. CASE Valid(m) /\ binding' = Switched(m) /\ autobind' = FALSE
           /\ Respond(c, "committed", TRUE)
  <2>1. /\ CallsTyped' /\ calls'[c].at \in {"settled", "done"} /\ LocalSound(calls'[c])
        /\ \A d \in Calls \ {c} : Kept(d)
    BY <1>1, <1>3, RespondEffect DEF Outcomes
  <2>2. m.root \in Roots \cup {NoRoot} /\ m.id \in Identities
    BY <1>1 DEF Mutation
  <2>3. Listed(m.root) \in Identities
    BY <1>2, SessionAssumption DEF Listed, WorkspaceTyped, Identities
  <2>4. binding' \in Binding /\ (binding' = Unbound \/ binding'.id # 0)
    <3>1. CASE m.action = "detach"
      <4>1. Unbound \in Binding
        BY SessionAssumption DEF Unbound, Binding, Identities
      <4> QED BY <1>3, <3>1, <4>1 DEF Switched
    <3>2. CASE m.action = "select"
      BY <1>3, <2>2, <2>3, <3>2 DEF Valid, Switched, Binding, Same
    <3>3. CASE m.action = "attach"
      BY <1>3, <2>2, <3>3 DEF Valid, Switched, Binding, Same
    <3> QED BY <1>3, <3>1, <3>2, <3>3 DEF Valid
  <2>5. WorkspaceTyped'
    BY <1>2, <1>3, <2>4 DEF WorkspaceTyped
  <2> QED BY <1>2, <2>1, <2>5
<1>4. CASE Respond(c, "uncertain", FALSE) /\ UNCHANGED <<binding, autobind>>
  <2>1. /\ CallsTyped' /\ calls'[c].at \in {"settled", "done"} /\ LocalSound(calls'[c])
        /\ \A d \in Calls \ {c} : Kept(d)
    BY <1>1, <1>4, RespondEffect DEF Outcomes
  <2>2. WorkspaceTyped'
    BY <1>2, <1>4 DEF WorkspaceTyped
  <2> QED BY <1>2, <2>1, <2>2
<1> QED BY <1>3, <1>4 DEF Commit

\* A call at the head that waits for nothing, or no longer.
AtHead(c) ==
    /\ tail # <<>> /\ Head(tail) = c
    /\ \/ calls[c].at = "queued"
       \/ calls[c].at \in Waiting /\ runtimes[calls[c].wait].status \in {"closed", "failed"}

\* An operation that fails leaves the chain.
LEMMA FailsHead ==
  ASSUME Standing, NEW c \in Calls, AtHead(c), Fail(c),
         UNCHANGED <<file, workspace, owned, active, closer>>
  PROVE  LeaveStep(c) /\ Typed'
<1>1. CallsTyped /\ setup \in Setups /\ setup' = setup
  BY CallFacts DEF Standing, file
<1>2. /\ CallsTyped' /\ tail' = Tail(tail) /\ \A d \in Calls \ {c} : Kept(d)
      /\ calls'[c].at \in {"settled", "done"} /\ LocalSound(calls'[c])
  BY <1>1, FailEffect
<1>3. LeaveStep(c)
  BY <1>1, <1>2 DEF LeaveStep, HeadMoves, AtHead, owned, Waiting
<1>4. FileTyped' /\ WorkspaceTyped' /\ OwnedTyped'
  BY DEF Standing, FileTyped, WorkspaceTyped, OwnedTyped, file, workspace, owned,
         Published, Runtime, Workspace
<1> QED BY <1>2, <1>3, <1>4 DEF Typed

\* So does one that commits.
LEMMA CommitsHead ==
  ASSUME Standing, NEW c \in Calls, AtHead(c), Commit(c),
         UNCHANGED <<file, owned, active, closer>>
  PROVE  LeaveStep(c) /\ Typed'
<1>1. setup' = setup
  BY DEF file
<1>2. /\ CallsTyped' /\ tail' = Tail(tail) /\ \A d \in Calls \ {c} : Kept(d)
      /\ calls'[c].at \in {"settled", "done"} /\ LocalSound(calls'[c]) /\ WorkspaceTyped'
  BY <1>1, CommitEffect
<1>3. LeaveStep(c)
  BY <1>1, <1>2 DEF LeaveStep, HeadMoves, AtHead, owned, Waiting
<1>4. FileTyped' /\ OwnedTyped'
  BY DEF Standing, FileTyped, OwnedTyped, file, owned, Published, Runtime, Workspace
<1> QED BY <1>2, <1>3, <1>4 DEF Typed

\* And one that goes on elsewhere.
LEMMA LeavesHead ==
  ASSUME Standing, NEW c \in Calls, AtHead(c), NEW a \in {"synced", "prompting"},
         a = "prompting" => calls[c].kind = "workspace", Leave(c, a),
         WorkspaceTyped', UNCHANGED <<file, owned, active, closer>>
  PROVE  LeaveStep(c) /\ Typed'
<1>1. CallsTyped /\ setup \in Setups /\ setup' = setup /\ LocalSound(calls[c])
  BY CallFacts DEF Standing, file
<1>2. /\ CallsTyped' /\ tail' = Tail(tail) /\ \A d \in Calls \ {c} : Kept(d)
      /\ calls'[c].at = a /\ LocalSound(calls'[c])
  BY <1>1, LeaveEffect
<1>3. LeaveStep(c)
  BY <1>1, <1>2 DEF LeaveStep, HeadMoves, AtHead, owned, Waiting
<1>4. FileTyped' /\ OwnedTyped'
  BY DEF Standing, FileTyped, OwnedTyped, file, owned, Published, Runtime, Workspace
<1> QED BY <1>2, <1>3, <1>4 DEF Typed

\* At its turn, the runtime is open unless its cleanup has failed.
LEMMA OpenAtTurn ==
  ASSUME Standing, NEW c \in Calls, Turn(c), ~failed, runtime # NoRuntime
  PROVE  runtime \in Runtimes /\ runtimes[runtime].status = "open"
<1>1. runtime \in Runtimes
  BY DEF Standing, OwnedTyped
<1>2. /\ \A d \in Calls : calls[d].at \notin Waiting
      /\ closer # "draining"
  BY HeadAlone DEF Standing, Orderly, Turn, Waiting
<1> QED BY <1>1, <1>2 DEF Standing, Orderly, RuntimesSound, Waiting

\* An operation at its turn begins to close the published runtime.
LEMMA DisposesHead ==
  ASSUME Standing, NEW c \in Calls, Turn(c), Available, runtime # NoRuntime,
         NEW a \in {"draining", "discarding"}, NEW l \in [Calls -> Call],
         \A d \in Calls \ {c} : l[d] = calls[d],
         LocalSound(l[c]), l[c].at = "queued", Dispose(l, c, runtime, a),
         a = "discarding" => l[c].op \in {"runtime", "acquire"},
         a = "draining" /\ l[c].op \in {"runtime", "acquire"} =>
            Meant(l[c]) /\ UNCHANGED binding,
         UNCHANGED <<file, runtime, identity, failed, active, closer, tail>>
  PROVE  DisposeStep(c, runtime) /\ FileTyped' /\ OwnedTyped' /\ CallsTyped'
<1>1. /\ runtime \in Runtimes /\ runtimes[runtime].status = "open"
  BY OpenAtTurn DEF Available
<1>2. CallsTyped /\ OwnedTyped /\ active \subseteq Calls /\ setup' = setup
  BY DEF Standing, ChainTyped, file
<1>3. /\ CallsTyped' /\ runtimes' \in [Runtimes -> Runtime]
      /\ \A d \in Calls \ {c} : Kept(d)
      /\ calls'[c].at = a /\ calls'[c].wait = runtime
      /\ calls'[c].op = l[c].op /\ calls'[c].kind = l[c].kind
      /\ calls'[c].target = l[c].target /\ calls'[c].grant = l[c].grant
      /\ calls'[c].mutation = l[c].mutation /\ calls'[c].prompt = l[c].prompt
      /\ calls'[c].outcome = l[c].outcome /\ calls'[c].applied = l[c].applied
      /\ \A d \in active : calls[d].lease = runtime => calls'[d].aborted
      /\ \A q \in Runtimes \ {runtime} : runtimes'[q] = runtimes[q]
      /\ runtimes'[runtime].status = "draining"
      /\ runtimes'[runtime].workspace = runtimes[runtime].workspace
      /\ runtimes'[runtime].leases = {d \in active : calls[d].lease = runtime}
  BY <1>1, <1>2, DisposeEffect
<1>4. LocalSound(calls'[c])
  BY <1>3 DEF LocalSound, Decided
<1>5. c \notin active
  BY CallFacts DEF Turn, Leasing
<1>6. calls'[c].op \in {"runtime", "acquire"} /\ a = "draining" => Meant(calls'[c])
  BY <1>3 DEF Meant
<1>7. DisposeStep(c, runtime)
  BY <1>1, <1>2, <1>3, <1>4, <1>5, <1>6 DEF DisposeStep, Turn, Available, Retiring
<1>8. FileTyped' /\ OwnedTyped'
  BY <1>3 DEF Standing, FileTyped, OwnedTyped, file, Published
<1> QED BY <1>3, <1>7, <1>8

\* What the head of the chain does to the calls and the runtimes.
HeadStep(c) ==
    \/ LeaveStep(c)
    \/ \E r \in Runtimes : MadeStep(c, r) \/ DisposeStep(c, r) \/ MakeStep(c, r)

LEMMA SyncDoes ==
  ASSUME Standing, NEW c \in Calls, Sync(c)
  PROVE  HeadStep(c) /\ Typed'
<1>1. Running(c, "sync") /\ Available /\ Turn(c) /\ UNCHANGED file
  BY DEF Sync, Running
<1>2. calls[c] \in Call /\ LocalSound(calls[c]) /\ calls \in [Calls -> Call]
  BY CallFacts DEF Standing, CallsTyped
<1>3. WorkspaceTyped'
  <2>1. calls[c].snap \in Snapshot
    BY <1>2 DEF Call
  <2> QED BY <2>1, AdoptTyped DEF Sync
<1>4. CASE Dispose(calls, c, runtime, "draining") /\ runtime # NoRuntime /\ UNCHANGED tail
  <2>1. DisposeStep(c, runtime) /\ FileTyped' /\ OwnedTyped' /\ CallsTyped'
    BY <1>1, <1>2, <1>4, DisposesHead DEF Sync, Running, Turn
  <2>2. runtime \in Runtimes
    BY <1>4 DEF Standing, OwnedTyped
  <2> QED BY <1>3, <2>1, <2>2 DEF Typed, HeadStep
<1>5. CASE Leave(c, "synced") /\ UNCHANGED runtimes
  <2>1. AtHead(c)
    BY <1>1 DEF AtHead, Turn
  <2>2. LeaveStep(c) /\ Typed'
    BY <1>1, <1>3, <1>5, <2>1, LeavesHead DEF Sync, owned
  <2> QED BY <2>2 DEF HeadStep
<1> QED BY <1>4, <1>5 DEF Sync

LEMMA RefusedDoes ==
  ASSUME Standing, NEW c \in Calls, Refused(c)
  PROVE  HeadStep(c) /\ Typed'
BY FailsHead DEF Refused, AtHead, Turn, HeadStep

LEMMA DiscardedDoes ==
  ASSUME Standing, NEW c \in Calls, Discarded(c)
  PROVE  HeadStep(c) /\ Typed'
BY FailsHead DEF Discarded, AtHead, HeadStep, Standing, Orderly, HeadWaits, Waiting

LEMMA MutateDoes ==
  ASSUME Standing, NEW c \in Calls, Mutate(c)
  PROVE  HeadStep(c) /\ Typed'
<1>1. Turn(c) /\ Available /\ calls[c].op = "mutate" /\ AtHead(c)
  BY DEF Mutate, Running, Turn, AtHead
<1>2. CASE Commit(c) /\ UNCHANGED runtimes
  BY <1>1, <1>2, CommitsHead DEF Mutate, owned, HeadStep
<1>3. CASE runtime # NoRuntime /\ Dispose(calls, c, runtime, "draining")
           /\ UNCHANGED <<workspace, tail>>
  <2>1. LocalSound(calls[c]) /\ calls \in [Calls -> Call]
    BY CallFacts DEF Standing, CallsTyped
  <2>2. DisposeStep(c, runtime) /\ FileTyped' /\ OwnedTyped' /\ CallsTyped'
    BY <1>1, <1>3, <2>1, DisposesHead DEF Mutate, Turn
  <2>3. runtime \in Runtimes
    BY <1>3 DEF Standing, OwnedTyped
  <2>4. WorkspaceTyped'
    BY <1>3 DEF Standing, WorkspaceTyped, workspace
  <2> QED BY <2>2, <2>3, <2>4 DEF Typed, HeadStep
<1> QED BY <1>2, <1>3 DEF Mutate

LEMMA DeferredDoes ==
  ASSUME Standing, NEW c \in Calls, Deferred(c)
  PROVE  HeadStep(c) /\ Typed'
<1>1. Turn(c) /\ Available /\ calls[c].op = "deferred" /\ AtHead(c)
  BY DEF Deferred, Running, Turn, AtHead
<1>2. CASE Fail(c) /\ UNCHANGED <<workspace, runtimes>>
  BY <1>1, <1>2, FailsHead DEF Deferred, owned, HeadStep
<1>3. CASE Commit(c) /\ UNCHANGED runtimes
  BY <1>1, <1>3, CommitsHead DEF Deferred, owned, HeadStep
<1>4. CASE runtime # NoRuntime /\ Dispose(calls, c, runtime, "draining")
           /\ UNCHANGED <<workspace, tail>>
  <2>1. LocalSound(calls[c]) /\ calls \in [Calls -> Call]
    BY CallFacts DEF Standing, CallsTyped
  <2>2. DisposeStep(c, runtime) /\ FileTyped' /\ OwnedTyped' /\ CallsTyped'
    BY <1>1, <1>4, <2>1, DisposesHead DEF Deferred, Turn
  <2>3. runtime \in Runtimes
    BY <1>4 DEF Standing, OwnedTyped
  <2>4. WorkspaceTyped'
    BY <1>4 DEF Standing, WorkspaceTyped, workspace
  <2> QED BY <2>2, <2>3, <2>4 DEF Typed, HeadStep
<1> QED BY <1>2, <1>3, <1>4 DEF Deferred

\* The locals of an execution that starts.
LEMMA LeaseTyped ==
  ASSUME NEW f \in Call, NEW r \in Runtimes, NEW w \in Workspace
  PROVE  [f EXCEPT !.kind = "exec", !.at = "running", !.lease = r, !.pinned = w] \in Call
BY ZenonT(60) DEF Call

\* The runtime r is at hand: the call goes on, and an execution leases it.
LEMMA ObtainedEffect ==
  ASSUME Standing, NEW c \in Calls, NEW r \in Runtimes, setup' = setup,
         calls[c].op \in {"runtime", "acquire"}, Obtained(c, r)
  PROVE  /\ CallsTyped' /\ tail' = Tail(tail) /\ \A d \in Calls \ {c} : Kept(d)
         /\ calls'[c].at \notin Waiting /\ LocalSound(calls'[c])
         /\ \/ active' = active
            \/ Leases(c, r)
<1>1. /\ CallsTyped /\ setup \in Setups /\ calls[c] \in Call /\ LocalSound(calls[c])
      /\ WorkspaceTyped
  BY CallFacts DEF Standing
<1>2. CASE calls[c].op = "runtime" /\ calls[c].kind = "info"
           /\ tail' = Tail(tail) /\ Respond(c, "none", FALSE) /\ UNCHANGED active
  BY <1>1, <1>2, RespondEffect DEF Outcomes, Waiting
<1>3. CASE calls[c].op = "runtime" /\ calls[c].kind # "info"
           /\ Leave(c, "prompting") /\ UNCHANGED active
  <2>1. calls[c].kind = "workspace"
    BY <1>1, <1>3 DEF LocalSound
  <2> QED BY <1>1, <1>3, <2>1, LeaveEffect DEF Waiting
<1>4. CASE calls[c].op = "acquire" /\ Fail(c) /\ UNCHANGED active
  BY <1>1, <1>4, FailEffect DEF Waiting
<1>5. CASE /\ calls[c].op = "acquire" /\ Available /\ ~calls[c].aborted
           /\ tail' = Tail(tail) /\ active' = active \cup {c}
           /\ calls' = [calls EXCEPT ![c] = [FreshCall EXCEPT !.kind = "exec",
                  !.at = "running", !.lease = r, !.pinned = BindingIdentity]]
  <2> DEFINE f == FreshCall
             k == [f EXCEPT !.kind = "exec", !.at = "running", !.lease = r,
                            !.pinned = BindingIdentity]
  <2>1. k.kind = "exec" /\ k.at = "running" /\ k.lease = r
    BY DEF FreshCall
  <2>2. calls[c].kind = "exec" /\ "exec" \in setup.kinds
    BY <1>1, <1>5 DEF LocalSound
  <2>3. LocalSound(k)
    BY <2>2 DEF FreshCall, LocalSound, MutationSound, NoMutation, Decided
  <2>4. BindingIdentity \in Workspace
    BY <1>1 DEF BindingIdentity, Workspace, WorkspaceTyped, Binding
  <2>5. f \in Call
    BY <1>1, FreshTyped
  <2> HIDE DEF f
  <2>6. k \in Call
    BY <2>4, <2>5, LeaseTyped
  <2>7. calls' = [calls EXCEPT ![c] = k]
    BY <1>5 DEF f
  <2> HIDE DEF k
  <2>8. CallsTyped' /\ calls'[c] = k /\ \A d \in Calls \ {c} : Kept(d)
    BY <1>1, <2>6, <2>7, Replaced
  <2> QED BY <1>5, <2>1, <2>3, <2>8 DEF Leases, Waiting
<1> QED BY <1>2, <1>3, <1>4, <1>5 DEF Obtained

\* The locals of a call that waits for a runtime to be made.
LEMMA MakingTyped ==
  ASSUME NEW k \in Call, NEW r \in Runtimes, NEW p \in Published, NEW w \in Workspace
  PROVE  [k EXCEPT !.at = "making", !.wait = r, !.target = p, !.grant = w] \in Call
BY Zenon DEF Call

\* A runtime is begun to be made, or nothing is.
LEMMA MakeEffect ==
  ASSUME Standing, NEW c \in Calls, AtHead(c), runtime = NoRuntime,
         NEW p \in Published, NEW g \in Workspace,
         g \in {Nowhere, [root |-> p.root, id |-> p.id]}, p.kind # "injected",
         p.root = binding.root, p.id = binding.id,
         calls[c].at = "queued"
         \/ (calls[c].at = "draining" /\ runtimes[calls[c].wait].status = "closed"),
         calls[c].op \in {"runtime", "acquire"}, Make(c, p, g),
         UNCHANGED <<file, workspace, runtime, identity, failed, active, closer>>
  PROVE  HeadStep(c) /\ Typed'
<1>1. /\ CallsTyped /\ setup' = setup /\ calls[c] \in Call /\ LocalSound(calls[c])
      /\ runtimes \in [Runtimes -> Runtime]
  BY CallFacts DEF Standing, file, OwnedTyped
<1>2. FileTyped' /\ WorkspaceTyped'
  BY DEF Standing, FileTyped, WorkspaceTyped, file, workspace
<1>3. CASE Fail(c) /\ UNCHANGED runtimes
  BY <1>3, FailsHead DEF owned, HeadStep
<1> DEFINE fresh == {q \in Runtimes : runtimes[q].status = "none"}
           r == CHOOSE q \in fresh : TRUE
           n == [status |-> "making", workspace |-> g, client |-> g # Nowhere, leases |-> {}]
           k == [calls[c] EXCEPT !.at = "making", !.wait = r, !.target = p, !.grant = g]
<1>4. CASE /\ Available /\ fresh # {}
           /\ runtimes' = [runtimes EXCEPT ![r] = n]
           /\ calls' = [calls EXCEPT ![c] = k] /\ UNCHANGED tail
  <2>1. r \in fresh
    BY <1>4, Zenon
  <2>2. r \in Runtimes /\ runtimes[r].status = "none"
    BY <2>1
  <2> HIDE DEF r
  <2>3. k \in Call
    BY <1>1, <2>2, MakingTyped
  <2>4. /\ k.at = "making" /\ k.wait = r /\ k.target = p /\ k.grant = g
        /\ LocalSound(k)
    BY <1>1 DEF Call, LocalSound, Decided
  <2> HIDE DEF k
  <2>5. CallsTyped' /\ calls'[c] = k /\ \A d \in Calls \ {c} : Kept(d)
    BY <1>1, <1>4, <2>3, Replaced
  <2>6. (g # Nowhere) \in BOOLEAN
    BY Zenon
  <2>7. n \in Runtime
    BY <2>6, Zenon DEF Runtime
  <2>8. n.status = "making" /\ n.workspace = g
    OBVIOUS
  <2> HIDE DEF n
  <2>9. /\ runtimes' \in [Runtimes -> Runtime] /\ runtimes'[r] = n
        /\ \A q \in Runtimes \ {r} : runtimes'[q] = runtimes[q]
    BY <1>1, <1>4, <2>2, <2>7
  <2>10. OwnedTyped'
    BY <2>9 DEF Standing, OwnedTyped, Published
  <2>11. Meant(calls'[c])
    BY <2>4, <2>5 DEF Meant
  <2>12. MakeStep(c, r)
    BY <1>1, <1>4, <2>2, <2>4, <2>5, <2>8, <2>9, <2>11
    DEF MakeStep, AtHead, workspace
  <2> QED BY <1>2, <2>2, <2>5, <2>10, <2>12 DEF HeadStep, Typed
<1> QED BY <1>3, <1>4 DEF Make

\* What a runtime is wanted for.
LEMMA TargetTyped ==
  ASSUME Standing
  PROVE  /\ Target \in Published /\ Grant \in Workspace
         /\ Grant \in {Nowhere, [root |-> Target.root, id |-> Target.id]}
         /\ Target.kind # "injected"
         /\ Target.root = binding.root /\ Target.id = binding.id
<1>1. binding \in Binding
  BY DEF Standing, WorkspaceTyped
<1>2. Nowhere \in Workspace
  BY SessionAssumption DEF Nowhere, Workspace, Identities
<1> QED BY <1>1, <1>2 DEF Target, Grant, Binding, Published, Workspace, BindingIdentity

\* The locals of a call that is told what its runtime will be.
LEMMA TargetedTyped ==
  ASSUME NEW k \in Call, NEW p \in Published, NEW w \in Workspace
  PROVE  [k EXCEPT !.target = p, !.grant = w] \in Call
BY Zenon DEF Call

LEMMA ObtainDoes ==
  ASSUME Standing, NEW c \in Calls, Obtain(c)
  PROVE  HeadStep(c) /\ Typed'
<1>1. /\ Turn(c) /\ AtHead(c) /\ calls[c].op \in {"runtime", "acquire"} /\ Available
      /\ calls[c].at = "queued"
      /\ UNCHANGED <<file, workspace, runtime, failed, closer>> /\ setup' = setup
  BY DEF Obtain, Turn, AtHead, file
<1>2. /\ CallsTyped /\ calls \in [Calls -> Call] /\ calls[c] \in Call /\ LocalSound(calls[c])
      /\ WorkspaceTyped
  BY CallFacts DEF Standing, CallsTyped
<1>3. FileTyped' /\ WorkspaceTyped'
  BY <1>1 DEF Standing, FileTyped, WorkspaceTyped, file, workspace
<1>4. runtime # NoRuntime => runtime \in Runtimes /\ runtimes[runtime].status = "open"
  BY <1>1, OpenAtTurn DEF Available
<1>5. CASE /\ runtime # NoRuntime /\ Obtained(c, runtime) /\ UNCHANGED runtimes
           /\ \/ UNCHANGED identity
              \/ identity.kind = "injected" /\ identity' = Target
  <2>1. /\ CallsTyped' /\ tail' = Tail(tail) /\ \A d \in Calls \ {c} : Kept(d)
        /\ calls'[c].at \notin Waiting /\ LocalSound(calls'[c])
        /\ active' = active \/ Leases(c, runtime)
    BY <1>1, <1>4, <1>5, ObtainedEffect
  <2>2. Target \in Published /\ Target.kind # "injected"
    BY TargetTyped
  <2>3. LeaveStep(c)
    BY <1>1, <1>4, <1>5, <2>1, <2>2 DEF LeaveStep, HeadMoves, AtHead
  <2>4. OwnedTyped'
    BY <1>1, <1>5, <2>2 DEF Standing, OwnedTyped, Published
  <2> QED BY <1>3, <2>1, <2>3, <2>4 DEF HeadStep, Typed
<1>6. CASE /\ runtime # NoRuntime /\ DiscardUnpublished(c, runtime)
           /\ UNCHANGED <<identity, active>>
  <2>1. DisposeStep(c, runtime) /\ FileTyped' /\ OwnedTyped' /\ CallsTyped'
    BY <1>1, <1>2, <1>6, DisposesHead DEF DiscardUnpublished
  <2> QED BY <1>3, <1>4, <1>6, <2>1 DEF Typed, HeadStep
<1>7. CASE /\ runtime # NoRuntime
           /\ Dispose([calls EXCEPT ![c] = [@ EXCEPT !.target = Target, !.grant = Grant]],
                      c, runtime, "draining")
           /\ UNCHANGED <<identity, tail, active>>
  <2> DEFINE k == [calls[c] EXCEPT !.target = Target, !.grant = Grant]
             l == [calls EXCEPT ![c] = k]
  <2>1. k \in Call
    BY <1>2, TargetTyped, TargetedTyped
  <2>2. /\ k.at = "queued" /\ k.op = calls[c].op /\ LocalSound(k)
        /\ k.target = Target /\ k.grant = Grant
    BY <1>1, <1>2 DEF Call, LocalSound
  <2>3. Meant(k)
    BY <2>2, TargetTyped DEF Meant
  <2>4. Dispose(l, c, runtime, "draining")
    BY <1>7
  <2> HIDE DEF k
  <2>5. l \in [Calls -> Call] /\ l[c] = k /\ \A d \in Calls \ {c} : l[d] = calls[d]
    BY <1>2, <2>1
  <2> HIDE DEF l
  <2>6. DisposeStep(c, runtime) /\ FileTyped' /\ OwnedTyped' /\ CallsTyped'
    BY <1>1, <1>7, <2>2, <2>3, <2>4, <2>5, DisposesHead DEF workspace
  <2> QED BY <1>3, <1>4, <1>7, <2>6 DEF Typed, HeadStep
<1>8. CASE runtime = NoRuntime /\ Make(c, Target, Grant) /\ UNCHANGED <<identity, active>>
  BY <1>1, <1>8, TargetTyped, MakeEffect
<1> QED BY <1>5, <1>6, <1>7, <1>8 DEF Obtain

LEMMA MadeDoes ==
  ASSUME Standing, NEW c \in Calls, Made(c)
  PROVE  HeadStep(c) /\ Typed'
<1> DEFINE r == calls[c].wait
<1>1. /\ calls[c].at = "making" /\ UNCHANGED <<file, workspace, failed, closer>>
      /\ setup' = setup
  BY DEF Made, file
<1>2. /\ CallsTyped /\ calls \in [Calls -> Call] /\ calls[c] \in Call /\ LocalSound(calls[c])
      /\ OwnedTyped /\ runtimes \in [Runtimes -> Runtime] /\ setup \in Setups
      /\ active \subseteq Calls
  BY CallFacts DEF Standing, CallsTyped, OwnedTyped, ChainTyped
<1>3. tail # <<>> /\ Head(tail) = c
  BY <1>1 DEF Standing, Orderly, HeadWaits, Waiting
<1>4. /\ r \in Runtimes /\ runtimes[r].status = "making" /\ runtime = NoRuntime
      /\ calls[c].op \in {"runtime", "acquire"}
  BY <1>1, <1>2 DEF Standing, Orderly, WaitsSound, Waiting, LocalSound
<1>5. closer \in {"open", "queued"}
  <2>1. closer # "draining"
    BY <1>3, HeadAlone DEF Standing, Orderly
  <2> QED BY <1>1, <2>1 DEF Standing, Orderly, CloseSound, Waiting, ChainTyped
<1>6. FileTyped' /\ WorkspaceTyped'
  BY <1>1 DEF Standing, FileTyped, WorkspaceTyped, file, workspace
<1> HIDE DEF r
<1>7. CASE /\ runtimes' = [runtimes EXCEPT ![r] = Ended("void")] /\ Fail(c)
           /\ UNCHANGED <<runtime, identity, active>>
  <2>1. Ended("void") \in Runtime /\ Ended("void").status = "void"
    BY SessionAssumption DEF Ended, Runtime, Nowhere, Workspace, Identities
  <2>2. /\ runtimes' \in [Runtimes -> Runtime] /\ runtimes'[r].status = "void"
        /\ \A q \in Runtimes \ {r} : runtimes'[q] = runtimes[q]
    BY <1>2, <1>4, <1>7, <2>1
  <2>3. /\ CallsTyped' /\ tail' = Tail(tail) /\ \A d \in Calls \ {c} : Kept(d)
        /\ calls'[c].at \in {"settled", "done"} /\ LocalSound(calls'[c])
    BY <1>1, <1>2, <1>7, FailEffect
  <2>4. MadeStep(c, r)
    BY <1>1, <1>3, <1>7, <2>2, <2>3 DEF MadeStep, HeadMoves, Waiting, r
  <2>5. OwnedTyped'
    BY <1>1, <1>2, <1>7, <2>2 DEF OwnedTyped, Published
  <2> QED BY <1>4, <1>6, <2>3, <2>4, <2>5 DEF HeadStep, Typed
<1>8. CASE DiscardUnpublished(c, r) /\ UNCHANGED <<runtime, identity, active>>
  <2>1. Dispose(calls, c, r, "discarding") /\ UNCHANGED tail
    BY <1>8 DEF DiscardUnpublished
  <2>2. /\ CallsTyped' /\ runtimes' \in [Runtimes -> Runtime]
        /\ \A d \in Calls \ {c} : Kept(d)
        /\ calls'[c].at = "discarding" /\ calls'[c].wait = r
        /\ calls'[c].op = calls[c].op /\ calls'[c].kind = calls[c].kind
        /\ calls'[c].mutation = calls[c].mutation /\ calls'[c].prompt = calls[c].prompt
        /\ calls'[c].outcome = calls[c].outcome /\ calls'[c].applied = calls[c].applied
        /\ \A d \in active : calls[d].lease = r => calls'[d].aborted
        /\ \A q \in Runtimes \ {r} : runtimes'[q] = runtimes[q]
        /\ runtimes'[r].status = "draining"
        /\ runtimes'[r].workspace = runtimes[r].workspace
        /\ runtimes'[r].leases = {d \in active : calls[d].lease = r}
    BY <1>1, <1>2, <1>4, <2>1, DisposeEffect
  <2>3. LocalSound(calls'[c])
    BY <1>1, <1>2, <1>4, <2>2 DEF LocalSound, Decided
  <2>4. c \notin active
    BY <1>1, CallFacts DEF Leasing
  <2>5. DisposeStep(c, r)
    BY <1>1, <1>3, <1>4, <1>5, <1>8, <2>1, <2>2, <2>3, <2>4 DEF DisposeStep, r
  <2>6. OwnedTyped'
    BY <1>1, <1>2, <1>8, <2>2 DEF OwnedTyped, Published
  <2> QED BY <1>4, <1>6, <2>2, <2>5, <2>6 DEF HeadStep, Typed
<1>9. CASE /\ runtimes' = [runtimes EXCEPT ![r] = [@ EXCEPT !.status = "open"]]
           /\ runtime' = r /\ identity' = calls[c].target /\ Obtained(c, r)
  <2>1. [runtimes[r] EXCEPT !.status = "open"] \in Runtime
    <3>1. runtimes[r] \in Runtime
      BY <1>2, <1>4
    <3> QED BY <3>1, Zenon DEF Runtime
  <2>2. /\ runtimes' \in [Runtimes -> Runtime]
        /\ \A q \in Runtimes \ {r} : runtimes'[q] = runtimes[q]
        /\ runtimes'[r] = [runtimes[r] EXCEPT !.status = "open"]
    BY <1>2, <1>4, <1>9, <2>1
  <2>3. runtimes'[r].status = "open" /\ runtimes'[r].workspace = runtimes[r].workspace
    BY <1>2, <1>4, <2>2 DEF Runtime
  <2>4. /\ CallsTyped' /\ tail' = Tail(tail) /\ \A d \in Calls \ {c} : Kept(d)
        /\ calls'[c].at \notin Waiting /\ LocalSound(calls'[c])
        /\ active' = active \/ Leases(c, r)
    BY <1>1, <1>4, <1>9, ObtainedEffect
  <2>5. calls[c].target \in Published
    BY <1>2 DEF Call
  <2>6. MadeStep(c, r)
    BY <1>1, <1>3, <1>9, <2>2, <2>3, <2>4 DEF MadeStep, HeadMoves, r
  <2>7. OwnedTyped'
    BY <1>1, <1>2, <1>4, <1>9, <2>2, <2>5 DEF OwnedTyped, Published
  <2> QED BY <1>4, <1>6, <2>4, <2>6, <2>7 DEF HeadStep, Typed
<1> QED BY <1>7, <1>8, <1>9 DEF Made, r

LEMMA ResumeDoes ==
  ASSUME Standing, NEW c \in Calls, Resume(c)
  PROVE  HeadStep(c) /\ Typed'
<1> DEFINE s == runtimes[calls[c].wait].status
<1>1. /\ calls[c].at = "draining" /\ s \in {"closed", "failed"}
      /\ UNCHANGED <<file, runtime, identity, failed, active, closer>> /\ setup' = setup
  BY DEF Resume, file
<1>2. calls[c] \in Call /\ LocalSound(calls[c]) /\ WorkspaceTyped
  BY CallFacts DEF Standing
<1>3. AtHead(c)
  BY <1>1 DEF Standing, Orderly, HeadWaits, Waiting, AtHead
<1>4. s = "closed" => runtime = NoRuntime
  BY <1>1 DEF Standing, Orderly, WaitsSound
<1>5. UNCHANGED workspace => WorkspaceTyped'
  BY <1>2 DEF WorkspaceTyped, workspace
<1>6. CASE Fail(c) /\ UNCHANGED <<workspace, runtimes>>
  BY <1>1, <1>3, <1>6, FailsHead DEF owned, HeadStep
<1>7. CASE calls[c].op = "sync" /\ Leave(c, "synced") /\ UNCHANGED <<workspace, runtimes>>
  BY <1>1, <1>3, <1>5, <1>7, LeavesHead DEF owned, HeadStep
<1>8. CASE /\ s = "closed" /\ calls[c].op \in {"runtime", "acquire"}
           /\ Make(c, calls[c].target, calls[c].grant) /\ UNCHANGED workspace
  <2>1. /\ calls[c].target \in Published /\ calls[c].grant \in Workspace
    BY <1>2 DEF Call
  <2>2. Meant(calls[c])
    BY <1>1, <1>8 DEF Standing, Orderly, WaitsSound
  <2> QED BY <1>1, <1>3, <1>4, <1>8, <2>1, <2>2, MakeEffect DEF Meant
<1>9. CASE Commit(c) /\ UNCHANGED runtimes
  BY <1>1, <1>3, <1>9, CommitsHead DEF owned, HeadStep
<1> QED BY <1>6, <1>7, <1>8, <1>9 DEF Resume, CommitDrained

-----------------------------------------------------------------------------
(* Every step keeps everything in order.                                    *)

LEMMA StandingIs ==
  Standing <=> TypeOK /\ Orderly
BY Types DEF Standing

LEMMA InvariantIs ==
  SessionInvariant <=> TypeOK /\ Orderly
BY DEF SessionInvariant, Orderly

LEMMA AsideStands ==
  ASSUME Standing, AsideStep, Typed'
  PROVE  Standing'
<1>1. OwnedTyped' /\ ChainTyped' /\ Orderly'
  BY AsideKept DEF Standing
<1> QED BY <1>1 DEF Typed, Standing

LEMMA HeadStands ==
  ASSUME Standing, NEW c \in Calls, HeadStep(c), Typed'
  PROVE  Standing'
<1>1. CASE LeaveStep(c)
  BY <1>1, LeaveKept DEF Standing, Typed
<1>2. CASE \E r \in Runtimes : MadeStep(c, r)
  BY <1>2, MadeKept DEF Standing, Typed
<1>3. CASE \E r \in Runtimes : DisposeStep(c, r)
  BY <1>3, DisposeKept DEF Standing, Typed
<1>4. CASE \E r \in Runtimes : MakeStep(c, r)
  BY <1>4, MakeKept DEF Standing, Typed
<1> QED BY <1>1, <1>2, <1>3, <1>4 DEF HeadStep

LEMMA CloseRuntimeStands ==
  ASSUME Standing, CloseRuntime
  PROVE  Standing'
<1>1. /\ closer = "queued" /\ tail # <<>> /\ Head(tail) = Session
      /\ UNCHANGED <<file, workspace, runtime, identity, failed, active>> /\ setup' = setup
  BY DEF CloseRuntime, file
<1>2. /\ FileTyped' /\ WorkspaceTyped' /\ CallsTyped /\ OwnedTyped /\ ChainTyped /\ Orderly
      /\ active \subseteq Calls
  BY <1>1 DEF Standing, FileTyped, WorkspaceTyped, file, workspace, ChainTyped
<1>3. CASE /\ runtime = NoRuntime /\ closer' = "settling" /\ tail' = Tail(tail)
           /\ UNCHANGED <<runtimes, calls>>
  <2>1. ChainTyped' /\ Orderly'
    BY <1>1, <1>2, <1>3, CloserKept DEF workspace, owned
  <2>2. CallsTyped'
    BY <1>1, <1>2, <1>3 DEF CallsTyped, Call, Snapshot
  <2>3. OwnedTyped'
    BY <1>1, <1>2, <1>3 DEF OwnedTyped, Published
  <2> QED BY <1>2, <2>1, <2>2, <2>3 DEF Standing
<1>4. CASE /\ runtime # NoRuntime /\ closer' = "draining"
           /\ Dispose(calls, Session, runtime, "draining") /\ UNCHANGED tail
  <2>1. runtime \in Runtimes /\ calls \in [Calls -> Call]
    BY <1>2, <1>4 DEF OwnedTyped, CallsTyped
  <2>2. /\ CallsTyped' /\ runtimes' \in [Runtimes -> Runtime]
        /\ \A d \in Calls : Kept(d)
        /\ runtimes[runtime].status \in {"making", "open"} =>
              /\ \A d \in active : calls[d].lease = runtime => calls'[d].aborted
              /\ \A q \in Runtimes \ {runtime} : runtimes'[q] = runtimes[q]
              /\ runtimes'[runtime].status = "draining"
              /\ runtimes'[runtime].workspace = runtimes[runtime].workspace
              /\ runtimes'[runtime].leases = {d \in active : calls[d].lease = runtime}
        /\ runtimes[runtime].status \notin {"making", "open"} => runtimes' = runtimes
    <3>1. \A d \in Calls : d \in Calls \ {Session}
      BY SessionAssumption
    <3> QED BY <1>1, <1>2, <1>4, <2>1, <3>1, DisposeEffect
  <2>3. OwnedTyped'
    BY <1>1, <1>2, <2>2 DEF OwnedTyped, Published
  <2>4. CASE runtimes[runtime].status \in {"making", "open"}
    <3>1. DisposeStep(Session, runtime)
      BY <1>1, <1>4, <2>2, <2>4 DEF DisposeStep
    <3> QED BY <1>2, <2>1, <2>2, <2>3, <3>1, DisposeKept DEF Standing
  <2>5. CASE runtimes[runtime].status \notin {"making", "open"}
    <3>1. ChainTyped' /\ Orderly'
      BY <1>1, <1>2, <1>4, <2>2, <2>5, CloserWaits DEF workspace, owned
    <3> QED BY <1>2, <2>2, <2>3, <3>1 DEF Standing
  <2> QED BY <2>4, <2>5
<1> QED BY <1>3, <1>4 DEF CloseRuntime

LEMMA CloseDrainedStands ==
  ASSUME Standing, CloseDrained
  PROVE  Standing'
<1>1. tail # <<>> /\ Head(tail) = Session
  BY DEF Standing, Orderly, HeadWaits, CloseDrained
<1>2. ChainTyped' /\ Orderly'
  BY <1>1, CloserKept DEF Standing, CloseDrained, file, workspace
<1>3. CallsTyped'
  BY DEF Standing, CallsTyped, Call, Snapshot, CloseDrained, file
<1>4. FileTyped' /\ WorkspaceTyped' /\ OwnedTyped'
  BY DEF Standing, CloseDrained, FileTyped, WorkspaceTyped, OwnedTyped, file, workspace, owned,
         Published
<1> QED BY <1>2, <1>3, <1>4 DEF Standing

LEMMA ClosedStands ==
  ASSUME Standing, Closed
  PROVE  Standing'
<1>1. CallsTyped'
  BY DEF Standing, CallsTyped, Call, Snapshot, Closed, file
<1>2. FileTyped' /\ WorkspaceTyped' /\ OwnedTyped'
  BY DEF Standing, Closed, FileTyped, WorkspaceTyped, OwnedTyped, file, workspace, owned,
         Published
<1>3. ChainTyped'
  BY DEF Standing, Closed, ChainTyped
<1>4. LocalsSound' /\ HeadWaits'
  BY DEF Standing, Orderly, Closed, LocalsSound, LocalSound, MutationSound, HeadWaits, file
<1>5. RuntimesSound' /\ WaitsSound'
  BY DEF Standing, Orderly, Closed, RuntimesSound, WaitsSound, Meant, owned, workspace
<1>6. LeasesSound'
  BY DEF Standing, Orderly, Closed, LeasesSound, owned
<1>7. CloseSound'
  BY DEF Standing, Orderly, Closed, CloseSound, owned
<1> QED BY <1>1, <1>2, <1>3, <1>4, <1>5, <1>6, <1>7 DEF Standing, Orderly

LEMMA Initially ==
  Init => Standing
<1> SUFFICES ASSUME Init PROVE Standing
  OBVIOUS
<1> USE DEF Init
<1>1. setup \in Setups /\ setup \in Setup
  BY SessionAssumption
<1>2. FreshCall \in Call /\ LocalSound(FreshCall) /\ Nowhere \in Workspace /\ Unbound \in Binding
  BY <1>1, FreshTyped
<1>3. FileTyped
  BY <1>1, SessionAssumption DEF FileTyped, Identities
<1>4. WorkspaceTyped
  BY <1>2 DEF WorkspaceTyped
<1>5. CallsTyped
  BY <1>2 DEF CallsTyped
<1>6. ChainTyped
  BY DEF ChainTyped
<1>7. /\ runtime \in Runtimes \cup {NoRuntime} /\ failed \in BOOLEAN
      /\ runtime # NoRuntime => setup.injected
  <2>1. 1 \in Runtimes
    BY SessionAssumption DEF Runtimes
  <2>2. runtime = IF setup.injected THEN 1 ELSE NoRuntime
    OBVIOUS
  <2>3. failed = FALSE
    OBVIOUS
  <2> QED BY <2>1, <2>2, <2>3
<1>8. identity \in Published /\ identity.root = NoRoot /\ identity.id = 0
  BY SessionAssumption DEF Published, Identities
<1>9. runtimes \in [Runtimes -> Runtime]
  <2>1. ASSUME NEW s \in {"open", "none"}
        PROVE  [status |-> s, workspace |-> Nowhere, client |-> FALSE, leases |-> {}] \in Runtime
    BY <1>2 DEF Runtime
  <2> QED BY <2>1
<1>10. \A r \in Runtimes :
          /\ runtimes[r].status \in {"none", "open"} /\ runtimes[r].workspace = Nowhere
          /\ runtimes[r].status = "open" => r = runtime
          /\ r = runtime => runtimes[r].status = "open"
  BY DEF Runtimes, NoRuntime
<1>11. LocalsSound /\ HeadWaits /\ WaitsSound /\ LeasesSound /\ CloseSound
  BY <1>2 DEF LocalsSound, HeadWaits, WaitsSound, LeasesSound, CloseSound, FreshCall, Waiting
<1>12. RuntimesSound
  BY <1>7, <1>10 DEF RuntimesSound
<1> QED BY <1>3, <1>4, <1>5, <1>6, <1>7, <1>8, <1>9, <1>11, <1>12
    DEF Standing, OwnedTyped, Orderly

LEMMA StutterStands ==
  ASSUME Standing, UNCHANGED vars
  PROVE  Standing'
<1> USE DEF vars, file, workspace, owned
<1>1. FileTyped' /\ WorkspaceTyped' /\ OwnedTyped' /\ ChainTyped' /\ CallsTyped'
  BY DEF Standing, FileTyped, WorkspaceTyped, OwnedTyped, ChainTyped, CallsTyped, Published,
         Call, Snapshot
<1>2. LocalsSound' /\ HeadWaits' /\ RuntimesSound'
  BY DEF Standing, Orderly, LocalsSound, LocalSound, MutationSound, HeadWaits, RuntimesSound
<1>3. WaitsSound' /\ LeasesSound' /\ CloseSound'
  BY DEF Standing, Orderly, WaitsSound, LeasesSound, CloseSound, Meant
<1> QED BY <1>1, <1>2, <1>3 DEF Standing, Orderly

\* The invariant is kept by every step.
LEMMA Stands ==
  Standing /\ [Next]_vars => Standing'
<1> SUFFICES ASSUME Standing, [Next]_vars PROVE Standing'
  OBVIOUS
<1>1. ASSUME NEW c \in Calls, CallStep(c) PROVE Standing'
  <2>1. CASE Begin(c)
    BY <2>1, BeginDoes, AsideStands
  <2>2. CASE Observe(c)
    BY <2>2, ObserveDoes, AsideStands
  <2>3. CASE Sync(c)
    BY <2>3, SyncDoes, HeadStands
  <2>4. CASE Refused(c)
    BY <2>4, RefusedDoes, HeadStands
  <2>5. CASE StartExec(c)
    BY <2>5, StartExecDoes, AsideStands
  <2>6. CASE StartInfo(c)
    BY <2>6, StartInfoDoes, AsideStands
  <2>7. CASE StartWorkspace(c)
    BY <2>7, StartWorkspaceDoes, AsideStands
  <2>8. CASE Prompted(c)
    BY <2>8, PromptedDoes, AsideStands
  <2>9. CASE Obtain(c)
    BY <2>9, ObtainDoes, HeadStands
  <2>10. CASE Made(c)
    BY <2>10, MadeDoes, HeadStands
  <2>11. CASE Discarded(c)
    BY <2>11, DiscardedDoes, HeadStands
  <2>12. CASE Mutate(c)
    BY <2>12, MutateDoes, HeadStands
  <2>13. CASE Deferred(c)
    BY <2>13, DeferredDoes, HeadStands
  <2>14. CASE Resume(c)
    BY <2>14, ResumeDoes, HeadStands
  <2>15. CASE Prepare(c)
    BY <2>15, PrepareDoes, AsideStands
  <2>16. CASE Answer(c)
    BY <2>16, AnswerDoes, AsideStands
  <2>17. CASE End(c)
    BY <2>17, EndDoes, AsideStands
  <2>18. CASE Project(c)
    BY <2>18, ProjectDoes, AsideStands
  <2>19. CASE Return(c)
    BY <2>19, ReturnDoes, AsideStands
  <2>20. CASE Abort(c)
    BY <2>20, AbortDoes, AsideStands
  <2> QED BY <1>1, <2>1, <2>2, <2>3, <2>4, <2>5, <2>6, <2>7, <2>8, <2>9, <2>10, <2>11,
             <2>12, <2>13, <2>14, <2>15, <2>16, <2>17, <2>18, <2>19, <2>20 DEF CallStep
<1>2. ASSUME NEW r \in Runtimes, Drained(r) PROVE Standing'
  <2>1. TypeOK' /\ Orderly'
    BY <1>2, DrainedKept, StandingIs
  <2> QED BY <2>1 DEF Standing, TypeOK, FileTyped, WorkspaceTyped, OwnedTyped, ChainTyped,
                      CallsTyped
<1>3. ASSUME NEW r \in Runtimes, RuntimeClosed(r) PROVE Standing'
  <2>1. TypeOK' /\ Orderly'
    BY <1>3, RuntimeClosedKept, StandingIs
  <2> QED BY <2>1 DEF Standing, TypeOK, FileTyped, WorkspaceTyped, OwnedTyped, ChainTyped,
                      CallsTyped
<1>4. CASE SessionStep
  BY <1>4, CloseDoes, AsideStands, CloseRuntimeStands, CloseDrainedStands, ClosedStands
  DEF SessionStep
<1>5. ASSUME NEW r \in setup.roots, Change(r) PROVE Standing'
  BY <1>5, ChangeDoes, AsideStands
<1>6. CASE UNCHANGED vars
  BY <1>6, StutterStands
<1> QED BY <1>1, <1>2, <1>3, <1>4, <1>5, <1>6 DEF Next

LEMMA AlwaysStands == Spec => []Standing
BY Initially, Stands, PTL DEF Spec

(* The chain keeps the session in order: operations run one at a time, what   *)
(* is leased stays published or is drained, and a closed session has nothing  *)
(* left.                                                                      *)
THEOREM SessionOrdered == Spec => []SessionInvariant
<1>1. Standing => SessionInvariant
  BY StandingIs, InvariantIs
<1> QED BY <1>1, AlwaysStands, PTL

(* A response reports a switch as committed exactly when it took effect.      *)
THEOREM ResponsesTold == Spec => []ResponsesTrue
<1>1. Standing => ResponsesTrue
  BY StandingIs DEF ResponsesTrue, OutcomeTrue, Standing, Orderly, LocalsSound, LocalSound
<1> QED BY <1>1, AlwaysStands, PTL

(* A settled close leaves no execution and no runtime behind, and succeeds    *)
(* only if every cleanup did.                                                 *)
THEOREM CloseQuiets == Spec => []QuietAfterClose
<1>1. Standing => QuietAfterClose
  <2> SUFFICES ASSUME Standing, closer \in {"resolved", "rejected"}
               PROVE  /\ active = {}
                      /\ \A r \in Runtimes :
                            runtimes[r].status \in {"none", "void", "closed"}
                               \cup (IF closer = "resolved" THEN {} ELSE {"failed"})
    BY DEF QuietAfterClose
  <2>1. /\ runtime # NoRuntime => runtimes[runtime].status = "failed"
        /\ \A c \in Calls : calls[c].at \notin Waiting
        /\ closer = "resolved" => ~failed
    BY DEF Standing, Orderly, CloseSound
  <2>2. active = {}
    BY <2>1 DEF Standing, Orderly, LeasesSound
  <2>3. ASSUME NEW r \in Runtimes
        PROVE  runtimes[r].status \in {"none", "void", "closed"}
                  \cup (IF closer = "resolved" THEN {} ELSE {"failed"})
    <3>1. r # NoRuntime /\ runtimes[r] \in Runtime
      BY DEF Standing, OwnedTyped, Runtimes, NoRuntime
    <3>2. runtimes[r].status \notin {"making", "draining", "closing"}
      BY <2>1 DEF Standing, Orderly, RuntimesSound, Waiting
    <3>3. runtimes[r].status # "open"
      BY <2>1, <3>1 DEF Standing, Orderly, RuntimesSound
    <3>4. runtimes[r].status = "failed" => closer # "resolved"
      BY <2>1 DEF Standing, Orderly, RuntimesSound
    <3>5. runtimes[r].status \in {"none", "making", "open", "draining", "closing",
                                  "closed", "failed", "void"}
      BY <3>1 DEF Runtime
    <3> QED BY <3>2, <3>3, <3>4, <3>5
  <2> QED BY <2>2, <2>3
<1> QED BY <1>1, AlwaysStands, PTL

-----------------------------------------------------------------------------
(* Authority and switches.  A detach skips the drain whenever the bound       *)
(* directory cannot be verified (see the run session_outlive), so a client    *)
(* that may both execute and ask for a detach of its own is left out here.    *)
NoBlindDetach ==
    \A s \in Setups : {"exec", "workspace"} \subseteq s.kinds => "detach" \notin s.switches

\* A runtime under which executions run may touch what is bound, at most.
AuthoritySound ==
    active # {} /\ runtimes[runtime].status = "open" =>
        runtimes[runtime].workspace \in {Nowhere, BindingIdentity}

\* What a step may do to the authority of the executions,
AuthorityStep ==
    \/ active' = {}
    \/ runtimes'[runtime'].status # "open"
    \/ runtimes'[runtime'].workspace \in {Nowhere, BindingIdentity'}
    \/ /\ BindingIdentity' = BindingIdentity /\ active' \subseteq active
       /\ runtime' = runtime /\ runtimes'[runtime] = runtimes[runtime]
\* to the binding,
SwitchStep ==
    \/ BindingIdentity' = BindingIdentity
    \/ active' = {}
    \/ \A c \in Calls : calls'[c].applied => calls[c].applied
\* to the leases,
AcquireStep == (closer # "open" \/ failed) => active' \subseteq active
\* and to the usable roots.
LaunchStep ==
    (advertised /\ setup.launch \in DOMAIN candidates'
                /\ setup.launch \notin DOMAIN candidates)
       => setup.launch \in calls[Head(tail)].snap.roots
CleanStep == AuthorityStep /\ SwitchStep /\ AcquireStep /\ LaunchStep

\* Most steps touch none of it.
LEMMA QuietClean ==
  ASSUME UNCHANGED <<workspace, runtime, runtimes>>, active' \subseteq active
  PROVE  CleanStep
BY DEF CleanStep, AuthorityStep, SwitchStep, AcquireStep, LaunchStep, workspace, BindingIdentity

\* A runtime whose disposal is asked for is not open any more.
LEMMA DisposedCloses ==
  ASSUME Standing, NEW c, NEW l, NEW a, NEW r \in Runtimes, Dispose(l, c, r, a)
  PROVE  runtimes'[r].status # "open"
<1>1. runtimes \in [Runtimes -> Runtime] /\ runtimes[r] \in Runtime
  BY DEF Standing, OwnedTyped
<1>2. CASE runtimes[r].status \in {"making", "open"}
  BY <1>1, <1>2 DEF Dispose, Runtime
<1>3. CASE runtimes[r].status \notin {"making", "open"}
  BY <1>3 DEF Dispose
<1> QED BY <1>2, <1>3

\* A step that asks for the disposal of the published runtime.
LEMMA DisposeClean ==
  ASSUME Standing, NEW c, NEW l, NEW a, runtime # NoRuntime, Dispose(l, c, runtime, a),
         runtime' = runtime, active' = active, SwitchStep, LaunchStep
  PROVE  CleanStep
<1>1. runtime \in Runtimes
  BY DEF Standing, OwnedTyped
<1> QED BY <1>1, DisposedCloses DEF CleanStep, AuthorityStep, AcquireStep

\* No execution holds a lease while no runtime is published.
LEMMA NobodyLeases ==
  ASSUME Standing, runtime = NoRuntime
  PROVE  active = {}
BY DEF Standing, Orderly, LeasesSound

LEMMA IdleClean ==
  ASSUME Standing, runtime = NoRuntime, active' = active, LaunchStep
  PROVE  CleanStep
BY NobodyLeases DEF CleanStep, AuthorityStep, SwitchStep, AcquireStep

\* A switch that needs no drain leaves the binding as it is.
LEMMA CommitSame ==
  ASSUME Standing, NoBlindDetach, NEW c \in Calls, calls[c].op = "mutate", Commit(c),
         Unchanged(calls[c].mutation)
  PROVE  active = {} \/ BindingIdentity' = BindingIdentity
<1> DEFINE m == calls[c].mutation
<1>1. LocalSound(calls[c]) /\ setup \in Setups
  BY CallFacts
<1>2. CASE m.action = "select" /\ workspaceObservation = "verified" /\ binding.root = m.root
  <2>1. Same(binding.root, binding.id)
    BY <1>2 DEF workspaceObservation
  <2>2. CASE UNCHANGED binding
    BY <2>2 DEF BindingIdentity
  <2>3. CASE Valid(m) /\ binding' = Switched(m)
    BY <1>2, <2>1, <2>3 DEF Valid, Switched, Same, BindingIdentity
  <2> QED BY <2>2, <2>3 DEF Commit
<1>3. CASE m.action = "detach"
  <2>1. "detach" \in setup.switches /\ "workspace" \in setup.kinds
    BY <1>1, <1>3 DEF LocalSound, MutationSound
  <2>2. "exec" \notin setup.kinds
    BY <1>1, <2>1 DEF NoBlindDetach
  <2>3. \A d \in Calls : calls[d].kind # "exec"
    BY <2>2, CallFacts DEF LocalSound
  <2> QED BY <2>3, CallFacts DEF Standing, ChainTyped
<1> QED BY <1>2, <1>3 DEF Unchanged

LEMMA SyncClean ==
  ASSUME Standing, NEW c \in Calls, Sync(c)
  PROVE  CleanStep
<1>1. /\ Running(c, "sync") /\ Adopt(calls[c].snap) /\ setup' = setup
      /\ UNCHANGED <<runtime, active>> /\ Head(tail) = c
  BY DEF Sync, Running, Turn, file
<1>2. LaunchStep
  <2> SUFFICES ASSUME advertised, setup.launch \in DOMAIN candidates',
                      setup.launch \notin DOMAIN candidates
               PROVE  setup.launch \in calls[c].snap.roots
    BY <1>1 DEF LaunchStep
  <2>1. updateClientRoots(calls[c].snap.roots)
    BY DEF Adopt, Sync
  <2> QED BY <2>1 DEF updateClientRoots
<1>3. CallsTyped /\ calls \in [Calls -> Call] /\ LocalSound(calls[c]) /\ setup \in Setups
      /\ active \subseteq Calls /\ OwnedTyped
  BY CallFacts DEF Standing, CallsTyped, ChainTyped
<1>4. CASE runtime # NoRuntime /\ Dispose(calls, c, runtime, "draining")
  <2>1. runtime \in Runtimes
    BY <1>3, <1>4 DEF OwnedTyped
  <2>2. /\ \A d \in Calls \ {c} : Kept(d)
        /\ calls'[c].applied = calls[c].applied
    BY <1>1, <1>3, <1>4, <2>1, DisposeEffect
  <2>3. SwitchStep
    BY <2>2 DEF SwitchStep, Kept
  <2> QED BY <1>1, <1>2, <1>4, <2>3, DisposeClean
<1>5. CASE runtime = NoRuntime
  BY <1>1, <1>2, <1>5, IdleClean
<1>6. CASE BindingIdentity' = BindingIdentity /\ UNCHANGED runtimes
  BY <1>1, <1>2, <1>6 DEF CleanStep, AuthorityStep, SwitchStep, AcquireStep
<1> QED BY <1>4, <1>5, <1>6 DEF Sync

LEMMA ObtainClean ==
  ASSUME Standing, NEW c \in Calls, Obtain(c)
  PROVE  CleanStep
<1>1. /\ Turn(c) /\ Available /\ UNCHANGED <<workspace, runtime>>
      /\ SwitchStep /\ LaunchStep /\ AcquireStep
  BY DEF Obtain, SwitchStep, LaunchStep, AcquireStep, workspace, BindingIdentity, Available,
         Retiring
<1>2. CASE runtime # NoRuntime /\ UNCHANGED runtimes
           /\ (identity = Target \/ identity.kind = "injected")
  <2>1. runtimes[runtime].workspace \in {Nowhere, BindingIdentity}
    BY <1>2, TargetTyped DEF Standing, Orderly, RuntimesSound, BindingIdentity
  <2> QED BY <1>1, <1>2, <2>1 DEF CleanStep, AuthorityStep, workspace, BindingIdentity
<1>3. CASE runtime # NoRuntime /\ DiscardUnpublished(c, runtime) /\ UNCHANGED active
  BY <1>1, <1>3, DisposeClean DEF DiscardUnpublished
<1>4. CASE /\ runtime # NoRuntime /\ UNCHANGED active
           /\ Dispose([calls EXCEPT ![c] = [@ EXCEPT !.target = Target, !.grant = Grant]],
                      c, runtime, "draining")
  BY <1>1, <1>4, DisposeClean
<1>5. CASE runtime = NoRuntime /\ UNCHANGED active
  BY <1>1, <1>5, IdleClean
<1> QED BY <1>2, <1>3, <1>4, <1>5 DEF Obtain

LEMMA MadeClean ==
  ASSUME Standing, NEW c \in Calls, Made(c)
  PROVE  CleanStep
<1> DEFINE r == calls[c].wait
<1>1. /\ UNCHANGED <<workspace, closer, failed>> /\ SwitchStep /\ LaunchStep
  BY SMTT(40) DEF Made, SwitchStep, LaunchStep, workspace, BindingIdentity
<1>2. /\ r \in Runtimes /\ runtimes \in [Runtimes -> Runtime] /\ runtime = NoRuntime
      /\ Meant(calls[c]) /\ runtimes[r].workspace = calls[c].grant
      /\ calls[c].op \in {"runtime", "acquire"}
  BY CallFacts DEF Made, Standing, Orderly, WaitsSound, Waiting, OwnedTyped, LocalSound
<1>3. CASE UNCHANGED active
  BY <1>1, <1>2, <1>3, IdleClean
<1>4. CASE /\ runtimes' = [runtimes EXCEPT ![r] = [@ EXCEPT !.status = "open"]]
           /\ runtime' = r /\ Obtained(c, r)
  <2>1. runtimes'[r].workspace = runtimes[r].workspace
    BY <1>2, <1>4 DEF Runtime
  <2>2. AuthorityStep
    BY <1>1, <1>2, <1>4, <2>1 DEF AuthorityStep, Meant, BindingIdentity, workspace
  <2>3. AcquireStep
    BY <1>4 DEF Obtained, AcquireStep, Available, Retiring
  <2> QED BY <1>1, <2>2, <2>3 DEF CleanStep
<1> QED BY <1>3, <1>4 DEF Made

LEMMA MutateClean ==
  ASSUME Standing, NoBlindDetach, NEW c \in Calls, Mutate(c)
  PROVE  CleanStep
<1>1. UNCHANGED <<runtime, active>> /\ calls[c].op = "mutate"
  BY DEF Mutate, Running
<1>2. CASE Commit(c) /\ UNCHANGED runtimes
           /\ (Unchanged(calls[c].mutation) \/ runtime = NoRuntime)
  <2>1. active = {} \/ BindingIdentity' = BindingIdentity
    BY <1>1, <1>2, CommitSame, NobodyLeases
  <2>2. LaunchStep
    BY <1>2 DEF Commit, LaunchStep
  <2> QED BY <1>1, <1>2, <2>1, <2>2 DEF CleanStep, AuthorityStep, SwitchStep, AcquireStep
<1>3. CASE runtime # NoRuntime /\ Dispose(calls, c, runtime, "draining") /\ UNCHANGED workspace
  <2>1. SwitchStep /\ LaunchStep
    BY <1>3 DEF SwitchStep, LaunchStep, workspace, BindingIdentity
  <2> QED BY <1>1, <1>3, <2>1, DisposeClean
<1> QED BY <1>2, <1>3 DEF Mutate

LEMMA DeferredClean ==
  ASSUME Standing, NEW c \in Calls, Deferred(c)
  PROVE  CleanStep
<1>1. UNCHANGED <<runtime, active>>
  BY DEF Deferred
<1>2. CASE UNCHANGED <<workspace, runtimes>>
  BY <1>1, <1>2, QuietClean
<1>3. CASE Commit(c) /\ runtime = NoRuntime
  <2>1. LaunchStep
    BY <1>3 DEF Commit, LaunchStep
  <2> QED BY <1>1, <1>3, <2>1, IdleClean
<1>4. CASE runtime # NoRuntime /\ Dispose(calls, c, runtime, "draining") /\ UNCHANGED workspace
  <2>1. SwitchStep /\ LaunchStep
    BY <1>4 DEF SwitchStep, LaunchStep, workspace, BindingIdentity
  <2> QED BY <1>1, <1>4, <2>1, DisposeClean
<1> QED BY <1>2, <1>3, <1>4 DEF Deferred

LEMMA ResumeClean ==
  ASSUME Standing, NEW c \in Calls, Resume(c)
  PROVE  CleanStep
<1>1. UNCHANGED <<runtime, active>>
  BY DEF Resume
<1>2. CASE UNCHANGED <<workspace, runtimes>>
  BY <1>1, <1>2, QuietClean
<1>3. CASE runtimes[calls[c].wait].status = "closed" /\ (Commit(c) \/ UNCHANGED workspace)
  <2>1. runtime = NoRuntime
    BY <1>3 DEF Resume, Standing, Orderly, WaitsSound
  <2>2. LaunchStep
    BY <1>3 DEF Commit, LaunchStep, workspace
  <2> QED BY <1>1, <2>1, <2>2, IdleClean
<1> QED BY <1>2, <1>3 DEF Resume, CommitDrained

LEMMA ClosedClean ==
  ASSUME Standing, NEW r \in Runtimes, Drained(r) \/ RuntimeClosed(r)
  PROVE  CleanStep
<1>1. /\ UNCHANGED <<workspace, active>> /\ SwitchStep /\ LaunchStep /\ AcquireStep
      /\ runtimes \in [Runtimes -> Runtime]
  BY DEF Drained, RuntimeClosed, SwitchStep, LaunchStep, AcquireStep, workspace,
         BindingIdentity, Standing, OwnedTyped
<1>2. CASE runtime = r \/ runtime = NoRuntime
  <2>1. CASE Drained(r) /\ runtime = r
    BY <1>1, <2>1 DEF Drained, CleanStep, AuthorityStep, Runtime
  <2>2. active = {} \/ (Drained(r) /\ runtime = r)
    BY <1>2 DEF RuntimeClosed, Standing, Orderly, LeasesSound
  <2> QED BY <1>1, <2>1, <2>2 DEF CleanStep, AuthorityStep
<1>3. CASE runtime # r
  <2>1. (runtime' = runtime /\ runtimes'[runtime] = runtimes[runtime])
        \/ runtime = NoRuntime
    BY <1>1, <1>3 DEF Drained, RuntimeClosed, Standing, OwnedTyped
  <2> QED BY <1>1, <1>2, <2>1 DEF CleanStep, AuthorityStep, workspace, BindingIdentity
<1> QED BY <1>2, <1>3

LEMMA Clean ==
  ASSUME Standing, NoBlindDetach, [Next]_vars
  PROVE  CleanStep
<1> USE DEF owned, file
<1>1. ASSUME NEW c \in Calls, CallStep(c) PROVE CleanStep
  <2>1. CASE Begin(c) \/ Observe(c) \/ Refused(c) \/ StartExec(c) \/ StartInfo(c)
             \/ StartWorkspace(c) \/ Prompted(c) \/ Discarded(c)
    BY <2>1, QuietClean DEF Begin, Observe, Refused, StartExec, StartInfo, StartWorkspace,
                            Prompted, Discarded
  <2>2. CASE Prepare(c) \/ Answer(c) \/ End(c) \/ Project(c) \/ Return(c) \/ Abort(c)
    <3>1. UNCHANGED <<workspace, runtime, runtimes>> /\ active' \subseteq active
      BY <2>2 DEF Prepare, Answer, End, Defer, Project, Return, Abort
    <3> QED BY <3>1, QuietClean
  <2> QED BY SMTT(40), <1>1, <2>1, <2>2, SyncClean, ObtainClean, MadeClean, MutateClean, DeferredClean,
             ResumeClean DEF CallStep
<1>2. CASE Close \/ CloseDrained \/ Closed \/ UNCHANGED vars
  BY <1>2, QuietClean DEF Close, CloseDrained, Closed, vars
<1>3. CASE CloseRuntime
  <2>1. CASE UNCHANGED runtimes
    BY <1>3, <2>1, QuietClean DEF CloseRuntime
  <2>2. CASE runtime # NoRuntime /\ Dispose(calls, Session, runtime, "draining")
    <3>1. UNCHANGED <<workspace, runtime, active>>
      BY <1>3 DEF CloseRuntime
    <3>2. SwitchStep /\ LaunchStep
      BY <3>1 DEF SwitchStep, LaunchStep, workspace, BindingIdentity
    <3> QED BY <2>2, <3>1, <3>2, DisposeClean
  <2> QED BY <1>3, <2>1, <2>2 DEF CloseRuntime
<1>4. ASSUME NEW r \in setup.roots, Change(r) PROVE CleanStep
  BY <1>4, QuietClean DEF Change
<1> QED BY <1>1, <1>2, <1>3, <1>4, ClosedClean DEF Next, SessionStep

(* Authority over a workspace never outlives its binding.                     *)
THEOREM AuthorityKept ==
  ASSUME NoBlindDetach
  PROVE  Spec => []AuthorityFollowsBinding
<1>1. Init => AuthoritySound
  BY DEF Init, AuthoritySound
<1>2. Standing /\ AuthoritySound /\ [Next]_vars => AuthoritySound'
  BY Clean DEF CleanStep, AuthorityStep, AuthoritySound
<1>3. Standing /\ AuthoritySound => AuthorityFollowsBinding
  BY DEF Standing, Orderly, LeasesSound, AuthoritySound, AuthorityFollowsBinding
<1> QED BY <1>1, <1>2, <1>3, AlwaysStands, PTL DEF Spec

(* A switch is made between executions, none starts once the session closes   *)
(* or a cleanup failed, and a dropped launch directory does not come back.    *)
THEOREM SwitchesMadeCleanly ==
  ASSUME NoBlindDetach
  PROVE  Spec => SwitchesClean
<1>1. Standing /\ [Next]_vars =>
         [\A c \in Calls : (calls'[c].applied /\ ~calls[c].applied
                             /\ BindingIdentity' # BindingIdentity) => active' = {}]_vars
  BY Clean DEF CleanStep, SwitchStep
<1>2. Standing /\ [Next]_vars =>
         [(closer # "open" \/ failed) => active' \subseteq active]_vars
  BY Clean DEF CleanStep, AcquireStep
<1>3. Standing /\ [Next]_vars =>
         [(advertised /\ setup.launch \in DOMAIN candidates'
                      /\ setup.launch \notin DOMAIN candidates)
             => setup.launch \in calls[Head(tail)].snap.roots]_vars
  BY Clean DEF CleanStep, LaunchStep
<1> QED BY <1>1, <1>2, <1>3, AlwaysStands, PTL
    DEF Spec, SwitchesClean, DrainedBeforeCommit, NothingAcquiredAfterwards, LaunchStaysOut
=============================================================================
