----------------------------- MODULE StateStore -----------------------------
(***************************************************************************)
(* The durable workspace state of Kiro Fabric: several MCP processes share *)
(* one store root.  Each process runs a StateProvider whose calls read     *)
(* state.json directly and mutate it under the lock file                   *)
(* .state-mutation.lock, publish a new document by rename, flush the       *)
(* directory, and release the lock.  A lock whose owner process is dead is *)
(* reclaimed under an exclusive per-token claim file.                      *)
(*                                                                         *)
(* One step is one system call that another process can see.  Inside one   *)
(* process JavaScript is single threaded: prov[p].run is the call that     *)
(* occupies the thread, and only the contention delay gives it up.  A call *)
(* creates the lock at most once, so the random token in its owner record  *)
(* is the call itself.  Inode numbers are recycled freely.                 *)
(***************************************************************************)
EXTENDS StateDocument

CONSTANTS
  Procs,       \* operating-system processes, each with one StateProvider
  Home,        \* the process a call runs in
  Inodes,      \* inode numbers of lock files, reused after an unlink
  MaxReadAttempts  \* MAX_READ_ATTEMPTS

\* The observable identity of a lock file (ino) and the owner token in it (by).
LockFile == [by : Calls, ino : Inodes]
LockFiles == LockFile \cup {None}

\* What the store root contains besides temporaries.
Directory == [doc : Document, lock : LockFiles, claims : SUBSET Calls]
EmptyDirectory == [doc |-> EmptyDocument, lock |-> None, claims |-> {}]

ASSUME StoreAssumption ==
  /\ Home \in [Calls -> Procs]
  /\ None \notin LockFile
  /\ MaxReadAttempts \in Nat \ {0}

VARIABLES
  dir,          \* the directory as every process sees it
  disk,         \* the directory a host crash leaves behind
  rootDurable,  \* the entry naming the store root was flushed
  written,      \* tokens whose owner record was written and flushed
  temps,        \* calls whose temporary document exists
  prov,         \* each process and the fields of its provider
  call          \* each call and its local variables

files == <<dir, disk, rootDurable, written, temps>>
vars == <<files, prov, call>>

FreshProvider ==
  [status |-> "fresh", run |-> None, barrier |-> FALSE, pendingLock |-> None,
   pendingTmp |-> None, uncertain |-> FALSE]
FreshCall ==
  [pc |-> "idle", op |-> None, ino |-> None, seen |-> None,
   base |-> EmptyDocument, tries |-> 0, err |-> FALSE, committed |-> FALSE,
   durable |-> FALSE, result |-> "none"]

-----------------------------------------------------------------------------
\* Program points at which a call owns the lock file it created.
Holding == {"init", "held", "write", "precommit", "rename", "barrier",
            "release", "unlink"}
\* ... at which it owns a recovery claim on the token in seen.
Claiming == {"claimed", "unlinkStale", "unclaim"}
Waiting == {"loop", "retryUnlink", "stat", "inspect", "claim", "wait"}
Finished == {"done", "dead"}
\* ... at which it has given the thread up until a timer or a microtask runs.
Parked == {"wait", "report"}
\* ... past the critical section.
Over == {"report"} \cup Finished

At(c, point) == call[c].pc = point
Alive(c) == prov[Home[c]].status = "up"
\* JavaScript runs to completion: c occupies the thread of its process.
Running(c) == Alive(c) /\ prov[Home[c]].run = c

Goto(c, point) == call' = [call EXCEPT ![c].pc = point]
Yield(c) == prov' = [prov EXCEPT ![Home[c]].run = None]

\* The call is over and its locals are gone; what it reports stays.
Settled(c, outcome) ==
  [call EXCEPT ![c] = [FreshCall EXCEPT !.pc = "done", !.result = outcome,
                                        !.durable = call[c].durable]]
\* An error before anything was published.
Throw(c) == call' = Settled(c, "failed") /\ Yield(c)

\* #lockCleanupState of the provider.
Unresolved(p) == prov[p].uncertain \/ prov[p].pendingLock # None

\* The operation is over: fall into the finally block that releases the lock.
ToRelease(c, failed) ==
  call' = [call EXCEPT ![c].pc = "release", ![c].err = failed]

\* The promise of #withMutationLock settles: its locals are gone.
ToReport(c, failed) ==
  call' = [call EXCEPT ![c] =
    [FreshCall EXCEPT !.pc = "report", !.err = failed,
                      !.committed = call[c].committed,
                      !.durable = call[c].durable]]

-----------------------------------------------------------------------------
Init ==
  /\ dir = EmptyDirectory
  /\ disk = EmptyDirectory
  /\ rootDurable = FALSE
  /\ written = {}
  /\ temps = {}
  /\ prov = [p \in Procs |-> FreshProvider]
  /\ call = [c \in Calls |-> FreshCall]

\* A process starts and constructs its provider; establishDirectoryEntry
\* flushes the root and the entry naming it, or leaves it unconfirmed.
Start(p, established) ==
  /\ prov[p].status = "fresh"
  /\ prov' = [prov EXCEPT ![p].status = "up", ![p].barrier = established]
  /\ rootDurable' = (rootDurable \/ established)
  /\ disk' = IF established THEN dir ELSE disk
  /\ UNCHANGED <<dir, written, temps, call>>

\* invoke: a get reads at once, a mutation enters the acquisition loop.
Invoke(c, o) ==
  /\ At(c, "idle")
  /\ Alive(c)
  /\ prov[Home[c]].run = None
  /\ prov' = [prov EXCEPT ![Home[c]].run = c]
  /\ call' = [call EXCEPT ![c].op = o,
                          ![c].pc = IF o.kind = "get" THEN "rstat" ELSE "loop"]
  /\ UNCHANGED files

-----------------------------------------------------------------------------
(* Reads: #readText looks the file up, opens it, and starts over when the   *)
(* opened file is not the one it looked up.                                 *)

\* A missing file yields the empty document.
ReadStat(c) ==
  /\ At(c, "rstat") /\ Running(c)
  /\ \/ /\ dir.doc.revision = 0
        /\ call' = Settled(c, "read")
        /\ Yield(c)
     \/ /\ dir.doc.revision # 0
        /\ call' = [call EXCEPT ![c].pc = "ropen", ![c].base = dir.doc]
        /\ UNCHANGED prov
  /\ UNCHANGED files

ReadOpen(c) ==
  LET tries == call[c].tries + 1 IN
  /\ At(c, "ropen") /\ Running(c)
  /\ \/ /\ dir.doc = call[c].base
        /\ call' = Settled(c, "read")
        /\ Yield(c)
     \/ /\ dir.doc # call[c].base /\ tries = MaxReadAttempts
        /\ Throw(c)
     \/ /\ dir.doc # call[c].base /\ tries < MaxReadAttempts
        /\ call' = [call EXCEPT ![c].pc = "rstat", ![c].tries = tries]
        /\ UNCHANGED prov
  /\ UNCHANGED files

-----------------------------------------------------------------------------
(* The acquisition loop of #withMutationLockLocked.                         *)

\* Mutant: the acquisition loop never looks at its deadline.
LoopForever(c) ==
  /\ At(c, "retryUnlink") /\ Running(c)
  /\ Throw(c)
  /\ UNCHANGED files

\* An uncertain provider, cancellation, the call's deadline, the lock deadline
\* or an I/O error ends the call before it owns anything.
LoopThrow(c) ==
  /\ call[c].pc \in {"loop", "retryUnlink", "stat", "inspect", "claim"}
  /\ Running(c)
  /\ Throw(c)
  /\ UNCHANGED files

Looping(c) == At(c, "loop") /\ Running(c) /\ ~prov[Home[c]].uncertain
\* No cleanup is outstanding, so the lock may be created.
Clean(c) ==
  prov[Home[c]].pendingTmp = None /\ prov[Home[c]].pendingLock = None

\* A temporary an earlier call could not remove is removed first ...
RetryTemporary(c) ==
  /\ Looping(c)
  /\ prov[Home[c]].pendingTmp # None
  /\ temps' = temps \ {prov[Home[c]].pendingTmp}
  /\ prov' = [prov EXCEPT ![Home[c]].pendingTmp = None]
  /\ UNCHANGED <<dir, disk, rootDurable, written, call>>

\* ... and then a lock an earlier call could not release.  The strict release
\* takes a missing lock for ownership loss.
RetryRelease(c) ==
  /\ Looping(c)
  /\ prov[Home[c]].pendingTmp = None
  /\ prov[Home[c]].pendingLock # None
  /\ \/ /\ dir.lock = None
        /\ prov' = [prov EXCEPT ![Home[c]].uncertain = TRUE,
                                ![Home[c]].run = None]
        /\ call' = Settled(c, "failed")
     \/ /\ dir.lock # None
        /\ dir.lock.ino = prov[Home[c]].pendingLock.ino
        /\ Goto(c, "retryUnlink")
        /\ UNCHANGED prov
  /\ UNCHANGED files

RetryUnlink(c) ==
  /\ At(c, "retryUnlink") /\ Running(c)
  /\ dir' = [dir EXCEPT !.lock = None]
  /\ prov' = [prov EXCEPT ![Home[c]].pendingLock = None]
  /\ Goto(c, "loop")
  /\ UNCHANGED <<disk, rootDurable, written, temps>>

\* Mutant: the lock file is opened without O_EXCL.
CreateLockOver(c, i) ==
  /\ Looping(c) /\ Clean(c)
  /\ dir' = [dir EXCEPT !.lock = [by |-> c, ino |-> i]]
  /\ call' = [call EXCEPT ![c].pc = "init", ![c].ino = i]
  /\ UNCHANGED <<disk, rootDurable, written, temps, prov>>

\* Exclusive creation of the lock file; its owner record is still empty.
CreateLock(c, i) ==
  /\ Looping(c) /\ Clean(c)
  /\ dir.lock = None
  /\ dir' = [dir EXCEPT !.lock = [by |-> c, ino |-> i]]
  /\ call' = [call EXCEPT ![c].pc = "init", ![c].ino = i]
  /\ UNCHANGED <<disk, rootDurable, written, temps, prov>>

\* Creation fails with EEXIST.
LockExists(c) ==
  /\ Looping(c) /\ Clean(c)
  /\ dir.lock # None
  /\ Goto(c, "stat")
  /\ UNCHANGED <<files, prov>>

\* Write and flush the owner record.  A failure, before or after the write, with
\* known identity releases the lock; without one the provider is uncertain and
\* the lock stays.
InitLock(c) ==
  /\ At(c, "init") /\ Running(c)
  /\ \/ /\ written' = written \cup {c}
        /\ Goto(c, "held")
        /\ UNCHANGED prov
     \/ /\ ToRelease(c, TRUE)
        /\ written' \in {written, written \cup {c}}
        /\ UNCHANGED prov
     \/ /\ prov' = [prov EXCEPT ![Home[c]].uncertain = TRUE,
                                ![Home[c]].run = None]
        /\ call' = Settled(c, "failed")
        /\ UNCHANGED written
  /\ UNCHANGED <<dir, disk, rootDurable, temps>>

Wait(c) == Goto(c, "wait") /\ Yield(c)

\* The contended lock is looked up.  Whether it is older than STALE_LOCK_MS is
\* left open: an owner may be slow, and safety must not rest on the age.
StatLock(c) ==
  /\ At(c, "stat") /\ Running(c)
  /\ \/ Wait(c)
     \/ /\ dir.lock # None
        /\ call' = [call EXCEPT ![c].pc = "inspect", ![c].seen = dir.lock]
        /\ UNCHANGED prov
  /\ UNCHANGED files

\* The lock name still denotes the inode looked up before.
SameLock(c) == dir.lock # None /\ dir.lock.ino = call[c].seen.ino

\* #readLockOwner and processIsAlive.  An unwritten owner record throws
\* (LoopThrow); a replaced lock or a live owner sends the call to wait.
InspectOwner(c) ==
  /\ At(c, "inspect") /\ Running(c)
  /\ \/ ~SameLock(c) /\ Wait(c)
     \/ SameLock(c) /\ dir.lock.by \in written /\ Alive(dir.lock.by) /\ Wait(c)
     \/ /\ SameLock(c) /\ dir.lock.by \in written /\ ~Alive(dir.lock.by)
        /\ call' = [call EXCEPT ![c].pc = "claim", ![c].seen = dir.lock]
        /\ UNCHANGED prov
  /\ UNCHANGED files

\* Mutant: the claim file is opened without O_EXCL.
CreateClaimShared(c) ==
  /\ At(c, "claim") /\ Running(c)
  /\ dir' = [dir EXCEPT !.claims = @ \cup {call[c].seen.by}]
  /\ Goto(c, "claimed")
  /\ UNCHANGED <<disk, rootDurable, written, temps, prov>>

\* Win the exclusive claim on the dead owner's token, or wait.  A claim whose
\* initialisation fails is removed again (Unclaim) and the call throws.
CreateClaim(c) ==
  LET token == call[c].seen.by IN
  /\ At(c, "claim") /\ Running(c)
  /\ \/ token \in dir.claims /\ Wait(c) /\ UNCHANGED dir
     \/ /\ token \notin dir.claims
        /\ dir' = [dir EXCEPT !.claims = @ \cup {token}]
        /\ \/ Goto(c, "claimed")
           \/ call' = [call EXCEPT ![c].pc = "unclaim", ![c].err = TRUE]
        /\ UNCHANGED prov
  /\ UNCHANGED <<disk, rootDurable, written, temps>>

\* Mutants: only the inode is compared, and the liveness of the owner read
\* before the claim; the lock is not looked up again at all.
RecheckInode(c) ==
  /\ At(c, "claimed") /\ Running(c)
  /\ \/ SameLock(c) /\ ~Alive(call[c].seen.by) /\ Goto(c, "unlinkStale")
     \/ ~SameLock(c) /\ Goto(c, "unclaim")
  /\ UNCHANGED <<files, prov>>
RecheckNothing(c) ==
  /\ At(c, "claimed") /\ Running(c)
  /\ Goto(c, "unlinkStale")
  /\ UNCHANGED <<files, prov>>

\* Under the claim: look the lock up again, compare identity and the whole
\* owner record, and re-check that the owner is dead.
RecheckLock(c) ==
  LET stale == /\ SameLock(c)
               /\ dir.lock.by = call[c].seen.by
               /\ ~Alive(dir.lock.by) IN
  /\ At(c, "claimed") /\ Running(c)
  /\ \/ stale /\ Goto(c, "unlinkStale")
     \/ ~stale /\ Goto(c, "unclaim")
     \/ call' = [call EXCEPT ![c].pc = "unclaim", ![c].err = TRUE]
  /\ UNCHANGED <<files, prov>>

\* unlink removes whatever the name denotes now.
UnlinkStale(c) ==
  /\ At(c, "unlinkStale") /\ Running(c)
  /\ \/ /\ dir' = [dir EXCEPT !.lock = None]
        /\ Goto(c, "unclaim")
     \/ /\ call' = [call EXCEPT ![c].pc = "unclaim", ![c].err = TRUE]
        /\ UNCHANGED dir
  /\ UNCHANGED <<disk, rootDurable, written, temps, prov>>

\* The finally block removes the claim.  A claim that cannot be removed makes
\* the provider uncertain and ends the call.
Unclaim(c) ==
  /\ At(c, "unclaim") /\ Running(c)
  /\ \/ /\ dir' = [dir EXCEPT !.claims = @ \ {call[c].seen.by}]
        /\ IF call[c].err THEN Throw(c) ELSE Wait(c)
     \/ /\ prov' = [prov EXCEPT ![Home[c]].uncertain = TRUE,
                                ![Home[c]].run = None]
        /\ call' = Settled(c, "failed")
        /\ UNCHANGED dir
  /\ UNCHANGED <<disk, rootDurable, written, temps>>

\* The contention delay is the only await: afterwards the loop starts over.
Resume(c) ==
  /\ At(c, "wait")
  /\ Alive(c)
  /\ prov[Home[c]].run = None
  /\ prov' = [prov EXCEPT ![Home[c]].run = c]
  /\ call' = [call EXCEPT ![c].pc = "loop", ![c].seen = None]
  /\ UNCHANGED files

-----------------------------------------------------------------------------
(* The critical section: read, compare, write a temporary, rename, flush.   *)

\* assertOwnership: the lock name still denotes the inode this call created.
Owns(c) == dir.lock # None /\ dir.lock.ino = call[c].ino

\* A check or a system call of the section throws before anything is written.
OperationThrow(c) ==
  /\ At(c, "held") /\ Running(c)
  /\ ToRelease(c, TRUE)
  /\ UNCHANGED <<files, prov>>

\* Mutant: the expected revision is not compared.
UpdateUnconditionally(c) ==
  /\ At(c, "held") /\ Running(c)
  /\ Owns(c)
  /\ ~Full(call[c].op, dir.doc) /\ ~NoEntry(call[c].op, dir.doc)
  /\ call' = [call EXCEPT ![c].pc = "write", ![c].base = dir.doc]
  /\ UNCHANGED <<files, prov>>

\* #read under the lock, the expectedRevision comparison and the entry limit.
ReadForUpdate(c) ==
  LET o == call[c].op
      conflict == Conflict(o, dir.doc) IN
  /\ At(c, "held") /\ Running(c)
  /\ Owns(c)
  /\ \/ (conflict \/ Full(o, dir.doc)) /\ ToRelease(c, TRUE)
     \/ ~conflict /\ NoEntry(o, dir.doc) /\ ToRelease(c, FALSE)
     \/ /\ ~conflict /\ ~Full(o, dir.doc) /\ ~NoEntry(o, dir.doc)
        /\ call' = [call EXCEPT ![c].pc = "write", ![c].base = dir.doc]
  /\ UNCHANGED <<files, prov>>

\* Create, write, chmod and flush the temporary.
WriteTemporary(c) ==
  /\ At(c, "write") /\ Running(c)
  /\ temps' = temps \cup {c}
  /\ Goto(c, "precommit")
  /\ UNCHANGED <<dir, disk, rootDurable, written, prov>>

\* A failure before publication removes the temporary if it exists; one that
\* cannot be removed is remembered for the next acquisition.
WriteThrow(c) ==
  /\ call[c].pc \in {"write", "precommit", "rename"}
  /\ Running(c)
  /\ ToRelease(c, TRUE)
  /\ \/ temps' = temps \ {c} /\ UNCHANGED prov
     \/ /\ temps' = temps \cup {c}
        /\ prov' = [prov EXCEPT ![Home[c]].pendingTmp = c]
  /\ UNCHANGED <<dir, disk, rootDurable, written>>

\* beforeCommit: ownership and deadline, checked around the last lookups.
PreCommit(c) ==
  /\ At(c, "precommit") /\ Running(c)
  /\ Owns(c)
  /\ Goto(c, "rename")
  /\ UNCHANGED <<files, prov>>

\* Mutant: published() is not called after the rename.
PublishSilently(c) ==
  /\ At(c, "rename") /\ Running(c)
  /\ dir' = [dir EXCEPT !.doc = Mutate(c, call[c].op, call[c].base)]
  /\ temps' = temps \ {c}
  /\ Goto(c, "barrier")
  /\ UNCHANGED <<disk, rootDurable, written, prov>>

\* publishPinnedStateFile: the rename makes the mutation visible.
Publish(c) ==
  /\ At(c, "rename") /\ Running(c)
  /\ dir' = [dir EXCEPT !.doc = Mutate(c, call[c].op, call[c].base)]
  /\ temps' = temps \ {c}
  /\ call' = [call EXCEPT ![c].pc = "barrier", ![c].committed = TRUE]
  /\ UNCHANGED <<disk, rootDurable, written, prov>>

\* Mutant: durability is claimed whatever the state of the root.
BarrierOptimistic(c) ==
  /\ At(c, "barrier") /\ Running(c)
  /\ disk' = dir
  /\ call' = [call EXCEPT ![c].pc = "release", ![c].durable = TRUE]
  /\ UNCHANGED <<dir, rootDurable, written, temps, prov>>

\* The directory flush.  Durability is claimed only over an established root;
\* a failed flush, or a deadline after it, reports a committed failure.
Barrier(c) ==
  /\ At(c, "barrier") /\ Running(c)
  /\ \/ /\ disk' = dir
        /\ \E failed \in BOOLEAN :
             call' = [call EXCEPT ![c].pc = "release", ![c].err = failed,
                                  ![c].durable = prov[Home[c]].barrier]
     \/ ToRelease(c, TRUE) /\ UNCHANGED disk
  /\ UNCHANGED <<dir, rootDurable, written, temps, prov>>

-----------------------------------------------------------------------------
(* #releaseMutationLock: look the lock up by name, then unlink it by name.  *)

\* Mutant: a failed release is not remembered.
ReleaseForgetting(c) ==
  /\ At(c, "release") /\ Running(c)
  /\ \/ Owns(c) /\ Goto(c, "unlink") /\ UNCHANGED prov
     \/ ToReport(c, TRUE) /\ Yield(c)
  /\ UNCHANGED files

\* Only this call's own inode is unlinked.  A lock that disappeared makes the
\* provider uncertain; any other failure defers the release.
Release(c) ==
  /\ At(c, "release") /\ Running(c)
  /\ \/ Owns(c) /\ Goto(c, "unlink") /\ UNCHANGED prov
     \/ /\ dir.lock = None
        /\ prov' = [prov EXCEPT ![Home[c]].uncertain = TRUE,
                                ![Home[c]].run = None]
        /\ ToReport(c, TRUE)
     \/ /\ dir.lock # None
        /\ prov' = [prov EXCEPT
             ![Home[c]].pendingLock = [by |-> c, ino |-> call[c].ino],
             ![Home[c]].run = None]
        /\ ToReport(c, TRUE)
  /\ UNCHANGED files

UnlinkLock(c) ==
  /\ At(c, "unlink") /\ Running(c)
  /\ dir' = [dir EXCEPT !.lock = None]
  /\ ToReport(c, call[c].err)
  /\ Yield(c)
  /\ UNCHANGED <<disk, rootDurable, written, temps>>

\* The catch block of invoke runs in a later microtask, when a sibling call may
\* have completed a deferred release or lost its lock.  A failure after
\* publication becomes a StateCommitAcknowledgementError carrying
\* #lockCleanupState; an earlier one stays a plain error.
Report(c) ==
  /\ At(c, "report")
  /\ Alive(c)
  /\ prov[Home[c]].run = None
  /\ call' = Settled(c,
       CASE ~call[c].err /\ call[c].committed -> "ok"
         [] ~call[c].err /\ ~call[c].committed -> "unchanged"
         [] call[c].err /\ ~call[c].committed -> "failed"
         [] call[c].err /\ call[c].committed /\ Unresolved(Home[c]) -> "ackUnresolved"
         [] OTHER -> "ackConfirmed")
  /\ UNCHANGED <<files, prov>>

-----------------------------------------------------------------------------
(* The environment: crashes and write-back.                                 *)

\* A crash takes the process and its unfinished calls.
Kill(S) ==
  /\ prov' = [p \in Procs |->
       IF p \in S THEN [FreshProvider EXCEPT !.status = "dead"] ELSE prov[p]]
  /\ call' = [c \in Calls |->
       IF Home[c] \in S /\ ~At(c, "done")
         THEN [FreshCall EXCEPT !.pc = "dead", !.durable = call[c].durable]
         ELSE call[c]]

Up == {p \in Procs : prov[p].status = "up"}

ProcessCrash(p) == p \in Up /\ Kill({p}) /\ UNCHANGED files

\* Every process dies; the directory is what was flushed, or nothing when the
\* entry naming the root never was.
HostCrash ==
  /\ Up # {}
  /\ Kill(Up)
  /\ \/ dir' = disk
     \/ ~rootDurable /\ dir' = EmptyDirectory
  /\ disk' = dir'
  /\ UNCHANGED <<rootDurable, written, temps>>

\* The kernel may write the directory back at any time.
WriteBack ==
  /\ disk # dir
  /\ disk' = dir
  /\ UNCHANGED <<dir, rootDurable, written, temps, prov, call>>

-----------------------------------------------------------------------------
CallStep(c) ==
  \/ ReadStat(c) \/ ReadOpen(c)
  \/ LoopThrow(c) \/ RetryTemporary(c) \/ RetryRelease(c) \/ RetryUnlink(c)
  \/ (\E i \in Inodes : CreateLock(c, i)) \/ LockExists(c) \/ InitLock(c)
  \/ StatLock(c) \/ InspectOwner(c) \/ CreateClaim(c) \/ RecheckLock(c)
  \/ UnlinkStale(c) \/ Unclaim(c) \/ Resume(c)
  \/ OperationThrow(c) \/ ReadForUpdate(c) \/ WriteTemporary(c)
  \/ WriteThrow(c) \/ PreCommit(c) \/ Publish(c) \/ Barrier(c)
  \/ Release(c) \/ UnlinkLock(c) \/ Report(c)

ProcessStep ==
  \/ \E p \in Procs, b \in BOOLEAN : Start(p, b)
  \/ \E c \in Calls, o \in Requests : Invoke(c, o)
  \/ \E c \in Calls : CallStep(c)
  \/ \E p \in Procs : ProcessCrash(p)

HostStep == HostCrash \/ WriteBack

Next == ProcessStep \/ HostStep

Spec == Init /\ [][Next]_vars

\* The host stays up: only processes crash.
ProcessSpec == Init /\ [][ProcessStep]_vars

(* Every call returns: the thread keeps running the occupying call, the     *)
(* contention timer of a waiting call fires, the microtask of a settled     *)
(* promise runs, and the lock deadline, checked on every turn of the loop,  *)
(* is reached.                                                              *)
Fairness == \A c \in Calls :
  /\ WF_vars(CallStep(c))
  /\ SF_vars(Resume(c))
  /\ SF_vars(Report(c))
  /\ SF_vars(LoopThrow(c))

FairSpec == ProcessSpec /\ Fairness

-----------------------------------------------------------------------------
Points == {"idle", "rstat", "ropen"} \cup Holding \cup Claiming \cup Waiting
          \cup Over
Outcomes == {"none", "read", "ok", "unchanged", "failed",
             "ackConfirmed", "ackUnresolved"}
Provider ==
  [status : {"fresh", "up", "dead"}, run : Calls \cup {None},
   barrier : BOOLEAN, pendingLock : LockFiles, pendingTmp : Calls \cup {None},
   uncertain : BOOLEAN]
Call ==
  [pc : Points, op : Operation \cup {None}, ino : Inodes \cup {None},
   seen : LockFiles, base : Document, tries : 0 .. MaxReadAttempts,
   err : BOOLEAN, committed : BOOLEAN, durable : BOOLEAN, result : Outcomes]

\* The values of the directory, the providers' fields and the calls' locals.
TypeOK ==
  /\ dir \in Directory
  /\ disk \in Directory
  /\ rootDurable \in BOOLEAN
  /\ written \in SUBSET Calls
  /\ temps \in SUBSET Calls
  /\ prov \in [Procs -> Provider]
  /\ call \in [Calls -> Call]

\* Two calls, of one process or of two, are never inside the critical section
\* of #withMutationLockLocked together, whatever crashes, reclaims and recycled
\* inode numbers happen in between.
MutualExclusion ==
  \A c, d \in Calls : call[c].pc \in Holding /\ call[d].pc \in Holding => c = d

\* The document #commitSetValue read is still the published one when its
\* successor is renamed over it: no mutation is lost to a stale read.
NoLostUpdate ==
  \A c \in Calls :
    call[c].pc \in {"write", "precommit", "rename"} => call[c].base = dir.doc

\* Between the re-check of #reclaimStaleLock and its unlink the name still
\* denotes the dead owner's lock, so the unlink cannot hit a newer owner.
ReclaimHitsDeadOwner ==
  \A c \in Calls :
    At(c, "unlinkStale") =>
      /\ dir.lock # None
      /\ dir.lock.by = call[c].seen.by
      /\ ~Alive(dir.lock.by)

\* A lock is removed only by the release of its own call or once its process
\* is dead: #removeNamedEntry never deletes a live writer's lock.
LiveLockKept ==
  [][dir.lock # None /\ dir'.lock # dir.lock =>
       LET owner == dir.lock.by IN
       \/ ~Alive(owner) \/ prov'[Home[owner]].status # "up"
       \/ call[owner].pc \in {"unlink", "report", "done"}]_vars

\* A lock file of a live process is held by a call in progress, remembered in
\* #pendingLockCleanup, or declared by #uncertainLock: never silently leaked.
LockAccounted ==
  dir.lock # None /\ Alive(dir.lock.by) =>
    \/ call[dir.lock.by].pc \in Holding
    \/ prov[Home[dir.lock.by]].uncertain
    \/ prov[Home[dir.lock.by]].pendingLock = dir.lock

\* What a call reports is true: a plain failure published nothing; a success
\* or a StateCommitAcknowledgementError published the mutation (as long as the
\* host stays up); a "confirmed" lock cleanup left no lock behind.
TruthfulOutcome ==
  \A c \in Calls :
    /\ call[c].result = "failed" => c \notin dir.doc.log
    /\ Alive(c) /\ call[c].result \in {"ok", "ackConfirmed", "ackUnresolved"}
         => c \in dir.doc.log
    /\ Alive(c) /\ call[c].result = "ackConfirmed"
         => dir.lock = None \/ dir.lock.by # c

\* A mutation reported durable is in the image a host crash leaves behind.
DurabilityTruth == \A c \in Calls : call[c].durable => c \in disk.doc.log

\* Every call returns or dies with its process, also behind an orphaned lock
\* or claim that nobody can remove.
CallsReturn ==
  \A c \in Calls : ~At(c, "idle") ~> call[c].pc \in Finished

-----------------------------------------------------------------------------
(* The inductive invariant behind the safety properties.                    *)

\* A call in progress occupies its thread or is parked in a live process;
\* a process that has not started has no calls.
OneThread ==
  /\ \A c \in Calls :
       call[c].pc \notin {"idle"} \cup Parked \cup Finished => Running(c)
  /\ \A c \in Calls : call[c].pc \in Parked => Alive(c)
  /\ \A c \in Calls : prov[Home[c]].status = "fresh" => At(c, "idle")

\* A call in the critical section, or a deferred release, owns the lock file.
OwnersOwn ==
  /\ \A c \in Calls :
       call[c].pc \in Holding =>
         dir.lock # None /\ dir.lock.by = c /\ dir.lock.ino = call[c].ino
  /\ \A p \in Procs : prov[p].pendingLock # None =>
       /\ prov[p].status = "up"
       /\ dir.lock = prov[p].pendingLock
       /\ Home[dir.lock.by] = p
       /\ call[dir.lock.by].pc \in {"report", "done"}
  /\ \A c \in Calls :
       At(c, "retryUnlink") => prov[Home[c]].pendingLock # None

\* The lock file, on disk too, was created by a call that still holds it or is
\* over: a call never comes back to creating one.
LockHasOwner ==
  /\ dir.lock # None => call[dir.lock.by].pc \in Holding \cup Over
  /\ disk.lock # None => call[disk.lock.by].pc \in Holding \cup Over

\* A recovery claim is exclusive per token, and the re-checked lock stays.
ClaimsExclusive ==
  /\ \A c \in Calls :
       call[c].pc \in {"inspect", "claim"} \cup Claiming => call[c].seen # None
  /\ \A c \in Calls :
       call[c].pc \in Claiming => call[c].seen.by \in dir.claims
  /\ \A c, d \in Calls :
       /\ call[c].pc \in Claiming /\ call[d].pc \in Claiming
       /\ call[c].seen.by = call[d].seen.by
       => c = d
  /\ ReclaimHitsDeadOwner

\* The lock protocol: what makes the critical section exclusive.
LockInvariant ==
  TypeOK /\ OneThread /\ OwnersOwn /\ LockHasOwner /\ ClaimsExclusive
         /\ NoLostUpdate

\* What a durable mutation rests on: a flushed root and a growing document.
DurableInvariant ==
  /\ \A p \in Procs : prov[p].barrier => rootDurable
  /\ \A c \in Calls : At(c, "barrier") => c \in dir.doc.log
  /\ \A c \in Calls : call[c].durable =>
       rootDurable /\ c \in dir.doc.log /\ c \in disk.doc.log

-----------------------------------------------------------------------------
(* The files, locks and crashes above implement the atomic document.        *)
Atomic == INSTANCE AtomicState WITH
  document <- dir.doc,
  image <- disk.doc,
  confirmed <- {c \in Calls : call[c].durable},
  outcome <- [c \in Calls |-> call[c].result]

\* Every behaviour of the store is one of AtomicState: the rename is the point
\* at which #commitSetValue or a delete takes effect, atomically.
Linearizable == Atomic!AtomicSpec

-----------------------------------------------------------------------------
(* A rarer failure, kept apart from Next because it breaks a promise the    *)
(* comments of the code make.                                               *)

\* #removeNamedEntry unlinks the lock, and the #assertRoot after the unlink
\* throws (the root is briefly unreadable or not private).  The finally block
\* takes this for a failed release and defers it.
UnlinkThenRootFault(c) ==
  /\ At(c, "unlink") /\ Running(c)
  /\ dir' = [dir EXCEPT !.lock = None]
  /\ prov' = [prov EXCEPT
       ![Home[c]].pendingLock = [by |-> c, ino |-> call[c].ino],
       ![Home[c]].run = None]
  /\ ToReport(c, TRUE)
  /\ UNCHANGED <<disk, rootDurable, written, temps>>

RootFaultSpec ==
  Init /\ [][ProcessStep \/ \E c \in Calls : UnlinkThenRootFault(c)]_vars
=============================================================================
