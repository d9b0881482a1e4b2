-------------------------- MODULE StateStoreProofs --------------------------
(***************************************************************************)
(* StateStore, for any number of processes, calls, keys and inode numbers, *)
(* with process and host crashes.  First the lock protocol is correct.     *)
(* Then what a call reports is true: a durable mutation survives a host    *)
(* crash, an outcome says whether the mutation happened, and no lock is    *)
(* leaked silently.  Together they show that the store implements the      *)
(* atomic document of AtomicState.                                         *)
(***************************************************************************)
EXTENDS StateStore, TLAPS

-----------------------------------------------------------------------------
(* Typing, one group of variables at a time.                                *)

\* The control points of a call, listed.
LEMMA PointNames ==
  Points = {"idle", "rstat", "ropen", "init", "held", "write", "precommit",
            "rename", "barrier", "release", "unlink", "claimed",
            "unlinkStale", "unclaim", "loop", "retryUnlink", "stat",
            "inspect", "claim", "wait", "report", "done", "dead"}
BY DEF Points, Holding, Claiming, Waiting, Over, Finished

\* The initial records are of their types.
LEMMA EmptyTyped ==
  /\ EmptyDocument \in Document
  /\ EmptyDirectory \in Directory
  /\ FreshProvider \in Provider
  /\ FreshCall \in Call
<1>1. EmptyDocument \in Document
  BY DEF EmptyDocument, Document
<1>2. EmptyDirectory \in Directory
  BY <1>1 DEF EmptyDirectory, Directory, LockFiles
<1>3. FreshProvider \in Provider
  BY DEF FreshProvider, Provider, LockFiles
<1>4. FreshCall \in Call
  BY <1>1, StoreAssumption, PointNames DEF FreshCall, Call, LockFiles, Outcomes
<1> QED BY <1>1, <1>2, <1>3, <1>4

\* A mutation of a document is a document.
LEMMA MutateTyped ==
  ASSUME NEW c \in Calls, NEW o, NEW d \in Document
  PROVE  Mutate(c, o, d) \in Document
<1> DEFINE v == IF o.kind = "set" THEN d.revision + 1 ELSE 0
<1>1. d.revision \in Nat /\ d.entries \in [Keys -> Nat] /\ d.log \subseteq Calls
  BY DEF Document
<1>2. v \in Nat
  BY <1>1
<1> HIDE DEF v
<1>3. [d.entries EXCEPT ![o.key] = v] \in [Keys -> Nat]
  BY <1>1, <1>2
<1>4. d.revision + 1 \in Nat /\ d.log \cup {c} \subseteq Calls
  BY <1>1
<1> QED BY <1>3, <1>4 DEF Mutate, Document, v

\* Updating some fields of one call, or of one provider, keeps the type.
LEMMA PcTyped ==
  ASSUME NEW f \in [Calls -> Call], NEW c \in Calls, NEW x \in Points
  PROVE  [f EXCEPT ![c].pc = x] \in [Calls -> Call]
BY DEF Call

\* The typed updates of a call: one lemma per set of fields that a step of
\* state-provider.ts assigns together.  This one records an error.
LEMMA ErrTyped ==
  ASSUME NEW f \in [Calls -> Call], NEW c \in Calls, NEW x \in Points,
         NEW b \in BOOLEAN
  PROVE  [f EXCEPT ![c].pc = x, ![c].err = b] \in [Calls -> Call]
BY ZenonT(60) DEF Call

\* A step that records whether its effect is durable, and an error.
LEMMA DurableTyped ==
  ASSUME NEW f \in [Calls -> Call], NEW c \in Calls, NEW x \in Points,
         NEW b \in BOOLEAN, NEW d \in BOOLEAN
  PROVE  [f EXCEPT ![c].pc = x, ![c].err = b, ![c].durable = d] \in [Calls -> Call]
<1>1. [f EXCEPT ![c].pc = x, ![c].err = b] \in [Calls -> Call]
  BY ErrTyped
<1> DEFINE g == [f EXCEPT ![c].pc = x, ![c].err = b]
<1> HIDE DEF g
<1>2. g \in [Calls -> Call] => [g EXCEPT ![c].durable = d] \in [Calls -> Call]
  BY DEF Call
<1> QED BY <1>1, <1>2 DEF g

\* A step that records whether the call has committed.
LEMMA CommittedTyped ==
  ASSUME NEW f \in [Calls -> Call], NEW c \in Calls, NEW x \in Points,
         NEW b \in BOOLEAN
  PROVE  [f EXCEPT ![c].pc = x, ![c].committed = b] \in [Calls -> Call]
BY ZenonT(60) DEF Call

\* A step that records the document the call read.
LEMMA BaseTyped ==
  ASSUME NEW f \in [Calls -> Call], NEW c \in Calls, NEW x \in Points,
         NEW d \in Document
  PROVE  [f EXCEPT ![c].pc = x, ![c].base = d] \in [Calls -> Call]
BY ZenonT(60) DEF Call

\* A step that records the lock file the call saw.
LEMMA SeenTyped ==
  ASSUME NEW f \in [Calls -> Call], NEW c \in Calls, NEW x \in Points,
         NEW l \in LockFiles
  PROVE  [f EXCEPT ![c].pc = x, ![c].seen = l] \in [Calls -> Call]
BY ZenonT(60) DEF Call

\* A step that records the inode of the lock the call took.
LEMMA InoTyped ==
  ASSUME NEW f \in [Calls -> Call], NEW c \in Calls, NEW x \in Points,
         NEW i \in Inodes
  PROVE  [f EXCEPT ![c].pc = x, ![c].ino = i] \in [Calls -> Call]
BY ZenonT(60) DEF Call

\* A step that counts the attempts of the call.
LEMMA TriesTyped ==
  ASSUME NEW f \in [Calls -> Call], NEW c \in Calls, NEW x \in Points,
         NEW n \in 0 .. MaxReadAttempts
  PROVE  [f EXCEPT ![c].pc = x, ![c].tries = n] \in [Calls -> Call]
BY ZenonT(60) DEF Call

\* A step that records the operation of the call.
LEMMA OpTyped ==
  ASSUME NEW f \in [Calls -> Call], NEW c \in Calls, NEW x \in Points,
         NEW o \in Operation
  PROVE  [f EXCEPT ![c].op = o, ![c].pc = x] \in [Calls -> Call]
BY ZenonT(60) DEF Call

\* The typed updates of a provider.  This one hands its thread to a call.
LEMMA RunTyped ==
  ASSUME NEW f \in [Procs -> Provider], NEW p \in Procs, NEW r \in Calls \cup {None}
  PROVE  [f EXCEPT ![p].run = r] \in [Procs -> Provider]
BY DEF Provider

\* A step that records the lock whose release is pending.
LEMMA PendingLockTyped ==
  ASSUME NEW f \in [Procs -> Provider], NEW p \in Procs, NEW l \in LockFiles
  PROVE  [f EXCEPT ![p].pendingLock = l] \in [Procs -> Provider]
BY DEF Provider

\* A step that defers the release of a lock and ends the call.
LEMMA DeferredTyped ==
  ASSUME NEW f \in [Procs -> Provider], NEW p \in Procs, NEW l \in LockFiles
  PROVE  [f EXCEPT ![p].pendingLock = l, ![p].run = None] \in [Procs -> Provider]
BY DEF Provider

\* A step that records the temporary file that was not removed.
LEMMA PendingTmpTyped ==
  ASSUME NEW f \in [Procs -> Provider], NEW p \in Procs, NEW t \in Calls \cup {None}
  PROVE  [f EXCEPT ![p].pendingTmp = t] \in [Procs -> Provider]
BY DEF Provider

\* A step that leaves the durability uncertain and ends the call.
LEMMA UncertainTyped ==
  ASSUME NEW f \in [Procs -> Provider], NEW p \in Procs
  PROVE  [f EXCEPT ![p].uncertain = TRUE, ![p].run = None] \in [Procs -> Provider]
BY DEF Provider

\* A process starts.
LEMMA StartTyped ==
  ASSUME NEW f \in [Procs -> Provider], NEW p \in Procs, NEW b \in BOOLEAN
  PROVE  [f EXCEPT ![p].status = "up", ![p].barrier = b] \in [Procs -> Provider]
BY ZenonT(60) DEF Provider

\* A call that settles is still a call.
LEMMA SettledTyped ==
  ASSUME call \in [Calls -> Call], NEW c \in Calls, NEW r \in Outcomes
  PROVE  Settled(c, r) \in [Calls -> Call]
<1>1. call[c].durable \in BOOLEAN
  BY DEF Call
<1>2. [FreshCall EXCEPT !.pc = "done", !.result = r, !.durable = call[c].durable] \in Call
  BY <1>1, EmptyTyped, PointNames DEF FreshCall, Call
<1> QED BY <1>2 DEF Settled

\* A call on its way to report is still a call.
LEMMA ReportTyped ==
  ASSUME call \in [Calls -> Call], NEW c \in Calls, NEW b \in BOOLEAN, ToReport(c, b)
  PROVE  call' \in [Calls -> Call]
<1>1. call[c].committed \in BOOLEAN /\ call[c].durable \in BOOLEAN
  BY DEF Call
<1> DEFINE over == [FreshCall EXCEPT !.pc = "report", !.err = b,
                      !.committed = call[c].committed, !.durable = call[c].durable]
<1>2. over \in Call
  BY <1>1, EmptyTyped, PointNames DEF FreshCall, Call
<1> HIDE DEF over
<1> QED BY <1>2 DEF ToReport, over

\* The death of processes leaves providers and calls of their types.
LEMMA KillTyped ==
  ASSUME prov \in [Procs -> Provider], call \in [Calls -> Call], NEW S, Kill(S)
  PROVE  prov' \in [Procs -> Provider] /\ call' \in [Calls -> Call]
<1>1. [FreshProvider EXCEPT !.status = "dead"] \in Provider
  BY EmptyTyped DEF Provider, FreshProvider
<1>2. ASSUME NEW c \in Calls
      PROVE [FreshCall EXCEPT !.pc = "dead", !.durable = call[c].durable] \in Call
  <2>1. call[c].durable \in BOOLEAN
    BY DEF Call
  <2> QED BY <2>1, EmptyTyped, PointNames DEF FreshCall, Call
<1> QED BY <1>1, <1>2 DEF Kill

\* The lock-file typing a step needs beyond TypeOK.
LEMMA OwnLockTyped ==
  ASSUME TypeOK, OwnersOwn, NEW c \in Calls, call[c].pc \in Holding
  PROVE  [by |-> c, ino |-> call[c].ino] \in LockFile
<1>1. dir.lock # None /\ dir.lock.by = c /\ dir.lock.ino = call[c].ino
  BY DEF OwnersOwn
<1>2. dir.lock \in LockFile
  BY <1>1 DEF TypeOK, Directory, LockFiles
<1> QED BY <1>1, <1>2 DEF LockFile

\* Steps a call takes keep the type of the calls ...
LEMMA CallTypeStep ==
  ASSUME TypeOK, NEW c \in Calls, CallStep(c)
  PROVE  call' \in [Calls -> Call]
<1>1. call \in [Calls -> Call] /\ dir.doc \in Document /\ dir.lock \in LockFiles
      /\ prov[Home[c]].barrier \in BOOLEAN
  BY StoreAssumption DEF TypeOK, Directory, Provider
<1>2. ASSUME NEW r \in Outcomes, call' = Settled(c, r) PROVE call' \in [Calls -> Call]
  BY <1>1, <1>2, SettledTyped
<1>3. ASSUME NEW x \in Points, Goto(c, x) PROVE call' \in [Calls -> Call]
  BY <1>1, <1>3, PcTyped DEF Goto
<1>4. ASSUME NEW b \in BOOLEAN, ToRelease(c, b) PROVE call' \in [Calls -> Call]
  <2>1. "release" \in Points
    BY PointNames
  <2> QED BY <1>1, <1>4, <2>1, ErrTyped DEF ToRelease
<1>5. ASSUME Throw(c) PROVE call' \in [Calls -> Call]
  BY <1>2, <1>5 DEF Throw, Outcomes
<1>6. ASSUME call' = [call EXCEPT ![c].pc = "unclaim", ![c].err = TRUE]
      PROVE  call' \in [Calls -> Call]
  <2>1. "unclaim" \in Points
    BY PointNames
  <2> QED BY <1>1, <1>6, <2>1, ErrTyped
<1>7. CASE ReadStat(c)
  <2>1. ASSUME NEW x \in Points
        PROVE  [call EXCEPT ![c].pc = x, ![c].base = dir.doc] \in [Calls -> Call]
    BY <1>1, BaseTyped
  <2>2. "ropen" \in Points /\ "read" \in Outcomes
    BY PointNames DEF Outcomes
  <2> QED BY <1>7, <2>1, <2>2, <1>2 DEF ReadStat
<1>8. CASE ReadOpen(c)
  <2>1. CASE call' = Settled(c, "read")
    BY <2>1, <1>2 DEF Outcomes
  <2>2. CASE Throw(c)
    BY <2>2, <1>5
  <2>3. CASE /\ call[c].tries + 1 < MaxReadAttempts
             /\ call' = [call EXCEPT ![c].pc = "rstat", ![c].tries = call[c].tries + 1]
    <3>1. call[c].tries + 1 \in 0 .. MaxReadAttempts
      BY <1>1, <2>3, StoreAssumption DEF Call
    <3>2. "rstat" \in Points
      BY PointNames
    <3> QED BY <2>3, <3>1, <3>2, <1>1, TriesTyped
  <2> QED BY <1>8, <2>1, <2>2, <2>3 DEF ReadOpen
<1>9. CASE LoopThrow(c)
  BY <1>9, <1>5 DEF LoopThrow
<1>10. CASE RetryTemporary(c) \/ RetryRelease(c) \/ RetryUnlink(c)
  BY <1>10, <1>1, <1>2, <1>3, PointNames
  DEF RetryTemporary, RetryRelease, RetryUnlink, Outcomes
<1>11. CASE \E i \in Inodes : CreateLock(c, i)
  <2>1. PICK i \in Inodes : CreateLock(c, i)
    BY <1>11
  <2>2. "init" \in Points
    BY PointNames
  <2>3. [call EXCEPT ![c].pc = "init", ![c].ino = i] \in [Calls -> Call]
    BY <1>1, <2>2, InoTyped
  <2> QED BY <2>1, <2>3 DEF CreateLock
<1>12. CASE LockExists(c) \/ InitLock(c)
  BY <1>12, <1>2, <1>3, <1>4, PointNames DEF LockExists, InitLock, Outcomes
<1>13. CASE StatLock(c) \/ InspectOwner(c)
  <2>1. ASSUME NEW x \in Points
        PROVE  [call EXCEPT ![c].pc = x, ![c].seen = dir.lock] \in [Calls -> Call]
    BY <1>1, SeenTyped
  <2>2. {"wait", "inspect", "claim"} \subseteq Points
    BY PointNames
  <2> QED BY <1>13, <2>1, <2>2, <1>3 DEF StatLock, InspectOwner, Wait
<1>14. CASE CreateClaim(c) \/ RecheckLock(c) \/ UnlinkStale(c)
  BY <1>14, <1>3, <1>6, PointNames DEF CreateClaim, RecheckLock, UnlinkStale, Wait
<1>15. CASE Unclaim(c)
  BY <1>15, <1>2, <1>3, <1>5, PointNames DEF Unclaim, Wait, Outcomes
<1>16. CASE Resume(c)
  <2>1. None \in LockFiles
    BY DEF LockFiles
  <2>2. ASSUME NEW x \in Points
        PROVE  [call EXCEPT ![c].pc = x, ![c].seen = None] \in [Calls -> Call]
    BY <1>1, <2>1, SeenTyped
  <2> QED BY <1>16, <2>2, PointNames DEF Resume
<1>17. CASE OperationThrow(c) \/ ReadForUpdate(c)
  <2>1. ASSUME NEW x \in Points
        PROVE  [call EXCEPT ![c].pc = x, ![c].base = dir.doc] \in [Calls -> Call]
    BY <1>1, BaseTyped
  <2>2. "write" \in Points
    BY PointNames
  <2> QED BY <1>17, <2>1, <2>2, <1>4 DEF OperationThrow, ReadForUpdate
<1>18. CASE WriteTemporary(c) \/ WriteThrow(c) \/ PreCommit(c)
  BY <1>18, <1>3, <1>4, PointNames DEF WriteTemporary, WriteThrow, PreCommit
<1>19. CASE Publish(c)
  <2>1. "barrier" \in Points
    BY PointNames
  <2> QED BY <1>19, <1>1, <2>1, CommittedTyped DEF Publish
<1>20. CASE Barrier(c)
  <2>1. ASSUME NEW b \in BOOLEAN, NEW d \in BOOLEAN
        PROVE  [call EXCEPT ![c].pc = "release", ![c].err = b, ![c].durable = d]
                 \in [Calls -> Call]
    <3>1. "release" \in Points
      BY PointNames
    <3> QED BY ZenonT(60), <1>1, <3>1, DurableTyped
  <2>3. CASE ToRelease(c, TRUE)
    BY <2>3, <1>4
  <2>4. ASSUME NEW b \in BOOLEAN,
               call' = [call EXCEPT ![c].pc = "release", ![c].err = b,
                                    ![c].durable = prov[Home[c]].barrier]
        PROVE  call' \in [Calls -> Call]
    BY <1>1, <2>1, <2>4, Zenon
  <2> QED BY <1>20, <2>3, <2>4 DEF Barrier
<1>21. CASE Release(c) \/ UnlinkLock(c)
  <2>1. call[c].err \in BOOLEAN
    BY <1>1 DEF Call
  <2>2. ASSUME NEW b \in BOOLEAN, ToReport(c, b) PROVE call' \in [Calls -> Call]
    BY <1>1, <2>2, ReportTyped
  <2> QED BY <1>21, <1>3, <2>1, <2>2, PointNames DEF Release, UnlinkLock
<1>22. CASE Report(c)
  BY <1>22, <1>2 DEF Report, Outcomes
<1> QED
  BY <1>7, <1>8, <1>9, <1>10, <1>11, <1>12, <1>13, <1>14, <1>15, <1>16, <1>17,
     <1>18, <1>19, <1>20, <1>21, <1>22 DEF CallStep

\* ... and of the providers ...
LEMMA ProvTypeStep ==
  ASSUME TypeOK, OwnersOwn, NEW c \in Calls, CallStep(c)
  PROVE  prov' \in [Procs -> Provider]
<1>1. prov \in [Procs -> Provider] /\ Home[c] \in Procs
  BY StoreAssumption DEF TypeOK
<1>2. ASSUME Yield(c) PROVE prov' \in [Procs -> Provider]
  BY <1>1, <1>2, RunTyped DEF Yield
<1>3. ASSUME prov' = [prov EXCEPT ![Home[c]].uncertain = TRUE, ![Home[c]].run = None]
      PROVE  prov' \in [Procs -> Provider]
  BY <1>1, <1>3, UncertainTyped
<1>4. CASE ReadStat(c) \/ ReadOpen(c) \/ LoopThrow(c) \/ UnlinkLock(c)
  BY <1>4, <1>1, <1>2 DEF ReadStat, ReadOpen, LoopThrow, UnlinkLock, Throw
<1>5. CASE RetryTemporary(c)
  BY <1>5, <1>1, PendingTmpTyped DEF RetryTemporary
<1>6. CASE RetryRelease(c)
  BY <1>6, <1>1, <1>3 DEF RetryRelease
<1>7. CASE RetryUnlink(c)
  <2>1. [prov EXCEPT ![Home[c]].pendingLock = None] \in [Procs -> Provider]
    BY <1>1, PendingLockTyped DEF LockFiles
  <2> QED BY <1>7, <2>1 DEF RetryUnlink
<1>8. CASE (\E i \in Inodes : CreateLock(c, i)) \/ LockExists(c) \/ RecheckLock(c)
           \/ UnlinkStale(c) \/ Report(c)
  BY <1>8, <1>1 DEF CreateLock, LockExists, RecheckLock, UnlinkStale, Report
<1>9. CASE InitLock(c)
  BY <1>9, <1>1, <1>3 DEF InitLock
<1>10. CASE StatLock(c) \/ InspectOwner(c) \/ CreateClaim(c) \/ Unclaim(c)
  BY <1>10, <1>1, <1>2, <1>3
  DEF StatLock, InspectOwner, CreateClaim, Unclaim, Wait, Throw
<1>11. CASE Resume(c)
  <2>1. [prov EXCEPT ![Home[c]].run = c] \in [Procs -> Provider]
    BY <1>1, RunTyped
  <2> QED BY <1>11, <2>1 DEF Resume
<1>12. CASE OperationThrow(c) \/ ReadForUpdate(c) \/ WriteTemporary(c) \/ PreCommit(c)
            \/ Publish(c) \/ Barrier(c)
  BY <1>12, <1>1
  DEF OperationThrow, ReadForUpdate, WriteTemporary, PreCommit, Publish, Barrier
<1>13. CASE WriteThrow(c)
  <2>1. [prov EXCEPT ![Home[c]].pendingTmp = c] \in [Procs -> Provider]
    BY <1>1, PendingTmpTyped
  <2> QED BY <1>13, <1>1, <2>1 DEF WriteThrow
<1>14. CASE Release(c)
  <2>1. [by |-> c, ino |-> call[c].ino] \in LockFiles
    BY <1>14, OwnLockTyped DEF Release, At, Holding, LockFiles
  <2>2. [prov EXCEPT ![Home[c]].pendingLock = [by |-> c, ino |-> call[c].ino],
                     ![Home[c]].run = None] \in [Procs -> Provider]
    BY <1>1, <2>1, DeferredTyped
  <2> QED BY <1>14, <1>1, <1>3, <2>2 DEF Release
<1> QED BY <1>4, <1>5, <1>6, <1>7, <1>8, <1>9, <1>10, <1>11, <1>12, <1>13, <1>14
  DEF CallStep

\* ... and of the files.
LEMMA FilesTypeStep ==
  ASSUME TypeOK, ClaimsExclusive, NEW c \in Calls, CallStep(c)
  PROVE  /\ dir' \in Directory /\ disk' \in Directory
         /\ rootDurable' \in BOOLEAN
         /\ written' \in SUBSET Calls /\ temps' \in SUBSET Calls
<1>1. /\ dir \in Directory /\ disk \in Directory /\ rootDurable \in BOOLEAN
      /\ written \subseteq Calls /\ temps \subseteq Calls
  BY DEF TypeOK
<1>2. [dir EXCEPT !.lock = None] \in Directory
  BY <1>1 DEF Directory, LockFiles
<1>3. CASE UNCHANGED files
  BY <1>3, <1>1 DEF files
<1>4. CASE RetryTemporary(c) \/ InitLock(c) \/ WriteTemporary(c) \/ WriteThrow(c)
  BY <1>4, <1>1 DEF RetryTemporary, InitLock, WriteTemporary, WriteThrow
<1>5. CASE RetryUnlink(c) \/ UnlinkStale(c) \/ UnlinkLock(c)
  BY <1>5, <1>1, <1>2 DEF RetryUnlink, UnlinkStale, UnlinkLock
<1>6. CASE \E i \in Inodes : CreateLock(c, i)
  <2>1. PICK i \in Inodes : CreateLock(c, i)
    BY <1>6
  <2>2. [dir EXCEPT !.lock = [by |-> c, ino |-> i]] \in Directory
    BY <1>1 DEF Directory, LockFiles, LockFile
  <2> QED BY <2>1, <2>2, <1>1 DEF CreateLock
<1>7. CASE CreateClaim(c)
  <2>1. call[c].seen \in LockFile
    BY <1>7 DEF CreateClaim, At, ClaimsExclusive, TypeOK, Call, LockFiles
  <2>2. [dir EXCEPT !.claims = @ \cup {call[c].seen.by}] \in Directory
    BY <1>1, <2>1 DEF Directory, LockFile
  <2> QED BY <1>7, <1>1, <2>2 DEF CreateClaim
<1>8. CASE Unclaim(c)
  <2>1. [dir EXCEPT !.claims = @ \ {call[c].seen.by}] \in Directory
    BY <1>1 DEF Directory
  <2> QED BY <1>8, <1>1, <2>1 DEF Unclaim
<1>9. CASE Publish(c)
  <2>1. Mutate(c, call[c].op, call[c].base) \in Document
    BY MutateTyped DEF TypeOK, Call
  <2>2. [dir EXCEPT !.doc = Mutate(c, call[c].op, call[c].base)] \in Directory
    BY <1>1, <2>1 DEF Directory
  <2> QED BY <1>9, <1>1, <2>2 DEF Publish
<1>10. CASE Barrier(c)
  BY <1>10, <1>1 DEF Barrier
<1> QED BY <1>3, <1>4, <1>5, <1>6, <1>7, <1>8, <1>9, <1>10
  DEF CallStep, ReadStat, ReadOpen, LoopThrow, RetryRelease, LockExists, StatLock,
      InspectOwner, RecheckLock, Resume, OperationThrow, ReadForUpdate, PreCommit,
      Release, Report

\* Every step keeps the types.
LEMMA TypeStep ==
  ASSUME TypeOK, OwnersOwn, ClaimsExclusive, Next
  PROVE  TypeOK'
<1>1. ASSUME NEW c \in Calls, CallStep(c) PROVE TypeOK'
  BY <1>1, CallTypeStep, ProvTypeStep, FilesTypeStep DEF TypeOK
<1>2. /\ prov \in [Procs -> Provider] /\ call \in [Calls -> Call]
      /\ dir \in Directory /\ disk \in Directory /\ rootDurable \in BOOLEAN
      /\ written \subseteq Calls /\ temps \subseteq Calls
  BY DEF TypeOK
<1>3. ASSUME NEW p \in Procs, NEW b \in BOOLEAN, Start(p, b) PROVE TypeOK'
  <2>1. [prov EXCEPT ![p].status = "up", ![p].barrier = b] \in [Procs -> Provider]
    BY <1>2, StartTyped
  <2> QED BY <1>2, <1>3, <2>1 DEF Start, TypeOK
<1>4. ASSUME NEW c \in Calls, NEW o \in Requests, Invoke(c, o) PROVE TypeOK'
  <2>1. [prov EXCEPT ![Home[c]].run = c] \in [Procs -> Provider]
    BY <1>2, StoreAssumption, RunTyped
  <2>2. ASSUME NEW x \in Points
        PROVE  [call EXCEPT ![c].op = o, ![c].pc = x] \in [Calls -> Call]
    BY <1>2, OpTyped, DocumentAssumption
  <2> QED BY <1>2, <1>4, <2>1, <2>2, PointNames DEF Invoke, TypeOK, files
<1>5. ASSUME NEW p \in Procs, ProcessCrash(p) PROVE TypeOK'
  BY <1>2, <1>5, KillTyped DEF ProcessCrash, TypeOK, files
<1>6. CASE HostCrash
  <2>1. prov' \in [Procs -> Provider] /\ call' \in [Calls -> Call]
    BY <1>2, <1>6, KillTyped DEF HostCrash
  <2> QED BY <1>2, <1>6, <2>1, EmptyTyped DEF HostCrash, TypeOK
<1>7. CASE WriteBack
  BY <1>2, <1>7 DEF WriteBack, TypeOK
<1> QED BY <1>1, <1>3, <1>4, <1>5, <1>6, <1>7 DEF Next, ProcessStep, HostStep

-----------------------------------------------------------------------------
(* What one step of a call can change, as the invariants see it.            *)

\* Only this call and its own process change; the process is up and stays up;
\* afterwards the call still occupies the thread, waits, or is done.
FrameEffect(c) ==
  /\ \A d \in Calls \ {c} : call'[d] = call[d]
  /\ \A p \in Procs \ {Home[c]} : prov'[p] = prov[p]
  /\ prov[Home[c]].status = "up" /\ prov'[Home[c]].status = "up"
  /\ prov[Home[c]].run \in {None, c}
  /\ call[c].pc \notin {"idle", "done", "dead"}
  /\ call[c].pc = "report" => call'[c].pc = "done"
  /\ call'[c].pc # "idle"
  /\ call'[c].pc \in {"wait", "report", "done"} \/ prov'[Home[c]].run = c

\* Settling, or leaving the critical section, changes no other call.
LEMMA ReportEffect ==
  ASSUME call \in [Calls -> Call], NEW c \in Calls, NEW b, ToReport(c, b)
  PROVE  /\ \A d \in Calls \ {c} : call'[d] = call[d]
         /\ call'[c].pc = "report"
         /\ call'[c].durable = call[c].durable
BY DEF ToReport, FreshCall

\* Settling a call is over in one step and touches no other call.
LEMMA SettledEffect ==
  ASSUME call \in [Calls -> Call], NEW c \in Calls, NEW r, call' = Settled(c, r)
  PROVE  /\ \A d \in Calls \ {c} : call'[d] = call[d]
         /\ call'[c].pc = "done"
BY DEF Settled, FreshCall

\* The barrier hands the call on to the release and touches no other call.
LEMMA BarrierCall ==
  ASSUME call \in [Calls -> Call], NEW c \in Calls, Barrier(c)
  PROVE  /\ \A d \in Calls \ {c} : call'[d] = call[d]
         /\ call'[c].pc = "release"
         /\ call'[c].ino = call[c].ino
<1>1. ASSUME NEW b, NEW d,
             call' = [call EXCEPT ![c].pc = "release", ![c].err = b, ![c].durable = d]
      PROVE  /\ \A e \in Calls \ {c} : call'[e] = call[e]
             /\ call'[c].pc = "release"
             /\ call'[c].ino = call[c].ino
  BY <1>1 DEF Call
<1>2. CASE ToRelease(c, TRUE)
  BY <1>2 DEF ToRelease, Call
<1>3. CASE \E b \in BOOLEAN :
             call' = [call EXCEPT ![c].pc = "release", ![c].err = b,
                                  ![c].durable = prov[Home[c]].barrier]
  BY <1>1, <1>3, Zenon
<1> QED BY <1>2, <1>3 DEF Barrier

\* Every step of a call has the frame that FrameEffect states.
LEMMA FrameStep ==
  ASSUME TypeOK, NEW c \in Calls, CallStep(c)
  PROVE  FrameEffect(c)
<1>1. /\ call \in [Calls -> Call] /\ prov \in [Procs -> Provider]
      /\ Home[c] \in Procs
  BY StoreAssumption DEF TypeOK
<1>2. ASSUME (\E r : call' = Settled(c, r)) \/ (\E b : ToReport(c, b)),
             prov[Home[c]].status = "up",
             prov[Home[c]].run = c,
             call[c].pc \notin {"idle", "report", "done", "dead"},
             \/ Yield(c)
             \/ prov' = [prov EXCEPT ![Home[c]].uncertain = TRUE, ![Home[c]].run = None]
             \/ prov' = [prov EXCEPT
                  ![Home[c]].pendingLock = [by |-> c, ino |-> call[c].ino],
                  ![Home[c]].run = None]
      PROVE  FrameEffect(c)
  <2>1. (\A d \in Calls \ {c} : call'[d] = call[d]) /\ call'[c].pc \in {"report", "done"}
    BY <1>1, <1>2, SettledEffect, ReportEffect
  <2>2. (\A p \in Procs \ {Home[c]} : prov'[p] = prov[p])
        /\ prov'[Home[c]].status = "up"
    BY <1>1, <1>2 DEF Yield, Provider
  <2> QED BY <1>2, <2>1, <2>2 DEF FrameEffect
<1>3. CASE ReadStat(c) \/ ReadOpen(c)
  BY <1>3, <1>1, <1>2 DEF ReadStat, ReadOpen, Throw, At, Running, Alive, FrameEffect, Call
<1>4. CASE LoopThrow(c)
  BY <1>4, <1>1, <1>2 DEF LoopThrow, Throw, At, Running, Alive
<1>5. CASE RetryTemporary(c) \/ RetryUnlink(c)
  BY <1>5, <1>1
  DEF RetryTemporary, RetryUnlink, Looping, Goto, At, Running, Alive, FrameEffect,
      Call, Provider
<1>6. CASE RetryRelease(c)
  <2>1. CASE Goto(c, "retryUnlink") /\ UNCHANGED prov
    BY <1>6, <1>1, <2>1
    DEF RetryRelease, Looping, Goto, At, Running, Alive, FrameEffect, Call
  <2>2. CASE /\ prov' = [prov EXCEPT ![Home[c]].uncertain = TRUE, ![Home[c]].run = None]
             /\ call' = Settled(c, "failed")
    BY <1>6, <1>2, <2>2 DEF RetryRelease, Looping, At, Running, Alive
  <2> QED BY <1>6, <2>1, <2>2 DEF RetryRelease
<1>7. CASE \E i \in Inodes : CreateLock(c, i)
  BY <1>7, <1>1 DEF CreateLock, Looping, At, Running, Alive, FrameEffect, Call
<1>8. CASE LockExists(c)
  BY <1>8, <1>1 DEF LockExists, Looping, Goto, At, Running, Alive, FrameEffect, Call
<1>9. CASE InitLock(c)
  BY <1>9, <1>1, <1>2 DEF InitLock, ToRelease, Goto, At, Running, Alive, FrameEffect, Call
<1>10. CASE StatLock(c) \/ InspectOwner(c)
  BY <1>10, <1>1
  DEF StatLock, InspectOwner, Wait, Yield, Goto, At, Running, Alive, FrameEffect,
      Call, Provider
<1>11. CASE CreateClaim(c) \/ RecheckLock(c) \/ UnlinkStale(c)
  BY <1>11, <1>1
  DEF CreateClaim, RecheckLock, UnlinkStale, Wait, Yield, Goto, At, Running, Alive,
      FrameEffect, Call, Provider
<1>12. CASE Unclaim(c)
  <2>1. CASE Wait(c)
    BY <1>12, <1>1, <2>1
    DEF Unclaim, Wait, Yield, Goto, At, Running, Alive, FrameEffect, Call, Provider
  <2>2. CASE Throw(c)
    BY <1>12, <1>2, <2>2 DEF Unclaim, Throw, At, Running, Alive
  <2>3. CASE /\ prov' = [prov EXCEPT ![Home[c]].uncertain = TRUE, ![Home[c]].run = None]
             /\ call' = Settled(c, "failed")
    BY <1>12, <1>2, <2>3 DEF Unclaim, At, Running, Alive
  <2> QED BY <1>12, <2>1, <2>2, <2>3 DEF Unclaim
<1>13. CASE Resume(c)
  BY <1>13, <1>1 DEF Resume, At, Alive, FrameEffect, Call, Provider
<1>14. CASE OperationThrow(c) \/ ReadForUpdate(c) \/ WriteTemporary(c)
            \/ PreCommit(c) \/ Publish(c)
  BY <1>14, <1>1
  DEF OperationThrow, ReadForUpdate, WriteTemporary, PreCommit, Publish, ToRelease,
      Goto, At, Running, Alive, FrameEffect, Call
<1>15. CASE WriteThrow(c)
  BY <1>15, <1>1
  DEF WriteThrow, ToRelease, Goto, At, Running, Alive, FrameEffect, Call, Provider
<1>16. CASE Barrier(c)
  <2>1. UNCHANGED prov /\ At(c, "barrier") /\ Running(c)
    BY <1>16 DEF Barrier
  <2>2. (\A d \in Calls \ {c} : call'[d] = call[d]) /\ call'[c].pc = "release"
    BY <1>16, <1>1, BarrierCall
  <2> QED BY <1>1, <2>1, <2>2 DEF At, Running, Alive, FrameEffect
<1>17. CASE Release(c)
  BY <1>17, <1>1, <1>2 DEF Release, Goto, At, Running, Alive, FrameEffect, Call
<1>18. CASE UnlinkLock(c)
  BY <1>18, <1>1, <1>2 DEF UnlinkLock, At, Running, Alive
<1>19. CASE Report(c)
  <2>1. PICK r : call' = Settled(c, r)
    BY <1>19 DEF Report
  <2> QED BY <1>1, <1>19, <2>1, SettledEffect DEF Report, At, Alive, FrameEffect
<1> QED
  BY <1>3, <1>4, <1>5, <1>6, <1>7, <1>8, <1>9, <1>10, <1>11, <1>12, <1>13, <1>14,
     <1>15, <1>16, <1>17, <1>18, <1>19 DEF CallStep

\* A step leaves the lock file and the deferred release alone and stays inside
\* or outside the critical section, or it creates the lock, reclaims it,
\* releases it, or defers its release.
LockEffect(c) ==
  LET pending == prov[Home[c]].pendingLock
      pendingNext == prov'[Home[c]].pendingLock
      at == call[c].pc
      atNext == call'[c].pc IN
  \/ /\ dir'.lock = dir.lock
     /\ pendingNext = pending
     /\ atNext \in Holding => at \in Holding /\ call'[c].ino = call[c].ino
     /\ at \in Holding => atNext \in Holding \cup {"report", "done"}
     /\ atNext = "retryUnlink" => pending # None
  \/ /\ at = "loop" /\ atNext = "init"
     /\ dir.lock = None
     /\ dir'.lock # None /\ dir'.lock.by = c /\ dir'.lock.ino = call'[c].ino
     /\ pendingNext = pending
  \/ at = "unlinkStale" /\ atNext = "unclaim" /\ dir'.lock = None /\ pendingNext = pending
  \/ at = "unlink" /\ atNext = "report" /\ dir'.lock = None /\ pendingNext = pending
  \/ at = "retryUnlink" /\ atNext = "loop" /\ dir'.lock = None /\ pendingNext = None
  \/ /\ at = "release" /\ atNext = "report"
     /\ dir'.lock = dir.lock
     /\ pendingNext = [by |-> c, ino |-> call[c].ino]

\* Every step of a call treats the lock file as LockEffect states.
LEMMA LockStep ==
  ASSUME TypeOK, NEW c \in Calls, CallStep(c)
  PROVE  LockEffect(c)
<1>1. /\ call \in [Calls -> Call] /\ prov \in [Procs -> Provider]
      /\ Home[c] \in Procs /\ dir \in Directory
  BY StoreAssumption DEF TypeOK
\* A step from outside the critical section that stays outside.
<1>2. ASSUME UNCHANGED dir, prov'[Home[c]].pendingLock = prov[Home[c]].pendingLock,
             call[c].pc \notin Holding,
             call'[c].pc \notin Holding \cup {"retryUnlink"}
      PROVE  LockEffect(c)
  BY <1>2 DEF LockEffect
\* A step inside the critical section.
<1>3. ASSUME dir'.lock = dir.lock,
             prov'[Home[c]].pendingLock = prov[Home[c]].pendingLock,
             call[c].pc \in Holding,
             \/ call'[c].pc \in Holding /\ call'[c].ino = call[c].ino
             \/ call'[c].pc \in {"report", "done"}
      PROVE  LockEffect(c)
  BY <1>3 DEF LockEffect, Holding
<1>4. ASSUME NEW r, call' = Settled(c, r) PROVE call'[c].pc = "done"
  BY <1>1, <1>4, SettledEffect
<1>5. ASSUME Yield(c)
      PROVE  prov'[Home[c]].pendingLock = prov[Home[c]].pendingLock
  BY <1>1, <1>5 DEF Yield, Provider
<1>6. ASSUME prov' = [prov EXCEPT ![Home[c]].uncertain = TRUE, ![Home[c]].run = None]
      PROVE  prov'[Home[c]].pendingLock = prov[Home[c]].pendingLock
  BY <1>1, <1>6 DEF Provider
<1>7. ASSUME NEW x, Goto(c, x)
      PROVE  call'[c].pc = x /\ call'[c].ino = call[c].ino
  BY <1>1, <1>7 DEF Goto, Call
<1>8. ASSUME NEW b, ToRelease(c, b)
      PROVE  call'[c].pc = "release" /\ call'[c].ino = call[c].ino
  BY <1>1, <1>8 DEF ToRelease, Call
<1>9. CASE ReadStat(c) \/ ReadOpen(c) \/ LoopThrow(c)
  <2>1. call[c].pc \notin Holding /\ UNCHANGED dir
    BY <1>9 DEF ReadStat, ReadOpen, LoopThrow, At, Holding, files
  <2>2. call'[c].pc \in {"ropen", "rstat", "done"}
    BY <1>9, <1>1, <1>4 DEF ReadStat, ReadOpen, LoopThrow, Throw, Call
  <2>3. prov'[Home[c]].pendingLock = prov[Home[c]].pendingLock
    BY <1>9, <1>5 DEF ReadStat, ReadOpen, LoopThrow, Throw
  <2> QED BY <1>2, <2>1, <2>2, <2>3 DEF Holding
<1>10. CASE RetryTemporary(c)
  BY <1>10, <1>1, <1>2 DEF RetryTemporary, Looping, At, Holding, Provider
<1>11. CASE RetryRelease(c)
  <2>1. CASE Goto(c, "retryUnlink") /\ UNCHANGED prov
    BY <1>11, <1>7, <2>1
    DEF RetryRelease, Looping, At, Holding, LockEffect, files
  <2>2. CASE /\ prov' = [prov EXCEPT ![Home[c]].uncertain = TRUE, ![Home[c]].run = None]
             /\ call' = Settled(c, "failed")
    BY <1>11, <1>2, <1>4, <1>6, <2>2 DEF RetryRelease, Looping, At, Holding, files
  <2> QED BY <1>11, <2>1, <2>2 DEF RetryRelease
<1>12. CASE RetryUnlink(c)
  BY <1>12, <1>1, <1>7 DEF RetryUnlink, At, LockEffect, Directory, Provider
<1>13. CASE \E i \in Inodes : CreateLock(c, i)
  <2>1. PICK i \in Inodes : CreateLock(c, i)
    BY <1>13
  <2>2. dir'.lock = [by |-> c, ino |-> i] /\ [by |-> c, ino |-> i] # None
    BY <2>1, <1>1, StoreAssumption DEF CreateLock, Directory, LockFile
  <2>3. call'[c].pc = "init" /\ call'[c].ino = i
    BY <2>1, <1>1 DEF CreateLock, Call
  <2> QED BY <2>1, <2>2, <2>3 DEF CreateLock, Looping, At, LockEffect
<1>14. CASE LockExists(c)
  BY <1>14, <1>2, <1>7 DEF LockExists, Looping, At, Holding, files
<1>15. CASE InitLock(c)
  BY <1>15, <1>3, <1>4, <1>6, <1>7, <1>8 DEF InitLock, At, Holding
<1>16. CASE StatLock(c) \/ InspectOwner(c)
  <2>1. call[c].pc \notin Holding /\ UNCHANGED dir
    BY <1>16 DEF StatLock, InspectOwner, At, Holding, files
  <2>2. call'[c].pc \in {"wait", "inspect", "claim"}
    BY <1>16, <1>1, <1>7 DEF StatLock, InspectOwner, Wait, Call
  <2>3. prov'[Home[c]].pendingLock = prov[Home[c]].pendingLock
    BY <1>16, <1>5 DEF StatLock, InspectOwner, Wait
  <2> QED BY <1>2, <2>1, <2>2, <2>3 DEF Holding
<1>17. CASE CreateClaim(c) \/ RecheckLock(c) \/ Unclaim(c)
  <2>1. call[c].pc \notin Holding /\ dir'.lock = dir.lock
    BY <1>17, <1>1 DEF CreateClaim, RecheckLock, Unclaim, At, Holding, Directory, files
  <2>2. call'[c].pc \in {"wait", "claimed", "unlinkStale", "unclaim", "done"}
    BY <1>17, <1>1, <1>4, <1>7 DEF CreateClaim, RecheckLock, Unclaim, Wait, Throw, Call
  <2>3. prov'[Home[c]].pendingLock = prov[Home[c]].pendingLock
    BY <1>17, <1>5, <1>6 DEF CreateClaim, RecheckLock, Unclaim, Wait, Throw
  <2> QED BY <2>1, <2>2, <2>3 DEF Holding, LockEffect
<1>18. CASE UnlinkStale(c)
  BY <1>18, <1>1, <1>2, <1>7 DEF UnlinkStale, At, Holding, LockEffect, Directory, Call
<1>19. CASE Resume(c)
  BY <1>19, <1>1, <1>2 DEF Resume, At, Holding, Call, Provider, files
<1>20. CASE OperationThrow(c) \/ ReadForUpdate(c)
  <2>1. call[c].pc \in Holding /\ UNCHANGED <<dir, prov>>
    BY <1>20 DEF OperationThrow, ReadForUpdate, At, Holding, files
  <2>2. call'[c].pc \in Holding /\ call'[c].ino = call[c].ino
    BY <1>20, <1>1, <1>8 DEF OperationThrow, ReadForUpdate, Holding, Call
  <2> QED BY <1>3, <2>1, <2>2
<1>21. CASE WriteTemporary(c) \/ PreCommit(c)
  BY <1>21, <1>3, <1>7 DEF WriteTemporary, PreCommit, At, Holding, files
<1>22. CASE WriteThrow(c)
  BY ZenonT(60), <1>22, <1>1, <1>3, <1>8 DEF WriteThrow, Holding, Provider
<1>23. CASE Publish(c)
  BY <1>23, <1>1, <1>3 DEF Publish, At, Holding, Directory, Call
<1>24. CASE Barrier(c)
  BY <1>24, <1>1, <1>3, BarrierCall DEF Barrier, At, Holding
<1>25. CASE Release(c)
  <2>1. call[c].pc = "release" /\ UNCHANGED dir
    BY <1>25 DEF Release, At, files
  <2>2. CASE Goto(c, "unlink") /\ UNCHANGED prov
    BY <1>3, <1>7, <2>1, <2>2 DEF Holding
  <2>3. CASE /\ prov' = [prov EXCEPT ![Home[c]].uncertain = TRUE, ![Home[c]].run = None]
             /\ ToReport(c, TRUE)
    BY <1>1, <1>3, <1>6, <2>1, <2>3, ReportEffect DEF Holding
  <2>4. CASE /\ prov' = [prov EXCEPT
                  ![Home[c]].pendingLock = [by |-> c, ino |-> call[c].ino],
                  ![Home[c]].run = None]
             /\ ToReport(c, TRUE)
    BY <1>1, <2>1, <2>4, ReportEffect DEF LockEffect, Provider
  <2> QED BY <1>25, <2>2, <2>3, <2>4 DEF Release
<1>26. CASE UnlinkLock(c)
  BY <1>26, <1>1, <1>5, ReportEffect DEF UnlinkLock, At, LockEffect, Directory
<1>27. CASE Report(c)
  <2>1. call'[c].pc = "done" /\ UNCHANGED <<dir, prov>>
    BY <1>27, <1>4 DEF Report, files
  <2> QED BY <1>2, <1>27, <2>1 DEF Report, At, Holding
<1> QED
  BY <1>9, <1>10, <1>11, <1>12, <1>13, <1>14, <1>15, <1>16, <1>17, <1>18, <1>19,
     <1>20, <1>21, <1>22, <1>23, <1>24, <1>25, <1>26, <1>27 DEF CallStep

\* A step keeps the claims, wins one that nobody has, or removes its own; it
\* reaches the unlink of a stale lock only after the re-check.
ClaimEffect(c) ==
  LET at == call[c].pc
      atNext == call'[c].pc IN
  \/ /\ dir'.claims = dir.claims
     /\ atNext \in Claiming => at \in Claiming /\ call'[c].seen = call[c].seen
     /\ atNext \in {"inspect", "claim"} => call'[c].seen # None
     /\ atNext = "unlinkStale" =>
          dir'.lock # None /\ dir'.lock.by = call[c].seen.by /\ ~Alive(dir'.lock.by)
  \/ /\ at = "claim" /\ atNext \in {"claimed", "unclaim"}
     /\ call[c].seen.by \notin dir.claims
     /\ dir'.claims = dir.claims \cup {call[c].seen.by}
     /\ call'[c].seen = call[c].seen
  \/ /\ at = "unclaim" /\ atNext \in {"wait", "done"}
     /\ dir'.claims = dir.claims \ {call[c].seen.by}

\* Every step of a call treats claims as ClaimEffect states.
LEMMA ClaimStep ==
  ASSUME TypeOK, NEW c \in Calls, CallStep(c)
  PROVE  ClaimEffect(c)
<1>1. call \in [Calls -> Call] /\ dir \in Directory
  BY DEF TypeOK
<1>2. ASSUME dir'.claims = dir.claims,
             call'[c].pc \notin Claiming \cup {"inspect", "claim"}
      PROVE  ClaimEffect(c)
  BY <1>2 DEF ClaimEffect, Claiming
<1>3. ASSUME NEW r, call' = Settled(c, r) PROVE call'[c].pc = "done"
  BY <1>1, <1>3, SettledEffect
<1>4. ASSUME NEW x, Goto(c, x)
      PROVE  call'[c].pc = x /\ call'[c].seen = call[c].seen
  BY <1>1, <1>4 DEF Goto, Call
<1>5. ASSUME NEW b, ToRelease(c, b) PROVE call'[c].pc = "release"
  BY <1>1, <1>5 DEF ToRelease, Call
<1>6. ASSUME call' = [call EXCEPT ![c].pc = "unclaim", ![c].err = TRUE]
      PROVE  call'[c].pc = "unclaim" /\ call'[c].seen = call[c].seen
  BY <1>1, <1>6 DEF Call
<1>7. CASE ReadStat(c) \/ ReadOpen(c) \/ LoopThrow(c)
  <2>1. call'[c].pc \in {"ropen", "rstat", "done"}
    BY <1>7, <1>1, <1>3 DEF ReadStat, ReadOpen, LoopThrow, Throw, Call
  <2> QED BY <1>2, <1>7, <2>1 DEF ReadStat, ReadOpen, LoopThrow, Claiming, files
<1>8. CASE RetryTemporary(c)
  BY <1>8, <1>2 DEF RetryTemporary, Looping, At, Claiming
<1>9. CASE RetryRelease(c)
  BY <1>9, <1>2, <1>3, <1>4 DEF RetryRelease, Claiming, files
<1>10. CASE RetryUnlink(c)
  BY <1>10, <1>1, <1>2, <1>4 DEF RetryUnlink, Claiming, Directory
<1>11. CASE \E i \in Inodes : CreateLock(c, i)
  BY <1>11, <1>1, <1>2 DEF CreateLock, Claiming, Directory, Call
<1>12. CASE LockExists(c)
  BY <1>12, <1>2, <1>4 DEF LockExists, Claiming, files
<1>13. CASE InitLock(c)
  <2>1. call'[c].pc \in {"held", "release", "done"}
    BY <1>13, <1>3, <1>4, <1>5 DEF InitLock
  <2> QED BY <1>2, <1>13, <2>1 DEF InitLock, Claiming
<1>14. CASE StatLock(c) \/ InspectOwner(c)
  <2>1. UNCHANGED dir
    BY <1>14 DEF StatLock, InspectOwner, files
  <2>2. CASE Wait(c)
    BY <1>2, <1>4, <2>1, <2>2 DEF Wait, Claiming
  <2>3. ASSUME NEW x \in {"inspect", "claim"}, dir.lock # None,
               call' = [call EXCEPT ![c].pc = x, ![c].seen = dir.lock]
        PROVE  ClaimEffect(c)
    <3>1. call'[c].pc = x /\ call'[c].seen = dir.lock
      BY <1>1, <2>3 DEF Call
    <3> QED BY <2>1, <2>3, <3>1 DEF ClaimEffect, Claiming
  <2> QED BY <1>14, <2>2, <2>3 DEF StatLock, InspectOwner, SameLock
<1>15. CASE CreateClaim(c)
  <2>1. CASE Wait(c) /\ UNCHANGED dir
    BY <1>2, <1>4, <2>1 DEF Wait, Claiming
  <2>2. CASE /\ call[c].seen.by \notin dir.claims
             /\ dir' = [dir EXCEPT !.claims = @ \cup {call[c].seen.by}]
             /\ \/ Goto(c, "claimed")
                \/ call' = [call EXCEPT ![c].pc = "unclaim", ![c].err = TRUE]
    BY <1>1, <1>4, <1>6, <1>15, <2>2 DEF CreateClaim, At, ClaimEffect, Directory
  <2> QED BY <1>15, <2>1, <2>2 DEF CreateClaim
<1>16. CASE RecheckLock(c)
  BY <1>16, <1>4, <1>6 DEF RecheckLock, At, ClaimEffect, Claiming, SameLock, files
<1>17. CASE UnlinkStale(c)
  BY <1>17, <1>1, <1>4, <1>6 DEF UnlinkStale, At, ClaimEffect, Claiming, Directory
<1>18. CASE Unclaim(c)
  <2>1. call'[c].pc \in {"wait", "done"}
    BY <1>18, <1>3, <1>4 DEF Unclaim, Throw, Wait
  <2>2. dir'.claims \in {dir.claims, dir.claims \ {call[c].seen.by}}
    BY <1>18, <1>1 DEF Unclaim, Directory
  <2> QED BY <1>18, <1>2, <2>1, <2>2 DEF Unclaim, At, ClaimEffect, Claiming
<1>19. CASE Resume(c)
  BY <1>19, <1>1, <1>2 DEF Resume, Claiming, Call, files
<1>20. CASE OperationThrow(c) \/ ReadForUpdate(c)
  <2>1. call'[c].pc \in {"release", "write"}
    BY <1>20, <1>1, <1>5 DEF OperationThrow, ReadForUpdate, Call
  <2> QED BY <1>2, <1>20, <2>1 DEF OperationThrow, ReadForUpdate, Claiming, files
<1>21. CASE WriteTemporary(c) \/ PreCommit(c) \/ WriteThrow(c)
  <2>1. call'[c].pc \in {"precommit", "rename", "release"}
    BY <1>21, <1>4, <1>5 DEF WriteTemporary, PreCommit, WriteThrow
  <2> QED BY <1>2, <1>21, <2>1 DEF WriteTemporary, PreCommit, WriteThrow, Claiming, files
<1>22. CASE Publish(c)
  BY <1>22, <1>1, <1>2 DEF Publish, Claiming, Directory, Call
<1>23. CASE Barrier(c)
  BY <1>23, <1>1, <1>2, BarrierCall DEF Barrier, Claiming
<1>24. CASE Release(c)
  <2>1. call'[c].pc \in {"unlink", "report"}
    BY <1>24, <1>1, <1>4, ReportEffect DEF Release
  <2> QED BY <1>2, <1>24, <2>1 DEF Release, Claiming, files
<1>25. CASE UnlinkLock(c)
  BY <1>25, <1>1, <1>2, ReportEffect DEF UnlinkLock, Claiming, Directory
<1>26. CASE Report(c)
  BY <1>26, <1>2, <1>3 DEF Report, Claiming, files
<1> QED
  BY <1>7, <1>8, <1>9, <1>10, <1>11, <1>12, <1>13, <1>14, <1>15, <1>16, <1>17,
     <1>18, <1>19, <1>20, <1>21, <1>22, <1>23, <1>24, <1>25, <1>26 DEF CallStep

\* Only the rename replaces the document; a call about to rename has read the
\* current document inside the critical section.
DocumentEffect(c) ==
  /\ dir'.doc = dir.doc \/ call[c].pc = "rename"
  /\ call'[c].pc \in {"write", "precommit", "rename"} =>
       \/ call[c].pc \in {"write", "precommit"} /\ call'[c].base = call[c].base
       \/ call[c].pc = "held" /\ call'[c].base = dir.doc

\* Every step of a call treats the document as DocumentEffect states.
LEMMA DocumentStep ==
  ASSUME TypeOK, NEW c \in Calls, CallStep(c)
  PROVE  DocumentEffect(c)
<1>1. call \in [Calls -> Call] /\ dir \in Directory
  BY DEF TypeOK
<1>2. ASSUME dir'.doc = dir.doc, call'[c].pc \notin {"write", "precommit", "rename"}
      PROVE  DocumentEffect(c)
  BY <1>2 DEF DocumentEffect
<1>3. ASSUME NEW r, call' = Settled(c, r) PROVE call'[c].pc = "done"
  BY <1>1, <1>3, SettledEffect
<1>4. ASSUME NEW x, Goto(c, x) PROVE call'[c].pc = x /\ call'[c].base = call[c].base
  BY <1>1, <1>4 DEF Goto, Call
<1>5. ASSUME NEW b, ToRelease(c, b) PROVE call'[c].pc = "release"
  BY <1>1, <1>5 DEF ToRelease, Call
<1>6. CASE ReadStat(c) \/ ReadOpen(c) \/ LoopThrow(c)
  <2>1. call'[c].pc \in {"ropen", "rstat", "done"}
    BY <1>6, <1>1, <1>3 DEF ReadStat, ReadOpen, LoopThrow, Throw, Call
  <2> QED BY <1>2, <1>6, <2>1 DEF ReadStat, ReadOpen, LoopThrow, files
<1>7. CASE RetryTemporary(c)
  BY <1>7, <1>2 DEF RetryTemporary, Looping, At
<1>8. CASE RetryRelease(c) \/ LockExists(c) \/ Release(c)
  <2>1. call'[c].pc \in {"retryUnlink", "stat", "unlink", "report", "done"}
    BY <1>8, <1>1, <1>3, <1>4, ReportEffect DEF RetryRelease, LockExists, Release
  <2> QED BY <1>2, <1>8, <2>1 DEF RetryRelease, LockExists, Release, files
<1>9. CASE RetryUnlink(c)
  BY <1>9, <1>1, <1>2, <1>4 DEF RetryUnlink, Directory
<1>10. CASE \E i \in Inodes : CreateLock(c, i)
  BY <1>10, <1>1, <1>2 DEF CreateLock, Directory, Call
<1>11. CASE InitLock(c)
  <2>1. call'[c].pc \in {"held", "release", "done"}
    BY <1>11, <1>3, <1>4, <1>5 DEF InitLock
  <2> QED BY <1>2, <1>11, <2>1 DEF InitLock
<1>12. CASE StatLock(c) \/ InspectOwner(c)
  <2>1. call'[c].pc \in {"wait", "inspect", "claim"}
    BY <1>12, <1>1, <1>4 DEF StatLock, InspectOwner, Wait, Call
  <2> QED BY <1>2, <1>12, <2>1 DEF StatLock, InspectOwner, files
<1>13. CASE CreateClaim(c) \/ RecheckLock(c) \/ UnlinkStale(c) \/ Unclaim(c)
  <2>1. call'[c].pc \in {"wait", "claimed", "unlinkStale", "unclaim", "done"}
    BY <1>13, <1>1, <1>3, <1>4
    DEF CreateClaim, RecheckLock, UnlinkStale, Unclaim, Wait, Throw, Call
  <2>2. dir'.doc = dir.doc
    BY <1>13, <1>1 DEF CreateClaim, RecheckLock, UnlinkStale, Unclaim, Directory, files
  <2> QED BY <1>2, <2>1, <2>2
<1>14. CASE Resume(c)
  BY <1>14, <1>1, <1>2 DEF Resume, Call, files
<1>15. CASE OperationThrow(c)
  BY <1>15, <1>2, <1>5 DEF OperationThrow, files
<1>16. CASE ReadForUpdate(c)
  <2>1. CASE \E b \in BOOLEAN : ToRelease(c, b)
    BY <1>16, <1>2, <1>5, <2>1 DEF ReadForUpdate, files
  <2>2. CASE call' = [call EXCEPT ![c].pc = "write", ![c].base = dir.doc]
    <3>1. call'[c].pc = "write" /\ call'[c].base = dir.doc
      BY <1>1, <2>2 DEF Call
    <3> QED BY <1>16, <3>1 DEF ReadForUpdate, At, DocumentEffect, files
  <2> QED BY <1>16, <2>1, <2>2 DEF ReadForUpdate
<1>17. CASE WriteTemporary(c) \/ PreCommit(c)
  BY <1>17, <1>4 DEF WriteTemporary, PreCommit, At, DocumentEffect, files
<1>18. CASE WriteThrow(c)
  BY <1>18, <1>2, <1>5 DEF WriteThrow
<1>19. CASE Publish(c)
  BY <1>19, <1>1 DEF Publish, At, DocumentEffect, Call
<1>20. CASE Barrier(c)
  BY <1>20, <1>2, BarrierCall, <1>1 DEF Barrier
<1>21. CASE UnlinkLock(c)
  BY <1>21, <1>1, <1>2, ReportEffect DEF UnlinkLock, Directory
<1>22. CASE Report(c)
  BY <1>22, <1>2, <1>3 DEF Report, files
<1> QED
  BY <1>6, <1>7, <1>8, <1>9, <1>10, <1>11, <1>12, <1>13, <1>14, <1>15, <1>16,
     <1>17, <1>18, <1>19, <1>20, <1>21, <1>22 DEF CallStep

-----------------------------------------------------------------------------
(* The invariant, one conjunct at a time.                                   *)

\* A step of a call leaves one running call per process.
LEMMA OneThreadCall ==
  ASSUME TypeOK, OneThread, NEW c \in Calls, CallStep(c)
  PROVE  OneThread'
<1>1. FrameEffect(c) /\ Home \in [Calls -> Procs]
  BY FrameStep, StoreAssumption
<1>2. ASSUME NEW d \in Calls, d # c,
             call[d].pc \notin {"idle"} \cup Parked \cup Finished
      PROVE  Home[d] # Home[c] /\ Running(d)'
  <2>1. Running(d)
    BY <1>2 DEF OneThread, Parked, Over, Finished
  <2>2. Home[d] # Home[c]
    BY <1>1, <1>2, <2>1, DocumentAssumption DEF FrameEffect, Running, Alive
  <2> QED BY <1>1, <2>1, <2>2 DEF FrameEffect, Running, Alive
<1>3. ASSUME NEW d \in Calls,
             call'[d].pc \notin {"idle"} \cup Parked \cup Finished
      PROVE  Running(d)'
  BY <1>1, <1>2, <1>3 DEF FrameEffect, Running, Alive, Finished, Parked, Over
<1>4. ASSUME NEW d \in Calls PROVE prov'[Home[d]].status = prov[Home[d]].status
  BY <1>1 DEF FrameEffect
<1>5. ASSUME NEW d \in Calls, call'[d].pc \in Parked PROVE Alive(d)'
  BY <1>1, <1>4, <1>5 DEF FrameEffect, OneThread, Alive, At, Parked, Over, Finished
<1>6. ASSUME NEW d \in Calls, prov'[Home[d]].status = "fresh" PROVE At(d, "idle")'
  BY <1>1, <1>4, <1>6 DEF FrameEffect, OneThread, At, Parked, Over, Finished
<1> QED BY <1>3, <1>5, <1>6 DEF OneThread, At, Parked, Over, Finished

\* A step of a call leaves the lock with those who hold it.
LEMMA OwnersOwnCall ==
  ASSUME LockInvariant, NEW c \in Calls, CallStep(c)
  PROVE  OwnersOwn'
<1>1. FrameEffect(c) /\ LockEffect(c) /\ Home \in [Calls -> Procs]
      /\ call' \in [Calls -> Call] /\ prov \in [Procs -> Provider]
  BY FrameStep, LockStep, CallTypeStep, StoreAssumption DEF LockInvariant, TypeOK
\* Holding the lock means occupying the thread of a live process.
<1>2. ASSUME NEW d \in Calls, call[d].pc \in Holding
      PROVE  Running(d) /\ dir.lock # None /\ dir.lock.by = d
             /\ dir.lock.ino = call[d].ino
  BY <1>2 DEF LockInvariant, OneThread, OwnersOwn, Holding, Finished, Parked, Over
<1>3. ASSUME NEW d \in Calls, d # c, call[d].pc \in Holding
      PROVE  dir'.lock = dir.lock
  <2>1. dir.lock # None /\ dir.lock.by = d /\ Alive(d)
    BY <1>2, <1>3 DEF Running
  <2>2. call[c].pc # "unlinkStale"
    BY <2>1 DEF LockInvariant, ClaimsExclusive, ReclaimHitsDeadOwner, At
  <2>3. call[c].pc # "unlink"
    BY <1>2, <1>3, <2>1 DEF Holding
  <2>4. call[c].pc # "retryUnlink"
    BY <1>1, <1>3, <2>1 DEF LockInvariant, OwnersOwn, At, Holding
  <2> QED BY <1>1, <2>1, <2>2, <2>3, <2>4 DEF LockEffect
<1>4. ASSUME NEW d \in Calls, call'[d].pc \in Holding
      PROVE  dir'.lock # None /\ dir'.lock.by = d /\ dir'.lock.ino = call'[d].ino
  <2>1. CASE d # c
    BY <1>1, <1>2, <1>3, <1>4, <2>1 DEF FrameEffect
  <2>2. CASE d = c
    BY <1>1, <1>2, <1>4, <2>2 DEF LockEffect, Holding
  <2> QED BY <2>1, <2>2
\* A deferred release excludes the steps that touch the lock of another owner.
<1>5. ASSUME NEW p \in Procs, prov[p].pendingLock # None
      PROVE  /\ dir.lock = prov[p].pendingLock /\ dir.lock # None
             /\ dir.lock.by \in Calls /\ Home[dir.lock.by] = p
             /\ prov[p].status = "up"
             /\ call[dir.lock.by].pc \in {"report", "done"}
             /\ call'[dir.lock.by].pc \in {"report", "done"}
             /\ call[c].pc \notin {"unlink", "unlinkStale"}
             /\ p # Home[c] => call[c].pc # "retryUnlink"
  <2>1. /\ dir.lock = prov[p].pendingLock /\ dir.lock # None
        /\ Home[dir.lock.by] = p /\ prov[p].status = "up"
        /\ call[dir.lock.by].pc \in {"report", "done"}
    BY <1>5 DEF LockInvariant, OwnersOwn
  <2>2. dir.lock.by \in Calls
    BY <2>1 DEF LockInvariant, TypeOK, Directory, LockFiles, LockFile
  <2>4. call'[dir.lock.by].pc \in {"report", "done"}
    BY <1>1, <2>1, <2>2 DEF FrameEffect
  <2>5. call[c].pc # "unlink"
    BY <1>2, <2>1 DEF Holding
  <2>6. call[c].pc # "unlinkStale"
    BY <2>1 DEF LockInvariant, ClaimsExclusive, ReclaimHitsDeadOwner, At, Alive
  <2>7. p # Home[c] => call[c].pc # "retryUnlink"
    BY <1>1, <2>1 DEF LockInvariant, OwnersOwn, At
  <2> QED BY <2>1, <2>2, <2>4, <2>5, <2>6, <2>7
<1>6. ASSUME NEW p \in Procs, prov'[p].pendingLock # None
      PROVE  /\ prov'[p].status = "up"
             /\ dir'.lock = prov'[p].pendingLock
             /\ Home[dir'.lock.by] = p
             /\ call'[dir'.lock.by].pc \in {"report", "done"}
  <2>1. CASE p # Home[c]
    <3>1. prov'[p] = prov[p]
      BY <1>1, <2>1 DEF FrameEffect
    <3>2. dir'.lock = dir.lock
      BY <1>1, <1>5, <1>6, <2>1, <3>1 DEF LockEffect
    <3> QED BY <1>5, <1>6, <3>1, <3>2
  <2>2. CASE p = Home[c] /\ prov'[p].pendingLock = prov[p].pendingLock
    <3>1. dir'.lock = dir.lock
      BY <1>1, <1>5, <1>6, <2>2 DEF LockEffect
    <3> QED BY <1>1, <1>5, <1>6, <2>2, <3>1 DEF FrameEffect
  <2>3. CASE p = Home[c] /\ prov'[p].pendingLock # prov[p].pendingLock
    <3>1. /\ call[c].pc = "release" /\ call'[c].pc = "report"
          /\ dir'.lock = dir.lock
          /\ prov'[p].pendingLock = [by |-> c, ino |-> call[c].ino]
      BY <1>1, <1>6, <2>3 DEF LockEffect
    <3>2. dir.lock = [by |-> c, ino |-> call[c].ino]
      <4>1. dir.lock # None /\ dir.lock.by = c /\ dir.lock.ino = call[c].ino
        BY <1>2, <3>1 DEF Holding
      <4>2. dir.lock \in LockFile
        BY <4>1 DEF LockInvariant, TypeOK, Directory, LockFiles
      <4> QED BY <4>1, <4>2 DEF LockFile
    <3> QED BY <1>1, <2>3, <3>1, <3>2 DEF FrameEffect
  <2> QED BY <2>1, <2>2, <2>3
<1>7. ASSUME NEW d \in Calls, call'[d].pc = "retryUnlink"
      PROVE  prov'[Home[d]].pendingLock # None
  <2>1. CASE d = c
    BY <1>1, <1>7, <2>1 DEF LockEffect, Holding
  <2>2. CASE d # c
    <3>1. call[d].pc = "retryUnlink"
      BY <1>1, <1>7, <2>2 DEF FrameEffect
    <3>2. Running(d) /\ prov[Home[d]].pendingLock # None
      BY <3>1 DEF LockInvariant, OneThread, OwnersOwn, At, Finished, Parked, Over
    <3>3. Home[d] # Home[c]
      BY <1>1, <2>2, <3>2, DocumentAssumption DEF FrameEffect, Running
    <3> QED BY <1>1, <3>2, <3>3 DEF FrameEffect
  <2> QED BY <2>1, <2>2
<1> QED BY <1>4, <1>6, <1>7 DEF OwnersOwn, At

\* A step of a call leaves every lock file with an owner that holds it or is over.
LEMMA LockHasOwnerCall ==
  ASSUME LockInvariant, NEW c \in Calls, CallStep(c)
  PROVE  LockHasOwner'
<1>1. FrameEffect(c) /\ LockEffect(c)
  BY FrameStep, LockStep DEF LockInvariant
<1>2. dir.lock \in LockFiles /\ disk.lock \in LockFiles
  BY DEF LockInvariant, TypeOK, Directory
<1>3. ASSUME NEW l \in LockFiles, l # None, call[l.by].pc \in Holding \cup Over
      PROVE  call'[l.by].pc \in Holding \cup Over
  <2>1. l.by \in Calls
    BY <1>3 DEF LockFiles, LockFile
  <2>2. CASE l.by # c
    BY <1>1, <1>3, <2>1, <2>2 DEF FrameEffect
  <2>3. CASE l.by = c
    <3>1. call[c].pc \in Holding \cup {"report"}
      BY SMTT(40), <1>1, <1>3, <2>3 DEF FrameEffect, Over, Finished, Parked
    <3> QED BY <1>1, <2>3, <3>1 DEF FrameEffect, LockEffect, Holding, Finished, Over
  <2> QED BY <2>2, <2>3
<1>4. disk'.lock \in {disk.lock, dir.lock}
  BY DEF CallStep, ReadStat, ReadOpen, LoopThrow, RetryTemporary, RetryRelease,
     RetryUnlink, CreateLock, LockExists, InitLock, StatLock, InspectOwner,
     CreateClaim, RecheckLock, UnlinkStale, Unclaim, Resume, OperationThrow,
     ReadForUpdate, WriteTemporary, WriteThrow, PreCommit, Publish, Barrier,
     Release, UnlinkLock, Report, files
<1>5. disk'.lock # None => call'[disk'.lock.by].pc \in Holding \cup Over
  BY <1>2, <1>3, <1>4 DEF LockInvariant, LockHasOwner
<1>6. ASSUME dir'.lock # None
      PROVE  call'[dir'.lock.by].pc \in Holding \cup Over
  <2>1. CASE dir'.lock = dir.lock
    BY <1>2, <1>3, <1>6, <2>1 DEF LockInvariant, LockHasOwner
  <2>2. CASE dir'.lock # dir.lock
    BY <1>1, <1>6, <2>2 DEF LockEffect, Holding
  <2> QED BY <2>1, <2>2
<1> QED BY <1>5, <1>6 DEF LockHasOwner

\* A step of a call leaves recovery claims exclusive.
LEMMA ClaimsExclusiveCall ==
  ASSUME LockInvariant, NEW c \in Calls, CallStep(c)
  PROVE  ClaimsExclusive'
<1>1. FrameEffect(c) /\ LockEffect(c) /\ ClaimEffect(c) /\ Home \in [Calls -> Procs]
  BY FrameStep, LockStep, ClaimStep, StoreAssumption DEF LockInvariant
<1>2. ASSUME NEW d \in Calls PROVE Alive(d)' <=> Alive(d)
  BY <1>1 DEF FrameEffect, Alive
<1>3. ASSUME NEW d \in Calls,
             call'[d].pc \in {"inspect", "claim"} \cup Claiming
      PROVE  call'[d].seen # None
  BY <1>1, <1>3
  DEF LockInvariant, ClaimsExclusive, FrameEffect, ClaimEffect, Claiming
\* Who claims after the step claimed the same token before, or is c winning it.
<1>4. ASSUME NEW d \in Calls, call'[d].pc \in Claiming
      PROVE  \/ /\ call[d].pc \in Claiming /\ call'[d].seen = call[d].seen
                /\ call'[d].seen.by \in dir.claims
             \/ /\ d = c
                /\ call'[c].seen.by \notin dir.claims
                /\ dir'.claims = dir.claims \cup {call'[c].seen.by}
  <2>1. CASE d # c
    BY <1>1, <1>4, <2>1 DEF LockInvariant, ClaimsExclusive, FrameEffect
  <2>2. CASE d = c
    BY <1>1, <1>4, <2>2 DEF LockInvariant, ClaimsExclusive, ClaimEffect, Claiming
  <2> QED BY <2>1, <2>2
<1>5. ASSUME NEW d \in Calls, call'[d].pc \in Claiming
      PROVE  call'[d].seen.by \in dir'.claims
  <2>1. CASE d = c
    BY <1>1, <1>4, <1>5, <2>1 DEF ClaimEffect, Claiming
  <2>2. CASE d # c
    <3>1. call[d].pc \in Claiming /\ call'[d].seen = call[d].seen
          /\ call'[d].seen.by \in dir.claims
      BY <1>4, <1>5, <2>2
    <3>2. call[c].pc = "unclaim" => call[c].seen.by # call[d].seen.by
      BY <2>2, <3>1 DEF LockInvariant, ClaimsExclusive, Claiming
    <3> QED BY <1>1, <3>1, <3>2 DEF ClaimEffect
  <2> QED BY <2>1, <2>2
<1>6. ASSUME NEW d \in Calls, NEW e \in Calls, d # e,
             call'[d].pc \in Claiming, call'[e].pc \in Claiming
      PROVE  call'[d].seen.by # call'[e].seen.by
  <2>1. \/ /\ call[d].pc \in Claiming /\ call'[d].seen = call[d].seen
           /\ call[e].pc \in Claiming /\ call'[e].seen = call[e].seen
        \/ call'[d].seen.by \in dir.claims /\ call'[e].seen.by \notin dir.claims
        \/ call'[e].seen.by \in dir.claims /\ call'[d].seen.by \notin dir.claims
    BY <1>4, <1>6
  <2> QED BY <1>6, <2>1 DEF LockInvariant, ClaimsExclusive
<1>7. ASSUME NEW d \in Calls, call'[d].pc = "unlinkStale"
      PROVE  dir'.lock # None /\ dir'.lock.by = call'[d].seen.by /\ ~Alive(dir'.lock.by)
  <2>1. CASE d = c
    BY <1>1, <1>7, <2>1 DEF ClaimEffect, LockEffect, Claiming
  <2>2. CASE d # c
    <3>1. /\ call[d].pc = "unlinkStale" /\ call'[d].seen = call[d].seen
          /\ dir.lock # None /\ dir.lock.by = call[d].seen.by
          /\ ~Alive(dir.lock.by)
      BY <1>1, <1>7, <2>2
      DEF FrameEffect, LockInvariant, ClaimsExclusive, ReclaimHitsDeadOwner, At
    <3>2. call[c].pc # "unlinkStale"
      BY <2>2, <3>1
      DEF LockInvariant, ClaimsExclusive, ReclaimHitsDeadOwner, At, Claiming
    <3>3. call[c].pc # "unlink"
      BY <1>1, <3>1 DEF LockInvariant, OwnersOwn, Holding, FrameEffect, Alive
    <3>4. call[c].pc # "retryUnlink"
      BY <1>1, <3>1 DEF LockInvariant, OwnersOwn, At, FrameEffect, Alive
    <3>5. dir'.lock = dir.lock
      BY <1>1, <3>1, <3>2, <3>3, <3>4 DEF LockEffect
    <3> QED BY <3>1, <3>5
  <2> QED BY <2>1, <2>2
<1>8. ReclaimHitsDeadOwner'
  <2>1. TypeOK'
    BY TypeStep DEF LockInvariant, Next, ProcessStep
  <2>2. ASSUME NEW d \in Calls, call'[d].pc = "unlinkStale"
        PROVE  prov'[Home[dir'.lock.by]].status # "up"
    <3>1. dir'.lock.by \in Calls
      BY <1>7, <2>1, <2>2 DEF TypeOK, Directory, LockFiles, LockFile
    <3> QED BY <1>2, <1>7, <2>2, <3>1 DEF Alive
  <2> QED BY <1>7, <2>2 DEF ReclaimHitsDeadOwner, At, Alive
<1> QED BY <1>3, <1>5, <1>6, <1>8 DEF ClaimsExclusive

\* A step of a call leaves every writer with the current document.
LEMMA NoLostUpdateCall ==
  ASSUME LockInvariant, NEW c \in Calls, CallStep(c)
  PROVE  NoLostUpdate'
<1>1. FrameEffect(c) /\ DocumentEffect(c)
  BY FrameStep, DocumentStep DEF LockInvariant
<1>2. ASSUME NEW d \in Calls, call'[d].pc \in {"write", "precommit", "rename"}
      PROVE  call'[d].base = dir'.doc
  <2>1. CASE d = c
    BY <1>1, <1>2, <2>1 DEF DocumentEffect, LockInvariant, NoLostUpdate
  <2>2. CASE d # c
    <3>1. call'[d] = call[d] /\ call[d].base = dir.doc
      BY <1>1, <1>2, <2>2 DEF FrameEffect, LockInvariant, NoLostUpdate
    <3>2. call[c].pc # "rename"
      BY <1>2, <2>2, <3>1 DEF LockInvariant, OwnersOwn, Holding
    <3> QED BY <1>1, <3>1, <3>2 DEF DocumentEffect
  <2> QED BY <2>1, <2>2
<1> QED BY <1>2 DEF NoLostUpdate

\* Together with TypeStep: the steps of calls keep the invariant.
LEMMA CallKeeps ==
  ASSUME LockInvariant, NEW c \in Calls, CallStep(c)
  PROVE  LockInvariant'
<1>1. TypeOK'
  BY TypeStep DEF LockInvariant, Next, ProcessStep
<1>2. OneThread'
  BY OneThreadCall DEF LockInvariant
<1> QED
  BY <1>1, <1>2, OwnersOwnCall, LockHasOwnerCall, ClaimsExclusiveCall,
     NoLostUpdateCall DEF LockInvariant

\* A process that starts has no calls yet, so no lock becomes a live one's.
LEMMA StartKeeps ==
  ASSUME LockInvariant, NEW p \in Procs, NEW b \in BOOLEAN, Start(p, b)
  PROVE  LockInvariant'
<1>1. TypeOK' /\ TypeOK
  BY TypeStep DEF LockInvariant, Next, ProcessStep
<1>2. /\ UNCHANGED <<dir, call>> /\ disk' \in {dir, disk}
      /\ prov[p].status = "fresh" /\ prov'[p].status = "up"
      /\ prov'[p].pendingLock = prov[p].pendingLock /\ prov'[p].run = prov[p].run
      /\ \A q \in Procs \ {p} : prov'[q] = prov[q]
  BY <1>1 DEF Start, TypeOK, Provider
<1>3. Home \in [Calls -> Procs]
  BY StoreAssumption
<1>4. ASSUME NEW c \in Calls, call[c].pc # "idle" PROVE Home[c] # p
  BY <1>2, <1>4 DEF LockInvariant, OneThread, At, Parked, Over, Finished
<1>5. OneThread'
  BY <1>2, <1>3, <1>4
  DEF LockInvariant, OneThread, Running, Alive, At, Parked, Over, Finished
<1>6. prov[p].pendingLock = None
  BY <1>2 DEF LockInvariant, OwnersOwn
<1>7. OwnersOwn'
  BY <1>2, <1>3, <1>4, <1>6 DEF LockInvariant, OwnersOwn, At
<1>8. LockHasOwner'
  BY <1>2 DEF LockInvariant, LockHasOwner
<1>9. ReclaimHitsDeadOwner'
  <2>1. ASSUME NEW c \in Calls, call[c].pc = "unlinkStale"
        PROVE  /\ dir.lock # None /\ dir.lock.by = call[c].seen.by
               /\ prov'[Home[dir.lock.by]].status # "up"
    <3>1. /\ dir.lock # None /\ dir.lock.by = call[c].seen.by
          /\ prov[Home[dir.lock.by]].status # "up"
      BY <2>1 DEF LockInvariant, ClaimsExclusive, ReclaimHitsDeadOwner, At, Alive
    <3>2. dir.lock.by \in Calls
      BY <1>1, <3>1 DEF TypeOK, Directory, LockFiles, LockFile
    <3>3. Home[dir.lock.by] # p
      BY <1>4, <3>1, <3>2 DEF LockInvariant, LockHasOwner, Holding, Finished, Parked, Over
    <3> QED BY <1>2, <1>3, <3>1, <3>2, <3>3
  <2> QED BY <1>2, <2>1 DEF ReclaimHitsDeadOwner, At, Alive
<1>10. ClaimsExclusive'
  BY <1>2, <1>9 DEF LockInvariant, ClaimsExclusive
<1>11. NoLostUpdate'
  BY <1>2 DEF LockInvariant, NoLostUpdate
<1> QED BY <1>1, <1>5, <1>7, <1>8, <1>10, <1>11 DEF LockInvariant

\* An invoked call finds the thread of its process free.
LEMMA InvokeKeeps ==
  ASSUME LockInvariant, NEW c \in Calls, NEW o \in Requests, Invoke(c, o)
  PROVE  LockInvariant'
<1>1. TypeOK' /\ TypeOK
  BY TypeStep DEF LockInvariant, Next, ProcessStep
<1>2. Home \in [Calls -> Procs]
  BY StoreAssumption
<1>3. /\ UNCHANGED <<dir, disk>>
      /\ call[c].pc = "idle" /\ call'[c].pc \in {"rstat", "loop"}
      /\ \A d \in Calls \ {c} : call'[d] = call[d]
      /\ prov[Home[c]].status = "up" /\ prov[Home[c]].run = None
      /\ prov'[Home[c]].run = c
      /\ \A q \in Procs \ {Home[c]} : prov'[q] = prov[q]
      /\ \A q \in Procs : /\ prov'[q].status = prov[q].status
                          /\ prov'[q].pendingLock = prov[q].pendingLock
  BY <1>1, <1>2 DEF Invoke, At, Alive, files, TypeOK, Call, Provider
<1>4. ASSUME NEW d \in Calls, d # c, Running(d) PROVE Running(d)'
  BY <1>2, <1>3, <1>4, DocumentAssumption DEF Running, Alive
<1>5. OneThread'
  <2>1. Running(c)'
    BY <1>2, <1>3 DEF Running, Alive
  <2> QED BY <1>2, <1>3, <1>4, <2>1
    DEF LockInvariant, OneThread, Alive, At, Parked, Over, Finished
<1>6. ASSUME NEW d \in Calls, call'[d].pc \notin {"rstat", "loop"}
      PROVE  call'[d] = call[d]
  BY <1>3, <1>6
<1>7. OwnersOwn'
  <2>1. \A d \in Calls : call'[d].pc \in Holding =>
           dir.lock # None /\ dir.lock.by = d /\ dir.lock.ino = call'[d].ino
    BY <1>6 DEF LockInvariant, OwnersOwn, Holding
  <2>2. ASSUME NEW q \in Procs, prov[q].pendingLock # None
        PROVE  /\ prov[q].status = "up" /\ dir.lock = prov[q].pendingLock
               /\ Home[dir.lock.by] = q /\ call'[dir.lock.by].pc \in {"report", "done"}
    <3>1. /\ prov[q].status = "up" /\ dir.lock = prov[q].pendingLock
          /\ Home[dir.lock.by] = q /\ call[dir.lock.by].pc \in {"report", "done"}
      BY <2>2 DEF LockInvariant, OwnersOwn
    <3>2. dir.lock.by \in Calls
      BY <1>1, <2>2, <3>1 DEF TypeOK, Directory, LockFiles, LockFile
    <3> QED BY <1>3, <3>1, <3>2
  <2>3. \A d \in Calls :
          call'[d].pc = "retryUnlink" => prov[Home[d]].pendingLock # None
    BY <1>6 DEF LockInvariant, OwnersOwn, At
  <2> QED BY <1>2, <1>3, <2>1, <2>2, <2>3 DEF OwnersOwn, At
<1>8. LockHasOwner'
  <2>1. ASSUME NEW l \in LockFiles, l # None, call[l.by].pc \in Holding \cup Over
        PROVE  call'[l.by].pc \in Holding \cup Over
    <3>1. l.by \in Calls /\ l.by # c
      BY <1>3, <2>1 DEF LockFiles, LockFile, Holding, Finished, Parked, Over
    <3> QED BY <1>3, <2>1, <3>1
  <2>2. dir.lock \in LockFiles /\ disk.lock \in LockFiles
    BY <1>1 DEF TypeOK, Directory
  <2> QED BY <1>3, <2>1, <2>2 DEF LockInvariant, LockHasOwner
<1>9. ASSUME NEW d \in Calls,
             call'[d].pc \in {"inspect", "claim"} \cup Claiming
      PROVE  call'[d] = call[d]
  BY <1>6, <1>9 DEF Claiming
<1>10. ReclaimHitsDeadOwner'
  <2>1. ASSUME NEW d \in Calls, call'[d].pc = "unlinkStale"
        PROVE  /\ dir.lock # None /\ dir.lock.by = call'[d].seen.by
               /\ prov'[Home[dir.lock.by]].status # "up"
    <3>1. call'[d] = call[d]
      BY <1>6, <2>1
    <3>2. /\ dir.lock # None /\ dir.lock.by = call[d].seen.by
          /\ prov[Home[dir.lock.by]].status # "up"
      BY <2>1, <3>1
      DEF LockInvariant, ClaimsExclusive, ReclaimHitsDeadOwner, At, Alive
    <3>3. dir.lock.by \in Calls
      BY <1>1, <3>2 DEF TypeOK, Directory, LockFiles, LockFile
    <3> QED BY <1>2, <1>3, <3>1, <3>2, <3>3
  <2> QED BY <1>3, <2>1 DEF ReclaimHitsDeadOwner, At, Alive
<1>11. ClaimsExclusive'
  BY <1>3, <1>9, <1>10 DEF LockInvariant, ClaimsExclusive
<1>12. NoLostUpdate'
  BY <1>3, <1>6 DEF LockInvariant, NoLostUpdate
<1> QED BY <1>1, <1>5, <1>7, <1>8, <1>11, <1>12 DEF LockInvariant

\* A crash leaves the other processes alone and ends every call of its own.
LEMMA KillEffect ==
  ASSUME LockInvariant, NEW S \in SUBSET Procs, Kill(S)
  PROVE  /\ \A p \in Procs \ S : prov'[p] = prov[p]
         /\ \A p \in S : prov'[p].status = "dead" /\ prov'[p].pendingLock = None
         /\ \A c \in Calls : Home[c] \notin S => call'[c] = call[c]
         /\ \A c \in Calls : Home[c] \in S => call'[c].pc \in Finished
         /\ \A c \in Calls : call[c].pc = "done" => call'[c] = call[c]
<1>1. [FreshProvider EXCEPT !.status = "dead"].status = "dead"
      /\ [FreshProvider EXCEPT !.status = "dead"].pendingLock = None
  BY DEF FreshProvider
<1>2. ASSUME NEW c \in Calls
      PROVE [FreshCall EXCEPT !.pc = "dead", !.durable = call[c].durable].pc = "dead"
  BY DEF FreshCall
<1> QED BY <1>1, <1>2 DEF Kill, At, Finished, Parked, Over

\* The crash of a process keeps the invariant: its locks are now stale.
LEMMA ProcessCrashKeeps ==
  ASSUME LockInvariant, NEW p \in Procs, ProcessCrash(p)
  PROVE  LockInvariant'
<1>1. TypeOK' /\ TypeOK
  BY TypeStep DEF LockInvariant, Next, ProcessStep
<1>2. Home \in [Calls -> Procs]
  BY StoreAssumption
<1>3. /\ UNCHANGED <<dir, disk>>
      /\ \A q \in Procs \ {p} : prov'[q] = prov[q]
      /\ prov'[p].status = "dead" /\ prov'[p].pendingLock = None
      /\ \A c \in Calls : Home[c] # p => call'[c] = call[c]
      /\ \A c \in Calls : Home[c] = p => call'[c].pc \in Finished
      /\ \A c \in Calls : call[c].pc = "done" => call'[c] = call[c]
  BY KillEffect DEF ProcessCrash, files
<1>4. ASSUME NEW c \in Calls, call'[c].pc \notin Finished
      PROVE  Home[c] # p /\ call'[c] = call[c] /\ prov'[Home[c]] = prov[Home[c]]
  BY <1>2, <1>3, <1>4
<1>5. OneThread'
  <2>1. ASSUME NEW c \in Calls, call'[c].pc \notin {"idle"} \cup Parked \cup Finished
        PROVE  Running(c)'
    BY <1>4, <2>1 DEF LockInvariant, OneThread, Running, Alive, Parked, Over, Finished
  <2>2. ASSUME NEW c \in Calls, call'[c].pc \in Parked PROVE Alive(c)'
    BY <1>4, <2>2 DEF LockInvariant, OneThread, Alive, At, Finished, Parked, Over
  <2>3. ASSUME NEW c \in Calls, prov'[Home[c]].status = "fresh"
        PROVE  call'[c].pc = "idle"
    BY <1>2, <1>3, <2>3 DEF LockInvariant, OneThread, At, Parked, Over, Finished
  <2> QED BY <2>1, <2>2, <2>3 DEF OneThread, At, Parked, Over, Finished
<1>6. OwnersOwn'
  <2>1. \A c \in Calls : call'[c].pc \in Holding =>
           dir.lock # None /\ dir.lock.by = c /\ dir.lock.ino = call'[c].ino
    BY <1>4 DEF LockInvariant, OwnersOwn, Holding, Finished, Parked, Over
  <2>2. ASSUME NEW q \in Procs, prov'[q].pendingLock # None
        PROVE  /\ prov'[q].status = "up" /\ dir.lock = prov'[q].pendingLock
               /\ Home[dir.lock.by] = q /\ call'[dir.lock.by].pc \in {"report", "done"}
    <3>1. prov'[q] = prov[q]
      BY <1>3, <2>2
    <3>2. /\ prov[q].status = "up" /\ dir.lock = prov[q].pendingLock
          /\ Home[dir.lock.by] = q /\ call[dir.lock.by].pc \in {"report", "done"}
      BY <2>2, <3>1 DEF LockInvariant, OwnersOwn
    <3>3. dir.lock.by \in Calls
      BY <1>1, <2>2, <3>1, <3>2 DEF TypeOK, Directory, LockFiles, LockFile
    <3> QED BY <1>3, <3>1, <3>2, <3>3
  <2>3. \A c \in Calls :
          call'[c].pc = "retryUnlink" => prov'[Home[c]].pendingLock # None
    BY <1>4 DEF LockInvariant, OwnersOwn, At, Finished, Parked, Over
  <2> QED BY <1>3, <2>1, <2>2, <2>3 DEF OwnersOwn, At
<1>7. LockHasOwner'
  <2>1. ASSUME NEW l \in LockFiles, l # None, call[l.by].pc \in Holding \cup Over
        PROVE  call'[l.by].pc \in Holding \cup Over
    <3>1. l.by \in Calls
      BY <2>1 DEF LockFiles, LockFile
    <3> QED BY <1>3, <2>1, <3>1 DEF Over
  <2>2. dir.lock \in LockFiles /\ disk.lock \in LockFiles
    BY <1>1 DEF TypeOK, Directory
  <2> QED BY <1>3, <2>1, <2>2 DEF LockInvariant, LockHasOwner
<1>8. ASSUME NEW c \in Calls,
             call'[c].pc \in {"inspect", "claim"} \cup Claiming
      PROVE  call'[c] = call[c]
  BY <1>4, <1>8 DEF Claiming, Finished, Parked, Over
<1>9. ReclaimHitsDeadOwner'
  <2>1. ASSUME NEW c \in Calls, call'[c].pc = "unlinkStale"
        PROVE  /\ dir.lock # None /\ dir.lock.by = call'[c].seen.by
               /\ prov'[Home[dir.lock.by]].status # "up"
    <3>1. /\ dir.lock # None /\ dir.lock.by = call'[c].seen.by
          /\ prov[Home[dir.lock.by]].status # "up"
      BY <1>8, <2>1
      DEF LockInvariant, ClaimsExclusive, ReclaimHitsDeadOwner, At, Alive, Claiming
    <3>2. dir.lock.by \in Calls
      BY <1>1, <3>1 DEF TypeOK, Directory, LockFiles, LockFile
    <3> QED BY <1>2, <1>3, <3>1, <3>2
  <2> QED BY <1>3, <2>1 DEF ReclaimHitsDeadOwner, At, Alive
<1>10. ClaimsExclusive'
  BY <1>3, <1>8, <1>9 DEF LockInvariant, ClaimsExclusive
<1>11. NoLostUpdate'
  BY <1>3, <1>4 DEF LockInvariant, NoLostUpdate, Finished, Parked, Over
<1> QED BY <1>1, <1>5, <1>6, <1>7, <1>10, <1>11 DEF LockInvariant

\* After a host crash no call is in progress; the lock the disk brings back
\* belongs to a finished call.
LEMMA HostCrashKeeps ==
  ASSUME LockInvariant, HostCrash
  PROVE  LockInvariant'
<1>1. TypeOK' /\ TypeOK
  BY TypeStep DEF LockInvariant, Next, HostStep
<1>2. Home \in [Calls -> Procs]
  BY StoreAssumption
<1>3. Kill(Up) /\ Up \in SUBSET Procs
  BY DEF HostCrash, Up
<1>4. /\ \A p \in Procs \ Up : prov'[p] = prov[p]
      /\ \A p \in Up : prov'[p].status = "dead" /\ prov'[p].pendingLock = None
      /\ \A c \in Calls : Home[c] \notin Up => call'[c] = call[c]
      /\ \A c \in Calls : Home[c] \in Up => call'[c].pc \in Finished
      /\ \A c \in Calls : call[c].pc = "done" => call'[c] = call[c]
  BY <1>3, KillEffect
<1>5. ASSUME NEW c \in Calls PROVE call'[c].pc \in {"idle"} \cup Finished
  <2>1. CASE Home[c] \in Up
    BY <1>4, <2>1
  <2>2. CASE Home[c] \notin Up
    BY <1>2, <1>4, <2>2
    DEF LockInvariant, OneThread, Running, Alive, At, Up, Parked, Over, Finished
  <2> QED BY <2>1, <2>2
<1>6. ASSUME NEW p \in Procs
      PROVE  prov'[p].pendingLock = None /\ prov'[p].status # "up"
  <2>1. p \notin Up => prov[p].pendingLock = None /\ prov[p].status # "up"
    BY DEF LockInvariant, OwnersOwn, Up
  <2> QED BY <1>4, <2>1
<1>7. OneThread'
  <2>1. ASSUME NEW c \in Calls, prov'[Home[c]].status = "fresh"
        PROVE  call'[c].pc = "idle"
    BY <1>2, <1>4, <2>1 DEF LockInvariant, OneThread, At, Parked, Over, Finished
  <2> QED BY <1>5, <2>1 DEF OneThread, At, Finished, Parked, Over
<1>8. OwnersOwn'
  BY <1>5, <1>6 DEF OwnersOwn, Holding, Finished, At, Parked, Over
<1>9. LockHasOwner'
  <2>1. ASSUME disk.lock # None PROVE call'[disk.lock.by].pc \in Holding \cup Over
    <3>1. disk.lock.by \in Calls /\ call[disk.lock.by].pc \in Holding \cup Over
      BY <1>1, <2>1
      DEF TypeOK, Directory, LockFiles, LockFile, LockInvariant, LockHasOwner
    <3>2. call[disk.lock.by].pc \in Holding => Home[disk.lock.by] \in Up
      BY <1>2, <3>1
      DEF LockInvariant, OneThread, Running, Alive, Holding, Parked, Finished, Up
    <3> QED BY <1>4, <3>1, <3>2 DEF Over
  <2>2. dir'.lock \in {disk.lock, None} /\ disk' = dir'
    BY DEF HostCrash, EmptyDirectory
  <2> QED BY <2>1, <2>2 DEF LockHasOwner
<1>10. ClaimsExclusive'
  BY <1>5 DEF ClaimsExclusive, ReclaimHitsDeadOwner, Claiming, Finished, At, Parked, Over
<1>11. NoLostUpdate'
  BY <1>5 DEF NoLostUpdate, Finished, Parked, Over
<1> QED BY <1>1, <1>7, <1>8, <1>9, <1>10, <1>11 DEF LockInvariant

\* Write-back and stuttering keep the invariant.
LEMMA QuietKeeps ==
  ASSUME LockInvariant, WriteBack \/ UNCHANGED vars
  PROVE  LockInvariant'
<1>1. UNCHANGED <<dir, prov, call>> /\ disk' \in {dir, disk}
  BY DEF WriteBack, vars, files
<1>2. TypeOK'
  <2>1. CASE WriteBack
    BY <2>1, TypeStep DEF LockInvariant, Next, HostStep
  <2>2. CASE UNCHANGED vars
    BY <2>2 DEF LockInvariant, TypeOK, vars, files
  <2> QED BY <2>1, <2>2
<1>3. OneThread' /\ OwnersOwn' /\ NoLostUpdate'
  BY <1>1
  DEF LockInvariant, OneThread, OwnersOwn, NoLostUpdate, At, Alive, Running, Parked,
      Over, Finished
<1>4. LockHasOwner'
  BY <1>1 DEF LockInvariant, LockHasOwner
<1>5. ClaimsExclusive'
  BY <1>1 DEF LockInvariant, ClaimsExclusive, ReclaimHitsDeadOwner, At, Alive
<1> QED BY <1>2, <1>3, <1>4, <1>5 DEF LockInvariant

\* The invariant is inductive.
LEMMA InvariantStep ==
  ASSUME LockInvariant, [Next]_vars
  PROVE  LockInvariant'
BY CallKeeps, StartKeeps, InvokeKeeps, ProcessCrashKeeps, HostCrashKeeps,
   QuietKeeps DEF Next, ProcessStep, HostStep

\* The invariant holds initially.
LEMMA InvariantInit == Init => LockInvariant
<1> SUFFICES ASSUME Init PROVE LockInvariant
  OBVIOUS
<1>1. \A c \in Calls : call[c].pc = "idle"
  BY DEF Init, FreshCall
<1>2. \A p \in Procs : prov[p].status = "fresh" /\ prov[p].pendingLock = None
  BY DEF Init, FreshProvider
<1>3. dir.lock = None /\ disk.lock = None
  BY DEF Init, EmptyDirectory
<1>4. TypeOK
  BY EmptyTyped DEF Init, TypeOK
<1>5. OneThread /\ OwnersOwn
  BY <1>1, <1>2 DEF OneThread, OwnersOwn, At, Holding, Finished, Parked, Over
<1>6. LockHasOwner
  BY <1>3 DEF LockHasOwner
<1>7. ClaimsExclusive /\ NoLostUpdate
  BY <1>1 DEF ClaimsExclusive, ReclaimHitsDeadOwner, NoLostUpdate, Claiming, At
<1> QED BY <1>4, <1>5, <1>6, <1>7 DEF LockInvariant

-----------------------------------------------------------------------------
\* The lock protocol keeps its invariant, whatever the processes, calls, keys
\* and inode numbers, and whatever crashes.
THEOREM LockProtocol == Spec => []LockInvariant
<1>1. Init => LockInvariant
  BY InvariantInit
<1>2. LockInvariant /\ [Next]_vars => LockInvariant'
  BY InvariantStep
<1> QED BY <1>1, <1>2, PTL DEF Spec

\* Every field of the files, the providers and the calls keeps its type.
THEOREM TypeCorrect == Spec => []TypeOK
<1>1. LockInvariant => TypeOK
  BY DEF LockInvariant
<1> QED BY <1>1, LockProtocol, PTL

\* Two calls never share the critical section: both would own the lock file.
THEOREM Exclusion == Spec => []MutualExclusion
<1>1. LockInvariant => MutualExclusion
  BY DEF LockInvariant, OwnersOwn, MutualExclusion
<1> QED BY <1>1, LockProtocol, PTL

\* What a mutation read is still current when it is published.
THEOREM UpdatesKept == Spec => []NoLostUpdate
<1>1. LockInvariant => NoLostUpdate
  BY DEF LockInvariant
<1> QED BY <1>1, LockProtocol, PTL

\* The unlink of a stale lock hits the dead owner it re-checked.
THEOREM ReclaimSafe == Spec => []ReclaimHitsDeadOwner
<1>1. LockInvariant => ReclaimHitsDeadOwner
  BY DEF LockInvariant, ClaimsExclusive
<1> QED BY <1>1, LockProtocol, PTL

-----------------------------------------------------------------------------
(* No step removes the lock of a live process, except its own release.      *)

LiveLockStep ==
  dir.lock # None /\ dir'.lock # dir.lock =>
    LET owner == dir.lock.by IN
    \/ ~Alive(owner) \/ prov'[Home[owner]].status # "up"
    \/ call[owner].pc \in {"unlink", "report", "done"}

\* Of the steps that change the lock, a reclaim hits a dead owner and the
\* others are releases by the owner or on behalf of it.
LEMMA LiveLockCall ==
  ASSUME LockInvariant, NEW c \in Calls, CallStep(c)
  PROVE  LiveLockStep
<1>1. LockEffect(c)
  BY LockStep DEF LockInvariant
<1> SUFFICES ASSUME dir.lock # None, dir'.lock # dir.lock
             PROVE  ~Alive(dir.lock.by) \/ call[dir.lock.by].pc \in {"unlink", "report", "done"}
  BY DEF LiveLockStep
<1>2. CASE call[c].pc = "unlinkStale"
  BY <1>2 DEF LockInvariant, ClaimsExclusive, ReclaimHitsDeadOwner, At
<1>3. CASE call[c].pc = "unlink"
  BY <1>3 DEF LockInvariant, OwnersOwn, Holding
<1>4. CASE call[c].pc = "retryUnlink"
  BY <1>4, StoreAssumption DEF LockInvariant, OwnersOwn, At
<1> QED BY <1>1, <1>2, <1>3, <1>4 DEF LockEffect

\* No step takes the lock from a live owner, but at the end of its own call.
LEMMA LiveLockNext ==
  ASSUME LockInvariant, [Next]_vars
  PROVE  LiveLockStep
<1>1. CASE \E c \in Calls : CallStep(c)
  BY <1>1, LiveLockCall
<1>2. CASE HostCrash
  <2>1. ASSUME dir.lock # None, Alive(dir.lock.by)
        PROVE  prov'[Home[dir.lock.by]].status # "up"
    <3>1. Home[dir.lock.by] \in Up
      BY <2>1, StoreAssumption
      DEF Alive, Up, LockInvariant, TypeOK, Directory, LockFiles, LockFile
    <3>2. Kill(Up) /\ Up \in SUBSET Procs
      BY <1>2 DEF HostCrash, Up
    <3> QED BY <3>1, <3>2, KillEffect
  <2> QED BY <2>1 DEF LiveLockStep
<1>3. CASE UNCHANGED dir
  BY <1>3 DEF LiveLockStep
<1> QED BY <1>1, <1>2, <1>3
  DEF Next, ProcessStep, HostStep, Start, Invoke, ProcessCrash, WriteBack, vars, files

\* The lock of a live process goes away only by its own release.
THEOREM LockKept == Spec => LiveLockKept
<1>1. LockInvariant /\ [Next]_vars => [LiveLockStep]_vars
  BY LiveLockNext
<1>2. Spec => [][LiveLockStep]_vars
  BY <1>1, LockProtocol, PTL DEF Spec
<1> QED BY <1>2, PTL DEF LiveLockKept, LiveLockStep

-----------------------------------------------------------------------------
(* What is reported durable survives a host crash.                          *)

\* As durability sees a step of a call: the document is kept, or replaced by
\* the rename; the disk is kept, or becomes the directory; a call becomes
\* durable by a flush of the directory over an established root.
FlushEffect(c) ==
  LET at == call[c].pc IN
  /\ rootDurable' = rootDurable
  /\ \A p \in Procs : prov'[p].barrier = prov[p].barrier
  /\ \/ dir'.doc = dir.doc
     \/ /\ at = "rename" /\ call'[c].pc = "barrier"
        /\ dir'.doc.log = call[c].base.log \cup {c}
  /\ disk' \in {disk, dir}
  /\ call'[c].pc = "barrier" => at = "rename" /\ c \in dir'.doc.log
  /\ call'[c].durable =>
       call[c].durable \/ (at = "barrier" /\ prov[Home[c]].barrier /\ disk' = dir)

\* Every step of a call has that effect.
LEMMA FlushStep ==
  ASSUME TypeOK, NEW c \in Calls, CallStep(c)
  PROVE  FlushEffect(c)
<1>1. /\ call \in [Calls -> Call] /\ prov \in [Procs -> Provider]
      /\ Home[c] \in Procs /\ dir \in Directory
  BY StoreAssumption DEF TypeOK
\* A step that neither publishes nor flushes.
<1>2. ASSUME rootDurable' = rootDurable, disk' = disk, dir'.doc = dir.doc,
             \A p \in Procs : prov'[p].barrier = prov[p].barrier,
             call'[c].pc # "barrier", call'[c].durable = call[c].durable
      PROVE  FlushEffect(c)
  BY <1>2 DEF FlushEffect
<1>3. ASSUME NEW r, call' = Settled(c, r)
      PROVE  call'[c].pc = "done" /\ call'[c].durable = call[c].durable
  BY <1>1, <1>3 DEF Settled, FreshCall
<1>4. ASSUME NEW x, Goto(c, x)
      PROVE  call'[c].pc = x /\ call'[c].durable = call[c].durable
  BY <1>1, <1>4 DEF Goto, Call
<1>5. ASSUME NEW b, ToRelease(c, b)
      PROVE  call'[c].pc = "release" /\ call'[c].durable = call[c].durable
  BY <1>1, <1>5 DEF ToRelease, Call
<1>6. ASSUME call' = [call EXCEPT ![c].pc = "unclaim", ![c].err = TRUE]
      PROVE  call'[c].pc = "unclaim" /\ call'[c].durable = call[c].durable
  BY <1>1, <1>6 DEF Call
<1>7. ASSUME \/ UNCHANGED prov \/ Yield(c)
             \/ prov' = [prov EXCEPT ![Home[c]].uncertain = TRUE, ![Home[c]].run = None]
      PROVE  \A p \in Procs : prov'[p].barrier = prov[p].barrier
  BY <1>1, <1>7 DEF Yield, Provider
<1>8. CASE ReadStat(c) \/ ReadOpen(c) \/ LoopThrow(c)
  <2>1. call'[c].pc \in {"ropen", "rstat", "done"} /\ call'[c].durable = call[c].durable
    BY <1>8, <1>1, <1>3 DEF ReadStat, ReadOpen, LoopThrow, Throw, Call
  <2> QED BY <1>2, <1>7, <1>8, <2>1 DEF ReadStat, ReadOpen, LoopThrow, Throw, files
<1>9. CASE RetryTemporary(c)
  BY <1>9, <1>1, <1>2 DEF RetryTemporary, Looping, At, Provider
<1>10. CASE RetryRelease(c)
  BY <1>10, <1>2, <1>3, <1>4, <1>7 DEF RetryRelease, files
<1>11. CASE RetryUnlink(c)
  BY <1>11, <1>1, <1>2, <1>4 DEF RetryUnlink, Directory, Provider
<1>12. CASE \E i \in Inodes : CreateLock(c, i)
  <2>1. PICK i \in Inodes : CreateLock(c, i)
    BY <1>12
  <2>2. dir'.doc = dir.doc
    BY <1>1, <2>1 DEF CreateLock, Directory
  <2>3. call'[c].pc = "init" /\ call'[c].durable = call[c].durable
    BY <1>1, <2>1 DEF CreateLock, Call
  <2>4. UNCHANGED <<disk, rootDurable, prov>>
    BY <2>1 DEF CreateLock
  <2> QED BY <1>2, <1>7, <2>2, <2>3, <2>4
<1>13. CASE LockExists(c)
  BY <1>13, <1>2, <1>4 DEF LockExists, files
<1>14. CASE InitLock(c)
  <2>1. call'[c].pc \in {"held", "release", "done"} /\ call'[c].durable = call[c].durable
    BY <1>14, <1>3, <1>4, <1>5 DEF InitLock
  <2> QED BY <1>2, <1>7, <1>14, <2>1 DEF InitLock
<1>15. CASE StatLock(c) \/ InspectOwner(c)
  <2>1. call'[c].pc \in {"wait", "inspect", "claim"}
        /\ call'[c].durable = call[c].durable
    BY <1>15, <1>1, <1>4 DEF StatLock, InspectOwner, Wait, Call
  <2> QED BY <1>2, <1>7, <1>15, <2>1 DEF StatLock, InspectOwner, Wait, files
<1>16. CASE CreateClaim(c) \/ RecheckLock(c) \/ UnlinkStale(c) \/ Unclaim(c)
  <2>1. call'[c].pc \in {"wait", "claimed", "unlinkStale", "unclaim", "done"}
        /\ call'[c].durable = call[c].durable
    BY <1>16, <1>3, <1>4, <1>6
    DEF CreateClaim, RecheckLock, UnlinkStale, Unclaim, Wait, Throw
  <2>2. dir'.doc = dir.doc /\ disk' = disk /\ rootDurable' = rootDurable
    BY <1>16, <1>1 DEF CreateClaim, RecheckLock, UnlinkStale, Unclaim, Directory, files
  <2>3. \A p \in Procs : prov'[p].barrier = prov[p].barrier
    BY <1>7, <1>16 DEF CreateClaim, RecheckLock, UnlinkStale, Unclaim, Wait, Throw
  <2> QED BY <1>2, <2>1, <2>2, <2>3
<1>17. CASE Resume(c)
  BY <1>17, <1>1, <1>2 DEF Resume, Call, Provider, files
<1>18. CASE OperationThrow(c) \/ ReadForUpdate(c)
  <2>1. call'[c].pc \in {"release", "write"} /\ call'[c].durable = call[c].durable
    BY <1>18, <1>1, <1>5 DEF OperationThrow, ReadForUpdate, Call
  <2> QED BY <1>2, <1>18, <2>1 DEF OperationThrow, ReadForUpdate, files
<1>19. CASE WriteTemporary(c) \/ PreCommit(c)
  BY <1>19, <1>2, <1>4 DEF WriteTemporary, PreCommit, files
<1>20. CASE WriteThrow(c)
  <2>1. call'[c].pc = "release" /\ call'[c].durable = call[c].durable
    BY <1>20, <1>5 DEF WriteThrow
  <2>2. \A p \in Procs : prov'[p].barrier = prov[p].barrier
    BY <1>1, <1>20 DEF WriteThrow, Provider
  <2> QED BY <1>2, <1>20, <2>1, <2>2 DEF WriteThrow
<1>21. CASE Publish(c)
  <2>1. dir'.doc.log = call[c].base.log \cup {c}
    BY <1>21, <1>1 DEF Publish, Mutate, Directory
  <2>2. call'[c].pc = "barrier" /\ call'[c].durable = call[c].durable
    BY <1>21, <1>1 DEF Publish, Call
  <2> QED BY <1>21, <2>1, <2>2 DEF Publish, At, FlushEffect
<1>22. CASE Barrier(c)
  <2>1. /\ At(c, "barrier") /\ disk' \in {disk, dir}
        /\ UNCHANGED <<dir, rootDurable, prov>>
    BY <1>22 DEF Barrier
  <2>2. ASSUME NEW b, NEW d,
               call' = [call EXCEPT ![c].pc = "release", ![c].err = b, ![c].durable = d]
        PROVE  call'[c].pc = "release" /\ call'[c].durable = d
    BY <1>1, <2>2 DEF Call
  <2>3. CASE ToRelease(c, TRUE)
    BY <1>5, <2>1, <2>3 DEF FlushEffect
  <2>4. CASE /\ disk' = dir
             /\ \E b \in BOOLEAN :
                  call' = [call EXCEPT ![c].pc = "release", ![c].err = b,
                                       ![c].durable = prov[Home[c]].barrier]
    <3>1. call'[c].pc = "release" /\ call'[c].durable = prov[Home[c]].barrier
      BY <2>2, <2>4, Zenon
    <3> QED BY <2>1, <2>4, <3>1 DEF FlushEffect, At
  <2> QED BY <1>22, <2>3, <2>4 DEF Barrier
<1>23. CASE Release(c)
  <2>1. call'[c].pc \in {"unlink", "report"} /\ call'[c].durable = call[c].durable
    BY <1>23, <1>1, <1>4, ReportEffect DEF Release
  <2>2. \A p \in Procs : prov'[p].barrier = prov[p].barrier
    <3>1. ASSUME NEW l,
                 prov' = [prov EXCEPT ![Home[c]].pendingLock = l, ![Home[c]].run = None]
          PROVE  \A p \in Procs : prov'[p].barrier = prov[p].barrier
      BY <1>1, <3>1 DEF Provider
    <3> QED BY <1>7, <1>23, <3>1 DEF Release
  <2> QED BY <1>2, <1>23, <2>1, <2>2 DEF Release, files
<1>24. CASE UnlinkLock(c)
  BY <1>24, <1>1, <1>2, <1>7, ReportEffect DEF UnlinkLock, Directory
<1>25. CASE Report(c)
  BY <1>25, <1>2, <1>3, <1>7 DEF Report, files
<1> QED
  BY <1>8, <1>9, <1>10, <1>11, <1>12, <1>13, <1>14, <1>15, <1>16, <1>17, <1>18,
     <1>19, <1>20, <1>21, <1>22, <1>23, <1>24, <1>25 DEF CallStep

\* The document only grows: a rename replaces the current document by its own
\* successor, because no update is lost.
LEMMA DurableCall ==
  ASSUME LockInvariant, DurableInvariant, NEW c \in Calls, CallStep(c)
  PROVE  DurableInvariant'
<1>1. FrameEffect(c) /\ FlushEffect(c) /\ Home \in [Calls -> Procs]
  BY FrameStep, FlushStep, StoreAssumption DEF LockInvariant
<1>2. dir.doc.log \subseteq dir'.doc.log
  BY <1>1 DEF FlushEffect, LockInvariant, NoLostUpdate
<1>3. ASSUME NEW d \in Calls, call'[d].pc = "barrier" PROVE d \in dir'.doc.log
  BY <1>1, <1>2, <1>3 DEF FrameEffect, FlushEffect, DurableInvariant, At
<1>4. ASSUME NEW d \in Calls, call'[d].durable
      PROVE  rootDurable /\ d \in dir.doc.log /\ d \in disk'.doc.log
  <2>1. CASE call[d].durable
    BY <1>1, <2>1 DEF FlushEffect, DurableInvariant
  <2>2. CASE ~call[d].durable
    <3>1. d = c /\ call[c].pc = "barrier" /\ prov[Home[c]].barrier /\ disk' = dir
      BY <1>1, <1>4, <2>2 DEF FrameEffect, FlushEffect
    <3> QED BY <1>1, <3>1 DEF DurableInvariant, At
  <2> QED BY <2>1, <2>2
<1>5. \A p \in Procs : prov'[p].barrier => rootDurable'
  BY <1>1 DEF FlushEffect, DurableInvariant
<1>6. \A d \in Calls : call'[d].durable =>
        rootDurable' /\ d \in dir'.doc.log /\ d \in disk'.doc.log
  BY <1>1, <1>2, <1>4 DEF FlushEffect
<1> QED BY <1>3, <1>5, <1>6 DEF DurableInvariant, At

\* A host crash keeps the flushed directory, whose document holds every
\* durable mutation; it loses everything only if the root was never flushed.
LEMMA DurableNext ==
  ASSUME LockInvariant, DurableInvariant, [Next]_vars
  PROVE  DurableInvariant'
<1>1. prov \in [Procs -> Provider] /\ call \in [Calls -> Call]
      /\ rootDurable \in BOOLEAN /\ Home \in [Calls -> Procs]
  BY StoreAssumption DEF LockInvariant, TypeOK
<1>2. ASSUME NEW c \in Calls, CallStep(c) PROVE DurableInvariant'
  BY <1>2, DurableCall
<1>3. ASSUME NEW p \in Procs, NEW b \in BOOLEAN, Start(p, b) PROVE DurableInvariant'
  <2>1. /\ UNCHANGED <<dir, call>> /\ disk' \in {dir, disk}
        /\ rootDurable' = (rootDurable \/ b)
    BY <1>3 DEF Start
  <2>2. ASSUME NEW q \in Procs, prov'[q].barrier PROVE rootDurable'
    <3>1. CASE q = p
      BY <1>1, <1>3, <2>1, <2>2, <3>1 DEF Start, Provider
    <3>2. CASE q # p
      BY <1>1, <1>3, <2>1, <2>2, <3>2 DEF Start, DurableInvariant
    <3> QED BY <3>1, <3>2
  <2> QED BY <2>1, <2>2 DEF DurableInvariant, At
<1>4. ASSUME NEW c \in Calls, NEW o \in Requests, Invoke(c, o) PROVE DurableInvariant'
  <2>1. UNCHANGED <<dir, disk, rootDurable>>
    BY <1>4 DEF Invoke, files
  <2>2. \A p \in Procs : prov'[p].barrier = prov[p].barrier
    BY <1>1, <1>4 DEF Invoke, Provider
  <2>3. \A d \in Calls : /\ call'[d].durable = call[d].durable
                         /\ call'[d].pc = "barrier" => call[d].pc = "barrier"
    BY <1>1, <1>4 DEF Invoke, Call
  <2> QED BY <2>1, <2>2, <2>3 DEF DurableInvariant, At
<1>5. ASSUME NEW S \in SUBSET Procs, Kill(S), rootDurable' = rootDurable
      PROVE  /\ \A p \in Procs : prov'[p].barrier => rootDurable'
             /\ \A c \in Calls : /\ call'[c].durable = call[c].durable
                                 /\ call'[c].pc = "barrier" => call[c].pc = "barrier"
                                 /\ Home[c] \in S => call'[c].pc # "barrier"
  <2>1. ~[FreshProvider EXCEPT !.status = "dead"].barrier
    BY DEF FreshProvider
  <2>2. ASSUME NEW c \in Calls,
               NEW d, d = [FreshCall EXCEPT !.pc = "dead", !.durable = call[c].durable]
        PROVE  d.pc = "dead" /\ d.durable = call[c].durable
    BY <2>2 DEF FreshCall
  <2> QED BY <1>5, <2>1, <2>2 DEF Kill, DurableInvariant, At
<1>6. ASSUME NEW p \in Procs, ProcessCrash(p) PROVE DurableInvariant'
  <2>1. Kill({p}) /\ UNCHANGED <<dir, disk, rootDurable>>
    BY <1>6 DEF ProcessCrash, files
  <2> QED BY <1>5, <2>1 DEF DurableInvariant, At
<1>7. CASE HostCrash
  <2>1. /\ Kill(Up) /\ Up \in SUBSET Procs /\ rootDurable' = rootDurable
        /\ disk' = dir' /\ (dir' = disk \/ ~rootDurable)
    BY <1>7 DEF HostCrash, Up
  <2>2. ASSUME NEW c \in Calls PROVE call'[c].pc # "barrier"
    <3>1. call[c].pc = "barrier" => Home[c] \in Up
      BY <1>1 DEF LockInvariant, OneThread, Running, Alive, Parked, Finished, Up
    <3> QED BY <1>5, <2>1, <3>1
  <2> QED BY <1>5, <2>1, <2>2 DEF DurableInvariant, At
<1>8. CASE WriteBack \/ UNCHANGED vars
  BY <1>8 DEF WriteBack, DurableInvariant, At, vars, files
<1> QED BY <1>2, <1>3, <1>4, <1>6, <1>7, <1>8 DEF Next, ProcessStep, HostStep

\* A mutation reported durable is on the disk, in every reachable state.
THEOREM Durable == Spec => []DurabilityTruth
<1>1. Init => DurableInvariant
  BY DEF Init, DurableInvariant, FreshProvider, FreshCall, At
<1>2. LockInvariant /\ DurableInvariant /\ [Next]_vars => DurableInvariant'
  BY DurableNext
<1>3. DurableInvariant => DurabilityTruth
  BY DEF DurableInvariant, DurabilityTruth
<1> QED BY <1>1, <1>2, <1>3, LockProtocol, PTL DEF Spec

-----------------------------------------------------------------------------
(* The invariant behind the outcomes and the refinement.                    *)

\* Program points of a mutation before it is settled, of the last lookups
\* before its rename, and after the rename.
Mutating == Holding \cup Claiming \cup Waiting
Publishing == {"write", "precommit", "rename"}
Committing == {"barrier", "release", "unlink", "report"}

Successes == {"ok", "ackConfirmed", "ackUnresolved"}
\* The call has published its mutation, or reported that it has.
Published(c) == call[c].committed \/ call[c].result \in Successes

\* What a mutation works on was asked for, and was not refused under the lock.
Requested ==
  \A c \in Calls : call[c].pc \in Mutating =>
    call[c].op \in Requests /\ call[c].op.kind \in {"set", "delete"}
Admitted ==
  \A c \in Calls : call[c].pc \in Publishing =>
    /\ ~Conflict(call[c].op, call[c].base)
    /\ ~Full(call[c].op, call[c].base)
    /\ ~NoEntry(call[c].op, call[c].base)

\* A call reports once, at its end; the flags of the rename and of the flush
\* are up only after them.
ReportedOnce ==
  \A c \in Calls :
    /\ call[c].result # "none" => At(c, "done")
    /\ call[c].committed => call[c].pc \in Committing
    /\ call[c].durable => call[c].pc \in {"release", "unlink"} \cup Over

\* The document and its image hold the mutations of calls that know it, or
\* that died; and all of them as long as the process lives.
LogKnown ==
  \A c \in Calls :
    /\ c \in dir.doc.log \cup disk.doc.log => Published(c) \/ At(c, "dead")
    /\ Alive(c) /\ Published(c) => c \in dir.doc.log

\* A lock whose cleanup was confirmed does not come back.
ConfirmedGone ==
  \A c \in Calls :
    Alive(c) /\ call[c].result = "ackConfirmed" =>
      dir.lock = None \/ dir.lock.by # c

OutcomeInvariant ==
  /\ Requested /\ Admitted /\ ReportedOnce /\ LogKnown
  /\ LockAccounted /\ ConfirmedGone

-----------------------------------------------------------------------------
(* What one step of a call does to outcomes, requests and lock cleanup.     *)

\* A step publishes and reports nothing, renames the document, flushes the
\* directory, or is the end of the call.
Silent(c) ==
  /\ dir'.doc = dir.doc /\ disk' = disk
  /\ call'[c].result = call[c].result
  /\ call'[c].committed = call[c].committed
  /\ call'[c].durable = call[c].durable
  /\ call[c].pc \in Committing => call'[c].pc \in Committing \ {"barrier"}
Renames(c) ==
  /\ call[c].pc = "rename" /\ call'[c].pc = "barrier"
  /\ dir'.doc = Mutate(c, call[c].op, call[c].base) /\ disk' = disk
  /\ call'[c].committed /\ call'[c].result = call[c].result
  /\ call'[c].durable = call[c].durable
Flushes(c) ==
  /\ call[c].pc = "barrier" /\ call'[c].pc = "release"
  /\ dir' = dir /\ disk' = dir
  /\ call'[c].result = call[c].result
  /\ call'[c].committed = call[c].committed
  /\ call'[c].durable = prov[Home[c]].barrier
Settles(c) ==
  /\ dir'.doc = dir.doc /\ disk' = disk
  /\ call'[c].pc = "done" /\ ~call'[c].committed
  /\ call'[c].durable = call[c].durable
  /\ \/ call[c].pc \notin Committing /\ call'[c].result \in {"read", "failed"}
     \/ /\ call[c].pc = "report"
        /\ call'[c].result \in Successes \cup {"unchanged", "failed"}
        /\ call'[c].result \in Successes <=> call[c].committed
        /\ call'[c].result = "ackConfirmed" => ~Unresolved(Home[c])
OutcomeEffect(c) == Silent(c) \/ Renames(c) \/ Flushes(c) \/ Settles(c)

\* The end of a call, or of its critical section, as its outcome sees it.
LEMMA SettledOutcome ==
  ASSUME call \in [Calls -> Call], NEW c \in Calls, NEW r, call' = Settled(c, r)
  PROVE  /\ call'[c].pc = "done" /\ call'[c].result = r /\ ~call'[c].committed
         /\ call'[c].durable = call[c].durable
BY DEF Settled, FreshCall
LEMMA ReportOutcome ==
  ASSUME call \in [Calls -> Call], NEW c \in Calls, NEW b, ToReport(c, b)
  PROVE  /\ call'[c].pc = "report" /\ call'[c].result = "none"
         /\ call'[c].committed = call[c].committed
         /\ call'[c].durable = call[c].durable
BY DEF ToReport, FreshCall

\* Every step of a call has one of these effects.
LEMMA OutcomeStep ==
  ASSUME TypeOK, ReportedOnce, NEW c \in Calls, CallStep(c)
  PROVE  OutcomeEffect(c)
<1>1. call \in [Calls -> Call] /\ dir \in Directory
  BY DEF TypeOK
<1>2. ASSUME dir'.doc = dir.doc, disk' = disk, call[c].pc \notin Committing,
             call'[c].result = call[c].result,
             call'[c].committed = call[c].committed,
             call'[c].durable = call[c].durable
      PROVE  OutcomeEffect(c)
  BY <1>2 DEF OutcomeEffect, Silent
<1>3. ASSUME NEW x, Goto(c, x)
      PROVE  /\ call'[c].result = call[c].result
             /\ call'[c].committed = call[c].committed
             /\ call'[c].durable = call[c].durable
             /\ call'[c].pc = x
  BY <1>1, <1>3 DEF Goto, Call
<1>4. ASSUME NEW b, ToRelease(c, b)
      PROVE  /\ call'[c].result = call[c].result
             /\ call'[c].committed = call[c].committed
             /\ call'[c].durable = call[c].durable
             /\ call'[c].pc = "release"
  BY <1>1, <1>4 DEF ToRelease, Call
<1>5. ASSUME call' = [call EXCEPT ![c].pc = "unclaim", ![c].err = TRUE]
      PROVE  /\ call'[c].result = call[c].result
             /\ call'[c].committed = call[c].committed
             /\ call'[c].durable = call[c].durable
  BY <1>1, <1>5 DEF Call
<1>6. ASSUME NEW r \in {"read", "failed"}, call' = Settled(c, r),
             UNCHANGED dir, UNCHANGED disk, call[c].pc \notin Committing
      PROVE  OutcomeEffect(c)
  BY <1>1, <1>6, SettledOutcome DEF OutcomeEffect, Settles
<1>7. call[c].pc # "done" => call[c].result = "none"
  BY DEF ReportedOnce, At
<1>8. CASE ReadStat(c) \/ ReadOpen(c)
  <2>1. call[c].pc \in {"rstat", "ropen"} /\ UNCHANGED <<dir, disk>>
    BY <1>8 DEF ReadStat, ReadOpen, At, files
  <2>2. \/ call' = Settled(c, "read") \/ call' = Settled(c, "failed")
        \/ call' = [call EXCEPT ![c].pc = "ropen", ![c].base = dir.doc]
        \/ call' = [call EXCEPT ![c].pc = "rstat", ![c].tries = call[c].tries + 1]
    BY <1>8 DEF ReadStat, ReadOpen, Throw
  <2>3. CASE \/ call' = [call EXCEPT ![c].pc = "ropen", ![c].base = dir.doc]
             \/ call' = [call EXCEPT ![c].pc = "rstat", ![c].tries = call[c].tries + 1]
    BY <1>1, <1>2, <2>1, <2>3 DEF Committing, Call
  <2> QED BY <1>6, <2>1, <2>2, <2>3 DEF Committing
<1>9. CASE LoopThrow(c)
  BY <1>6, <1>9 DEF LoopThrow, Throw, files, Committing
<1>10. CASE RetryTemporary(c)
  BY <1>2, <1>10 DEF RetryTemporary, Looping, At, Committing
<1>11. CASE RetryRelease(c)
  <2>1. call[c].pc = "loop" /\ UNCHANGED <<dir, disk>>
    BY <1>11 DEF RetryRelease, Looping, At, files
  <2>2. call' = Settled(c, "failed") \/ Goto(c, "retryUnlink")
    BY <1>11 DEF RetryRelease
  <2> QED BY <1>2, <1>3, <1>6, <2>1, <2>2 DEF Committing
<1>12. CASE RetryUnlink(c)
  BY <1>1, <1>2, <1>3, <1>12 DEF RetryUnlink, Directory, At, Committing
<1>13. CASE \E i \in Inodes : CreateLock(c, i)
  <2>1. PICK i \in Inodes : CreateLock(c, i)
    BY <1>13
  <2>2. dir'.doc = dir.doc /\ disk' = disk /\ call[c].pc = "loop"
    BY <1>1, <2>1 DEF CreateLock, Looping, At, Directory
  <2>3. /\ call'[c].result = call[c].result
        /\ call'[c].committed = call[c].committed
        /\ call'[c].durable = call[c].durable
    BY <1>1, <2>1 DEF CreateLock, Call
  <2> QED BY <1>2, <2>2, <2>3 DEF Committing
<1>14. CASE LockExists(c)
  BY <1>2, <1>3, <1>14 DEF LockExists, Looping, At, files, Committing
<1>15. CASE InitLock(c)
  <2>1. call[c].pc = "init" /\ UNCHANGED <<dir, disk>>
    BY <1>15 DEF InitLock, At
  <2>2. Goto(c, "held") \/ ToRelease(c, TRUE) \/ call' = Settled(c, "failed")
    BY <1>15 DEF InitLock
  <2> QED BY <1>2, <1>3, <1>4, <1>6, <2>1, <2>2 DEF Committing
<1>16. CASE StatLock(c) \/ InspectOwner(c)
  <2>1. call[c].pc \in {"stat", "inspect"} /\ UNCHANGED <<dir, disk>>
    BY <1>16 DEF StatLock, InspectOwner, At, files
  <2>2. \/ Goto(c, "wait")
        \/ call' = [call EXCEPT ![c].pc = "inspect", ![c].seen = dir.lock]
        \/ call' = [call EXCEPT ![c].pc = "claim", ![c].seen = dir.lock]
    BY <1>16 DEF StatLock, InspectOwner, Wait
  <2>3. CASE \/ call' = [call EXCEPT ![c].pc = "inspect", ![c].seen = dir.lock]
             \/ call' = [call EXCEPT ![c].pc = "claim", ![c].seen = dir.lock]
    BY <1>1, <1>2, <2>1, <2>3 DEF Committing, Call
  <2> QED BY <1>2, <1>3, <2>1, <2>2, <2>3 DEF Committing
<1>17. CASE CreateClaim(c) \/ RecheckLock(c) \/ UnlinkStale(c) \/ Unclaim(c)
  <2>1. /\ call[c].pc \in {"claim"} \cup Claiming
        /\ dir'.doc = dir.doc /\ UNCHANGED disk
    BY <1>1, <1>17
    DEF CreateClaim, RecheckLock, UnlinkStale, Unclaim, At, Claiming, Directory, files
  <2>2. \/ \E x : Goto(c, x)
        \/ call' = [call EXCEPT ![c].pc = "unclaim", ![c].err = TRUE]
        \/ call' = Settled(c, "failed")
    BY <1>17 DEF CreateClaim, RecheckLock, UnlinkStale, Unclaim, Wait, Throw
  <2>3. CASE call' = Settled(c, "failed")
    <3>1. call'[c].pc = "done" /\ call'[c].result = "failed" /\ ~call'[c].committed
          /\ call'[c].durable = call[c].durable
      BY <1>1, <2>3, SettledOutcome
    <3> QED BY <2>1, <3>1 DEF OutcomeEffect, Settles, Committing, Claiming
  <2> QED BY <1>2, <1>3, <1>5, <2>1, <2>2, <2>3 DEF Committing, Claiming
<1>18. CASE Resume(c)
  BY <1>1, <1>2, <1>18 DEF Resume, At, files, Committing, Call
<1>19. CASE OperationThrow(c) \/ ReadForUpdate(c)
  <2>1. call[c].pc = "held" /\ UNCHANGED <<dir, disk>>
    BY <1>19 DEF OperationThrow, ReadForUpdate, At, files
  <2>2. \/ \E b : ToRelease(c, b)
        \/ call' = [call EXCEPT ![c].pc = "write", ![c].base = dir.doc]
    BY <1>19 DEF OperationThrow, ReadForUpdate
  <2>3. CASE call' = [call EXCEPT ![c].pc = "write", ![c].base = dir.doc]
    BY <1>1, <1>2, <2>1, <2>3 DEF Committing, Call
  <2> QED BY <1>2, <1>4, <2>1, <2>2, <2>3 DEF Committing
<1>20. CASE WriteTemporary(c) \/ PreCommit(c)
  BY <1>2, <1>3, <1>20 DEF WriteTemporary, PreCommit, At, files, Committing
<1>21. CASE WriteThrow(c)
  BY <1>2, <1>4, <1>21 DEF WriteThrow, Committing
<1>22. CASE Publish(c)
  <2>1. dir'.doc = Mutate(c, call[c].op, call[c].base)
    BY <1>1, <1>22 DEF Publish, Directory
  <2>2. /\ call'[c].pc = "barrier" /\ call'[c].committed
        /\ call'[c].result = call[c].result /\ call'[c].durable = call[c].durable
    BY <1>1, <1>22 DEF Publish, Call
  <2> QED BY <1>22, <2>1, <2>2 DEF Publish, At, OutcomeEffect, Renames
<1>23. CASE Barrier(c)
  <2>1. At(c, "barrier") /\ UNCHANGED <<dir, prov>>
    BY <1>23 DEF Barrier
  <2>2. ASSUME NEW b, NEW d,
               call' = [call EXCEPT ![c].pc = "release", ![c].err = b, ![c].durable = d]
        PROVE  /\ call'[c].pc = "release" /\ call'[c].durable = d
               /\ call'[c].result = call[c].result
               /\ call'[c].committed = call[c].committed
    BY <1>1, <2>2 DEF Call
  <2>3. CASE ToRelease(c, TRUE) /\ UNCHANGED disk
    BY <1>4, <2>1, <2>3 DEF OutcomeEffect, Silent, Committing
  <2>4. CASE /\ disk' = dir
             /\ \E b \in BOOLEAN :
                  call' = [call EXCEPT ![c].pc = "release", ![c].err = b,
                                       ![c].durable = prov[Home[c]].barrier]
    <3>1. /\ call'[c].pc = "release" /\ call'[c].durable = prov[Home[c]].barrier
          /\ call'[c].result = call[c].result
          /\ call'[c].committed = call[c].committed
      BY <2>2, <2>4, Zenon
    <3> QED BY <2>1, <2>4, <3>1 DEF OutcomeEffect, Flushes, At
  <2> QED BY <1>23, <2>3, <2>4 DEF Barrier
<1>24. CASE Release(c) \/ UnlinkLock(c)
  <2>1. /\ call[c].pc \in {"release", "unlink"}
        /\ dir'.doc = dir.doc /\ UNCHANGED disk
    BY <1>1, <1>24 DEF Release, UnlinkLock, At, Directory, files
  <2>2. Goto(c, "unlink") \/ \E b : ToReport(c, b)
    BY <1>24 DEF Release, UnlinkLock
  <2>3. CASE Goto(c, "unlink")
    BY <1>3, <2>1, <2>3 DEF OutcomeEffect, Silent, Committing
  <2>4. CASE \E b : ToReport(c, b)
    BY <1>1, <1>7, <2>1, <2>4, ReportOutcome DEF OutcomeEffect, Silent, Committing
  <2> QED BY <2>2, <2>3, <2>4
<1>25. CASE Report(c)
  <2> DEFINE r == CASE ~call[c].err /\ call[c].committed -> "ok"
                    [] ~call[c].err /\ ~call[c].committed -> "unchanged"
                    [] call[c].err /\ ~call[c].committed -> "failed"
                    [] call[c].err /\ call[c].committed /\ Unresolved(Home[c]) ->
                         "ackUnresolved"
                    [] OTHER -> "ackConfirmed"
  <2>1. At(c, "report") /\ call' = Settled(c, r) /\ UNCHANGED <<dir, disk>>
    BY <1>25 DEF Report, files
  <2>2. call[c].err \in BOOLEAN /\ call[c].committed \in BOOLEAN
    BY <1>1 DEF Call
  <2>3. /\ r \in Successes \cup {"unchanged", "failed"}
        /\ r \in Successes <=> call[c].committed
        /\ r = "ackConfirmed" => ~Unresolved(Home[c])
    BY <2>2 DEF Successes
  <2> HIDE DEF r
  <2>4. /\ call'[c].pc = "done" /\ call'[c].result = r /\ ~call'[c].committed
        /\ call'[c].durable = call[c].durable
    BY <1>1, <2>1, SettledOutcome
  <2> QED BY <2>1, <2>3, <2>4 DEF OutcomeEffect, Settles, At
<1> QED
  BY <1>8, <1>9, <1>10, <1>11, <1>12, <1>13, <1>14, <1>15, <1>16, <1>17, <1>18,
     <1>19, <1>20, <1>21, <1>22, <1>23, <1>24, <1>25 DEF CallStep

\* What a step does to the request a call works on: it keeps it, with what it
\* read under the lock, or admits it to the critical section's writes.
RequestEffect(c) ==
  /\ call'[c].pc \in Mutating => call[c].pc \in Mutating /\ call'[c].op = call[c].op
  /\ call'[c].pc \in Publishing =>
       \/ call[c].pc \in Publishing /\ call'[c].base = call[c].base
       \/ /\ call'[c].base = dir.doc
          /\ ~Conflict(call[c].op, dir.doc) /\ ~Full(call[c].op, dir.doc)
          /\ ~NoEntry(call[c].op, dir.doc)

\* Every step of a call has that effect.
LEMMA RequestStep ==
  ASSUME TypeOK, NEW c \in Calls, CallStep(c)
  PROVE  RequestEffect(c)
<1>1. call \in [Calls -> Call] /\ dir \in Directory
  BY DEF TypeOK
<1>2. ASSUME call[c].pc \in Mutating, call'[c].op = call[c].op,
             call'[c].pc \notin Publishing
      PROVE  RequestEffect(c)
  BY <1>2 DEF RequestEffect
<1>3. ASSUME call'[c].pc \notin Mutating PROVE RequestEffect(c)
  BY <1>3 DEF RequestEffect, Mutating, Publishing, Holding
<1>4. ASSUME NEW x, Goto(c, x)
      PROVE  /\ call'[c].pc = x /\ call'[c].op = call[c].op
             /\ call'[c].base = call[c].base
  BY <1>1, <1>4 DEF Goto, Call
<1>5. ASSUME NEW b, ToRelease(c, b)
      PROVE  call'[c].pc = "release" /\ call'[c].op = call[c].op
  BY <1>1, <1>5 DEF ToRelease, Call
<1>6. ASSUME NEW r, call' = Settled(c, r) \/ ToReport(c, r)
      PROVE  RequestEffect(c)
  BY <1>1, <1>3, <1>6, SettledOutcome, ReportOutcome
  DEF Mutating, Holding, Claiming, Waiting
<1>7. ASSUME NEW x, NEW l,
             \/ call' = [call EXCEPT ![c].pc = x, ![c].seen = l]
             \/ call' = [call EXCEPT ![c].pc = x, ![c].err = l]
             \/ call' = [call EXCEPT ![c].pc = x, ![c].ino = l]
      PROVE  call'[c].pc = x /\ call'[c].op = call[c].op
  BY <1>1, <1>7 DEF Call
<1>8. CASE ReadStat(c) \/ ReadOpen(c)
  <2>1. \/ \E r : call' = Settled(c, r)
        \/ call' = [call EXCEPT ![c].pc = "ropen", ![c].base = dir.doc]
        \/ call' = [call EXCEPT ![c].pc = "rstat", ![c].tries = call[c].tries + 1]
    BY <1>8 DEF ReadStat, ReadOpen, Throw
  <2>2. CASE \/ call' = [call EXCEPT ![c].pc = "ropen", ![c].base = dir.doc]
             \/ call' = [call EXCEPT ![c].pc = "rstat", ![c].tries = call[c].tries + 1]
    <3>1. call'[c].pc \in {"ropen", "rstat"}
      BY <1>1, <2>2 DEF Call
    <3> QED BY <1>3, <3>1 DEF Mutating, Holding, Claiming, Waiting
  <2> QED BY <1>6, <2>1, <2>2
<1>9. CASE LoopThrow(c) \/ Report(c)
  BY <1>6, <1>9 DEF LoopThrow, Throw, Report
<1>10. CASE RetryTemporary(c)
  BY <1>2, <1>10 DEF RetryTemporary, Looping, At, Mutating, Waiting, Publishing
<1>11. CASE RetryRelease(c) \/ RetryUnlink(c) \/ LockExists(c)
  <2>1. call[c].pc \in {"loop", "retryUnlink"}
    BY <1>11 DEF RetryRelease, RetryUnlink, LockExists, Looping, At
  <2>2. \/ \E r : call' = Settled(c, r)
        \/ Goto(c, "loop") \/ Goto(c, "stat") \/ Goto(c, "retryUnlink")
    BY <1>11 DEF RetryRelease, RetryUnlink, LockExists
  <2> QED BY <1>2, <1>4, <1>6, <2>1, <2>2 DEF Mutating, Waiting, Publishing
<1>12. CASE \E i \in Inodes : CreateLock(c, i)
  <2>1. PICK i \in Inodes : CreateLock(c, i)
    BY <1>12
  <2>2. call[c].pc = "loop" /\ call'[c].pc = "init" /\ call'[c].op = call[c].op
    BY <1>7, <2>1 DEF CreateLock, Looping, At
  <2> QED BY <1>2, <2>2 DEF Mutating, Waiting, Publishing
<1>13. CASE InitLock(c)
  <2>1. call[c].pc = "init"
    BY <1>13 DEF InitLock, At
  <2>2. Goto(c, "held") \/ ToRelease(c, TRUE) \/ call' = Settled(c, "failed")
    BY <1>13 DEF InitLock
  <2>3. CASE call' = Settled(c, "failed")
    BY <1>6, <2>3
  <2>4. CASE Goto(c, "held") \/ ToRelease(c, TRUE)
    <3>1. call'[c].pc \in {"held", "release"} /\ call'[c].op = call[c].op
      BY <1>4, <1>5, <2>4
    <3> QED BY <1>2, <2>1, <3>1 DEF Mutating, Holding, Publishing
  <2> QED BY <2>2, <2>3, <2>4
<1>14. CASE StatLock(c) \/ InspectOwner(c)
  <2>1. call[c].pc \in {"stat", "inspect"}
    BY <1>14 DEF StatLock, InspectOwner, At
  <2>2. \/ Goto(c, "wait")
        \/ call' = [call EXCEPT ![c].pc = "inspect", ![c].seen = dir.lock]
        \/ call' = [call EXCEPT ![c].pc = "claim", ![c].seen = dir.lock]
    BY <1>14 DEF StatLock, InspectOwner, Wait
  <2> QED BY <1>2, <1>4, <1>7, <2>1, <2>2 DEF Mutating, Waiting, Publishing
<1>15. CASE CreateClaim(c) \/ RecheckLock(c) \/ UnlinkStale(c) \/ Unclaim(c)
  <2>1. call[c].pc \in {"claim"} \cup Claiming
    BY <1>15 DEF CreateClaim, RecheckLock, UnlinkStale, Unclaim, At, Claiming
  <2>2. \/ Goto(c, "wait") \/ Goto(c, "claimed") \/ Goto(c, "unlinkStale")
        \/ Goto(c, "unclaim")
        \/ call' = [call EXCEPT ![c].pc = "unclaim", ![c].err = TRUE]
        \/ call' = Settled(c, "failed")
    BY <1>15 DEF CreateClaim, RecheckLock, UnlinkStale, Unclaim, Wait, Throw
  <2>3. CASE call' = Settled(c, "failed")
    BY <1>6, <2>3
  <2>4. CASE call' = [call EXCEPT ![c].pc = "unclaim", ![c].err = TRUE]
    <3>1. call'[c].pc = "unclaim" /\ call'[c].op = call[c].op
      BY <1>7, <2>4
    <3> QED BY <1>2, <2>1, <3>1 DEF Mutating, Waiting, Claiming, Publishing
  <2> QED
    BY <1>2, <1>4, <2>1, <2>2, <2>3, <2>4 DEF Mutating, Waiting, Claiming, Publishing
<1>16. CASE Resume(c)
  <2>1. call[c].pc = "wait" /\ call'[c].pc = "loop" /\ call'[c].op = call[c].op
    BY <1>1, <1>16 DEF Resume, At, Call
  <2> QED BY <1>2, <2>1 DEF Mutating, Waiting, Publishing
<1>17. CASE OperationThrow(c) \/ WriteThrow(c)
  BY <1>2, <1>5, <1>17
  DEF OperationThrow, WriteThrow, At, Mutating, Holding, Publishing
<1>18. CASE ReadForUpdate(c)
  <2>1. call[c].pc = "held"
    BY <1>18 DEF ReadForUpdate, At
  <2>2. \/ ToRelease(c, TRUE) \/ ToRelease(c, FALSE)
        \/ /\ call' = [call EXCEPT ![c].pc = "write", ![c].base = dir.doc]
           /\ ~Conflict(call[c].op, dir.doc) /\ ~Full(call[c].op, dir.doc)
           /\ ~NoEntry(call[c].op, dir.doc)
    BY <1>18 DEF ReadForUpdate
  <2>3. CASE call' = [call EXCEPT ![c].pc = "write", ![c].base = dir.doc]
    <3>1. /\ call'[c].pc = "write" /\ call'[c].op = call[c].op
          /\ call'[c].base = dir.doc
      BY <1>1, <2>3 DEF Call
    <3>2. \A b : ~ToRelease(c, b)
      BY <1>5, <3>1
    <3> QED BY <2>1, <2>2, <3>1, <3>2 DEF RequestEffect, Mutating, Holding
  <2>4. CASE ToRelease(c, TRUE) \/ ToRelease(c, FALSE)
    <3>1. call'[c].pc = "release" /\ call'[c].op = call[c].op
      BY <1>5, <2>4
    <3> QED BY <1>2, <2>1, <3>1 DEF Mutating, Holding, Publishing
  <2> QED BY <2>2, <2>3, <2>4
<1>19. CASE WriteTemporary(c) \/ PreCommit(c)
  BY <1>4, <1>19
  DEF WriteTemporary, PreCommit, At, RequestEffect, Mutating, Holding, Publishing
<1>20. CASE Publish(c)
  <2>1. call[c].pc = "rename" /\ call'[c].pc = "barrier" /\ call'[c].op = call[c].op
    BY <1>1, <1>20 DEF Publish, At, Call
  <2> QED BY <1>2, <2>1 DEF Mutating, Holding, Publishing
<1>21. CASE Barrier(c)
  <2>1. ASSUME NEW b, NEW d,
               call' = [call EXCEPT ![c].pc = "release", ![c].err = b, ![c].durable = d]
        PROVE  call'[c].pc = "release" /\ call'[c].op = call[c].op
    BY <1>1, <2>1 DEF Call
  <2>2. call'[c].pc = "release" /\ call'[c].op = call[c].op
    <3>1. CASE ToRelease(c, TRUE)
      BY <1>5, <3>1
    <3>2. CASE \E b \in BOOLEAN :
                 call' = [call EXCEPT ![c].pc = "release", ![c].err = b,
                                      ![c].durable = prov[Home[c]].barrier]
      BY <2>1, <3>2, Zenon
    <3> QED BY <1>21, <3>1, <3>2 DEF Barrier
  <2> QED BY <1>2, <1>21, <2>2 DEF Barrier, At, Mutating, Holding, Publishing
<1>22. CASE Release(c) \/ UnlinkLock(c)
  <2>1. call[c].pc \in {"release", "unlink"}
    BY <1>22 DEF Release, UnlinkLock, At
  <2>2. Goto(c, "unlink") \/ \E b : ToReport(c, b)
    BY <1>22 DEF Release, UnlinkLock
  <2> QED BY <1>2, <1>4, <1>6, <2>1, <2>2 DEF Mutating, Holding, Publishing
<1> QED
  BY <1>8, <1>9, <1>10, <1>11, <1>12, <1>13, <1>14, <1>15, <1>16, <1>17, <1>18,
     <1>19, <1>20, <1>21, <1>22 DEF CallStep

\* A provider never forgets that a lock of its own is out of control, and a
\* call leaves the critical section by its release, a deferred one, or with
\* its provider uncertain.
CleanupEffect(c) ==
  /\ prov[Home[c]].uncertain => prov'[Home[c]].uncertain
  /\ call[c].pc \in Holding /\ call'[c].pc \notin Holding =>
       \/ dir'.lock = None
       \/ prov'[Home[c]].uncertain
       \/ prov'[Home[c]].pendingLock = [by |-> c, ino |-> call[c].ino]

\* Every step of a call has that effect.
LEMMA CleanupStep ==
  ASSUME TypeOK, NEW c \in Calls, CallStep(c)
  PROVE  CleanupEffect(c)
<1>1. /\ call \in [Calls -> Call] /\ prov \in [Procs -> Provider]
      /\ Home[c] \in Procs
  BY StoreAssumption DEF TypeOK
<1>2. prov[Home[c]].uncertain => prov'[Home[c]].uncertain
  <2>1. \/ UNCHANGED prov \/ Yield(c)
        \/ prov' = [prov EXCEPT ![Home[c]].pendingTmp = None]
        \/ prov' = [prov EXCEPT ![Home[c]].pendingTmp = c]
        \/ prov' = [prov EXCEPT ![Home[c]].pendingLock = None]
        \/ prov' = [prov EXCEPT ![Home[c]].run = c]
        \/ prov' = [prov EXCEPT ![Home[c]].uncertain = TRUE, ![Home[c]].run = None]
        \/ prov' = [prov EXCEPT
             ![Home[c]].pendingLock = [by |-> c, ino |-> call[c].ino],
             ![Home[c]].run = None]
    BY DEF CallStep, ReadStat, ReadOpen, LoopThrow, RetryTemporary, RetryRelease,
           RetryUnlink, CreateLock, LockExists, InitLock, StatLock, InspectOwner,
           CreateClaim, RecheckLock, UnlinkStale, Unclaim, Resume, OperationThrow,
           ReadForUpdate, WriteTemporary, WriteThrow, PreCommit, Publish, Barrier,
           Release, UnlinkLock, Report, Throw, Wait
  <2> QED BY SMTT(40), <1>1, <2>1 DEF Yield, Provider
<1>3. ASSUME call[c].pc \in Holding, call'[c].pc \notin Holding
      PROVE  \/ dir'.lock = None
             \/ prov'[Home[c]].uncertain
             \/ prov'[Home[c]].pendingLock = [by |-> c, ino |-> call[c].ino]
  <2>1. ASSUME NEW x, Goto(c, x) PROVE call'[c].pc = x
    BY <1>1, <2>1 DEF Goto, Call
  <2>2. ASSUME NEW b, ToRelease(c, b) PROVE FALSE
    <3>1. call'[c].pc = "release"
      BY <1>1, <2>2 DEF ToRelease, Call
    <3> QED BY <1>3, <3>1 DEF Holding
  <2>3. ASSUME prov' = [prov EXCEPT ![Home[c]].uncertain = TRUE, ![Home[c]].run = None]
        PROVE  prov'[Home[c]].uncertain
    BY <1>1, <2>3 DEF Provider
  <2>4. CASE InitLock(c)
    BY <1>3, <2>1, <2>2, <2>3, <2>4 DEF InitLock, Holding
  <2>5. CASE OperationThrow(c) \/ WriteThrow(c)
    BY <2>2, <2>5 DEF OperationThrow, WriteThrow
  <2>6. CASE ReadForUpdate(c)
    <3>1. call' # [call EXCEPT ![c].pc = "write", ![c].base = dir.doc]
      BY <1>1, <1>3 DEF Holding, Call
    <3> QED BY <2>2, <2>6, <3>1 DEF ReadForUpdate
  <2>7. CASE WriteTemporary(c) \/ PreCommit(c)
    BY <1>3, <2>1, <2>7 DEF WriteTemporary, PreCommit, Holding
  <2>8. CASE Publish(c)
    BY <1>1, <1>3, <2>8 DEF Publish, Holding, Call
  <2>9. CASE Barrier(c)
    BY <1>1, <1>3, <2>9, BarrierCall DEF Holding
  <2>10. CASE Release(c)
    <3>1. \/ Goto(c, "unlink")
          \/ prov' = [prov EXCEPT ![Home[c]].uncertain = TRUE, ![Home[c]].run = None]
          \/ prov' = [prov EXCEPT
               ![Home[c]].pendingLock = [by |-> c, ino |-> call[c].ino],
               ![Home[c]].run = None]
      BY <2>10 DEF Release
    <3> QED BY <1>1, <1>3, <2>1, <2>3, <3>1 DEF Holding, Provider
  <2>11. CASE UnlinkLock(c)
    <3>1. dir \in Directory
      BY DEF TypeOK
    <3> QED BY <2>11, <3>1 DEF UnlinkLock, Directory
  <2>12. \/ InitLock(c) \/ OperationThrow(c) \/ WriteThrow(c) \/ ReadForUpdate(c)
         \/ WriteTemporary(c) \/ PreCommit(c) \/ Publish(c) \/ Barrier(c) \/ Release(c)
         \/ UnlinkLock(c)
    BY <1>3
    DEF CallStep, ReadStat, ReadOpen, LoopThrow, RetryTemporary, RetryRelease,
        RetryUnlink, CreateLock, LockExists, StatLock, InspectOwner, CreateClaim,
        RecheckLock, UnlinkStale, Unclaim, Resume, Report, Looping, At,
        Holding
  <2> QED BY <2>4, <2>5, <2>6, <2>7, <2>8, <2>9, <2>10, <2>11, <2>12
<1> QED BY <1>2, <1>3 DEF CleanupEffect

-----------------------------------------------------------------------------
(* The invariant is inductive.                                              *)

\* The rename of a call that updates the current document adds that call.
LEMMA RenameGrows ==
  ASSUME LockInvariant, NEW c \in Calls, Renames(c)
  PROVE  dir'.doc.log = dir.doc.log \cup {c}
BY DEF Renames, Mutate, LockInvariant, NoLostUpdate

\* A lock of a live process stays accounted for.
LEMMA AccountedCall ==
  ASSUME LockInvariant, LockAccounted, NEW c \in Calls, CallStep(c)
  PROVE  LockAccounted'
<1>1. /\ FrameEffect(c) /\ LockEffect(c) /\ CleanupEffect(c)
      /\ Home \in [Calls -> Procs] /\ dir.lock \in LockFiles /\ dir'.lock \in LockFiles
  BY FrameStep, LockStep, CleanupStep, TypeStep, StoreAssumption
  DEF LockInvariant, Next, ProcessStep, TypeOK, Directory
<1> SUFFICES ASSUME dir'.lock # None, prov'[Home[dir'.lock.by]].status = "up"
             PROVE  \/ call'[dir'.lock.by].pc \in Holding
                    \/ prov'[Home[dir'.lock.by]].uncertain
                    \/ prov'[Home[dir'.lock.by]].pendingLock = dir'.lock
  BY DEF LockAccounted, Alive
<1> DEFINE o == dir'.lock.by
<1>2. o \in Calls
  BY <1>1 DEF LockFiles, LockFile
<1>3. CASE dir'.lock # dir.lock
  <2>1. o = c /\ call'[c].pc = "init"
    BY <1>1, <1>3 DEF LockEffect
  <2> QED BY <2>1 DEF Holding
<1>4. CASE dir'.lock = dir.lock
  <2>1. Alive(o)
    BY <1>1, <1>2 DEF FrameEffect, Alive
  <2>2. CASE call[o].pc \in Holding
    <3>1. CASE o # c
      BY <1>1, <1>2, <2>2, <3>1 DEF FrameEffect
    <3>2. CASE o = c
      <4>1. dir.lock = [by |-> c, ino |-> call[c].ino]
        <5>1. dir.lock \in [by : Calls, ino : Inodes]
          BY <1>1, <1>4 DEF LockFiles, LockFile
        <5>2. dir.lock.by = c /\ dir.lock.ino = call[c].ino
          BY <2>2, <3>2 DEF LockInvariant, OwnersOwn
        <5> QED BY <5>1, <5>2
      <4>2. \/ call'[c].pc \in Holding
            \/ prov'[Home[c]].uncertain
            \/ prov'[Home[c]].pendingLock = [by |-> c, ino |-> call[c].ino]
        BY <1>1, <1>4, <2>2, <3>2 DEF CleanupEffect
      <4> QED BY <1>4, <3>2, <4>1, <4>2
    <3> QED BY <3>1, <3>2
  <2>3. CASE prov[Home[o]].uncertain
    BY <1>1, <1>2, <2>3 DEF FrameEffect, CleanupEffect
  <2>4. CASE prov[Home[o]].pendingLock = dir.lock
    <3>1. CASE Home[o] # Home[c]
      BY <1>1, <1>2, <1>4, <2>4, <3>1 DEF FrameEffect
    <3>2. CASE Home[o] = Home[c]
      <4>1. call[dir.lock.by].pc \in {"report", "done"}
        BY <1>1, <1>2, <1>4, <2>4 DEF LockInvariant, OwnersOwn
      <4>2. call[c].pc \notin Holding
        BY <1>4, <4>1 DEF LockInvariant, OwnersOwn, Holding
      <4>3. prov'[Home[c]].pendingLock = prov[Home[c]].pendingLock
        BY <1>1, <1>4, <4>2 DEF LockEffect, Holding
      <4> QED BY <1>4, <2>4, <3>2, <4>3
    <3> QED BY <3>1, <3>2
  <2> QED BY <1>4, <2>1, <2>2, <2>3, <2>4 DEF LockAccounted
<1> QED BY <1>3, <1>4

\* A step of a call keeps the invariant.
LEMMA OutcomeCall ==
  ASSUME LockInvariant, OutcomeInvariant, NEW c \in Calls, CallStep(c)
  PROVE  OutcomeInvariant'
<1>1. /\ FrameEffect(c) /\ LockEffect(c) /\ OutcomeEffect(c) /\ RequestEffect(c)
      /\ Home \in [Calls -> Procs] /\ dir'.lock \in LockFiles
  BY FrameStep, LockStep, OutcomeStep, RequestStep, TypeStep, StoreAssumption
  DEF LockInvariant, OutcomeInvariant, Next, ProcessStep, TypeOK, Directory
<1>2. \A d \in Calls \ {c} : call'[d] = call[d]
  BY <1>1 DEF FrameEffect
<1>3. call[c].pc \notin {"done", "dead", "idle"} /\ call[c].result = "none"
  BY <1>1 DEF FrameEffect, OutcomeInvariant, ReportedOnce, At
<1>4. \A d \in Calls : Alive(d)' => Alive(d)
  BY <1>1 DEF FrameEffect, Alive
<1>5. Requested'
  BY <1>1, <1>2 DEF OutcomeInvariant, Requested, RequestEffect
<1>6. Admitted'
  <2>1. call'[c].pc \in Publishing => call'[c].op = call[c].op
    BY <1>1 DEF RequestEffect, Mutating, Holding, Publishing
  <2> QED BY <1>1, <1>2, <2>1 DEF OutcomeInvariant, Admitted, RequestEffect
<1>7. ReportedOnce'
  <2>1. /\ call'[c].result # "none" => call'[c].pc = "done"
        /\ call'[c].committed => call'[c].pc \in Committing
    BY <1>1, <1>3
    DEF OutcomeEffect, Silent, Renames, Flushes, Settles, OutcomeInvariant,
        ReportedOnce, Committing
  <2>2. call'[c].durable => call'[c].pc \in {"release", "unlink"} \cup Over
    BY <1>1, <1>3
    DEF OutcomeEffect, Silent, Renames, Flushes, Settles, OutcomeInvariant,
        ReportedOnce, Committing, Over, Finished
  <2> QED BY <1>2, <2>1, <2>2 DEF OutcomeInvariant, ReportedOnce, At
<1>8. LogKnown'
  <2>1. /\ dir'.doc.log = dir.doc.log \/ (dir'.doc.log = dir.doc.log \cup {c} /\ Renames(c))
        /\ disk'.doc.log \subseteq dir.doc.log \cup disk.doc.log
    BY <1>1, RenameGrows DEF OutcomeEffect, Silent, Renames, Flushes, Settles
  <2>2. c \in dir.doc.log \cup disk.doc.log => call[c].committed
    BY <1>3 DEF OutcomeInvariant, LogKnown, Published, At, Successes
  <2>3. Published(c)' => call[c].committed \/ Renames(c)
    BY <1>1, <1>3
    DEF OutcomeEffect, Silent, Flushes, Settles, Published, Successes, Committing
  <2>4. call[c].committed /\ ~Renames(c) => Published(c)'
    BY <1>1, <1>3
    DEF OutcomeEffect, Silent, Flushes, Settles, Published, Successes,
        OutcomeInvariant, ReportedOnce
  <2>5. Renames(c) => Published(c)' /\ c \in dir'.doc.log
    BY RenameGrows DEF Renames, Published
  <2>6. ASSUME NEW d \in Calls, d \in dir'.doc.log \cup disk'.doc.log
        PROVE  Published(d)' \/ call'[d].pc = "dead"
    <3>1. CASE d = c
      BY <2>1, <2>2, <2>4, <2>5, <2>6, <3>1
    <3>2. CASE d # c
      BY <1>2, <2>1, <2>6, <3>2 DEF OutcomeInvariant, LogKnown, Published, At
    <3> QED BY <3>1, <3>2
  <2>7. ASSUME NEW d \in Calls, Alive(d)', Published(d)'
        PROVE  d \in dir'.doc.log
    <3>1. CASE d = c
      <4>1. CASE call[c].committed
        BY <1>4, <2>1, <2>7, <3>1, <4>1 DEF OutcomeInvariant, LogKnown, Published
      <4> QED BY <2>3, <2>5, <2>7, <3>1, <4>1
    <3>2. CASE d # c
      BY <1>2, <1>4, <2>1, <2>7, <3>2 DEF OutcomeInvariant, LogKnown, Published
    <3> QED BY <3>1, <3>2
  <2> QED BY <2>6, <2>7 DEF LogKnown, At
<1>9. LockAccounted'
  BY AccountedCall DEF OutcomeInvariant
<1>10. ConfirmedGone'
  <2>1. dir'.lock \in {dir.lock, None} \/ (dir'.lock.by = c /\ call'[c].pc = "init")
    BY <1>1 DEF LockEffect
  <2>2. ASSUME NEW d \in Calls, Alive(d)', call'[d].result = "ackConfirmed",
               dir'.lock # None, dir'.lock.by = d
        PROVE  FALSE
    <3>1. call'[d].pc = "done"
      BY <1>7, <2>2 DEF ReportedOnce, At
    <3>2. dir'.lock = dir.lock
      BY <2>1, <2>2, <3>1
    <3>3. CASE d # c
      BY <1>2, <1>4, <2>2, <3>2, <3>3 DEF OutcomeInvariant, ConfirmedGone
    <3>4. CASE d = c
      <4>1. Settles(c) /\ call[c].pc = "report" /\ ~Unresolved(Home[c])
        BY <1>1, <1>3, <2>2, <3>4
        DEF OutcomeEffect, Silent, Renames, Flushes, Settles
      <4> QED BY <1>4, <2>2, <3>2, <3>4, <4>1
        DEF OutcomeInvariant, LockAccounted, Unresolved, Holding
    <3> QED BY <3>3, <3>4
  <2> QED BY <2>2 DEF ConfirmedGone
<1> QED BY <1>5, <1>6, <1>7, <1>8, <1>9, <1>10 DEF OutcomeInvariant

\* A crash leaves what the calls of the others and the finished calls report;
\* the unfinished ones of its own are dead and will never report.
LEMMA KillOutcome ==
  ASSUME TypeOK, NEW S \in SUBSET Procs, Kill(S)
  PROVE  /\ \A c \in Calls :
              \/ call'[c] = call[c] /\ (Home[c] \notin S \/ call[c].pc = "done")
              \/ /\ Home[c] \in S /\ call[c].pc # "done" /\ call'[c].pc = "dead"
                 /\ call'[c].result = "none" /\ ~call'[c].committed
                 /\ call'[c].durable = call[c].durable
         /\ \A c \in Calls : Alive(c)' =>
              Home[c] \notin S /\ prov'[Home[c]] = prov[Home[c]]
<1>1. Home \in [Calls -> Procs]
  BY StoreAssumption
<1>2. [FreshProvider EXCEPT !.status = "dead"].status = "dead"
  BY DEF FreshProvider
<1>3. ASSUME NEW c \in Calls
      PROVE  LET d == [FreshCall EXCEPT !.pc = "dead", !.durable = call[c].durable] IN
             /\ d.pc = "dead" /\ d.result = "none" /\ ~d.committed
             /\ d.durable = call[c].durable
  BY DEF FreshCall
<1> QED BY <1>1, <1>2, <1>3 DEF Kill, At, Alive

\* What a crash keeps of the invariant, whatever becomes of the directory.
LEMMA KillKeeps ==
  ASSUME TypeOK, OutcomeInvariant, NEW S \in SUBSET Procs, Kill(S)
  PROVE  /\ Requested' /\ Admitted' /\ ReportedOnce'
         /\ \A c \in Calls : c \in dir.doc.log \cup disk.doc.log =>
              Published(c)' \/ call'[c].pc = "dead"
<1>1. \A c \in Calls : call'[c] = call[c] \/ call'[c].pc = "dead"
  BY KillOutcome
<1>2. Requested'
  BY <1>1 DEF OutcomeInvariant, Requested, Mutating, Holding, Claiming, Waiting
<1>3. Admitted'
  BY <1>1 DEF OutcomeInvariant, Admitted, Publishing
<1>4. ReportedOnce'
  BY KillOutcome DEF OutcomeInvariant, ReportedOnce, At, Over, Finished
<1>5. \A c \in Calls : c \in dir.doc.log \cup disk.doc.log =>
        Published(c)' \/ call'[c].pc = "dead"
  BY <1>1 DEF OutcomeInvariant, LogKnown, Published, At
<1> QED BY <1>2, <1>3, <1>4, <1>5

\* The invariant is inductive.
LEMMA OutcomeNext ==
  ASSUME LockInvariant, OutcomeInvariant, [Next]_vars
  PROVE  OutcomeInvariant'
<1>1. /\ Home \in [Calls -> Procs] /\ TypeOK
      /\ dir.lock # None => dir.lock.by \in Calls
  BY StoreAssumption DEF LockInvariant, TypeOK, Directory, LockFiles, LockFile
<1>2. ASSUME NEW c \in Calls, CallStep(c) PROVE OutcomeInvariant'
  BY <1>2, OutcomeCall
<1>3. ASSUME NEW p \in Procs, NEW b \in BOOLEAN, Start(p, b)
      PROVE  OutcomeInvariant'
  <2>1. /\ UNCHANGED <<dir, call>> /\ disk' \in {dir, disk}
        /\ prov[p].status = "fresh"
        /\ \A q \in Procs \ {p} : prov'[q] = prov[q]
    BY <1>1, <1>3 DEF Start, TypeOK
  <2>2. ASSUME NEW c \in Calls, Home[c] = p
        PROVE  /\ call[c].pc = "idle" /\ call[c].result = "none"
               /\ ~call[c].committed
    BY <2>1, <2>2
    DEF LockInvariant, OneThread, OutcomeInvariant, ReportedOnce, At, Committing
  <2>3. Requested' /\ Admitted' /\ ReportedOnce'
    BY <2>1 DEF OutcomeInvariant, Requested, Admitted, ReportedOnce, At
  <2>4. LogKnown'
    BY <1>1, <2>1, <2>2
    DEF OutcomeInvariant, LogKnown, Published, Alive, At, Successes
  <2>5. LockAccounted'
    <3>1. dir.lock # None => Home[dir.lock.by] # p
      BY <1>1, <2>2 DEF LockInvariant, LockHasOwner, Holding, Over, Finished
    <3> QED BY <1>1, <2>1, <3>1 DEF OutcomeInvariant, LockAccounted, Alive
  <2>6. ConfirmedGone'
    BY <1>1, <2>1, <2>2 DEF OutcomeInvariant, ConfirmedGone, Alive
  <2> QED BY <2>3, <2>4, <2>5, <2>6 DEF OutcomeInvariant
<1>4. ASSUME NEW c \in Calls, NEW o \in Requests, Invoke(c, o)
      PROVE  OutcomeInvariant'
  <2>1. /\ UNCHANGED <<dir, disk>> /\ call[c].pc = "idle"
        /\ \A d \in Calls \ {c} : call'[d] = call[d]
        /\ call'[c].pc = IF o.kind = "get" THEN "rstat" ELSE "loop"
        /\ call'[c].op = o
        /\ call'[c].result = call[c].result
        /\ call'[c].committed = call[c].committed
        /\ call'[c].durable = call[c].durable
    BY <1>1, <1>4 DEF Invoke, At, files, TypeOK, Call
  <2>2. \A p \in Procs : /\ prov'[p].status = prov[p].status
                         /\ prov'[p].uncertain = prov[p].uncertain
                         /\ prov'[p].pendingLock = prov[p].pendingLock
    BY <1>1, <1>4 DEF Invoke, TypeOK, Provider
  <2>3. ~call[c].committed /\ ~call[c].durable /\ call[c].result = "none"
    BY <2>1
    DEF OutcomeInvariant, ReportedOnce, At, Committing, Over, Finished
  <2>4. Requested'
    <3>1. o.kind \in {"get", "set", "delete"}
      BY DocumentAssumption DEF Operation
    <3> QED BY <2>1, <3>1
      DEF OutcomeInvariant, Requested, Mutating, Holding, Claiming, Waiting
  <2>5. Admitted' /\ ReportedOnce'
    BY <2>1, <2>3 DEF OutcomeInvariant, Admitted, ReportedOnce, Publishing, At
  <2>6. LogKnown'
    BY <1>1, <2>1, <2>2, <2>3
    DEF OutcomeInvariant, LogKnown, Published, Alive, At, Successes
  <2>7. LockAccounted'
    <3>1. dir.lock # None => dir.lock.by # c
      BY <2>1 DEF LockInvariant, LockHasOwner, Holding, Over, Finished
    <3> QED BY <1>1, <2>1, <2>2, <3>1 DEF OutcomeInvariant, LockAccounted, Alive
  <2>8. ConfirmedGone'
    BY <1>1, <2>1, <2>2, <2>3 DEF OutcomeInvariant, ConfirmedGone, Alive
  <2> QED BY <2>4, <2>5, <2>6, <2>7, <2>8 DEF OutcomeInvariant
<1>5. ASSUME NEW p \in Procs, ProcessCrash(p) PROVE OutcomeInvariant'
  <2>1. Kill({p}) /\ {p} \in SUBSET Procs /\ UNCHANGED <<dir, disk>>
    BY <1>5 DEF ProcessCrash, files
  <2>2. \A c \in Calls : Alive(c)' =>
          call'[c] = call[c] /\ prov'[Home[c]] = prov[Home[c]]
    BY <1>1, <2>1, KillOutcome
  <2>3. Requested' /\ Admitted' /\ ReportedOnce'
    BY <1>1, <2>1, KillKeeps
  <2>4. LogKnown'
    <3>1. \A c \in Calls : c \in dir'.doc.log \cup disk'.doc.log =>
            Published(c)' \/ call'[c].pc = "dead"
      BY <1>1, <2>1, KillKeeps
    <3>2. \A c \in Calls : Alive(c)' /\ Published(c)' => c \in dir'.doc.log
      BY <2>1, <2>2 DEF OutcomeInvariant, LogKnown, Published, Alive
    <3> QED BY <3>1, <3>2 DEF LogKnown, At
  <2>5. LockAccounted'
    BY <1>1, <2>1, <2>2 DEF OutcomeInvariant, LockAccounted, Alive
  <2>6. ConfirmedGone'
    BY <2>1, <2>2 DEF OutcomeInvariant, ConfirmedGone, Alive
  <2> QED BY <2>3, <2>4, <2>5, <2>6 DEF OutcomeInvariant
<1>6. CASE HostCrash
  <2>1. /\ Kill(Up) /\ Up \in SUBSET Procs
        /\ disk' = dir' /\ (dir' = disk \/ dir' = EmptyDirectory)
    BY <1>6 DEF HostCrash, Up
  <2>2. \A c \in Calls : ~Alive(c)'
    BY <1>1, <2>1, KillOutcome DEF Up, Alive
  <2>3. Requested' /\ Admitted' /\ ReportedOnce'
    BY <1>1, <2>1, KillKeeps
  <2>4. LogKnown'
    <3>1. \A c \in Calls : c \in disk.doc.log => Published(c)' \/ call'[c].pc = "dead"
      BY <1>1, <2>1, KillKeeps
    <3>2. dir'.doc.log \cup disk'.doc.log \subseteq disk.doc.log
      BY <2>1 DEF EmptyDirectory, EmptyDocument
    <3> QED BY <2>2, <3>1, <3>2 DEF LogKnown, At
  <2>5. LockAccounted'
    <3>1. TypeOK'
      BY <1>1, <1>6, TypeStep DEF LockInvariant, Next, HostStep
    <3>2. dir'.lock # None => dir'.lock.by \in Calls
      BY <3>1 DEF TypeOK, Directory, LockFiles, LockFile
    <3> QED BY <2>2, <3>2 DEF LockAccounted, Alive
  <2> QED BY <2>2, <2>3, <2>4, <2>5 DEF OutcomeInvariant, ConfirmedGone
<1>7. CASE WriteBack \/ UNCHANGED vars
  <2>1. UNCHANGED <<dir, prov, call>> /\ disk' \in {dir, disk}
    BY <1>7 DEF WriteBack, vars, files
  <2>2. Requested' /\ Admitted' /\ ReportedOnce' /\ LockAccounted' /\ ConfirmedGone'
    BY <2>1
    DEF OutcomeInvariant, Requested, Admitted, ReportedOnce, LockAccounted,
        ConfirmedGone, At, Alive
  <2>3. LogKnown'
    BY <2>1 DEF OutcomeInvariant, LogKnown, Published, Alive, At
  <2> QED BY <2>2, <2>3 DEF OutcomeInvariant
<1> QED BY <1>2, <1>3, <1>4, <1>5, <1>6, <1>7 DEF Next, ProcessStep, HostStep

\* The invariant holds initially: nothing was asked for, and nothing is there.
LEMMA OutcomeInit == Init => OutcomeInvariant
<1> SUFFICES ASSUME Init PROVE OutcomeInvariant
  OBVIOUS
<1>1. \A c \in Calls :
        /\ call[c].pc = "idle" /\ call[c].result = "none"
        /\ ~call[c].committed /\ ~call[c].durable
  BY DEF Init, FreshCall
<1>2. dir.lock = None /\ dir.doc.log = {} /\ disk.doc.log = {}
  BY DEF Init, EmptyDirectory, EmptyDocument
<1>3. Requested /\ Admitted
  BY <1>1 DEF Requested, Admitted, Mutating, Publishing, Holding, Claiming, Waiting
<1>4. ReportedOnce /\ LogKnown
  BY <1>1, <1>2 DEF ReportedOnce, LogKnown, Published, Successes, At
<1>5. LockAccounted /\ ConfirmedGone
  BY <1>2 DEF LockAccounted, ConfirmedGone
<1> QED BY <1>3, <1>4, <1>5 DEF OutcomeInvariant

\* Both invariants hold throughout, with any crashes.
THEOREM OutcomeProtocol == Spec => [](LockInvariant /\ OutcomeInvariant)
<1>1. LockInvariant /\ OutcomeInvariant /\ [Next]_vars => OutcomeInvariant'
  BY OutcomeNext
<1> QED BY <1>1, OutcomeInit, LockProtocol, PTL DEF Spec

\* A lock file of a live process is held, deferred or declared uncertain.
THEOREM LocksAccounted == Spec => []LockAccounted
<1>1. OutcomeInvariant => LockAccounted
  BY DEF OutcomeInvariant
<1> QED BY <1>1, OutcomeProtocol, PTL

\* What invoke reports is what happened to the document and to the lock.
THEOREM OutcomesTrue == Spec => []TruthfulOutcome
<1>1. ASSUME LockInvariant, OutcomeInvariant PROVE TruthfulOutcome
  <2>1. ASSUME NEW c \in Calls, call[c].result = "failed"
        PROVE  c \notin dir.doc.log
    BY <1>1, <2>1
    DEF OutcomeInvariant, ReportedOnce, LogKnown, Published, Successes, Committing, At
  <2>2. ASSUME NEW c \in Calls, Alive(c),
               call[c].result \in {"ok", "ackConfirmed", "ackUnresolved"}
        PROVE  c \in dir.doc.log
    BY <1>1, <2>2 DEF OutcomeInvariant, LogKnown, Published, Successes
  <2>3. ASSUME NEW c \in Calls, Alive(c), call[c].result = "ackConfirmed"
        PROVE  dir.lock = None \/ dir.lock.by # c
    BY <1>1, <2>3 DEF OutcomeInvariant, ConfirmedGone
  <2> QED BY <2>1, <2>2, <2>3 DEF TruthfulOutcome
<1> QED BY <1>1, OutcomeProtocol, PTL

-----------------------------------------------------------------------------
(* The store implements the atomic document: the rename is its commit.      *)

\* The initial store is the empty document, of which nothing is confirmed.
LEMMA AtomicInitially == Init => Atomic!AtomicInit
<1> SUFFICES ASSUME Init PROVE Atomic!AtomicInit
  OBVIOUS
<1>1. dir.doc = EmptyDocument /\ disk.doc = EmptyDocument
  BY DEF Init, EmptyDirectory
<1>2. \A c \in Calls : ~call[c].durable /\ call[c].result = "none"
  BY DEF Init, FreshCall
<1>3. {c \in Calls : call[c].durable} = {}
  BY <1>2
<1>4. [c \in Calls |-> call[c].result] = [c \in Calls |-> "none"]
  BY <1>2
<1> QED BY <1>1, <1>3, <1>4 DEF Atomic!AtomicInit, Atomic!EmptyDocument, EmptyDocument

\* A step that changes neither the document, nor its image, nor a report.
LEMMA AtomicStutter ==
  ASSUME dir'.doc = dir.doc, disk'.doc = disk.doc,
         \A c \in Calls : /\ call'[c].durable = call[c].durable
                          /\ call'[c].result = call[c].result
  PROVE  UNCHANGED Atomic!atomicVars
<1>1. {c \in Calls : call'[c].durable} = {c \in Calls : call[c].durable}
  OBVIOUS
<1>2. [c \in Calls |-> call'[c].result] = [c \in Calls |-> call[c].result]
  OBVIOUS
<1> QED BY <1>1, <1>2 DEF Atomic!atomicVars

\* A flush of the directory persists the document, and may confirm one call.
LEMMA AtomicPersist ==
  ASSUME NEW C \in SUBSET Calls, C \subseteq dir.doc.log,
         dir'.doc = dir.doc, disk'.doc = dir.doc,
         \A c \in Calls : /\ call'[c].durable <=> call[c].durable \/ c \in C
                          /\ call'[c].result = call[c].result
  PROVE  Atomic!AtomicNext
<1>1. {c \in Calls : call'[c].durable} = {c \in Calls : call[c].durable} \cup C
  OBVIOUS
<1>2. [c \in Calls |-> call'[c].result] = [c \in Calls |-> call[c].result]
  OBVIOUS
<1>3. Atomic!Persist(C)
  BY <1>1, <1>2 DEF Atomic!Persist
<1> QED BY <1>3 DEF Atomic!AtomicNext

\* The rename of a request that was admitted is the atomic commit.
LEMMA AtomicCommit ==
  ASSUME LockInvariant, OutcomeInvariant, NEW c \in Calls, CallStep(c), Renames(c)
  PROVE  Atomic!AtomicNext
<1>1. /\ FrameEffect(c)
      /\ call[c].pc = "rename" /\ dir'.doc = Mutate(c, call[c].op, call[c].base)
      /\ disk' = disk /\ call'[c].result = call[c].result
      /\ call'[c].durable = call[c].durable
  BY FrameStep DEF LockInvariant, Renames
<1>2. call[c].base = dir.doc
  BY <1>1 DEF LockInvariant, NoLostUpdate
<1>3. /\ call[c].op \in Requests /\ call[c].op.kind \in {"set", "delete"}
      /\ ~Conflict(call[c].op, dir.doc) /\ ~Full(call[c].op, dir.doc)
      /\ ~NoEntry(call[c].op, dir.doc)
  BY <1>1, <1>2
  DEF OutcomeInvariant, Requested, Admitted, Mutating, Publishing, Holding
<1>4. call[c].result = "none" /\ c \notin dir.doc.log
  BY <1>1
  DEF OutcomeInvariant, ReportedOnce, LogKnown, Published, At, Successes, Committing
<1>5. \A d \in Calls : /\ call'[d].durable = call[d].durable
                       /\ call'[d].result = call[d].result
  BY <1>1 DEF FrameEffect
<1>6. {d \in Calls : call'[d].durable} = {d \in Calls : call[d].durable}
  BY <1>5
<1>7. [d \in Calls |-> call'[d].result] = [d \in Calls |-> call[d].result]
  BY <1>5
<1>8. [d \in Calls |-> call[d].result][c] = "none"
  BY <1>4
<1>9. ASSUME NEW o, NEW d
      PROVE  /\ Atomic!Mutate(c, o, d) = Mutate(c, o, d)
             /\ Atomic!Conflict(o, d) <=> Conflict(o, d)
             /\ Atomic!Full(o, d) <=> Full(o, d)
             /\ Atomic!NoEntry(o, d) <=> NoEntry(o, d)
  <2>1. Atomic!Mutate(c, o, d) = Mutate(c, o, d)
    BY DEF Atomic!Mutate, Mutate
  <2>2. Atomic!Present(d) = Present(d)
    BY DEF Atomic!Present, Present
  <2>3. \A S : Atomic!Cardinality(S) = Cardinality(S)
    BY Zenon DEF Atomic!Cardinality, Cardinality
  <2> QED BY <2>1, <2>2, <2>3
    DEF Atomic!Conflict, Conflict, Atomic!Full, Full, Atomic!NoEntry, NoEntry
<1>10. Atomic!Commit(c, call[c].op)
  BY <1>1, <1>2, <1>3, <1>4, <1>6, <1>7, <1>8, <1>9 DEF Atomic!Commit
<1> QED BY <1>3, <1>10 DEF Atomic!AtomicNext

\* The end of a call is its report, true of the document at that moment.
LEMMA AtomicReport ==
  ASSUME LockInvariant, OutcomeInvariant, NEW c \in Calls, CallStep(c), Settles(c)
  PROVE  Atomic!AtomicNext
<1>0. PICK r \in {"read", "ok", "unchanged", "failed", "ackConfirmed",
                  "ackUnresolved"} : call'[c].result = r
  BY DEF Settles, Successes
<1>1. FrameEffect(c) /\ call \in [Calls -> Call]
  BY FrameStep DEF LockInvariant, TypeOK
<1>2. Alive(c) /\ call[c].pc \notin {"done", "dead"}
  BY <1>1 DEF FrameEffect, Alive
<1>3. call[c].result = "none"
  BY <1>2 DEF OutcomeInvariant, ReportedOnce, At
<1>4. r = "failed" => c \notin dir.doc.log
  BY <1>0, <1>2, <1>3
  DEF Settles, Successes, OutcomeInvariant, ReportedOnce, LogKnown, Published, At
<1>5. r \in Successes => c \in dir.doc.log
  BY <1>0, <1>2 DEF Settles, Successes, OutcomeInvariant, LogKnown, Published
<1>6. \A d \in Calls : /\ call'[d].durable = call[d].durable
                       /\ d # c => call'[d].result = call[d].result
  BY <1>1 DEF FrameEffect, Settles
<1>7. {d \in Calls : call'[d].durable} = {d \in Calls : call[d].durable}
  BY <1>6
<1>8. [d \in Calls |-> call'[d].result] =
        [[d \in Calls |-> call[d].result] EXCEPT ![c] = r]
  BY <1>0, <1>6
<1>9. [d \in Calls |-> call[d].result][c] = "none"
  BY <1>3
<1>10. dir'.doc = dir.doc /\ disk'.doc = disk.doc
  BY DEF Settles
<1>11. Atomic!Report(c, r)
  BY <1>4, <1>5, <1>7, <1>8, <1>9, <1>10 DEF Atomic!Report, Successes
<1> QED BY <1>11 DEF Atomic!AtomicNext

\* Every step of a call is a step of the atomic document, or none.
LEMMA AtomicCall ==
  ASSUME LockInvariant, OutcomeInvariant, DurableInvariant,
         NEW c \in Calls, CallStep(c)
  PROVE  Atomic!AtomicNext \/ UNCHANGED Atomic!atomicVars
<1>1. /\ FrameEffect(c) /\ OutcomeEffect(c)
      /\ \A p \in Procs : prov[p].barrier \in BOOLEAN
      /\ \A d \in Calls : call[d].durable \in BOOLEAN
      /\ Home[c] \in Procs
  BY FrameStep, OutcomeStep, StoreAssumption
  DEF LockInvariant, OutcomeInvariant, TypeOK, Provider, Call
<1>2. \A d \in Calls \ {c} : call'[d] = call[d]
  BY <1>1 DEF FrameEffect
<1>3. CASE Silent(c)
  <2>1. \A d \in Calls : /\ call'[d].durable = call[d].durable
                         /\ call'[d].result = call[d].result
    BY <1>2, <1>3 DEF Silent
  <2> QED BY <1>3, <2>1, AtomicStutter DEF Silent
<1>4. CASE Renames(c)
  BY <1>4, AtomicCommit
<1>5. CASE Settles(c)
  BY <1>5, AtomicReport
<1>6. CASE Flushes(c)
  <2>1. ~call[c].durable /\ c \in dir.doc.log
    BY <1>6
    DEF Flushes, OutcomeInvariant, ReportedOnce, Over, Finished, DurableInvariant, At
  <2> DEFINE C == IF prov[Home[c]].barrier THEN {c} ELSE {}
  <2>2. C \in SUBSET Calls /\ C \subseteq dir.doc.log
    BY <2>1
  <2>3. \A d \in Calls : /\ call'[d].durable <=> call[d].durable \/ d \in C
                         /\ call'[d].result = call[d].result
    BY <1>1, <1>2, <1>6, <2>1 DEF Flushes
  <2> HIDE DEF C
  <2> QED BY <1>6, <2>2, <2>3, AtomicPersist DEF Flushes
<1> QED BY <1>1, <1>3, <1>4, <1>5, <1>6 DEF OutcomeEffect

\* A host crash keeps the image, or nothing if nothing was confirmed.
LEMMA AtomicCrash ==
  ASSUME LockInvariant, OutcomeInvariant, DurableInvariant, HostCrash
  PROVE  Atomic!AtomicNext
<1>1. /\ Kill(Up) /\ Up \in SUBSET Procs /\ disk' = dir'
      /\ dir' = disk \/ (dir' = EmptyDirectory /\ ~rootDurable)
  BY DEF HostCrash, Up
<1>2. \A c \in Calls : /\ call'[c].durable = call[c].durable
                       /\ call'[c].result = call[c].result
  BY <1>1, KillOutcome DEF LockInvariant, OutcomeInvariant, ReportedOnce, At
<1>3. {c \in Calls : call'[c].durable} = {c \in Calls : call[c].durable}
  BY <1>2
<1>4. [c \in Calls |-> call'[c].result] = [c \in Calls |-> call[c].result]
  BY <1>2
<1>5. dir'.doc \in {disk.doc, EmptyDocument}
  BY <1>1 DEF EmptyDirectory
<1>6. {c \in Calls : call[c].durable} \subseteq dir'.doc.log
  BY <1>1 DEF DurableInvariant
<1>7. Atomic!LoseUnconfirmed(dir'.doc)
  BY <1>1, <1>3, <1>4, <1>6 DEF Atomic!LoseUnconfirmed
<1> QED BY <1>5, <1>7 DEF Atomic!AtomicNext, Atomic!EmptyDocument, EmptyDocument

\* Every step of the store is a step of the atomic document, or none.
LEMMA AtomicStep ==
  ASSUME LockInvariant, OutcomeInvariant, DurableInvariant, [Next]_vars
  PROVE  Atomic!AtomicNext \/ UNCHANGED Atomic!atomicVars
<1>1. CASE \E c \in Calls : CallStep(c)
  BY <1>1, AtomicCall
<1>2. CASE HostCrash
  BY <1>2, AtomicCrash
\* The directory reaches the disk, or nothing does.
<1>3. ASSUME dir'.doc = dir.doc, disk' \in {dir, disk},
             \A c \in Calls : /\ call'[c].durable = call[c].durable
                              /\ call'[c].result = call[c].result
      PROVE  Atomic!AtomicNext \/ UNCHANGED Atomic!atomicVars
  <2>1. CASE disk' = disk
    BY <1>3, <2>1, AtomicStutter
  <2>2. CASE disk' = dir
    <3>1. {} \in SUBSET Calls /\ {} \subseteq dir.doc.log
      OBVIOUS
    <3>2. \A c \in Calls : /\ call'[c].durable <=> call[c].durable \/ c \in {}
                           /\ call'[c].result = call[c].result
      <4>1. \A c \in Calls : call[c].durable \in BOOLEAN
        BY DEF LockInvariant, TypeOK, Call
      <4> QED BY <1>3, <4>1
    <3> QED BY <1>3, <2>2, <3>1, <3>2, AtomicPersist
  <2> QED BY <1>3, <2>1, <2>2
<1>4. CASE \E p \in Procs, b \in BOOLEAN : Start(p, b)
  BY <1>3, <1>4 DEF Start
<1>5. CASE \E c \in Calls, o \in Requests : Invoke(c, o)
  <2>1. UNCHANGED <<dir, disk>>
    BY <1>5 DEF Invoke, files
  <2>2. \A c \in Calls : /\ call'[c].durable = call[c].durable
                         /\ call'[c].result = call[c].result
    BY <1>5 DEF Invoke, LockInvariant, TypeOK, Call
  <2> QED BY <1>3, <2>1, <2>2
<1>6. CASE \E p \in Procs : ProcessCrash(p)
  <2>1. PICK p \in Procs : ProcessCrash(p)
    BY <1>6
  <2>2. Kill({p}) /\ {p} \in SUBSET Procs /\ UNCHANGED <<dir, disk>>
    BY <2>1 DEF ProcessCrash, files
  <2>3. \A c \in Calls : /\ call'[c].durable = call[c].durable
                         /\ call'[c].result = call[c].result
    BY <2>2, KillOutcome DEF LockInvariant, OutcomeInvariant, ReportedOnce, At
  <2> QED BY <1>3, <2>2, <2>3
<1>7. CASE WriteBack \/ UNCHANGED vars
  BY <1>3, <1>7 DEF WriteBack, vars, files
<1> QED BY <1>1, <1>2, <1>4, <1>5, <1>6, <1>7 DEF Next, ProcessStep, HostStep

\* Whatever the processes and hosts do, the store behaves as one document
\* that is mutated atomically by compare-and-set, reports the truth, and
\* loses in a host crash only what it did not confirm.
THEOREM Refinement == Spec => Linearizable
<1>1. LockInvariant /\ OutcomeInvariant /\ DurableInvariant /\ [Next]_vars
        => [Atomic!AtomicNext]_(Atomic!atomicVars)
  BY AtomicStep
<1>2. Spec => []DurableInvariant
  <2>1. Init => DurableInvariant
    BY DEF Init, DurableInvariant, FreshProvider, FreshCall, At
  <2>2. LockInvariant /\ DurableInvariant /\ [Next]_vars => DurableInvariant'
    BY DurableNext
  <2> QED BY <2>1, <2>2, LockProtocol, PTL DEF Spec
<1> QED BY <1>1, <1>2, AtomicInitially, OutcomeProtocol, PTL
  DEF Spec, Linearizable, Atomic!AtomicSpec
=============================================================================
