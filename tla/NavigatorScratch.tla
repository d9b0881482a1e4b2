-------------------------- MODULE NavigatorScratch --------------------------
(* The private scratch directory of a navigator engine: fovea/               *)
(* scratch-owner.ts, and the sweep and atomic writes of fovea/core/          *)
(* temp-storage.ts that run in it.  Whatever the owner creates it records by *)
(* identity; a tree is removed only after all of it was inspected, node by   *)
(* node and each looked at again; a failure is never forgotten.  Other       *)
(* processes of the same user may replace, add and remove nodes between any  *)
(* two steps.  A look and the call it precedes are one step: the code says   *)
(* of the race inside it that it is no sandbox.  Types, links, modes, sizes  *)
(* and depth, each a reason to retain, are left out.                         *)
EXTENDS Naturals, Sequences, FiniteSets
CONSTANTS MaxStamps, MaxTampers                  \* bounds: identities created, acts of others
ASSUME ScratchBounds == MaxStamps \in Nat /\ MaxTampers \in Nat
VARIABLES disk,    \* [path -> identity of the node there, 0 when there is none]
          own,     \* #trees, #files, #failure, #closed: [trees, files, failure, closed]
          task,    \* the engine's removal in progress: [target, snap, todo], or its close
          sweeping,\* maintainTempStorage: [pc, seen]
          held,    \* temp-storage's active: a writer is replacing the cache file
          past     \* history: [stamps, tampers, foreign, vetted, lost, captured, outcome]
scratchVars == <<disk, own, task, sweeping, held, past>>

TreePaths == {"dir", "stage", "root"}
Up(p) == CASE p \in {"stage", "root", "cache", "facts", "odd"} -> "dir" [] p = "stage/a" -> "stage" [] p = "root/a" -> "root" [] OTHER -> ""
Paths == TreePaths \union {"stage/a", "root/a", "cache", "facts", "odd"}
Kids(p) == {c \in Paths : Up(c) = p}
Tree(p) == {q \in Paths : q = p \/ Up(q) = p \/ (p = "dir" /\ Up(Up(q)) = p)}
Generated == {"cache", "facts"}                  \* generatedFile: the fact cache, a captured facts file
NoTask == [target |-> "none", snap |-> <<>>, todo |-> <<>>]
Untracked == MaxStamps + 1                       \* no entry in #trees or #files; 0 is an entry without identity

ScratchInit ==
  /\ disk = [p \in Paths |-> 0] /\ held = FALSE /\ task = NoTask /\ sweeping = [pc |-> "idle", seen |-> 0]
  /\ own = [known |-> [p \in Paths |-> Untracked], failure |-> FALSE, closed |-> FALSE]
  /\ past = [stamps |-> 0, tampers |-> 0, foreign |-> {}, vetted |-> {}, lost |-> {}, captured |-> {}, outcome |-> "none"]

Known(p) == own.known[p] # Untracked
NoTaskRuns == task = NoTask
AdmittedNode == NoTaskRuns /\ ~own.closed /\ ~own.failure
(* #root: the directory is still the one that was created.                   *)
RootKept == Known("dir") /\ own.known["dir"] # 0 /\ disk["dir"] = own.known["dir"]
FreshStamp == past.stamps + 1
MayStamp == past.stamps < MaxStamps
Stamped == [past EXCEPT !.stamps = @ + 1]
(* mkdtemp, then lstat: the path is kept even when its inspection fails.     *)
Allocate(p) ==
  /\ AdmittedNode /\ MayStamp /\ ~Known(p) /\ disk[p] = 0 /\ disk' = [disk EXCEPT ![p] = FreshStamp]
  /\ \E seen \in {0, FreshStamp} : /\ own' = [own EXCEPT !.known[p] = seen]
                              /\ past' = [Stamped EXCEPT !.captured = @ \union {FreshStamp}]
  /\ UNCHANGED <<task, sweeping, held>>
CreateScratch == Allocate("dir")
CreateStage == RootKept /\ Allocate("stage")
(* The snapshot is written into the stage.                                   *)
FillStage ==
  /\ AdmittedNode /\ MayStamp /\ Known("stage") /\ disk["stage"] # 0 /\ disk["stage/a"] = 0
  /\ disk' = [disk EXCEPT !["stage/a"] = FreshStamp] /\ past' = Stamped /\ UNCHANGED <<own, task, sweeping, held>>
(* moveStage: the stage becomes the root's snapshot; a rename keeps          *)
(* identities.                                                               *)
MoveStage ==
  /\ AdmittedNode /\ RootKept /\ Known("stage") /\ own.known["stage"] # 0 /\ disk["stage"] = own.known["stage"]
  /\ disk["root"] = 0 /\ ~Known("root")
  /\ disk' = [disk EXCEPT !["root"] = disk["stage"], !["root/a"] = disk["stage/a"], !["stage"] = 0, !["stage/a"] = 0]
  /\ own' = [own EXCEPT !.known = [@ EXCEPT !["root"] = own.known["stage"], !["stage"] = Untracked]]
  /\ UNCHANGED <<task, sweeping, held, past>>
(* writeAtomicTemp: the target is held from before its staging to its        *)
(* rename; a captured file is recorded after it.                             *)
HoldCache == /\ AdmittedNode /\ RootKept /\ ~held /\ held' = TRUE /\ UNCHANGED <<disk, own, task, sweeping, past>>
PublishCache ==
  /\ held /\ held' = FALSE /\ UNCHANGED <<own, task, sweeping>>
  /\ \/ UNCHANGED <<disk, past>>                              \* it fails; its staging goes with it
     \/ MayStamp /\ disk["dir"] # 0 /\ disk' = [disk EXCEPT !["cache"] = FreshStamp] /\ past' = Stamped
CaptureFile ==
  /\ AdmittedNode /\ RootKept /\ MayStamp /\ ~Known("facts") /\ disk["facts"] = 0
  /\ disk' = [disk EXCEPT !["facts"] = FreshStamp] /\ own' = [own EXCEPT !.known["facts"] = FreshStamp]
  /\ past' = [Stamped EXCEPT !.captured = @ \union {FreshStamp}] /\ UNCHANGED <<task, sweeping, held>>

Gone(p, h) == [h EXCEPT !.lost = @ \union {disk[p]}]
(* removeTemporary: a captured file must be there and unchanged; any other   *)
(* is left alone when it is not the one that was looked at.                  *)
Temporary(p, expected, available) ==
  IF ~available THEN UNCHANGED <<disk, own, past>>
  ELSE IF ~RootKept \/ (Known(p) /\ disk[p] # own.known[p])
    THEN own' = [own EXCEPT !.failure = TRUE] /\ UNCHANGED <<disk, past>>
  ELSE IF disk[p] = 0 \/ disk[p] # expected THEN UNCHANGED <<disk, own, past>>
  ELSE disk' = [disk EXCEPT ![p] = 0] /\ own' = [own EXCEPT !.known[p] = Untracked] /\ past' = Gone(p, past)
RemoveFile ==
  /\ NoTaskRuns /\ ~own.closed /\ Known("facts") /\ Temporary("facts", own.known["facts"], TRUE)
  /\ UNCHANGED <<task, sweeping, held>>
(* The sweep looks at the cache file, and removes it when it is old and no   *)
(* writer holds it then.                                                     *)
SweepSees ==
  /\ sweeping.pc = "idle" /\ Known("dir") /\ ~own.closed /\ disk["cache"] # 0 /\ ~held
  /\ sweeping' = [pc |-> "looked", seen |-> disk["cache"]]
  /\ past' = [past EXCEPT !.vetted = @ \union {disk["cache"]}] /\ UNCHANGED <<disk, own, task, held>>
SweepRemoves ==
  /\ sweeping.pc = "looked" /\ sweeping' = [pc |-> "idle", seen |-> 0]
  /\ Temporary("cache", sweeping.seen, ~held) /\ UNCHANGED <<task, held>>

(* #removeTree: everything below is inspected before anything is deleted.    *)
Refused(t) ==
  \/ ~RootKept \/ ~Known(t)
  \/ \E p \in Tree(t) : Known(p) /\ (own.known[p] = 0 \/ disk[p] # own.known[p])   \* unknown, replaced or gone
  \/ t = "dir" /\ \E p \in {"stage", "root"} : disk[p] # 0 /\ ~Known(p)
  \/ t = "dir" /\ disk["odd"] # 0
Enter(p) == <<"enter", p>>
Drop(p) == <<"drop", p>>
Inside(p) == IF p = "stage" THEN "stage/a" ELSE "root/a"   \* the only member either may have
Plan(t) == LET leaf(p) == IF disk[p] = 0 THEN <<>> ELSE <<Drop(p)>>
               branch(p) == IF disk[p] = 0 THEN <<>>
                            ELSE <<Enter(p)>> \o leaf(Inside(p)) \o <<Drop(p)>> IN
  IF t # "dir" THEN branch(t)
  ELSE <<Enter("dir")>> \o branch("stage") \o branch("root") \o leaf("cache") \o leaf("facts") \o <<Drop("dir")>>
RemovalFailed == own' = [own EXCEPT !.failure = TRUE]
Closing == own.closed
EndTask == /\ task' = NoTask
           /\ past' = IF Closing THEN [past EXCEPT !.outcome = "failed"] ELSE past
BeginRemoval(t) ==
  IF disk[t] = 0 /\ ~Known(t) THEN UNCHANGED <<own, task, past>>   \* nothing there, nothing claimed
  ELSE IF Refused(t) THEN RemovalFailed /\ EndTask
  ELSE /\ task' = [target |-> t, snap |-> disk, todo |-> Plan(t)] /\ UNCHANGED own
       /\ past' = [past EXCEPT !.vetted = @ \union {disk[p] : p \in Tree(t)}]
RemoveTree(t) == /\ NoTaskRuns /\ ~own.closed /\ Known("dir") /\ BeginRemoval(t) /\ UNCHANGED <<disk, sweeping, held>>
(* One node: its ancestors and itself are looked at again; a directory must  *)
(* have the members it had, and be empty when it goes.                       *)
SameAs(p) == disk[p] = task.snap[p]
Members(p) == {c \in Kids(p) : disk[c] # 0}
UncheckedNode(p) == TRUE                        \* as if a node were not looked at again
Rechecked(p) == RootKept /\ SameAs(p) /\ (Up(p) \in Tree(task.target) => SameAs(Up(p)))
RemoveNext ==
  /\ ~NoTaskRuns /\ UNCHANGED <<sweeping, held>>
  /\ LET step == Head(task.todo)  p == step[2]
         good == /\ Rechecked(p)
                 /\ (step[1] = "enter" => Members(p) = {c \in Kids(p) : task.snap[c] # 0})
                 /\ (step[1] = "drop" => disk[p] # 0 /\ Members(p) = {}) IN
     IF ~good THEN RemovalFailed /\ EndTask /\ UNCHANGED disk
     ELSE IF step[1] = "enter" THEN task' = [task EXCEPT !.todo = Tail(@)] /\ UNCHANGED <<disk, own, past>>
     ELSE /\ disk' = [disk EXCEPT ![p] = 0] /\ own' = [own EXCEPT !.known[p] = Untracked]
          /\ task' = IF Len(task.todo) = 1 THEN NoTask ELSE [task EXCEPT !.todo = Tail(@)]
          /\ past' = [Gone(p, past) EXCEPT !.outcome = IF Closing /\ Len(task.todo) = 1
                                                         THEN (IF own.failure THEN "failed" ELSE "ok") ELSE @]
(* close, after the engine's last query and the sweeps it started.           *)
CloseScratch ==
  /\ NoTaskRuns /\ ~own.closed /\ sweeping.pc = "idle" /\ ~held /\ UNCHANGED <<disk, sweeping, held>>
  /\ IF ~Known("dir")
       THEN /\ own' = [own EXCEPT !.closed = TRUE] /\ UNCHANGED task
            /\ past' = [past EXCEPT !.outcome = IF own.failure THEN "failed" ELSE "ok"]
     ELSE IF Refused("dir")
       THEN /\ own' = [own EXCEPT !.closed = TRUE, !.failure = TRUE] /\ UNCHANGED task
            /\ past' = [past EXCEPT !.outcome = "failed"]
     ELSE /\ own' = [own EXCEPT !.closed = TRUE] /\ task' = [target |-> "dir", snap |-> disk, todo |-> Plan("dir")]
          /\ past' = [past EXCEPT !.vetted = @ \union {disk[p] : p \in Paths}]

(* Another process replaces a node by its own, adds one, or removes one.     *)
Tamper(p) ==
  /\ past.tampers < MaxTampers /\ Known("dir") /\ (Up(p) # "" => disk[Up(p)] # 0)
  /\ \/ /\ MayStamp /\ disk' = [q \in Paths |-> IF q = p THEN FreshStamp ELSE IF q \in Tree(p) THEN 0 ELSE disk[q]]
        /\ past' = [Stamped EXCEPT !.tampers = @ + 1, !.foreign = @ \union {FreshStamp}]
     \/ /\ disk[p] # 0 /\ disk' = [q \in Paths |-> IF q \in Tree(p) THEN 0 ELSE disk[q]]
        /\ past' = [past EXCEPT !.tampers = @ + 1]
  /\ UNCHANGED <<own, task, sweeping, held>>
ScratchNext == \/ CreateScratch \/ CreateStage \/ FillStage \/ MoveStage \/ HoldCache \/ PublishCache \/ CaptureFile
               \/ RemoveFile \/ SweepSees \/ SweepRemoves \/ (\E t \in {"stage", "root"} : RemoveTree(t))
               \/ RemoveNext \/ CloseScratch \/ \E p \in Paths : Tamper(p)
ScratchSpec == ScratchInit /\ [][ScratchNext]_scratchVars

(* Nothing is deleted that was not inspected first, whatever appears while a *)
(* removal runs; an unknown top-level entry, and a replacement of anything   *)
(* the owner recorded, are never inspected into a removal.                   *)
OnlyVettedRemoved == past.lost \subseteq past.vetted \union past.captured
(* A close that succeeds has removed all that was ever recorded, leaves      *)
(* nothing behind, and was preceded by no failure.                           *)
ClosedIsClean ==
  past.outcome = "ok" => /\ \A p \in Paths : disk[p] = 0 \/ disk[p] \in past.foreign
                         /\ past.captured \subseteq past.lost /\ ~own.failure
ScratchKept == OnlyVettedRemoved /\ ClosedIsClean
=============================================================================
