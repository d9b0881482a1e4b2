--------------------------- MODULE LocalWorkspace ---------------------------
(* Approved effects on workspace files: providers/local-provider.ts with     *)
(* local-path.ts and owned-file.ts.  Several runtimes share one workspace    *)
(* and one lock root; editors write to the same file without the lock.  Each *)
(* system call of a publication is a step, for the others run between them.  *)
(* A file is its content and a stamp that stands for identity and times.     *)
EXTENDS Naturals
CONSTANTS Runtimes, MaxStamps                    \* bound: writes to the file
ASSUME LocalAssumption == MaxStamps \in Nat
VARIABLES file,    \* the file at the path: [content, stamp, by]
          lock,    \* the owner of local-<root>.lock
          local,   \* per runtime: its call, its preparation and what it holds
          stamp,
          overwritten   \* history: an effect replaced another runtime's work unseen
localVars == <<file, lock, local, stamp, overwritten>>

FileTexts == {1, 2}                                  \* 0: there is no file
Nobody == "nobody"
Resting == [phase |-> "idle", kind |-> "none", read |-> 0, snap |-> [content |-> 0, stamp |-> 0], proposed |-> 0,
            poisoned |-> FALSE, retained |-> FALSE, closed |-> FALSE]
Rests(l) == [Resting EXCEPT !.poisoned = l.poisoned, !.retained = l.retained, !.closed = l.closed]
LocalInit ==
  /\ file = [content |-> 1, stamp |-> 0, by |-> "outside"] /\ lock = Nobody /\ stamp = 0 /\ overwritten = FALSE
  /\ local = [h \in Runtimes |-> Resting]
Version == [content |-> file.content, stamp |-> file.stamp]
At(h, phase) == local[h].phase = phase
Moves(h, phase) == local' = [local EXCEPT ![h].phase = phase]
Wrote(c, who) == stamp < MaxStamps /\ stamp' = stamp + 1 /\ file' = [content |-> c, stamp |-> stamp + 1, by |-> who]
LocalClosed(h) == local[h].closed

(* read: the version a later edit has to name.                               *)
ReadFile(h) ==
  /\ At(h, "idle") /\ ~LocalClosed(h) /\ file.content # 0
  /\ local' = [local EXCEPT ![h].read = file.content] /\ UNCHANGED <<file, lock, stamp, overwritten>>
(* prepareArguments: an edit or an overwrite names the content that was      *)
(* read, a creation finds no file; the snapshot is what gets approved.       *)
PrepareFile(h, proposed) ==
  /\ At(h, "idle") /\ ~LocalClosed(h) /\ ~local[h].poisoned /\ file.content \in {0, local[h].read}
  /\ local' = [local EXCEPT ![h].phase = "prepared", ![h].kind = IF file.content = 0 THEN "create" ELSE "write",
                            ![h].snap = Version, ![h].proposed = proposed, ![h].read = 0]
  /\ UNCHANGED <<file, lock, stamp, overwritten>>
PrepareShell(h) ==
  /\ At(h, "idle") /\ ~LocalClosed(h) /\ ~local[h].poisoned
  /\ local' = [local EXCEPT ![h].phase = "prepared", ![h].kind = "shell", ![h].read = 0]
  /\ UNCHANGED <<file, lock, stamp, overwritten>>
Decline(h) == At(h, "prepared") /\ local' = [local EXCEPT ![h] = Rests(@)] /\ UNCHANGED <<file, lock, stamp, overwritten>>
(* reserveInvocation: a lock that could not be released is tried again, one  *)
(* of somebody else is never broken.                                         *)
AvailableStale(h) == ~local[h].poisoned          \* a mutant: takes any lock for a stale one
Available(h) == ~local[h].poisoned /\ lock \in IF local[h].retained THEN {Nobody, h} ELSE {Nobody}
ReserveFile(h) ==
  /\ At(h, "prepared") /\ ~LocalClosed(h) /\ UNCHANGED <<file, stamp, overwritten>>
  /\ \/ /\ Available(h) /\ lock' = h
        /\ \/ local' = [local EXCEPT ![h].phase = "reserved", ![h].retained = FALSE]
           \/ local' = [local EXCEPT ![h] = [Rests(@) EXCEPT !.retained = TRUE]]    \* initialisation and cleanup failed
     \/ ~Available(h) /\ local' = [local EXCEPT ![h] = Rests(@)] /\ UNCHANGED lock
(* #invoke: a call that is cancelled or comes after close changes nothing.   *)
EnterCall(h) ==
  /\ At(h, "reserved") /\ UNCHANGED <<file, lock, stamp, overwritten>>
  /\ Moves(h, IF local[h].kind = "shell" THEN "shell" ELSE "check") \/ Moves(h, "leaving")
(* #publish: the snapshot is valid, a private file is written beside the     *)
(* target, the snapshot is valid still, and the file takes its place.        *)
Valid(h) == local[h].snap = Version
CheckFile(h) ==
  /\ At(h, "check") /\ UNCHANGED <<file, lock, stamp, overwritten>>
  /\ Moves(h, IF Valid(h) /\ local[h].proposed # file.content /\ ~LocalClosed(h) THEN "stage" ELSE "leaving")
Stage(h) ==
  /\ At(h, "stage") /\ UNCHANGED <<file, lock, stamp, overwritten>>
  /\ Moves(h, IF Valid(h) /\ ~LocalClosed(h) THEN "publish" ELSE "leaving") \/ Moves(h, "leaving")
Replaces(h) == local[h].kind = "write" \/ file.content = 0
PublishFile(h) ==
  /\ At(h, "publish") /\ UNCHANGED lock
  /\ \/ /\ Replaces(h) /\ Wrote(local[h].proposed, h)
        /\ Moves(h, "verify")
        /\ overwritten' = (overwritten \/ (local[h].snap # Version /\ file.by # "outside"))
     \/ ~Replaces(h) /\ Moves(h, "leaving") /\ UNCHANGED <<file, stamp, overwritten>>
(* The result is read back; whether it matches decides what is told (a       *)
(* commit, verified or not) and nothing else.                                *)
VerifyFile(h) == At(h, "verify") /\ Moves(h, "leaving") /\ UNCHANGED <<file, lock, stamp, overwritten>>
(* A shell writes what it likes while it holds the lock; when its processes  *)
(* cannot be accounted for the provider takes no further effect.             *)
Shell(h) ==
  /\ At(h, "shell") /\ UNCHANGED <<lock, overwritten>>
  /\ \/ (\E c \in FileTexts \union {0} : Wrote(c, h)) /\ UNCHANGED local
     \/ Moves(h, "leaving") /\ UNCHANGED <<file, stamp>>
     \/ local' = [local EXCEPT ![h].phase = "leaving", ![h].poisoned = TRUE] /\ UNCHANGED <<file, stamp>>
(* The reservation's release: the lock goes unless a cleanup is unresolved   *)
(* or the lock root cannot be verified; then the responsibility is kept.     *)
ReleaseFile(h) ==
  /\ At(h, "leaving") /\ UNCHANGED <<file, stamp, overwritten>>
  /\ \/ /\ ~local[h].poisoned /\ lock' = IF lock = h THEN Nobody ELSE lock
        /\ local' = [local EXCEPT ![h] = [Rests(@) EXCEPT !.retained = FALSE]]
     \/ UNCHANGED lock /\ local' = [local EXCEPT ![h] = [Rests(@) EXCEPT !.retained = TRUE]]
CloseLocal(h) ==
  /\ ~LocalClosed(h) /\ ~At(h, "dead") /\ local' = [local EXCEPT ![h].closed = TRUE] /\ UNCHANGED <<file, lock, stamp, overwritten>>
(* A runtime dies with its lock in place; an operator who found it dead      *)
(* removes the lock, and another runtime starts.                             *)
Die(h) == ~At(h, "dead") /\ Moves(h, "dead") /\ UNCHANGED <<file, lock, stamp, overwritten>>
Operator(h) ==
  /\ At(h, "dead") /\ lock' = (IF lock = h THEN Nobody ELSE lock)
  /\ local' = [local EXCEPT ![h] = Resting] /\ UNCHANGED <<file, stamp, overwritten>>
Editor == (\E c \in FileTexts \union {0} : Wrote(c, "outside")) /\ UNCHANGED <<lock, local, overwritten>>
LocalNext ==
  \/ Editor
  \/ \E h \in Runtimes : \/ ReadFile(h) \/ PrepareShell(h) \/ Decline(h) \/ ReserveFile(h) \/ EnterCall(h) \/ CheckFile(h) \/ Stage(h)
                         \/ PublishFile(h) \/ VerifyFile(h) \/ Shell(h) \/ ReleaseFile(h) \/ CloseLocal(h) \/ Die(h) \/ Operator(h)
                         \/ \E c \in FileTexts : PrepareFile(h, c)
LocalSpec == LocalInit /\ [][LocalNext]_localVars

(* One runtime at a time acts, and it does so under the lock: also across    *)
(* failed initialisations, retained locks, deaths and operators.             *)
ActsAlone ==
  \A h \in Runtimes : local[h].phase \in {"reserved", "check", "stage", "publish", "verify", "shell", "leaving"} => lock = h
(* What an effect of a runtime replaces is what was approved, whatever the   *)
(* other runtimes did since (an editor may slip in between the last look and *)
(* the replacement).                                                         *)
EffectsApproved == ~overwritten
LocalSafe == ActsAlone /\ EffectsApproved
=============================================================================
