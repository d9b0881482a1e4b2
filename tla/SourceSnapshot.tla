--------------------------- MODULE SourceSnapshot ---------------------------
(* The exact snapshot of a source tree that others edit meanwhile:            *)
(* captureSourceSnapshot of fovea/source-access.ts.  A file is looked at,     *)
(* read and looked at again through one descriptor; what is new is copied to  *)
(* a fresh private tree, the rest comes from the previous private tree, which *)
(* may be gone by then.  A file is its content, 0 for none, and the stamp of  *)
(* its last change.  Directories, exclusions, rules and unsupported files are *)
(* left out: such a path is not a file here.                                  *)
EXTENDS Naturals, Sequences, FiniteSets, FiniteSetsExt, Functions, TLC
CONSTANTS TreeFiles,                                 \* 1 .. n, in the order of the walk
          SizeOf,                                \* <<size of content 1, of content 2, ...>>
          FileCap, TreeCap, MemberCap, MaxEdits       \* bound: edits by others
ASSUME SnapshotAssumption == {TreeFiles, FileCap, TreeCap, MemberCap, MaxEdits} \subseteq Nat /\ SizeOf \in Seq(Nat)
VARIABLES live,    \* [file -> its content and stamp]
          kept,    \* the previous private tree: its directory's id, its files
          snap,    \* the capture: stage, file, what was observed, hashes, copies
          had      \* history: [file -> contents it had since the capture began]
snapVars == <<live, kept, snap, had>>

LivePaths == 1..TreeFiles
Bytes == DOMAIN SizeOf
Size(c) == IF c \in Bytes THEN SizeOf[c] ELSE 0
TreeSize(files) == SumFunction([p \in DOMAIN files |-> Size(files[p])])
Torn == Len(SizeOf) + 1                            \* bytes of two contents
SnapshotInit ==
  /\ live \in [LivePaths -> [content: {0} \union Bytes, stamp: {0}]]
  /\ \E i \in {0, 1},
        f \in {[p \in LivePaths |-> 1],
               [p \in LivePaths |-> IF Size(live[p].content) > FileCap THEN 0 ELSE live[p].content]} :
       TreeSize(f) <= TreeCap /\ kept = [id |-> i, files |-> f, hashes |-> f]
  /\ snap = [stage |-> "idle", at |-> 1, listed |-> {}, pinned |-> 0, before |-> 0, data |-> 0, hashes |-> <<>>,
             staged |-> <<>>, reported |-> {}, capped |-> FALSE, tree |-> <<>>]
  /\ had = [p \in LivePaths |-> {live[p].content}]

(* Others: editors, and whoever removes a private tree or puts another there. *)
EditFile(p, c) ==
  /\ SumFunction([q \in LivePaths |-> live[q].stamp]) < MaxEdits /\ c # live[p].content
  /\ live' = [live EXCEPT ![p] = [content |-> c, stamp |-> @.stamp + 1]]
  /\ had' = [had EXCEPT ![p] = @ \union {c}] /\ UNCHANGED <<kept, snap>>
LoseKept(i) == /\ kept.id = 1 /\ snap.pinned # 0 /\ i \in {0, 2}
               /\ kept' = [kept EXCEPT !.id = i, !.files = [p \in LivePaths |-> 2]] /\ UNCHANGED <<live, snap, had>>

BeginCapture ==
  /\ snap.stage = "idle"
  /\ snap' = [snap EXCEPT !.stage = "walking", !.pinned = kept.id, !.listed = {p \in LivePaths : live[p].content # 0}]
  /\ had' = [p \in LivePaths |-> {live[p].content}] /\ UNCHANGED <<live, kept>>
SnapStep(s) == snap' = s /\ UNCHANGED <<live, kept, had>>
Hashed == DOMAIN snap.hashes
SkipFile == [snap EXCEPT !.at = @ + 1, !.stage = "walking"]
ReportFile == [SkipFile EXCEPT !.reported = @ \union {snap.at}]
(* The walk opens its next file, unless a cap was reached.                    *)
OpenFile ==
  /\ snap.stage = "walking" /\ snap.at <= TreeFiles
  /\ LET p == snap.at IN
     IF p \notin snap.listed THEN SnapStep(SkipFile)
     ELSE IF Cardinality(Hashed) >= MemberCap \/ TreeSize(snap.hashes) >= TreeCap
     THEN SnapStep([snap EXCEPT !.at = TreeFiles + 1, !.capped = TRUE])
     ELSE IF live[p].content = 0 \/ Size(live[p].content) > FileCap THEN SnapStep(ReportFile)
     ELSE SnapStep([snap EXCEPT !.stage = "reading", !.before = live[p]])
(* Between the look and the read the file may change, and during it.          *)
ReadFile ==
  /\ snap.stage = "reading"
  /\ \E data \in {snap.before.content} \union (IF live[snap.at] = snap.before THEN {} ELSE {live[snap.at].content, Torn}) :
       SnapStep([snap EXCEPT !.stage = "checking", !.data = data])
\* As if the size alone were compared.
SizeUnchanged == Size(live[snap.at].content) = Size(snap.before.content)
Unchanged == live[snap.at] = snap.before
KeptAs(p, data) == snap.pinned # 0 /\ kept.hashes[p] = data
CheckFile ==
  /\ snap.stage = "checking"
  /\ IF ~Unchanged THEN SnapStep(ReportFile)
     ELSE IF TreeSize(snap.hashes) + Size(snap.data) > TreeCap THEN SnapStep([ReportFile EXCEPT !.capped = TRUE])
     ELSE SnapStep([SkipFile EXCEPT !.hashes = (snap.at :> snap.data) @@ @,
                                !.staged = IF KeptAs(snap.at, snap.data) THEN @ ELSE (snap.at :> snap.data) @@ @])
(* The end of the walk: the previous tree as it is, one put together from it, *)
(* or the copies alone.                                                       *)
StillPinned == kept.id = snap.pinned
PreviousFiles == {p \in LivePaths : kept.hashes[p] # 0}
SameTree == Hashed = PreviousFiles /\ \A p \in Hashed : snap.hashes[p] = kept.hashes[p]
Captured(tree) == [snap EXCEPT !.stage = "done", !.tree = tree]
EndWalk ==
  /\ snap.stage = "walking" /\ snap.at > TreeFiles
  /\ SnapStep(IF snap.pinned = 0 THEN Captured(snap.staged)
              ELSE IF SameTree /\ StillPinned THEN Captured(Restrict(kept.files, Hashed))
              ELSE IF StillPinned THEN [snap EXCEPT !.stage = "assembling"]
              ELSE [snap EXCEPT !.stage = "failed"])
ReadVerified(p) == kept.id # 0 /\ kept.files[p] = snap.hashes[p]
Assemble ==
  /\ snap.stage = "assembling"
  /\ IF Hashed = DOMAIN snap.staged THEN SnapStep(Captured(snap.staged))
     ELSE LET p == Min(Hashed \ DOMAIN snap.staged) IN
          SnapStep(IF ReadVerified(p) THEN [snap EXCEPT !.staged = (p :> kept.files[p]) @@ @]
                   ELSE [snap EXCEPT !.stage = "failed"])
SnapNext == \/ \E p \in LivePaths, c \in {0} \union Bytes : EditFile(p, c)
            \/ (\E i \in {0, 2} : LoseKept(i)) \/ BeginCapture \/ OpenFile \/ ReadFile \/ CheckFile \/ EndWalk \/ Assemble
SnapSpec == SnapshotInit /\ [][SnapNext]_snapVars

(* A snapshot holds just the files it lists, each with bytes its file really  *)
(* had at some instant of the capture, though editors wrote while it read and *)
(* the previous tree was taken away; and no listed file is missing from it in *)
(* silence.                                                                   *)
SnapshotTrue ==
  snap.stage = "done" =>
    /\ snap.tree = snap.hashes
    /\ \A p \in Hashed : snap.hashes[p] \in had[p]
    /\ snap.capped \/ snap.listed \subseteq Hashed \union snap.reported
=============================================================================
