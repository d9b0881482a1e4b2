--------------------------- MODULE ArtifactStore ---------------------------
(* Results kept for later reading: kiro/artifacts.ts, its owner              *)
(* (artifact-owner.ts) and the calls that publish into it (mcp-execution.ts, *)
(* projection.ts).  A publication writes a recovery receipt and then the     *)
(* full output, and names them only after an analysis during which other     *)
(* calls publish.  Every file operation may fail.  A length is 1 or 2.       *)
EXTENDS Integers, Sequences, FiniteSets, SequencesExt
CONSTANTS Publishers, MaxArtifacts, MaxTotalChars,
          MaxHandles, MaxFaults             \* bounds: handles ever issued; files replaced by others
ASSUME ArtifactAssumption == {MaxArtifacts, MaxTotalChars, MaxHandles, MaxFaults} \subseteq Nat
VARIABLES store,      \* entries oldest first, files (id -> whose), residue, unsure (an uncertain close), closed, issued
          publishing, \* per publishing call: where it is and the handles it was given
          retired,    \* the owner's authority is withdrawn
          misled      \* history: a call named a handle that was gone, or lost its own receipt to its own output
artifactVars == <<store, publishing, retired, misled>>

ArtifactInit ==
  /\ store = [entries |-> <<>>, files |-> <<>>, residue |-> {}, unsure |-> FALSE, closed |-> FALSE, issued |-> 0, faults |-> 0]
  /\ publishing = [p \in Publishers |-> [at |-> "rest", receipt |-> 0, output |-> 0, told |-> {}]]
  /\ retired = FALSE /\ misled = FALSE
Known(s) == {s.entries[k].id : k \in DOMAIN s.entries}
TotalChars(es) == LET upTo[n \in 0..Len(es)] == IF n = 0 THEN 0 ELSE upTo[n - 1] + es[n].size
                  IN upTo[Len(es)]
Without(es, ids) == LET upTo[n \in 0..Len(es)] == IF n = 0 THEN <<>>
                          ELSE IF es[n].id \in ids THEN upTo[n - 1] ELSE Append(upTo[n - 1], es[n])
                    IN upTo[Len(es)]
WithoutEntries(s, ids) == [s EXCEPT !.entries = Without(@, ids)]
UnlinkedFiles(f, ids) == [k \in DOMAIN f \ ids |-> f[k]]
(* #remove: an entry keeps its quota until its file is gone; a file that is  *)
(* not the store's own any more is left alone.  victims are tried in order.  *)
Removing(s, victims) ==
  LET firsts(n) == {victims[k].id : k \in 1..n}
      gone(n) == [WithoutEntries(s, firsts(n)) EXCEPT !.files = UnlinkedFiles(@, firsts(n))]
      Own(n) == \A i \in firsts(n) : i \in DOMAIN s.files => s.files[i] = "own"
  IN {[s |-> gone(n), ok |-> n = Len(victims)] : n \in {m \in 0..Len(victims) : Own(m)}}
Young(s) == {s.entries[k].id : k \in {k \in DOMAIN s.entries : ~s.entries[k].old}}
Sweep(s) == Removing(s, Without(s.entries, Young(s)))
(* #oldest: what this publication was already given is spared.               *)
VictimsAll(s, spared) == s.entries              \* a mutant: the oldest, whoever needs it
Victims(s, spared) == Without(s.entries, spared)
Fits(s, size) == Len(s.entries) < MaxArtifacts /\ TotalChars(s.entries) + size <= MaxTotalChars
EvictOldest(s, size, spared) ==
  LET v == Victims(s, spared)
      enough == {n \in 0..Len(v) : Fits(WithoutEntries(s, {v[k].id : k \in 1..n}), size)}
  IN IF enough = {} THEN {[s |-> s, ok |-> FALSE]} ELSE Removing(s, SubSeq(v, 1, CHOOSE n \in enough : \A m \in enough : n <= m))
(* The exclusive creation: nothing happens, a failure is cleaned up or kept  *)
(* as residue, or the file is there; closing the directory may be uncertain. *)
Latest(es, e) == {Append(es, e)} \union (IF es = <<>> THEN {} ELSE {InsertAt(es, Len(es), e)})   \* or of the same millisecond
Create(s, size) ==
  LET id == s.issued + 1
      next == [s EXCEPT !.issued = id]
      file == [k \in DOMAIN s.files \union {id} |-> IF k = id THEN "own" ELSE s.files[k]]
  IN {[s |-> next, id |-> 0],
      [s |-> [next EXCEPT !.files = file, !.residue = @ \union {id}], id |-> 0],
      [s |-> [next EXCEPT !.files = file, !.unsure = TRUE], id |-> 0]}
     \union {[s |-> [next EXCEPT !.files = file, !.entries = es], id |-> id] : es \in Latest(s.entries, [id |-> id, size |-> size, old |-> FALSE])}
Write(s, size, spared) ==
  IF s.closed \/ s.residue # {} \/ s.unsure \/ s.issued = MaxHandles \/ size > MaxTotalChars THEN {[s |-> s, id |-> 0]}
  ELSE UNION {
    IF ~w.ok \/ ~Fits(WithoutEntries(w.s, Known(w.s) \ spared), size) THEN {[s |-> w.s, id |-> 0]}
    ELSE UNION {IF e.ok THEN Create(e.s, size) ELSE {[s |-> e.s, id |-> 0]} : e \in EvictOldest(w.s, size, spared)} : w \in Sweep(s)}
(* projectFabricExecutionText: the receipt, the complete output, and the     *)
(* canonical one when that does not fit; one synchronous publication.        *)
Project(p, receipt, overflow) ==
  /\ publishing[p].at = "rest" /\ ~retired /\ UNCHANGED retired
  /\ \E r \in IF receipt THEN Write(store, 1, {}) ELSE {[s |-> store, id |-> 0]} :
     \E o \in IF overflow THEN Write(r.s, 2, {r.id}) ELSE {[s |-> r.s, id |-> 0]} :
     \E c \in IF overflow /\ o.id = 0 THEN Write(o.s, 1, {r.id}) ELSE {o} :
       /\ store' = c.s
       /\ publishing' = [publishing EXCEPT ![p] = [at |-> "analysis", receipt |-> r.id, output |-> c.id, told |-> {}]]
       /\ misled' = (misled \/ (r.id # 0 /\ c.id # 0 /\ r.id \notin Known(c.s)))
(* After the analysis: what is gone is not named (has does not renew).       *)
Named(p, s, ok) == {h \in {publishing[p].receipt, publishing[p].output} : h # 0 /\ ok /\ ~retired /\ h \in Known(s)}
Tell(p) ==
  /\ publishing[p].at = "analysis" /\ UNCHANGED retired
  /\ \E w \in IF retired THEN {[s |-> store, ok |-> FALSE]} ELSE Sweep(store) :
       /\ store' = w.s
       /\ publishing' = [publishing EXCEPT ![p].at = "told", ![p].told = Named(p, w.s, w.ok)]
       /\ misled' = (misled \/ ~(publishing'[p].told \subseteq Known(w.s)))
Again(p) == publishing[p].at = "told" /\ publishing' = [publishing EXCEPT ![p] = [at |-> "rest", receipt |-> 0, output |-> 0, told |-> {}]]
            /\ UNCHANGED <<store, retired, misled>>
(* read renews what it hands out; time makes the oldest expire.              *)
Read(id) ==
  /\ ~retired /\ ~store.closed /\ UNCHANGED <<publishing, retired, misled>>
  /\ \E w \in Sweep(store) :
       store' = IF ~w.ok \/ id \notin Known(w.s) THEN w.s
                ELSE [w.s EXCEPT !.entries = Append(Without(@, {id}), [(CHOOSE e \in ToSet(@) : e.id = id) EXCEPT !.old = FALSE])]
Age == \E k \in DOMAIN store.entries :
         /\ ~store.entries[k].old /\ \A j \in 1..k - 1 : store.entries[j].old
         /\ store' = [store EXCEPT !.entries[k].old = TRUE] /\ UNCHANGED <<publishing, retired, misled>>
Replaced == \E k \in DOMAIN store.files : store.faults < MaxFaults /\ store.files[k] = "own"
              /\ store' = [store EXCEPT !.files[k] = "foreign", !.faults = @ + 1] /\ UNCHANGED <<publishing, retired, misled>>
(* The owner retires: first nobody reads or writes any more, then one close  *)
(* that keeps what it could not remove.                                      *)
Revoke == ~retired /\ retired' = TRUE /\ UNCHANGED <<store, publishing, misled>>
CloseStore ==
  /\ retired /\ ~store.closed /\ UNCHANGED <<publishing, retired, misled>>
  /\ \E kept \in SUBSET (Known(store) \union store.residue) :
       LET gone == (Known(store) \union store.residue) \ kept
       IN /\ \A i \in gone : i \in DOMAIN store.files => store.files[i] = "own"
          /\ store' = [WithoutEntries(store, gone) EXCEPT !.files = UnlinkedFiles(@, gone), !.residue = @ \intersect kept, !.closed = kept = {} /\ ~store.unsure]
ArtifactNext ==
  \/ \E p \in Publishers : Tell(p) \/ Again(p) \/ (\E r, o \in BOOLEAN : Project(p, r, o))
  \/ (\E id \in 1..MaxHandles : Read(id)) \/ Age \/ Replaced \/ Revoke \/ CloseStore
ArtifactSpec == ArtifactInit /\ [][ArtifactNext]_artifactVars

(* The quota holds whatever fails, and an entry is counted until its file is *)
(* really gone.                                                              *)
QuotaKept == Len(store.entries) <= MaxArtifacts /\ TotalChars(store.entries) <= MaxTotalChars
FilesAccounted ==
  LET own == {k \in DOMAIN store.files : store.files[k] = "own"}
  IN /\ own \subseteq Known(store) \union store.residue \/ store.unsure
     /\ store.closed => own = {}
(* A call never names a handle that is gone when it names it, and its output *)
(* never takes the place of its receipt.                                     *)
HandlesHonest == ~misled
ArtifactsKept == QuotaKept /\ FilesAccounted /\ HandlesHonest
=============================================================================
