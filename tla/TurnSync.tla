------------------------------ MODULE TurnSync ------------------------------
(* repo.sync: what one conversation is told of a changing repository         *)
(* (fovea/core/sync.ts), the attention and the focus it is judged by         *)
(* (core/session.ts, focus and dwell of core/ops.ts), and the preparation    *)
(* that the host acknowledges once a report is delivered (engine.ts).  A     *)
(* query is one step: it runs on a private copy of the conversation.  Heat   *)
(* is a whole number on one warmed neighbour; texts and budgets are left out.*)
EXTENDS Naturals, FiniteSets, FiniteSetsExt
CONSTANTS Threshold, MaxMass, MaxTurns           \* bounds: mass of a node, changes of the world
ASSUME TurnAssumption == Threshold \in Nat \ {0} /\ MaxMass \in Nat /\ MaxTurns \in Nat
VARIABLES repo,    \* [tree, head, action, fault]: the files, the ref and the fault of the last extraction
          conv,    \* the conversation: its baseline, its ledger, its attention and its focus
          prep,    \* the prepared report that waits for its acknowledgement
          told,    \* history: [mass, embedded, calm, known, missed]
          turns
turnVars == <<repo, conv, prep, told, turns>>

Files == {"src/f", "src/t", "out/o"}             \* a source, a test beside it, a source elsewhere
Neighbour == "src/w"                             \* what a change warms
Scope(f) == IF f = "out/o" THEN "out" ELSE "src"
IsTest(f) == f = "src/t"
TreeContents == 0 .. 3                               \* 0: no file; 2 and 3 declare a route and differ in layout only
Meaning(c) == (c + 1) \div 2
(* RepoState: a gap leaves a file out of the facts, an artifact drops a      *)
(* route, a failure does so and is reported.                                 *)
FactsOf == [f \in Files |-> IF repo.fault = "gap" /\ f = "src/f" THEN 0 ELSE repo.tree[f]]
RoutesOf == {f \in Files : FactsOf[f] > 1 /\ ~(repo.fault \in {"lost", "failed"} /\ f = "src/f")}
Generation == <<FactsOf, RoutesOf>>
Cold == [up |-> FALSE, sha |-> FactsOf, routes |-> {}, failed |-> FALSE, head |-> 0, heat |-> 0, armed |-> TRUE,
         pushed |-> {}, attention |-> {}, disclosed |-> {}, focus |-> "", at |-> <<>>]
NoPrep == [up |-> FALSE]
TurnInit ==
  /\ repo = [tree |-> [f \in Files |-> 1], head |-> 0, action |-> "commit", fault |-> "none"]
  /\ conv = Cold /\ prep = NoPrep /\ turns = 0
  /\ told = [mass |-> 0, embedded |-> {}, calm |-> TRUE, known |-> {}, missed |-> FALSE]

(* observeSessionPaths: attention grows by top-level directories.            *)
Attends(c, files) == [c EXCEPT !.attention = @ \union {Scope(f) : f \in files}]
(* snapshot: the baseline follows the state.                                 *)
CatchesUp(c) == [c EXCEPT !.up = TRUE, !.sha = FactsOf, !.routes = RoutesOf, !.failed = repo.fault = "failed", !.head = repo.head]
Forgets(c) == [CatchesUp(c) EXCEPT !.heat = 0, !.armed = TRUE, !.pushed = {}]   \* a fresh chain
Drifted(c) == c.sha # FactsOf \/ c.routes # RoutesOf \/ c.failed # (repo.fault = "failed")
Switched(c) == c.head # repo.head /\ repo.action = "checkout"

(* What moved since the baseline, where the conversation attends.            *)
Relevant(c, whole) == {f \in Files : whole \/ Scope(f) \in c.attention}
Changed(c) == {f \in Files : FactsOf[f] # 0 /\ FactsOf[f] # c.sha[f]}
SemanticChanged(c) == {f \in Changed(c) : Meaning(FactsOf[f]) # Meaning(c.sha[f])}
Deleted(c) == {f \in Files : c.sha[f] # 0 /\ FactsOf[f] = 0 /\ repo.tree[f] = 0}
AnchorsMoved(c) == (RoutesOf \ c.routes) \union (c.routes \ RoutesOf)
OutsideOnly(c, whole) ==
  LET ours == Relevant(c, whole) IN
  /\ ~whole /\ (Changed(c) \union Deleted(c)) \ ours # {}
  /\ (Changed(c) \union Deleted(c) \union AnchorsMoved(c)) \intersect ours = {}

(* The verdict: routes that moved together with their carrier, deletions of  *)
(* what is not a test, or warmth above what the ledger holds.                *)
Evidence(c, ours) == (Changed(c) \union Deleted(c)) \intersect ours
StructuralRed(c, ours) ==
  \/ (RoutesOf \ c.routes) \intersect Evidence(c, ours) # {}
  \/ (c.routes \ RoutesOf) \intersect Evidence(c, ours) # {} /\ repo.fault # "failed"
  \/ \E f \in Deleted(c) \intersect ours : ~IsTest(f)
Surprise(c, mass) == IF Neighbour \in c.disclosed \/ mass < c.heat THEN 0 ELSE mass - c.heat
WarmthFire(c, mass) == c.armed /\ Surprise(c, mass) >= Threshold
Charged(c, mass) == IF Neighbour \in c.disclosed THEN c.heat ELSE Max({c.heat, mass})
Rearmed(c, mass) == c.armed \/ 2 * Surprise(c, mass) <= Threshold
Target(c, ours, mass) ==                         \* what is embedded: the first changed file, else the warmest
  LET routes == (RoutesOf \ c.routes) \intersect Evidence(c, ours)
      files == SemanticChanged(c) \intersect ours IN
  IF routes # {} THEN {} ELSE IF files # {} THEN {CHOOSE f \in files : TRUE}
  ELSE IF Surprise(c, mass) > 0 THEN {Neighbour} ELSE {}
QuietTurn(c, mass) == [CatchesUp(c) EXCEPT !.armed = Rearmed(c, mass)]
Loud(c, mass, embedded) ==
  [Attends(CatchesUp(c), embedded) EXCEPT !.heat = Charged(c, mass), !.armed = FALSE, !.pushed = @ \union embedded]

Adopt(c) == conv' = c /\ prep' = NoPrep
(* History, of the tree and never of the baseline: the sources whose facts a  *)
(* baseline held when it was adopted, and those of them a sync passes over.   *)
Knowable == {f \in Files : ~IsTest(f) /\ repo.tree[f] # 0 /\ ~(repo.fault = "gap" /\ f = "src/f")}
PassesOver(c, whole) == \E f \in told.known \intersect Relevant(c, whole) : repo.tree[f] = 0
KeepsNothing(c) == Forgets(c)                    \* a mutant
KeepsLedger(c) == CatchesUp(c)                     \* an adoption outside attention keeps ledger, latch and embeds
(* sync without a report: the first, one without drift, after a checkout, or *)
(* of changes nobody attends to.                                             *)
Silent(c, whole) ==
  /\ UNCHANGED <<repo, turns>>
  /\ \/ ~c.up /\ Adopt(Forgets(c)) /\ told' = [told EXCEPT !.mass = 0, !.embedded = {}, !.calm = TRUE, !.known = Knowable]
     \/ c.up /\ ~Drifted(c) /\ Adopt(c) /\ told' = [told EXCEPT !.missed = @ \/ PassesOver(c, whole)]
     \/ c.up /\ Drifted(c) /\ Switched(c) /\ Adopt(Forgets(c)) /\ told' = [told EXCEPT !.mass = 0, !.embedded = {}, !.calm = TRUE, !.known = Knowable]
     \/ /\ c.up /\ Drifted(c) /\ ~Switched(c) /\ OutsideOnly(c, whole) /\ Adopt(KeepsLedger(c))
        /\ told' = [told EXCEPT !.known = Knowable, !.missed = @ \/ PassesOver(c, whole)]
(* sync with a verdict: a quiet one is adopted at once, a red one waits.     *)
Verdict(c, whole, mass) ==
  LET ours == Relevant(c, whole)
      warm == IF SemanticChanged(c) \intersect ours = {} THEN 0 ELSE mass
      red == StructuralRed(c, ours) \/ WarmthFire(c, warm) IN
  /\ c.up /\ Drifted(c) /\ ~Switched(c) /\ ~OutsideOnly(c, whole) /\ (warm = 0 => mass = 0) /\ UNCHANGED <<repo, turns>>
  /\ \/ /\ ~red /\ Adopt(QuietTurn(c, warm))
        /\ told' = [told EXCEPT !.calm = @ \/ 2 * Surprise(c, warm) <= Threshold, !.known = Knowable,
                                !.missed = @ \/ PassesOver(c, whole)]
     \/ /\ red /\ UNCHANGED <<conv, told>>
        /\ \E embedded \in {{}, {t \in Target(c, ours, warm) \ c.pushed : t # Neighbour => FactsOf[t] # 0}} :
             prep' = [up |-> TRUE, conv |-> Loud(c, warm, embedded), mass |-> IF Neighbour \in c.disclosed THEN 0 ELSE warm,
                      warmth |-> ~StructuralRed(c, ours), embedded |-> embedded, known |-> Knowable, surprise |-> Surprise(c, warm)]
(* The host delivered the report: its baseline and ledger count, the focus   *)
(* is the current one.                                                       *)
Delivered ==
  /\ prep.up /\ prep' = NoPrep /\ UNCHANGED <<repo, turns>>
  /\ conv' = [prep.conv EXCEPT !.disclosed = conv.disclosed, !.focus = conv.focus, !.at = conv.at]
  /\ told' = [told EXCEPT !.mass = Max({@, prep.mass}), !.embedded = @ \union prep.embedded, !.calm = FALSE, !.known = prep.known,
                          !.missed = @ \/ (prep.warmth /\ ~told.calm) \/ prep.embedded \intersect told.embedded # {}]

(* focus and dwell: another subject, or another graph, starts afresh.        *)
Cleared(c) == [c EXCEPT !.disclosed = {}, !.focus = "", !.at = <<>>]
Focus(f, seen) ==
  LET c == IF conv.focus # f \/ conv.at # Generation THEN Cleared(conv) ELSE conv IN
  /\ FactsOf[f] # 0 /\ UNCHANGED <<repo, prep, told, turns>>
  /\ conv' = Attends([c EXCEPT !.disclosed = @ \union (seen \ Files), !.focus = f, !.at = Generation], seen \union {f})
Dwell(seen) ==
  /\ conv.focus # "" /\ UNCHANGED <<repo, prep, told, turns>>
  /\ conv' = IF conv.at # Generation THEN Cleared(conv) ELSE Attends([conv EXCEPT !.disclosed = @ \union (seen \ Files)], seen)
ResetTurn ==
  /\ conv # Cold /\ conv' = [Cold EXCEPT !.sha = conv.sha] /\ prep' = NoPrep
  /\ told' = [told EXCEPT !.mass = 0, !.embedded = {}, !.calm = TRUE, !.known = {}] /\ UNCHANGED <<repo, turns>>

Turn(r) == turns < MaxTurns /\ r # repo /\ repo' = r /\ turns' = turns + 1 /\ UNCHANGED <<conv, prep, told>>
EditTree(f, c) == Turn([repo EXCEPT !.tree[f] = c])
Switch(c, action) == Turn([repo EXCEPT !.tree["src/f"] = c, !.head = @ + 1, !.action = action])
EngineFault(k) == Turn([repo EXCEPT !.fault = k])
Cools == /\ conv.heat + told.mass > 0 /\ conv' = [conv EXCEPT !.heat = @ \div 2] /\ prep' = NoPrep
         /\ told' = [told EXCEPT !.mass = @ \div 2] /\ UNCHANGED <<repo, turns>>   \* hours pass: the ledger decays
SyncTurn ==                                       \* of the whole workspace, or of paths it names and so attends to
  \E c \in {conv, Attends(conv, {"src/f"})}, whole \in BOOLEAN :
    (whole => c = conv) /\ (Silent(c, whole) \/ \E mass \in {0, Threshold, MaxMass} : Verdict(c, whole, mass))
NavigateTurn == Focus("src/f", {Neighbour}) \/ Focus("out/o", {}) \/ \E seen \in {{}, {Neighbour}} : Dwell(seen)
RepoMoves == \/ \E f \in Files, c \in TreeContents : (f # "src/f" => c \in {0, 2}) /\ EditTree(f, c)
             \/ \E c \in {1, 2}, a \in {"commit", "checkout"} : Switch(c, a)
             \/ \E k \in {"none", "gap", "lost", "failed"} : EngineFault(k)
TurnNext == SyncTurn \/ Delivered \/ NavigateTurn \/ ResetTurn \/ Cools \/ RepoMoves
TurnSpec == TurnInit /\ [][TurnNext]_turnVars

(* No sync ends in silence over the deletion of a source that the last        *)
(* baseline knew and the conversation attends to: it is reported, and again   *)
(* until a report of it is delivered, whatever is edited, lost or decays.     *)
(* Two things make a baseline not know it, as the code has it: a checkout,    *)
(* which is adopted as a fresh chain, deletions and all, and a baseline       *)
(* adopted while a gap withheld the source's facts.  And no target is         *)
(* embedded twice in a chain, and two delivered reports on warmth alone have  *)
(* a calm turn between them.                                                  *)
NothingMissed == ~told.missed
(* The ledger holds at least what delivered reports disclosed, less decay,   *)
(* and remembers every embed: a revisited change is not a new surprise.      *)
LedgerKept == conv.up => conv.heat >= told.mass /\ told.embedded \subseteq conv.pushed
TurnsTold == NothingMissed /\ LedgerKept
=============================================================================
