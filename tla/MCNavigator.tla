---------------------------- MODULE MCNavigator ----------------------------
(* Small instances of the Navigator's modules: the host over its child        *)
(* process, the engine, the journal of commits, the scratch directory, the    *)
(* facts, the turns of a conversation, the parser and the source snapshot.    *)
(* They share no state here: the initial state chooses one part, only that    *)
(* part moves, and the others rest where they begin.                          *)
EXTENDS NavigatorHost, NavigatorEngine, ProvenanceJournal, NavigatorScratch,
        NavigatorFacts, TurnSync, ParserRuns, SourceSnapshot, TLC

CONSTANTS i1, i2, cA, l1

VARIABLE part

OneRoot == l1 :> cA
TwoKinds == (i1 :> {"sync"}) @@ (i2 :> {"reload"})

\* Two contents of one size, one larger, one that is too large.
SmallToLarge == <<1, 1, 2, 3>>

Parts == {"host", "engine", "journal", "scratch", "facts", "turn", "parser", "snapshot"}

ComposedInit ==
  /\ part \in Parts
  /\ NavigatorInit /\ NaviInit /\ JournalInit /\ ScratchInit /\ FactsInit /\ TurnInit
  /\ ParseInit /\ (part # "parser" => parse.big = {})
  /\ SnapshotInit /\ (part # "snapshot" => kept.id = 0 /\ \A p \in LivePaths : live[p].content = 1)

OthersRest(p) ==
  /\ UNCHANGED part
  /\ p # "host" => UNCHANGED navigatorVars
  /\ p # "engine" => UNCHANGED naviVars
  /\ p # "journal" => UNCHANGED journalVars
  /\ p # "scratch" => UNCHANGED scratchVars
  /\ p # "facts" => UNCHANGED factVars
  /\ p # "turn" => UNCHANGED turnVars
  /\ p # "parser" => UNCHANGED parseVars
  /\ p # "snapshot" => UNCHANGED snapVars

ComposedNext ==
  \/ part = "host" /\ OthersRest("host") /\ NavigatorNext
  \/ part = "engine" /\ OthersRest("engine") /\ NaviNext
  \/ part = "journal" /\ OthersRest("journal") /\ JournalNext
  \/ part = "scratch" /\ OthersRest("scratch") /\ ScratchNext
  \/ part = "facts" /\ OthersRest("facts") /\ FactsNext
  \/ part = "turn" /\ OthersRest("turn") /\ TurnNext
  \/ part = "parser" /\ OthersRest("parser") /\ ParseNext
  \/ part = "snapshot" /\ OthersRest("snapshot") /\ SnapNext

composedVars ==
  <<part, navigatorVars, naviVars, journalVars, scratchVars, factVars, turnVars, parseVars,
    snapVars>>

ComposedSpec == ComposedInit /\ [][ComposedNext]_composedVars

(* The engine: an acknowledged preparation was judged against the baseline    *)
(* that still holds, and a failed embedding leaves the navigation as it was.  *)
EngineCurrent == PreparationCurrent /\ NavigationKept

(* What the analysis reads: the files as they were, and the parser's whole    *)
(* answer about them or the news that part of it is missing.                  *)
InputsTrue == SnapshotTrue /\ ParserKept
=============================================================================
