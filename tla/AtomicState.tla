----------------------------- MODULE AtomicState -----------------------------
(***************************************************************************)
(* What the state provider promises its callers, without files, locks or   *)
(* processes: one document, mutated atomically by compare-and-set, whose   *)
(* confirmed mutations survive a host crash.                               *)
(***************************************************************************)
EXTENDS StateDocument

VARIABLES
  document,   \* the current document
  image,      \* the document the disk holds
  confirmed,  \* calls whose mutation is promised to be durable
  outcome     \* what each call reported

atomicVars == <<document, image, confirmed, outcome>>

AtomicInit ==
  /\ document = EmptyDocument
  /\ image = EmptyDocument
  /\ confirmed = {}
  /\ outcome = [c \in Calls |-> "none"]

\* A mutation takes effect at once, on the current document.
Commit(c, o) ==
  /\ outcome[c] = "none"
  /\ c \notin document.log
  /\ o.kind \in {"set", "delete"}
  /\ ~Conflict(o, document) /\ ~Full(o, document) /\ ~NoEntry(o, document)
  /\ document' = Mutate(c, o, document)
  /\ UNCHANGED <<image, confirmed, outcome>>

\* The document reaches the disk, and what reached it may be confirmed.
Persist(C) ==
  /\ C \subseteq document.log
  /\ image' = document
  /\ confirmed' = confirmed \cup C
  /\ UNCHANGED <<document, outcome>>

\* A plain failure means the mutation did not happen, a success or an
\* acknowledgement error that it did.
Report(c, r) ==
  /\ outcome[c] = "none"
  /\ r = "failed" => c \notin document.log
  /\ r \in {"ok", "ackConfirmed", "ackUnresolved"} => c \in document.log
  /\ outcome' = [outcome EXCEPT ![c] = r]
  /\ UNCHANGED <<document, image, confirmed>>

\* A host crash keeps at least the confirmed mutations.
LoseUnconfirmed(d) ==
  /\ confirmed \subseteq d.log
  /\ document' = d
  /\ image' = d
  /\ UNCHANGED <<confirmed, outcome>>

AtomicNext ==
  \/ \E c \in Calls, o \in Requests : Commit(c, o)
  \/ \E C \in SUBSET Calls : Persist(C)
  \/ \E c \in Calls, r \in {"read", "ok", "unchanged", "failed",
                             "ackConfirmed", "ackUnresolved"} : Report(c, r)
  \/ \E d \in {image, EmptyDocument} : LoseUnconfirmed(d)

AtomicSpec == AtomicInit /\ [][AtomicNext]_atomicVars
=============================================================================
