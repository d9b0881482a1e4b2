---------------------------- MODULE StateDocument ----------------------------
(***************************************************************************)
(* The document state.json holds and what the operations of StateProvider  *)
(* do to it.  Values are left out: an entry is the revision that wrote it. *)
(***************************************************************************)
EXTENDS Naturals, FiniteSets

CONSTANTS
  Calls,       \* provider invocations; also the lock tokens
  Keys,
  Requests,    \* the operations callers ask for
  MaxEntries,  \* #maxEntries
  None

\* An entry is its revision, 0 when the key is absent.  log is history: the
\* calls whose mutation this document includes.
Document == [revision : Nat, entries : [Keys -> Nat], log : SUBSET Calls]
EmptyDocument ==
  [revision |-> 0, entries |-> [k \in Keys |-> 0], log |-> {}]

Operation ==
  [kind : {"get", "set", "delete"}, key : Keys, expected : Nat \cup {None}]

ASSUME DocumentAssumption ==
  /\ Requests \subseteq Operation
  /\ MaxEntries \in Nat
  /\ None \notin Calls
  /\ None \notin Nat
  /\ None \notin Operation
  /\ IsFiniteSet(Calls)

\* What operation o does to document d, and when it is refused.
Conflict(o, d) == o.expected # None /\ o.expected # d.entries[o.key]
Present(d) == {k \in Keys : d.entries[k] # 0}
Full(o, d) ==
  /\ o.kind = "set"
  /\ d.entries[o.key] = 0
  /\ Cardinality(Present(d)) >= MaxEntries
NoEntry(o, d) == o.kind = "delete" /\ d.entries[o.key] = 0
Mutate(c, o, d) ==
  [revision |-> d.revision + 1,
   entries |-> [d.entries EXCEPT ![o.key] =
                  IF o.kind = "set" THEN d.revision + 1 ELSE 0],
   log |-> d.log \cup {c}]

=============================================================================
