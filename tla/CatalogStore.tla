---------------------------- MODULE CatalogStore ---------------------------
(* Catalogs read page by page: core/catalog-snapshot-store.ts.  A caller     *)
(* reserves room, collects what the catalog depends on while it enumerates,  *)
(* publishes the descriptors and hands out a cursor; every access looks      *)
(* first whether what a snapshot depends on is still current.  A descriptor  *)
(* is its length, a budget what one page holds; a reader follows the cursors *)
(* it is given, in any order.                                                *)
EXTENDS Integers, Sequences, FiniteSets
CONSTANTS Authorities, CatalogCallers, Catalogs, MaxSnapshots, MaxBytes, ReservationBytes,
          MaxIds                               \* bound: snapshots ever reserved
ASSUME CatalogAssumption == /\ {MaxSnapshots, MaxBytes, ReservationBytes, MaxIds} \subseteq Nat /\ ReservationBytes > 0
                            /\ \A c \in Catalogs : c \in Seq(Nat \ {0})
VARIABLES snapshots,  \* id -> [on, entries, bytes, stale]; <<0>> as entries: only reserved
          currentOf,  \* the authorities that hold still
          reserving,  \* per caller: the id it has reserved, 0 for none
          follow,     \* a reader of the last published: what of, the cursors it holds, what it got of each descriptor
          catalog     \* [last, closed, wrong]
catalogVars == <<snapshots, currentOf, reserving, follow, catalog>>

OnlyReserved == <<0>>
Descriptors == UNION {1 .. Len(c) : c \in Catalogs}
Token(id, descriptor) == [id |-> id, descriptor |-> descriptor, position |-> 0]      \* descriptor -1: a page of the catalog
Reading(of, cursors) == [of |-> of, open |-> cursors, got |-> [n \in Descriptors |-> <<>>]]
CatalogInit ==
  /\ snapshots = <<>> /\ currentOf = Authorities /\ reserving = [c \in CatalogCallers |-> 0]
  /\ follow = Reading(OnlyReserved, {}) /\ catalog = [last |-> 0, closed |-> FALSE, wrong |-> FALSE]
BytesOf(snaps) == Cardinality(UNION {{k} \X (1 .. snaps[k].bytes) : k \in DOMAIN snaps})
Dropping(snaps, ids) == [k \in DOMAIN snaps \ ids |-> snaps[k]]
(* prune: idle or old snapshots, and those whose authority is gone.          *)
PrunedByAge(snaps) == Dropping(snaps, {k \in DOMAIN snaps : snaps[k].stale})   \* a mutant: nobody looks at the authority
Pruned(snaps) == Dropping(snaps, {k \in DOMAIN snaps : snaps[k].stale \/ ~(snaps[k].on \subseteq currentOf)})
Room(snaps) == Cardinality(DOMAIN snaps) < MaxSnapshots /\ BytesOf(snaps) + ReservationBytes <= MaxBytes
(* reserve: published snapshots give way one by one until there is room,     *)
(* whichever was used last; reservations never do.                           *)
Evicts(snaps) == {v \in SUBSET {k \in DOMAIN snaps : snaps[k].entries # OnlyReserved} :
                    Room(Dropping(snaps, v)) /\ (v = {} \/ \E k \in v : ~Room(Dropping(snaps, v \ {k})))}
ReserveRoom(c, on) ==
  /\ reserving[c] = 0 /\ ~catalog.closed /\ on \subseteq currentOf /\ catalog.last < MaxIds
  /\ \E v \in Evicts(Pruned(snapshots)) :
       LET id == catalog.last + 1
           left == Dropping(Pruned(snapshots), v)
       IN /\ snapshots' = [k \in DOMAIN left \union {id} |->
                             IF k = id THEN [on |-> on, entries |-> OnlyReserved, bytes |-> ReservationBytes, stale |-> FALSE] ELSE left[k]]
          /\ reserving' = [reserving EXCEPT ![c] = id] /\ catalog' = [catalog EXCEPT !.last = id]
  /\ UNCHANGED <<currentOf, follow>>
Held(c, snaps) == reserving[c] # 0 /\ reserving[c] \in DOMAIN snaps
Depend(c, on) ==
  /\ Held(c, Pruned(snapshots))
  /\ snapshots' = Pruned([Pruned(snapshots) EXCEPT ![reserving[c]].on = @ \union on])
  /\ UNCHANGED <<currentOf, reserving, follow, catalog>>
(* release, and a publish that is over its budget or whose reservation is    *)
(* gone: the room is free again.                                             *)
ReleaseReservation(c) ==
  /\ reserving[c] # 0 /\ reserving' = [reserving EXCEPT ![c] = 0]
  /\ snapshots' = Dropping(snapshots, {reserving[c]}) /\ UNCHANGED <<currentOf, follow, catalog>>
PublishCatalog(c, entries) ==
  /\ Held(c, Pruned(snapshots)) /\ reserving' = [reserving EXCEPT ![c] = 0]
  /\ \E b \in 1..ReservationBytes :
       snapshots' = [Pruned(snapshots) EXCEPT ![reserving[c]].entries = entries, ![reserving[c]].bytes = b]
  /\ \E first \in IF Len(entries) = 1 THEN {-1, 1} ELSE {-1} : follow' = Reading(entries, {Token(reserving[c], first)})
  /\ UNCHANGED <<currentOf, catalog>>

(* catalogPage: descriptors while they fit, whole or as a cursor of their    *)
(* own; a page moves on or is refused.                                       *)
Takes(page, n, size) ==
  IF page.next # n - 1 THEN page                                              \* the one before did not fit
  ELSE IF size <= page.room THEN [next |-> n, room |-> page.room - size, whole |-> page.whole \union {n}]
  ELSE IF page.room > 0 THEN [next |-> n, room |-> page.room - 1, whole |-> page.whole]
  ELSE page
PageFrom(entries, position, budget) ==
  LET page[n \in 0 .. Len(entries) - position] ==
        IF n = 0 THEN [next |-> position, room |-> budget, whole |-> {}]
        ELSE Takes(page[n - 1], position + n, entries[position + n])
  IN page[Len(entries) - position]
Authentic(cursor) == cursor.id \in DOMAIN Pruned(snapshots) /\ Pruned(snapshots)[cursor.id].entries # OnlyReserved
Served(cursor) == catalog' = [catalog EXCEPT !.wrong = @ \/ ~(snapshots[cursor.id].on \subseteq currentOf)]
CatalogPage(c, budget) ==
  LET entries == snapshots[c.id].entries
      page == PageFrom(entries, c.position, budget)
      deferred == {Token(c.id, n) : n \in (c.position + 1 .. page.next) \ page.whole}
      left == IF page.next < Len(entries) THEN {[c EXCEPT !.position = page.next]} ELSE {}
  IN /\ c.descriptor = -1 /\ Authentic(c) /\ Served(c)
     /\ page.next > c.position \/ page.next = Len(entries)
     /\ follow' = [follow EXCEPT
                     !.open = (@ \ {c}) \union deferred \union left,
                     !.got = [n \in Descriptors |-> IF n \in page.whole THEN Append(@[n], [from |-> 0, to |-> entries[n]]) ELSE @[n]]]
     /\ snapshots' = Pruned(snapshots) /\ UNCHANGED <<currentOf, reserving>>
(* describePage: one descriptor in chunks.                                   *)
DescribePage(c, budget) ==
  LET size == snapshots[c.id].entries[c.descriptor]
      end == IF c.position + budget < size THEN c.position + budget ELSE size
      left == IF end < size THEN {[c EXCEPT !.position = end]} ELSE {}
  IN /\ c.descriptor > 0 /\ Authentic(c) /\ Served(c)
     /\ follow' = [follow EXCEPT !.open = (@ \ {c}) \union left,
                                 !.got[c.descriptor] = Append(@, [from |-> c.position, to |-> end])]
     /\ snapshots' = Pruned(snapshots) /\ UNCHANGED <<currentOf, reserving>>
(* Authorities end, snapshots grow old, the session ends.                    *)
Revoked(a) == a \in currentOf /\ currentOf' = currentOf \ {a} /\ UNCHANGED <<snapshots, reserving, follow, catalog>>
GrowsOld(k) == k \in DOMAIN snapshots /\ snapshots' = [snapshots EXCEPT ![k].stale = TRUE] /\ UNCHANGED <<currentOf, reserving, follow, catalog>>
InvalidateCatalogs == ~catalog.closed /\ catalog' = [catalog EXCEPT !.closed = TRUE] /\ snapshots' = <<>> /\ UNCHANGED <<currentOf, reserving, follow>>
CatalogNext ==
  \/ \E c \in CatalogCallers : ReleaseReservation(c) \/ (\E on \in SUBSET Authorities : ReserveRoom(c, on) \/ Depend(c, on)) \/ (\E e \in Catalogs : PublishCatalog(c, e))
  \/ \E c \in follow.open, b \in 1..3 : CatalogPage(c, b) \/ DescribePage(c, b)
  \/ (\E a \in Authorities : Revoked(a)) \/ (\E k \in 1..MaxIds : GrowsOld(k)) \/ InvalidateCatalogs
CatalogSpec == CatalogInit /\ [][CatalogNext]_catalogVars

(* Memory stays within the partition, reservations included.                 *)
CatalogBounded == Cardinality(DOMAIN snapshots) <= MaxSnapshots /\ BytesOf(snapshots) <= MaxBytes
(* No page is served on an authority that has ended, even when it ended      *)
(* between two pages of one catalog.                                         *)
NothingRevokedServed == ~catalog.wrong
(* Following the cursors gives every descriptor once, whole or in chunks     *)
(* that join without a gap; with no cursor left nothing is missing.          *)
ReadInFull ==
  /\ \A n \in Descriptors : LET g == follow.got[n] IN
       \A k \in DOMAIN g : g[k].from = IF k = 1 THEN 0 ELSE g[k - 1].to
  /\ follow.of # OnlyReserved /\ follow.open = {} =>
       \A n \in Descriptors : IF n > Len(follow.of) THEN follow.got[n] = <<>>
                              ELSE follow.got[n] # <<>> /\ follow.got[n][Len(follow.got[n])].to = follow.of[n]
CatalogKept == CatalogBounded /\ NothingRevokedServed /\ ReadInFull
=============================================================================
