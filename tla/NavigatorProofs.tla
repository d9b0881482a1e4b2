-------------------------- MODULE NavigatorProofs --------------------------
(* Proofs about the parts of the Navigator, for any values of their           *)
(* constants.                                                                 *)
EXTENDS MCNavigator, RecursionTheorems, FiniteSetTheorems, SequenceTheorems, TLAPS

-----------------------------------------------------------------------------
(* The engine.                                                                *)

Content == [base : Nat, focus : Nat]
PreparationRecord == [id : Nat, from : Nat, base : Nat, focus : Nat]
WorkRecord ==
  [pc : {"free", "admit", "heat", "stage", "built", "ending"}, op : {"none", "sync", "focus", "dwell"},
   key : Keys \cup {<<>>}, signal : BOOLEAN, transient : BOOLEAN, version : Nat, original : Content]
EngineTypes ==
  /\ source \in [RootKeys -> Nat] /\ graph \in [RootKeys -> Nat]
  /\ residents \in Seq(RootKeys) /\ loaded \subseteq Keys /\ ids \in Nat
  /\ conversations \in [Keys -> Content] /\ prepared \in [Keys -> PreparationRecord]
  /\ moved \in [Keys -> Nat] /\ work \in WorkRecord

\* Nothing is held of a conversation that is not loaded, and a preparation was
\* judged against the baseline held, even while a request ends.
HeldOfLoaded ==
  /\ \A k \in Keys : k \notin loaded => conversations[k] = None
  /\ \A k \in Keys : prepared[k].id # 0 => k \in loaded /\ prepared[k].from = conversations[k].base

\* What a request under way found stays so until it ends.
WorkFound ==
  /\ work.pc # "free" => work.key \in Keys
  /\ work.pc \in {"heat", "stage", "built", "ending"} => root \in ToSet(residents)
  /\ work.pc \in {"stage", "built", "ending"} => root \in hot
  /\ work.pc \in {"stage", "built"} => conversations[work.key] = work.original
  /\ work.pc = "ending" => work.original.focus = moved[work.key]

EngineInvariant == EngineTypes /\ HeldOfLoaded /\ WorkFound /\ NavigationKept

\* A sequence without one of its elements: the others stay.
LEMMA WithoutOne ==
  ASSUME NEW S, NEW s \in Seq(S), NEW i \in 1 .. Len(s)
  PROVE  /\ RemoveAt(s, i) \in Seq(S)
         /\ \A j \in 1 .. Len(s) : j # i => \E m \in 1 .. Len(RemoveAt(s, i)) : RemoveAt(s, i)[m] = s[j]
<1> DEFINE a == SubSeq(s, 1, i - 1)
           b == SubSeq(s, i + 1, Len(s))
<1>1. Len(s) \in Nat /\ i \in Nat /\ i >= 1 /\ i <= Len(s)
  BY LenProperties
<1>2. i - 1 \in Int /\ i + 1 \in Int /\ Len(s) \in Int /\ 1 \in Int /\ (i - 1) - 1 + 1 = i - 1 /\ Len(s) - (i + 1) + 1 = Len(s) - i
  BY <1>1
<1>3. \A j \in 1 .. Len(s) : s[j] \in S
  BY ElementOfSeq
<1>4. (\A j \in 1 .. i - 1 : s[j] \in S) /\ \A j \in i + 1 .. Len(s) : s[j] \in S
  BY <1>1, <1>3
<1>5. a \in Seq(S) /\ Len(a) = (IF 1 <= i - 1 THEN (i - 1) - 1 + 1 ELSE 0)
      /\ \A j \in 1 .. (i - 1) - 1 + 1 : a[j] = s[1 + j - 1]
  BY <1>2, <1>4, SubSeqProperties
<1>6. b \in Seq(S) /\ Len(b) = (IF i + 1 <= Len(s) THEN Len(s) - (i + 1) + 1 ELSE 0)
      /\ \A j \in 1 .. Len(s) - (i + 1) + 1 : b[j] = s[i + 1 + j - 1]
  BY <1>2, <1>4, SubSeqProperties
<1>7. RemoveAt(s, i) = a \o b
  BY DEF RemoveAt
<1> HIDE DEF a, b
<1>8. Len(a) = i - 1 /\ \A j \in 1 .. i - 1 : a[j] = s[j]
  BY <1>1, <1>2, <1>5
<1>9. Len(b) = Len(s) - i /\ \A j \in 1 .. Len(s) - i : b[j] = s[i + j]
  <2>1. Len(b) = Len(s) - i
    <3> DEFINE n == Len(s)
    <3>1. n \in Nat /\ i \in Nat /\ i <= n
      BY <1>1
    <3>2. Len(b) = IF i + 1 <= n THEN n - (i + 1) + 1 ELSE 0
      BY <1>6
    <3> HIDE DEF n
    <3>3. (i + 1 <= n => n - (i + 1) + 1 = n - i) /\ (~(i + 1 <= n) => n - i = 0)
      BY <3>1
    <3>4. Len(b) = n - i
      BY <3>2, <3>3
    <3> QED BY <3>4 DEF n
  <2>2. ASSUME NEW j \in 1 .. Len(s) - i PROVE b[j] = s[i + j]
    <3>1. j \in 1 .. Len(s) - (i + 1) + 1 /\ i + 1 + j - 1 = i + j
      BY <1>1
    <3>2. b[j] = s[i + 1 + j - 1]
      BY <3>1, <1>6
    <3> QED BY <3>1, <3>2
  <2> QED BY <2>1, <2>2
<1>10. /\ a \o b \in Seq(S) /\ Len(a \o b) = Len(a) + Len(b)
       /\ \A j \in 1 .. Len(a) + Len(b) : (a \o b)[j] = IF j <= Len(a) THEN a[j] ELSE b[j - Len(a)]
  BY <1>5, <1>6, ConcatProperties
<1> DEFINE w == a \o b
<1>11. w \in Seq(S) /\ Len(w) = Len(s) - 1
  BY <1>10, <1>8, <1>9, <1>1
<1>12. ASSUME NEW j \in 1 .. Len(s), j # i PROVE \E m \in 1 .. Len(w) : w[m] = s[j]
  <2>1. CASE j < i
    <3>1. j \in 1 .. i - 1 /\ j \in 1 .. Len(a) + Len(b) /\ j <= Len(a) /\ j \in 1 .. Len(w)
      BY <2>1, <1>1, <1>8, <1>9, <1>11
    <3>2. w[j] = a[j]
      BY <3>1, <1>10
    <3> QED BY <3>1, <3>2, <1>8
  <2>2. CASE j > i
    <3> DEFINE m == j - 1
    <3>1. m \in 1 .. Len(a) + Len(b) /\ ~(m <= Len(a)) /\ m \in 1 .. Len(w) /\ m - Len(a) = j - i
          /\ j - i \in 1 .. Len(s) - i /\ i + (j - i) = j
      BY <2>2, <1>1, <1>8, <1>9, <1>11
    <3> HIDE DEF m
    <3>2. w[m] = b[m - Len(a)]
      BY <3>1, <1>10
    <3>3. b[j - i] = s[i + (j - i)]
      BY <3>1, <1>9
    <3> QED BY <3>1, <3>2, <3>3
  <2> QED BY <1>12, <1>1, <2>1, <2>2
<1> QED BY <1>7, <1>11, <1>12

LEMMA MembersOf == ASSUME NEW S, NEW s \in Seq(S) PROVE \A x : x \in ToSet(s) <=> \E i \in 1 .. Len(s) : x = s[i]
  BY LenProperties DEF ToSet

\* Another root never leaves.
LEMMA OthersStay ==
  ASSUME residents \in Seq(RootKeys), NEW r
  PROVE  WithoutRoot(r) \in Seq(RootKeys) /\ ToSet(residents) \ {r} \subseteq ToSet(WithoutRoot(r))
<1>1. CASE r \notin ToSet(residents)
  BY <1>1 DEF WithoutRoot
<1>2. CASE r \in ToSet(residents)
  <2>1. \E i \in DOMAIN residents : residents[i] = r
    BY <1>2 DEF ToSet
  <2>2. PlaceOf(r) \in DOMAIN residents /\ residents[PlaceOf(r)] = r
    BY <2>1 DEF PlaceOf
  <2> DEFINE i == PlaceOf(r)
             w == RemoveAt(residents, i)
  <2>3. WithoutRoot(r) = w
    BY <1>2 DEF WithoutRoot
  <2>4. i \in 1 .. Len(residents) /\ residents[i] = r
    BY <2>2, LenProperties
  <2> HIDE DEF i
  <2>5. w \in Seq(RootKeys) /\ \A j \in 1 .. Len(residents) : j # i => \E m \in 1 .. Len(w) : w[m] = residents[j]
    BY <2>4, WithoutOne
  <2> HIDE DEF w
  <2>6. (\A x : x \in ToSet(residents) <=> \E j \in 1 .. Len(residents) : x = residents[j])
        /\ \A x : x \in ToSet(w) <=> \E j \in 1 .. Len(w) : x = w[j]
    BY <2>5, MembersOf
  <2> QED BY <2>3, <2>4, <2>5, <2>6
<1> QED BY <1>1, <1>2

\* The root in use becomes the last one.
LEMMA LastIn ==
  ASSUME NEW s \in Seq(RootKeys), NEW r \in RootKeys
  PROVE  Append(s, r) \in Seq(RootKeys) /\ ToSet(s) \cup {r} \subseteq ToSet(Append(s, r))
<1> DEFINE w == Append(s, r)
<1>1. /\ w \in Seq(RootKeys) /\ Len(w) = Len(s) + 1 /\ Len(s) \in Nat
      /\ (\A i \in 1 .. Len(s) : w[i] = s[i]) /\ w[Len(s) + 1] = r
  BY AppendProperties, LenProperties
<1> HIDE DEF w
<1>2. (\A x : x \in ToSet(s) <=> \E j \in 1 .. Len(s) : x = s[j])
      /\ \A x : x \in ToSet(w) <=> \E j \in 1 .. Len(w) : x = w[j]
  BY <1>1, MembersOf
<1>3. Len(s) + 1 \in 1 .. Len(w) /\ \A i \in 1 .. Len(s) : i \in 1 .. Len(w)
  BY <1>1
<1>4. ToSet(s) \cup {r} \subseteq ToSet(w)
  BY <1>1, <1>2, <1>3
<1> QED BY <1>1, <1>4 DEF w

\* The records in use.
LEMMA FreeIs ==
  /\ Free \in WorkRecord /\ Free.pc = "free" /\ Unprepared \in PreparationRecord /\ Unprepared.id = 0
  /\ None \in Content /\ None.base = 0 /\ None.focus = 0
<1>1. None \in Content /\ None.base = 0 /\ None.focus = 0
  BY DEF None, Content
<1>2. Unprepared \in PreparationRecord /\ Unprepared.id = 0
  BY DEF Unprepared, PreparationRecord
<1>3. Free \in WorkRecord /\ Free.pc = "free"
  BY <1>1 DEF Free, WorkRecord
<1> QED BY <1>1, <1>2, <1>3

Stages == {"free", "admit", "heat", "stage", "built", "ending"}
LEMMA WorkMoves ==
  ASSUME NEW w \in WorkRecord, NEW p \in Stages
  PROVE  /\ [w EXCEPT !.pc = p] \in WorkRecord /\ [w EXCEPT !.pc = p].pc = p
         /\ [w EXCEPT !.pc = p].key = w.key /\ [w EXCEPT !.pc = p].original = w.original
         /\ [w EXCEPT !.pc = p].signal = w.signal
BY DEF WorkRecord, Stages

LEMMA WorkStages ==
  ASSUME NEW w \in WorkRecord, NEW c \in Content
  PROVE  /\ [w EXCEPT !.pc = "stage", !.original = c] \in WorkRecord
         /\ [w EXCEPT !.pc = "stage", !.original = c].pc = "stage"
         /\ [w EXCEPT !.pc = "stage", !.original = c].key = w.key
         /\ [w EXCEPT !.pc = "stage", !.original = c].original = c
BY DEF WorkRecord

LEMMA WorkBuilt ==
  ASSUME NEW w \in WorkRecord, NEW n \in Nat
  PROVE  /\ [w EXCEPT !.pc = "built", !.version = n] \in WorkRecord
         /\ [w EXCEPT !.pc = "built", !.version = n].pc = "built"
         /\ [w EXCEPT !.pc = "built", !.version = n].key = w.key
         /\ [w EXCEPT !.pc = "built", !.version = n].original = w.original
BY DEF WorkRecord

LEMMA WorkSignalled ==
  ASSUME NEW w \in WorkRecord
  PROVE  /\ [w EXCEPT !.signal = TRUE] \in WorkRecord
         /\ [w EXCEPT !.signal = TRUE].pc = w.pc
         /\ [w EXCEPT !.signal = TRUE].key = w.key
         /\ [w EXCEPT !.signal = TRUE].original = w.original
BY DEF WorkRecord

LEMMA EngineBegins == ASSUME NaviInit PROVE EngineInvariant
<1>1. EngineTypes
  <2>1. residents \in Seq(RootKeys)
    BY DEF NaviInit
  <2>2. work \in WorkRecord /\ conversations \in [Keys -> Content] /\ prepared \in [Keys -> PreparationRecord]
    BY FreeIs DEF NaviInit
  <2> QED BY <2>1, <2>2 DEF NaviInit, EngineTypes
<1>2. HeldOfLoaded
  BY FreeIs DEF NaviInit, HeldOfLoaded
<1>3. WorkFound
  BY FreeIs DEF NaviInit, WorkFound
<1>4. NavigationKept
  BY FreeIs DEF NaviInit, NavigationKept
<1> QED BY <1>1, <1>2, <1>3, <1>4 DEF EngineInvariant

\* What is forgotten leaves nothing, the rest stays as it was.
ErasedOnly(K) ==
  /\ loaded' \subseteq Keys /\ conversations' \in [Keys -> Content] /\ prepared' \in [Keys -> PreparationRecord]
  /\ moved' \in [Keys -> Nat]
  /\ \A k \in Keys : k \in K => k \notin loaded' /\ conversations'[k] = None /\ prepared'[k].id = 0 /\ moved'[k] = 0
  /\ \A k \in Keys : k \notin K => /\ (k \in loaded' <=> k \in loaded) /\ conversations'[k] = conversations[k]
                                   /\ prepared'[k] = prepared[k] /\ moved'[k] = moved[k]
LEMMA ForgetIs == ASSUME EngineInvariant, NEW K, Forget(K) PROVE ErasedOnly(K) /\ HeldOfLoaded'
<1>1. /\ loaded \subseteq Keys /\ conversations \in [Keys -> Content] /\ prepared \in [Keys -> PreparationRecord]
      /\ moved \in [Keys -> Nat]
  BY DEF EngineInvariant, EngineTypes
<1>2. /\ loaded' = loaded \ K /\ conversations' = [k \in Keys |-> IF k \in K THEN None ELSE conversations[k]]
      /\ prepared' = [k \in Keys |-> IF k \in K THEN Unprepared ELSE prepared[k]]
      /\ moved' = [k \in Keys |-> IF k \in K THEN 0 ELSE moved[k]]
  BY DEF Forget, Dropped
<1>3. ErasedOnly(K)
  BY <1>1, <1>2, FreeIs DEF ErasedOnly
<1>4. HeldOfLoaded'
  BY <1>3 DEF ErasedOnly, HeldOfLoaded, EngineInvariant
<1> QED BY <1>3, <1>4

LEMMA RetireRootKeeps ==
  ASSUME EngineInvariant, NEW r, NEW remove \in BOOLEAN, NEW removed \in BOOLEAN,
         RetireRoot(r, remove, removed), UNCHANGED <<source, ids>>,
         work.pc = "admit" \/ (work.pc = "heat" /\ ~remove)
  PROVE  EngineInvariant'
<1> DEFINE K == KeysOf(r)
<1>1. /\ Forget(K) /\ hot' = hot \ {r} /\ graph' = [graph EXCEPT ![r] = 0]
      /\ residents' = IF remove /\ removed THEN WithoutRoot(r) ELSE residents
      /\ work' = IF removed THEN work ELSE Free
  BY DEF RetireRoot
<1>2. ErasedOnly(K) /\ HeldOfLoaded'
  BY <1>1, ForgetIs
<1>3. \A k \in Keys : k \in K <=> k[2] = r
  BY DEF KeysOf
<1> HIDE DEF K
<1>4. EngineTypes /\ WorkFound /\ NavigationKept
  BY DEF EngineInvariant
<1>5. residents \in Seq(RootKeys) /\ work \in WorkRecord
  BY <1>4 DEF EngineTypes
<1>6. WithoutRoot(r) \in Seq(RootKeys) /\ ToSet(residents) \ {r} \subseteq ToSet(WithoutRoot(r))
  BY <1>5, OthersStay
<1>7. residents' \in Seq(RootKeys) /\ ToSet(residents) \ {r} \subseteq ToSet(residents')
      /\ (work.pc = "heat" => residents' = residents)
  <2>1. CASE remove /\ removed
    <3>1. residents' = WithoutRoot(r)
      BY <2>1, <1>1
    <3> QED BY <3>1, <1>6, <2>1
  <2>2. CASE ~(remove /\ removed)
    <3>1. residents' = residents
      BY <2>2, <1>1
    <3> QED BY <3>1, <1>5
  <2> QED BY <2>1, <2>2
<1>8. work' \in WorkRecord /\ (work' = work \/ (work' = Free /\ work'.pc = "free"))
  BY <1>1, <1>5, FreeIs
<1>9. EngineTypes'
  BY <1>1, <1>2, <1>4, <1>7, <1>8 DEF EngineTypes, ErasedOnly
<1>10. WorkFound'
  <2>1. CASE work' = work
    BY <2>1, <1>4, <1>7 DEF WorkFound, root
  <2>2. CASE work'.pc = "free"
    BY <2>2 DEF WorkFound
  <2> QED BY <1>8, <2>1, <2>2
<1>11. NavigationKept'
  <2>1. \A k \in Keys : conversations'[k].focus = moved'[k]
    <3>1. \A k \in Keys : Quiet(k)
      BY DEF Quiet
    <3>2. \A k \in Keys : conversations[k].focus = moved[k]
      BY <3>1, <1>4 DEF NavigationKept
    <3> QED BY <3>2, <1>2, FreeIs DEF ErasedOnly
  <2>2. \A k \in loaded' : k[2] \in ToSet(residents')
    <3>1. \A k \in loaded' : k \in Keys /\ k \in loaded /\ k[2] # r
      BY <1>2, <1>3 DEF ErasedOnly
    <3>2. \A k \in loaded' : k[2] \in ToSet(residents)
      BY <3>1, <1>4 DEF NavigationKept
    <3> QED BY <3>1, <3>2, <1>7
  <2>3. \A x \in RootKeys : graph'[x] # 0 => x \in hot'
    BY <1>1, <1>4 DEF NavigationKept, EngineTypes
  <2> QED BY <2>1, <2>2, <2>3 DEF NavigationKept
<1> QED BY <1>2, <1>9, <1>10, <1>11 DEF EngineInvariant

LEMMA EngineParts ==
  ASSUME EngineTypes', HeldOfLoaded', WorkFound', NavigationKept' PROVE EngineInvariant'
BY DEF EngineInvariant

LEMMA AcknowledgeKeeps ==
  ASSUME EngineInvariant, NEW k \in Keys, NEW id, Acknowledge(k, id) PROVE EngineInvariant'
<1>1. EngineTypes /\ HeldOfLoaded /\ WorkFound /\ NavigationKept
  BY DEF EngineInvariant
<1>2. /\ work.pc = "free" /\ id > 0 /\ id = prepared[k].id
      /\ conversations' = [conversations EXCEPT ![k] = [base |-> prepared[k].base, focus |-> Navigation(k)]]
      /\ loaded' = loaded \cup {k} /\ prepared' = [j \in Keys |-> IF j \in {k} THEN Unprepared ELSE prepared[j]]
      /\ UNCHANGED <<source, residents, hot, graph, work, ids, moved>>
  BY DEF Acknowledge, Admitted, Dropped
<1>3. prepared[k] \in PreparationRecord /\ conversations[k] \in Content
  BY <1>1 DEF EngineTypes
<1>4. k \in loaded
  <2>1. prepared[k].id # 0
    BY <1>2, <1>3 DEF PreparationRecord
  <2> QED BY <2>1, <1>1 DEF HeldOfLoaded
<1>5. Navigation(k) = conversations[k].focus
  BY <1>4 DEF Navigation
<1> DEFINE c == [base |-> prepared[k].base, focus |-> Navigation(k)]
<1>6. c \in Content /\ c.focus = conversations[k].focus
  BY <1>3, <1>5 DEF Content, PreparationRecord
<1>7. conversations' = [conversations EXCEPT ![k] = c] /\ loaded' = loaded
  BY <1>2, <1>4
<1> HIDE DEF c
<1>8. conversations \in [Keys -> Content]
  BY <1>1 DEF EngineTypes
<1>9. EngineTypes'
  <2>1. conversations' \in [Keys -> Content]
    BY <1>6, <1>7, <1>8
  <2>2. prepared' \in [Keys -> PreparationRecord]
    BY <1>1, <1>2, FreeIs DEF EngineTypes
  <2> QED BY <2>1, <2>2, <1>1, <1>2, <1>7 DEF EngineTypes
<1>10. HeldOfLoaded'
  BY <1>1, <1>2, <1>4, <1>6, <1>7, <1>8, FreeIs DEF HeldOfLoaded
<1>11. WorkFound'
  BY <1>1, <1>2 DEF WorkFound, root
<1>12. NavigationKept'
  BY <1>1, <1>2, <1>6, <1>7, <1>8 DEF NavigationKept, Quiet
<1> QED BY <1>9, <1>10, <1>11, <1>12, EngineParts

\* Whoever forgets while nothing is under way.
LEMMA ForgetKeeps ==
  ASSUME EngineInvariant, NEW K, Forget(K), work.pc = "free",
         graph' \in [RootKeys -> Nat], \A r \in RootKeys : graph'[r] = 0 \/ graph'[r] = graph[r],
         UNCHANGED <<source, residents, hot, work, ids>>
  PROVE  EngineInvariant'
<1>1. EngineTypes /\ WorkFound /\ NavigationKept
  BY DEF EngineInvariant
<1>2. ErasedOnly(K) /\ HeldOfLoaded'
  BY ForgetIs
<1>3. EngineTypes'
  BY <1>1, <1>2 DEF EngineTypes, ErasedOnly
<1>4. WorkFound'
  BY DEF WorkFound
<1>5. NavigationKept'
  <2>1. \A k \in Keys : conversations'[k].focus = moved'[k]
    BY <1>1, <1>2, FreeIs DEF NavigationKept, Quiet, ErasedOnly
  <2>2. \A k \in loaded' : k[2] \in ToSet(residents')
    BY <1>1, <1>2 DEF NavigationKept, ErasedOnly
  <2>3. \A r \in RootKeys : graph'[r] # 0 => r \in hot'
    BY <1>1 DEF NavigationKept
  <2> QED BY <2>1, <2>2, <2>3 DEF NavigationKept
<1> QED BY <1>2, <1>3, <1>4, <1>5, EngineParts

LEMMA ResetKeeps ==
  ASSUME EngineInvariant, NEW k \in Keys, NEW reload \in BOOLEAN, Reset(k, reload) PROVE EngineInvariant'
<1>1. /\ Forget({k}) /\ work.pc = "free" /\ UNCHANGED <<source, residents, hot, work, ids>>
      /\ graph' = IF reload THEN [graph EXCEPT ![k[2]] = 0] ELSE graph
  BY DEF Reset, Admitted
<1>2. graph \in [RootKeys -> Nat]
  BY DEF EngineInvariant, EngineTypes
<1>3. graph' \in [RootKeys -> Nat] /\ \A r \in RootKeys : graph'[r] = 0 \/ graph'[r] = graph[r]
  BY <1>1, <1>2
<1> QED BY <1>1, <1>3, ForgetKeeps

LEMMA RetireOwnerKeeps ==
  ASSUME EngineInvariant, NEW c, RetireOwner(c) PROVE EngineInvariant'
<1> DEFINE K == {k \in Keys : k[1] = c}
<1>1. /\ Forget(K) /\ work.pc = "free" /\ UNCHANGED <<source, residents, hot, graph, work, ids>>
  BY DEF RetireOwner, Admitted
<1>2. graph \in [RootKeys -> Nat]
  BY DEF EngineInvariant, EngineTypes
<1>3. graph' \in [RootKeys -> Nat] /\ \A r \in RootKeys : graph'[r] = 0 \/ graph'[r] = graph[r]
  BY <1>1, <1>2
<1> HIDE DEF K
<1> QED BY <1>1, <1>3, ForgetKeeps

LEMMA BeginKeeps ==
  ASSUME EngineInvariant, NEW k \in Keys, NEW op \in {"sync", "focus", "dwell"}, NEW transient \in BOOLEAN,
         Begin(k, op, transient)
  PROVE  EngineInvariant'
<1>1. EngineTypes /\ HeldOfLoaded /\ WorkFound /\ NavigationKept
  BY DEF EngineInvariant
<1>2. /\ work.pc = "free" /\ ids' = ids + 1
      /\ work' = [Free EXCEPT !.pc = "admit", !.op = op, !.key = k, !.transient = transient]
      /\ UNCHANGED <<source, residents, hot, graph, loaded, conversations, prepared, moved>>
  BY DEF Begin, Admitted, stores
<1>3. work' \in WorkRecord /\ work'.pc = "admit" /\ work'.key = k
  <2>1. Free \in WorkRecord
    BY FreeIs
  <2> QED BY <1>2, <2>1 DEF WorkRecord
<1>4. ids' \in Nat
  BY <1>1, <1>2 DEF EngineTypes
<1>5. EngineTypes'
  BY <1>1, <1>2, <1>3, <1>4 DEF EngineTypes
<1>6. HeldOfLoaded'
  BY <1>1, <1>2 DEF HeldOfLoaded
<1>7. WorkFound'
  BY <1>3 DEF WorkFound
<1>8. NavigationKept'
  BY <1>1, <1>2, <1>3 DEF NavigationKept, Quiet
<1> QED BY <1>5, <1>6, <1>7, <1>8, EngineParts

LEMMA AdmitRootKeeps ==
  ASSUME EngineInvariant, NEW removed \in BOOLEAN, AdmitRoot(removed) PROVE EngineInvariant'
<1>1. EngineTypes /\ HeldOfLoaded /\ WorkFound /\ NavigationKept
  BY DEF EngineInvariant
<1>2. work.pc = "admit" /\ UNCHANGED <<source, ids>>
  BY DEF AdmitRoot
<1>3. CASE root \notin ToSet(residents) /\ Len(residents) >= MaxRoots
  <2>1. RetireRoot(residents[1], TRUE, removed)
    BY <1>3 DEF AdmitRoot
  <2> QED BY <2>1, <1>2, RetireRootKeeps
<1>4. CASE ~(root \notin ToSet(residents) /\ Len(residents) >= MaxRoots)
  <2>1. /\ residents' = Append(WithoutRoot(root), root) /\ work' = [work EXCEPT !.pc = "heat"]
        /\ UNCHANGED <<hot, graph, loaded, conversations, prepared, moved>>
    BY <1>4 DEF AdmitRoot
  <2>2. work.key \in Keys /\ work \in WorkRecord /\ residents \in Seq(RootKeys)
    BY <1>1, <1>2 DEF WorkFound, EngineTypes
  <2>3. root \in RootKeys
    BY <2>2 DEF root, Keys
  <2>4. WithoutRoot(root) \in Seq(RootKeys) /\ ToSet(residents) \ {root} \subseteq ToSet(WithoutRoot(root))
    BY <2>2, OthersStay
  <2>5. residents' \in Seq(RootKeys) /\ ToSet(WithoutRoot(root)) \cup {root} \subseteq ToSet(residents')
    BY <2>1, <2>3, <2>4, LastIn
  <2>6. ToSet(residents) \cup {root} \subseteq ToSet(residents')
    BY <2>4, <2>5
  <2>7. work' \in WorkRecord /\ work'.pc = "heat" /\ work'.key = work.key
    BY <2>1, <2>2, WorkMoves DEF Stages
  <2>8. root' = root
    BY <2>7 DEF root
  <2>9. EngineTypes'
    BY <1>1, <1>2, <2>1, <2>5, <2>7 DEF EngineTypes
  <2>10. HeldOfLoaded'
    BY <1>1, <2>1 DEF HeldOfLoaded
  <2>11. WorkFound'
    BY <2>2, <2>6, <2>7, <2>8 DEF WorkFound
  <2>12. NavigationKept'
    BY <1>1, <1>2, <2>1, <2>6, <2>7 DEF NavigationKept, Quiet
  <2> QED BY <2>9, <2>10, <2>11, <2>12, EngineParts
<1> QED BY <1>3, <1>4

LEMMA HeatKeeps ==
  ASSUME EngineInvariant, NEW removed \in BOOLEAN, Heat(removed) PROVE EngineInvariant'
<1>1. EngineTypes /\ HeldOfLoaded /\ WorkFound /\ NavigationKept
  BY DEF EngineInvariant
<1>2. work.pc = "heat" /\ UNCHANGED <<source, ids>>
  BY DEF Heat
<1>3. CASE root \notin hot /\ Cardinality(hot) >= MaxHot
  <2>1. RetireRoot(Coldest, FALSE, removed)
    BY <1>3 DEF Heat
  <2> QED BY <2>1, <1>2, RetireRootKeeps
<1>4. CASE ~(root \notin hot /\ Cardinality(hot) >= MaxHot)
  <2>1. /\ hot' = hot \cup {root}
        /\ work' = IF Expired \/ work.signal THEN Free
                   ELSE [work EXCEPT !.pc = "stage", !.original = conversations[work.key]]
        /\ UNCHANGED <<residents, graph, loaded, conversations, prepared, moved>>
    BY <1>4 DEF Heat
  <2>2. work.key \in Keys /\ work \in WorkRecord /\ root \in ToSet(residents)
    BY <1>1, <1>2 DEF WorkFound, EngineTypes
  <2>3. conversations[work.key] \in Content
    BY <2>2, <1>1 DEF EngineTypes
  <2>4. /\ work' \in WorkRecord
        /\ \/ work'.pc = "free"
           \/ work'.pc = "stage" /\ work'.key = work.key /\ work'.original = conversations[work.key]
    <3>1. CASE Expired \/ work.signal
      <4>1. work' = Free
        BY <2>1, <3>1
      <4> QED BY <4>1, FreeIs
    <3>2. CASE ~(Expired \/ work.signal)
      <4>1. work' = [work EXCEPT !.pc = "stage", !.original = conversations[work.key]]
        BY <2>1, <3>2
      <4> QED BY <4>1, <2>2, <2>3, WorkStages
    <3> QED BY <3>1, <3>2
  <2>5. EngineTypes'
    BY <1>1, <1>2, <2>1, <2>4 DEF EngineTypes
  <2>6. HeldOfLoaded'
    BY <1>1, <2>1 DEF HeldOfLoaded
  <2>7. WorkFound'
    BY <2>1, <2>2, <2>4 DEF WorkFound, root
  <2>8. NavigationKept'
    BY <1>1, <1>2, <2>1, <2>4 DEF NavigationKept, Quiet
  <2> QED BY <2>5, <2>6, <2>7, <2>8, EngineParts
<1> QED BY <1>3, <1>4

LEMMA CaptureKeeps == ASSUME EngineInvariant, Capture PROVE EngineInvariant'
<1>1. EngineTypes /\ HeldOfLoaded /\ WorkFound /\ NavigationKept
  BY DEF EngineInvariant
<1>2. /\ work.pc = "stage" /\ work' = [work EXCEPT !.pc = "built", !.version = source[root]]
      /\ graph' = [graph EXCEPT ![root] = source[root]]
      /\ UNCHANGED <<source, residents, hot, loaded, conversations, prepared, ids, moved>>
  BY DEF Capture
<1>3. work.key \in Keys /\ work \in WorkRecord /\ root \in hot
  BY <1>1, <1>2 DEF WorkFound, EngineTypes
<1>4. root \in RootKeys
  BY <1>3 DEF root, Keys
<1>5. source[root] \in Nat
  BY <1>1, <1>4 DEF EngineTypes
<1>6. work' \in WorkRecord /\ work'.pc = "built" /\ work'.key = work.key /\ work'.original = work.original
  BY <1>2, <1>3, <1>5, WorkBuilt
<1>7. EngineTypes'
  BY <1>1, <1>2, <1>5, <1>6 DEF EngineTypes
<1>8. HeldOfLoaded'
  BY <1>1, <1>2 DEF HeldOfLoaded
<1>9. WorkFound'
  BY <1>1, <1>2, <1>3, <1>6 DEF WorkFound, root
<1>10. NavigationKept'
  <2>1. \A r \in RootKeys : graph'[r] # 0 => r \in hot'
    BY <1>1, <1>2, <1>3 DEF NavigationKept, EngineTypes
  <2> QED BY <2>1, <1>1, <1>2, <1>6 DEF NavigationKept, Quiet
<1> QED BY <1>7, <1>8, <1>9, <1>10, EngineParts

\* A request ends with the answer it made: what it changed is its key's only.
Answered ==
  /\ work.pc \in {"stage", "built"} /\ work' = [work EXCEPT !.pc = "ending"]
  /\ UNCHANGED <<source, residents, hot, ids, moved>>
LEMMA AnsweredIs ==
  ASSUME EngineInvariant, Answered
  PROVE  /\ work.key \in Keys /\ root \in RootKeys /\ conversations[work.key] = work.original
         /\ work.original \in Content /\ work.original.focus = moved[work.key] /\ work'.original = work.original
         /\ work' \in WorkRecord /\ work'.pc = "ending" /\ work'.key = work.key /\ WorkFound' /\ root' = root
<1>1. EngineTypes /\ WorkFound /\ NavigationKept
  BY DEF EngineInvariant
<1>2. work \in WorkRecord /\ work.key \in Keys /\ conversations[work.key] = work.original
  BY <1>1 DEF WorkFound, EngineTypes, Answered
<1>3. work' \in WorkRecord /\ work'.pc = "ending" /\ work'.key = work.key /\ work'.original = work.original
  BY <1>2, WorkMoves DEF Answered, Stages
<1>4. root \in RootKeys /\ root' = root
  BY <1>2, <1>3 DEF root, Keys
<1>5. work.original \in Content
  BY <1>2 DEF WorkRecord
<1>6. work.original.focus = moved[work.key]
  BY <1>1, <1>2 DEF NavigationKept, Quiet, Answered
<1>7. WorkFound'
  BY <1>1, <1>2, <1>3, <1>4, <1>6 DEF WorkFound, Answered
<1> QED BY <1>2, <1>3, <1>4, <1>5, <1>6, <1>7

\* What an answer must leave for the invariant.
LEMMA AnsweredKeeps ==
  ASSUME EngineInvariant, Answered,
         graph' \in [RootKeys -> Nat], \A r \in RootKeys : graph'[r] = 0 \/ graph'[r] = graph[r],
         conversations' \in [Keys -> Content], prepared' \in [Keys -> PreparationRecord],
         \A k \in Keys : k # work.key => conversations'[k] = conversations[k] /\ prepared'[k] = prepared[k],
         loaded' = loaded \/ loaded' = loaded \cup {work.key}, HeldOfLoaded'
  PROVE  EngineInvariant'
<1>1. EngineTypes /\ WorkFound /\ NavigationKept
  BY DEF EngineInvariant
<1>2. /\ work.key \in Keys /\ work' \in WorkRecord /\ work'.pc = "ending" /\ work'.key = work.key /\ WorkFound'
      /\ work.pc \in {"stage", "built"} /\ UNCHANGED <<source, residents, hot, ids, moved>>
  BY AnsweredIs DEF Answered
<1>3. root \in ToSet(residents)
  BY <1>1, <1>2 DEF WorkFound
<1>4. EngineTypes'
  BY <1>1, <1>2 DEF EngineTypes
<1>5. NavigationKept'
  <2>1. \A k \in Keys : Quiet(k)' => conversations'[k].focus = moved'[k]
    BY <1>1, <1>2 DEF NavigationKept, Quiet
  <2>2. \A k \in loaded' : k[2] \in ToSet(residents')
    BY <1>1, <1>2, <1>3 DEF NavigationKept, root
  <2>3. \A r \in RootKeys : graph'[r] # 0 => r \in hot'
    BY <1>1, <1>2 DEF NavigationKept
  <2> QED BY <2>1, <2>2, <2>3 DEF NavigationKept
<1> QED BY <1>2, <1>4, <1>5, EngineParts

\* A baseline or a focus is adopted.
LEMMA AdoptedIs ==
  ASSUME EngineInvariant, NEW k \in Keys, NEW c \in Content, Adopted(k, c)
  PROVE  /\ conversations' \in [Keys -> Content] /\ conversations'[k] = c
         /\ \A j \in Keys : j # k => conversations'[j] = conversations[j]
         /\ loaded' = loaded \cup {k}
BY DEF Adopted, EngineInvariant, EngineTypes

LEMMA SyncStepKeeps == ASSUME EngineInvariant, NEW red \in BOOLEAN, Sync(red) PROVE EngineInvariant'
<1>1. EngineTypes /\ HeldOfLoaded
  BY DEF EngineInvariant
<1>2. Answered /\ graph' = graph /\ (red => work.original.base \notin {0, work.version})
  BY DEF Sync, Answered
<1>3. /\ work.key \in Keys /\ conversations[work.key] = work.original /\ work.original \in Content
  BY <1>2, AnsweredIs
<1>4. graph' \in [RootKeys -> Nat] /\ \A r \in RootKeys : graph'[r] = 0 \/ graph'[r] = graph[r]
  BY <1>1, <1>2 DEF EngineTypes
<1>5. work.version \in Nat /\ ids \in Nat /\ work.transient \in BOOLEAN
  BY <1>1 DEF EngineTypes, WorkRecord
<1>6. CASE work.transient
  <2>1. UNCHANGED <<loaded, conversations, prepared>>
    BY <1>6 DEF Sync
  <2>2. HeldOfLoaded'
    BY <2>1, <1>1 DEF HeldOfLoaded
  <2> QED BY <2>1, <2>2, <1>1, <1>2, <1>4, AnsweredKeeps DEF EngineTypes
<1>7. CASE ~work.transient /\ red
  <2> DEFINE p == [id |-> ids, from |-> work.original.base, base |-> work.version, focus |-> work.original.focus]
  <2>1. prepared' = Prepared(work.key) /\ UNCHANGED <<loaded, conversations>>
    BY <1>7 DEF Sync
  <2>2. p \in PreparationRecord /\ p.from = work.original.base
    BY <1>3, <1>5 DEF PreparationRecord, Content
  <2>3. prepared' = [prepared EXCEPT ![work.key] = p]
    BY <2>1 DEF Prepared
  <2> HIDE DEF p
  <2>4. /\ prepared' \in [Keys -> PreparationRecord] /\ prepared'[work.key] = p
        /\ \A k \in Keys : k # work.key => prepared'[k] = prepared[k]
    BY <2>2, <2>3, <1>1, <1>3 DEF EngineTypes
  <2>5. work.key \in loaded
    <3>1. conversations[work.key].base # 0
      BY <1>2, <1>3, <1>7
    <3> QED BY <3>1, <1>1, <1>3, FreeIs DEF HeldOfLoaded
  <2>6. HeldOfLoaded'
    BY <2>1, <2>2, <2>4, <2>5, <1>1, <1>3 DEF HeldOfLoaded
  <2> QED BY <2>1, <2>4, <2>6, <1>1, <1>2, <1>4, AnsweredKeeps DEF EngineTypes
<1>8. CASE ~work.transient /\ ~red
  <2> DEFINE c == [work.original EXCEPT !.base = work.version]
  <2>1. Adopted(work.key, c) /\ prepared' = Dropped({work.key})
    BY <1>8 DEF Sync
  <2>2. c \in Content
    BY <1>3, <1>5 DEF Content
  <2> HIDE DEF c
  <2>3. /\ conversations' \in [Keys -> Content]
        /\ \A j \in Keys : j # work.key => conversations'[j] = conversations[j]
        /\ loaded' = loaded \cup {work.key}
    BY <2>1, <2>2, <1>3, AdoptedIs
  <2>4. prepared' = [j \in Keys |-> IF j \in {work.key} THEN Unprepared ELSE prepared[j]]
    BY <2>1 DEF Dropped
  <2>5. /\ prepared' \in [Keys -> PreparationRecord] /\ prepared'[work.key].id = 0
        /\ \A j \in Keys : j # work.key => prepared'[j] = prepared[j]
    BY <2>4, <1>1, <1>3, FreeIs DEF EngineTypes
  <2>6. HeldOfLoaded'
    BY <2>3, <2>5, <1>1, <1>3 DEF HeldOfLoaded
  <2> QED BY <2>3, <2>5, <2>6, <1>2, <1>4, AnsweredKeeps
<1> QED BY <1>5, <1>6, <1>7, <1>8

LEMMA NavigateKeeps == ASSUME EngineInvariant, Navigate PROVE EngineInvariant'
<1>1. EngineTypes /\ HeldOfLoaded
  BY DEF EngineInvariant
<1>2. Answered /\ graph' = graph /\ prepared' = prepared
  BY DEF Navigate, Answered
<1>3. /\ work.key \in Keys /\ conversations[work.key] = work.original /\ work.original \in Content
  BY <1>2, AnsweredIs
<1>4. graph' \in [RootKeys -> Nat] /\ \A r \in RootKeys : graph'[r] = 0 \/ graph'[r] = graph[r]
  BY <1>1, <1>2 DEF EngineTypes
<1>5. CASE work.transient
  <2>1. UNCHANGED <<loaded, conversations>>
    BY <1>5 DEF Navigate
  <2>2. HeldOfLoaded'
    BY <2>1, <1>1, <1>2 DEF HeldOfLoaded
  <2> QED BY <2>1, <2>2, <1>1, <1>2, <1>4, AnsweredKeeps DEF EngineTypes
<1>6. CASE ~work.transient
  <2> DEFINE c == [work.original EXCEPT !.focus = ids]
  <2>1. Adopted(work.key, c)
    BY <1>6 DEF Navigate
  <2>2. c \in Content /\ c.base = work.original.base
    BY <1>1, <1>3 DEF Content, EngineTypes
  <2> HIDE DEF c
  <2>3. /\ conversations' \in [Keys -> Content] /\ conversations'[work.key] = c
        /\ \A j \in Keys : j # work.key => conversations'[j] = conversations[j]
        /\ loaded' = loaded \cup {work.key}
    BY <2>1, <2>2, <1>3, AdoptedIs
  <2>4. HeldOfLoaded'
    BY <2>2, <2>3, <1>1, <1>2, <1>3 DEF HeldOfLoaded
  <2> QED BY <2>3, <2>4, <1>1, <1>2, <1>4, AnsweredKeeps DEF EngineTypes
<1> QED BY <1>5, <1>6

LEMMA FaultKeeps == ASSUME EngineInvariant, Fault PROVE EngineInvariant'
<1>1. EngineTypes /\ HeldOfLoaded
  BY DEF EngineInvariant
<1>2. Answered /\ graph' = [graph EXCEPT ![root] = 0] /\ UNCHANGED <<loaded, conversations, prepared>>
  BY DEF Fault, Answered
<1>3. graph' \in [RootKeys -> Nat] /\ \A r \in RootKeys : graph'[r] = 0 \/ graph'[r] = graph[r]
  BY <1>1, <1>2 DEF EngineTypes
<1>4. HeldOfLoaded'
  BY <1>1, <1>2 DEF HeldOfLoaded
<1> QED BY <1>1, <1>2, <1>3, <1>4, AnsweredKeeps DEF EngineTypes

LEMMA EndKeeps == ASSUME EngineInvariant, NEW removed \in BOOLEAN, End(removed) PROVE EngineInvariant'
<1>1. EngineTypes /\ HeldOfLoaded /\ WorkFound /\ NavigationKept
  BY DEF EngineInvariant
<1>2. /\ work.pc = "ending" /\ work' = Free /\ UNCHANGED <<source, residents, hot, ids>>
  BY DEF End
<1>3. /\ work.key \in Keys /\ work.original.focus = moved[work.key] /\ work.original \in Content
      /\ root \in ToSet(residents) /\ root \in RootKeys
  BY <1>1, <1>2 DEF WorkFound, EngineTypes, WorkRecord, root, Keys
<1>4. work' \in WorkRecord /\ work'.pc = "free"
  BY <1>2, FreeIs
<1>5. WorkFound' /\ \A k \in Keys : Quiet(k)'
  BY <1>4 DEF WorkFound, Quiet
<1>6. \A k \in Keys : k # work.key => conversations[k].focus = moved[k]
  BY <1>1 DEF NavigationKept, Quiet
<1>7. \A k \in loaded \cup {work.key} : k[2] \in ToSet(residents)
  BY <1>1, <1>3 DEF NavigationKept, root
<1>8. CASE work.signal
  <2>1. /\ graph' = [graph EXCEPT ![root] = 0]
        /\ prepared' = [j \in Keys |-> IF j \in {work.key} THEN Unprepared ELSE prepared[j]]
        /\ conversations' = [conversations EXCEPT ![work.key] = work.original] /\ moved' = moved
        /\ loaded' = IF work.original # None THEN loaded \cup {work.key} ELSE loaded \ {work.key}
    BY <1>8 DEF End, Dropped
  <2>2. /\ conversations' \in [Keys -> Content] /\ conversations'[work.key] = work.original
        /\ \A j \in Keys : j # work.key => conversations'[j] = conversations[j]
    BY <2>1, <1>1, <1>3 DEF EngineTypes
  <2>3. /\ prepared' \in [Keys -> PreparationRecord] /\ prepared'[work.key].id = 0
        /\ \A j \in Keys : j # work.key => prepared'[j] = prepared[j]
    BY <2>1, <1>1, <1>3, FreeIs DEF EngineTypes
  <2>4. /\ loaded' \subseteq loaded \cup {work.key} /\ loaded \ {work.key} \subseteq loaded'
        /\ (work.key \notin loaded' => work.original = None)
    BY <2>1
  <2>5. graph' \in [RootKeys -> Nat] /\ \A r \in RootKeys : graph'[r] = 0 \/ graph'[r] = graph[r]
    BY <2>1, <1>1 DEF EngineTypes
  <2>6. EngineTypes'
    BY <2>1, <2>2, <2>3, <2>4, <2>5, <1>1, <1>2, <1>3, <1>4 DEF EngineTypes
  <2>7. HeldOfLoaded'
    BY <2>2, <2>3, <2>4, <1>1 DEF HeldOfLoaded
  <2>8. NavigationKept'
    <3>1. \A k \in Keys : conversations'[k].focus = moved'[k]
      BY <2>1, <2>2, <1>3, <1>6
    <3>2. \A k \in loaded' : k[2] \in ToSet(residents')
      BY <2>4, <1>2, <1>7
    <3>3. \A r \in RootKeys : graph'[r] # 0 => r \in hot'
      BY <2>5, <1>1, <1>2 DEF NavigationKept
    <3> QED BY <3>1, <3>2, <3>3 DEF NavigationKept
  <2> QED BY <2>6, <2>7, <2>8, <1>5, EngineParts
<1>9. CASE ~work.signal
  <2>1. moved' = [moved EXCEPT ![work.key] = conversations[work.key].focus]
        /\ UNCHANGED <<graph, conversations, loaded, prepared>>
    BY <1>9 DEF End
  <2>2. conversations[work.key].focus \in Nat
    BY <1>1, <1>3 DEF EngineTypes, Content
  <2>3. EngineTypes'
    BY <2>1, <2>2, <1>1, <1>2, <1>4 DEF EngineTypes
  <2>4. HeldOfLoaded'
    BY <2>1, <1>1 DEF HeldOfLoaded
  <2>5. NavigationKept'
    <3>1. \A k \in Keys : conversations'[k].focus = moved'[k]
      BY <2>1, <1>1, <1>3, <1>6 DEF EngineTypes
    <3> QED BY <3>1, <2>1, <1>1, <1>2 DEF NavigationKept
  <2> QED BY <2>3, <2>4, <2>5, <1>5, EngineParts
<1> QED BY <1>8, <1>9

\* A request is told to stop, a source changes: nothing held moves.
LEMMA HeldStill ==
  ASSUME EngineInvariant, source' \in [RootKeys -> Nat], work' \in WorkRecord,
         work'.pc = work.pc, work'.key = work.key, work'.original = work.original,
         UNCHANGED <<residents, hot, graph, loaded, conversations, prepared, ids, moved>>
  PROVE  EngineInvariant'
<1>1. EngineTypes /\ HeldOfLoaded /\ WorkFound /\ NavigationKept
  BY DEF EngineInvariant
<1>2. EngineTypes' /\ HeldOfLoaded' /\ WorkFound' /\ NavigationKept'
  BY <1>1 DEF EngineTypes, HeldOfLoaded, WorkFound, NavigationKept, Quiet, root
<1> QED BY <1>2, EngineParts

LEMMA EngineMoves == ASSUME EngineInvariant, [NaviNext]_naviVars PROVE EngineInvariant'
<1>0. source \in [RootKeys -> Nat] /\ work \in WorkRecord
  BY DEF EngineInvariant, EngineTypes
<1>1. CASE UNCHANGED naviVars
  <2>1. UNCHANGED <<source, residents, hot, graph, loaded, conversations, prepared, work, ids, moved>>
    BY <1>1 DEF naviVars
  <2>2. source' \in [RootKeys -> Nat] /\ work' \in WorkRecord
        /\ work'.pc = work.pc /\ work'.key = work.key /\ work'.original = work.original
    BY <2>1, <1>0
  <2> QED BY <2>1, <2>2, HeldStill
<1>2. CASE \E k \in Keys : \E id \in 1..MaxIds : Acknowledge(k, id)
  BY <1>2, AcknowledgeKeeps
<1>3. CASE \E k \in Keys : \E reload \in BOOLEAN : Reset(k, reload)
  BY <1>3, ResetKeeps
<1>4. CASE \E k \in Keys : \E op \in {"sync", "focus", "dwell"}, transient \in BOOLEAN : Begin(k, op, transient)
  BY <1>4, BeginKeeps
<1>5. CASE \E c \in Conversations : RetireOwner(c)
  BY <1>5, RetireOwnerKeeps
<1>6. CASE \E removed \in BOOLEAN : AdmitRoot(removed)
  BY <1>6, AdmitRootKeeps
<1>7. CASE \E removed \in BOOLEAN : Heat(removed)
  BY <1>7, HeatKeeps
<1>8. CASE \E removed \in BOOLEAN : End(removed)
  BY <1>8, EndKeeps
<1>9. CASE \E red \in BOOLEAN : Sync(red)
  BY <1>9, SyncStepKeeps
<1>10. CASE Capture
  BY <1>10, CaptureKeeps
<1>11. CASE Navigate
  BY <1>11, NavigateKeeps
<1>12. CASE Fault
  BY <1>12, FaultKeeps
<1>13. CASE Abort
  <2>1. work' = [work EXCEPT !.signal = TRUE]
        /\ UNCHANGED <<source, residents, hot, graph, loaded, conversations, prepared, ids, moved>>
    BY <1>13 DEF Abort, stores
  <2>2. work' \in WorkRecord /\ work'.pc = work.pc /\ work'.key = work.key /\ work'.original = work.original
    BY <2>1, <1>0, WorkSignalled
  <2> QED BY <2>1, <2>2, <1>0, HeldStill
<1>14. CASE \E r \in RootKeys : Edit(r)
  <2>1. UNCHANGED <<residents, hot, graph, loaded, conversations, prepared, work, ids, moved>>
    BY <1>14 DEF Edit, stores
  <2>2. source' \in [RootKeys -> Nat]
    BY <1>0, <1>14 DEF Edit
  <2> QED BY <2>1, <2>2, <1>0, HeldStill
<1> QED
  BY <1>1, <1>2, <1>3, <1>4, <1>5, <1>6, <1>7, <1>8, <1>9, <1>10, <1>11, <1>12, <1>13, <1>14 DEF NaviNext

\* EngineCurrent (engine.ts): whatever is retired, aborted or reset in between,
\* a preparation that can be acknowledged was judged against the baseline the
\* conversation holds, and only a request that was not aborted moves the
\* navigation.
THEOREM EngineHolds == NaviSpec => []EngineCurrent
<1>1. NaviInit => EngineInvariant
  BY EngineBegins
<1>2. EngineInvariant /\ [NaviNext]_naviVars => EngineInvariant'
  BY EngineMoves
<1>3. EngineInvariant => EngineCurrent
  BY DEF EngineInvariant, EngineCurrent, PreparationCurrent, HeldOfLoaded
<1> QED BY <1>1, <1>2, <1>3, PTL DEF NaviSpec

-----------------------------------------------------------------------------
(* What a conversation is told.                                               *)

Trees == [Files -> Nat]
RepoRecord == [tree : Trees, head : Nat, action : {"commit", "checkout"}, fault : {"none", "gap", "lost", "failed"}]
ConvRecord ==
  [up : BOOLEAN, sha : Trees, routes : SUBSET Files, failed : BOOLEAN, head : Nat, heat : Nat, armed : BOOLEAN,
   pushed : SUBSET (Files \cup {Neighbour}), attention : SUBSET {"src", "out"}, disclosed : SUBSET {Neighbour},
   focus : {"", "src/f", "out/o"}, at : {<<>>} \cup (Trees \X SUBSET Files)]
PrepRecord ==
  [up : {TRUE}, conv : ConvRecord, mass : Nat, warmth : BOOLEAN, embedded : SUBSET (Files \cup {Neighbour}),
   known : SUBSET Files, surprise : Nat]
ToldRecord ==
  [mass : Nat, embedded : SUBSET (Files \cup {Neighbour}), calm : BOOLEAN, known : SUBSET Files, missed : BOOLEAN]
TurnTypes ==
  /\ repo \in RepoRecord /\ conv \in ConvRecord /\ told \in ToldRecord /\ turns \in Nat
  /\ prep = NoPrep \/ prep \in PrepRecord

\* A source that was known at an adoption is in the baseline that was adopted.
KnownHeld(c, known) == known \subseteq {f \in Files : ~IsTest(f) /\ c.sha[f] # 0}
\* The latch is armed only in calm, and what waits for its delivery counts
\* what was told before it.
ArmedInCalm == (conv.armed => told.calm) /\ KnownHeld(conv, told.known)
PreparedCounts ==
  prep.up => /\ prep.conv.up /\ ~prep.conv.armed /\ (prep.warmth => told.calm)
             /\ prep.embedded \cap told.embedded = {}
             /\ prep.conv.heat >= told.mass /\ prep.conv.heat >= prep.mass
             /\ told.embedded \cup prep.embedded \subseteq prep.conv.pushed
             /\ KnownHeld(prep.conv, prep.known)

TurnInvariant == TurnTypes /\ ArmedInCalm /\ PreparedCounts /\ TurnsTold

\* Only the attention grows.
LEMMA AttendsIs ==
  ASSUME NEW c \in ConvRecord, NEW files
  PROVE  /\ Attends(c, files) \in ConvRecord
         /\ Attends(c, files).up = c.up /\ Attends(c, files).sha = c.sha /\ Attends(c, files).heat = c.heat
         /\ Attends(c, files).armed = c.armed /\ Attends(c, files).pushed = c.pushed
         /\ Attends(c, files).disclosed = c.disclosed
<1> DEFINE a == c.attention \cup {Scope(f) : f \in files}
<1>1. a \in SUBSET {"src", "out"}
  BY DEF ConvRecord, Scope
<1>2. Attends(c, files) = [c EXCEPT !.attention = a]
  BY DEF Attends
<1> HIDE DEF a
<1> QED BY <1>1, <1>2 DEF ConvRecord

LEMMA GenerationIs ==
  ASSUME repo \in RepoRecord
  PROVE  FactsOf \in Trees /\ RoutesOf \in SUBSET Files /\ Generation \in Trees \X SUBSET Files
<1>1. FactsOf \in Trees
  BY DEF FactsOf, RepoRecord, Trees
<1>2. RoutesOf \in SUBSET Files
  BY DEF RoutesOf
<1> QED BY <1>1, <1>2 DEF Generation

\* The baseline follows; the ledger, the latch and the embeds stay.
LEMMA CatchesUpIs ==
  ASSUME NEW c \in ConvRecord, repo \in RepoRecord
  PROVE  /\ CatchesUp(c) \in ConvRecord /\ CatchesUp(c).up /\ CatchesUp(c).sha = FactsOf
         /\ CatchesUp(c).heat = c.heat /\ CatchesUp(c).armed = c.armed /\ CatchesUp(c).pushed = c.pushed
<1> DEFINE x == repo.fault = "failed"
<1>1. FactsOf \in Trees /\ RoutesOf \in SUBSET Files /\ repo.head \in Nat
  BY GenerationIs DEF RepoRecord
<1>2. CatchesUp(c) = [c EXCEPT !.up = TRUE, !.sha = FactsOf, !.routes = RoutesOf, !.failed = x, !.head = repo.head]
  BY DEF CatchesUp
<1>3. x \in BOOLEAN
  OBVIOUS
<1> HIDE DEF x
<1> QED BY <1>1, <1>2, <1>3 DEF ConvRecord

LEMMA ForgetsIs ==
  ASSUME NEW c \in ConvRecord, repo \in RepoRecord
  PROVE  Forgets(c) \in ConvRecord /\ Forgets(c).up /\ Forgets(c).sha = FactsOf /\ Forgets(c).heat = 0 /\ Forgets(c).armed /\ Forgets(c).pushed = {}
<1> DEFINE w == CatchesUp(c)
<1>1. w \in ConvRecord /\ w.up /\ w.sha = FactsOf
  BY CatchesUpIs
<1> DEFINE d == Forgets(c)
<1>2. d = [w EXCEPT !.heat = 0, !.armed = TRUE, !.pushed = {}]
  BY DEF Forgets
<1>3. {} \in SUBSET (Files \cup {Neighbour}) /\ 0 \in Nat
  OBVIOUS
<1> HIDE DEF w, d
<1>4. d \in ConvRecord /\ d.up /\ d.sha = FactsOf /\ d.heat = 0 /\ d.armed /\ d.pushed = {}
  BY <1>1, <1>2, <1>3 DEF ConvRecord
<1> QED BY <1>4 DEF d

LEMMA QuietIs ==
  ASSUME NEW c \in ConvRecord, repo \in RepoRecord, NEW mass \in Nat
  PROVE  /\ QuietTurn(c, mass) \in ConvRecord /\ QuietTurn(c, mass).up /\ QuietTurn(c, mass).heat = c.heat
         /\ QuietTurn(c, mass).armed = Rearmed(c, mass) /\ QuietTurn(c, mass).pushed = c.pushed /\ QuietTurn(c, mass).sha = FactsOf
<1> DEFINE w == CatchesUp(c)
           b == Rearmed(c, mass)
<1>1. w \in ConvRecord /\ w.up /\ w.heat = c.heat /\ w.pushed = c.pushed /\ w.sha = FactsOf
  BY CatchesUpIs
<1>2. QuietTurn(c, mass) = [w EXCEPT !.armed = b]
  BY DEF QuietTurn
<1>3. b \in BOOLEAN
  BY DEF Rearmed, ConvRecord
<1> HIDE DEF w, b
<1>4. QuietTurn(c, mass) \in ConvRecord /\ QuietTurn(c, mass).up /\ QuietTurn(c, mass).heat = c.heat
      /\ QuietTurn(c, mass).armed = b /\ QuietTurn(c, mass).pushed = c.pushed /\ QuietTurn(c, mass).sha = FactsOf
  BY <1>1, <1>2, <1>3 DEF ConvRecord
<1> QED BY <1>4 DEF b

LEMMA GreaterOf ==
  ASSUME NEW a \in Nat, NEW b \in Nat
  PROVE  Max({a, b}) \in Nat /\ Max({a, b}) >= a /\ Max({a, b}) >= b /\ (Max({a, b}) = a \/ Max({a, b}) = b)
<1> DEFINE S == {a, b}
<1>1. \E x \in S : \A y \in S : x >= y
  <2>1. CASE a >= b
    BY <2>1
  <2>2. CASE ~(a >= b)
    BY <2>2
  <2> QED BY <2>1, <2>2
<1>2. Max(S) \in S /\ \A y \in S : Max(S) >= y
  BY <1>1 DEF Max
<1> QED BY <1>2

LEMMA SurpriseIs ==
  ASSUME NEW c \in ConvRecord, NEW mass \in Nat
  PROVE  Surprise(c, mass) \in Nat /\ Charged(c, mass) \in Nat /\ Charged(c, mass) >= c.heat
         /\ (Neighbour \notin c.disclosed => Charged(c, mass) >= mass)
<1>1. c.heat \in Nat
  BY DEF ConvRecord
<1>2. Surprise(c, mass) \in Nat
  BY <1>1 DEF Surprise
<1> QED BY <1>1, <1>2, GreaterOf DEF Charged

LEMMA LoudIs ==
  ASSUME NEW c \in ConvRecord, repo \in RepoRecord, NEW mass \in Nat, NEW embedded \in SUBSET (Files \cup {Neighbour})
  PROVE  LET d == Loud(c, mass, embedded) IN
         /\ d \in ConvRecord /\ d.up /\ d.heat = Charged(c, mass) /\ ~d.armed /\ d.pushed = c.pushed \cup embedded /\ d.sha = FactsOf
<1> DEFINE w == Attends(CatchesUp(c), embedded)
           h == Charged(c, mass)
           d == Loud(c, mass, embedded)
<1>1. w \in ConvRecord /\ w.up /\ w.pushed = c.pushed /\ w.sha = FactsOf
  BY CatchesUpIs, AttendsIs
<1>2. h \in Nat
  BY SurpriseIs
<1>3. d = [w EXCEPT !.heat = h, !.armed = FALSE, !.pushed = w.pushed \cup embedded]
  BY DEF Loud
<1> HIDE DEF w, h
<1>4. d \in ConvRecord /\ d.up /\ d.heat = h /\ ~d.armed /\ d.pushed = c.pushed \cup embedded /\ d.sha = FactsOf
  <2> HIDE DEF d
  <2>1. w.pushed \cup embedded \in SUBSET (Files \cup {Neighbour})
    BY <1>1 DEF ConvRecord
  <2> QED BY <1>1, <1>2, <1>3, <2>1 DEF ConvRecord
<1> QED BY <1>4 DEF h

LEMMA TurnBegins == ASSUME TurnInit PROVE TurnInvariant
<1> DEFINE tree0 == [f \in Files |-> 1]
<1>1. tree0 \in Trees
  BY DEF Trees
<1>2. repo = [tree |-> tree0, head |-> 0, action |-> "commit", fault |-> "none"]
  BY DEF TurnInit
<1> HIDE DEF tree0
<1>3. repo \in RepoRecord
  BY <1>1, <1>2 DEF RepoRecord
<1>4. FactsOf \in Trees
  BY <1>3, GenerationIs
<1>5. conv = [up |-> FALSE, sha |-> FactsOf, routes |-> {}, failed |-> FALSE, head |-> 0, heat |-> 0, armed |-> TRUE,
              pushed |-> {}, attention |-> {}, disclosed |-> {}, focus |-> "", at |-> <<>>]
  BY DEF TurnInit, Cold
<1>6. conv \in ConvRecord /\ ~conv.up
  BY <1>4, <1>5 DEF ConvRecord
<1>7. told = [mass |-> 0, embedded |-> {}, calm |-> TRUE, known |-> {}, missed |-> FALSE] /\ prep = NoPrep /\ turns = 0
  BY DEF TurnInit
<1>8. told \in ToldRecord /\ told.calm /\ ~told.missed /\ KnownHeld(conv, told.known)
  BY <1>7 DEF ToldRecord, KnownHeld
<1>9. ~prep.up
  BY <1>7 DEF NoPrep
<1> QED BY <1>3, <1>6, <1>7, <1>8, <1>9
     DEF TurnInvariant, TurnTypes, ArmedInCalm, PreparedCounts, TurnsTold, NothingMissed, LedgerKept

\* What must hold of a conversation when no report waits.
LEMMA NothingWaits ==
  ASSUME TurnInvariant, conv' \in ConvRecord, told' \in ToldRecord, prep' = NoPrep, UNCHANGED <<repo, turns>>,
         conv'.armed => told'.calm, ~told'.missed, KnownHeld(conv', told'.known),
         conv'.up => conv'.heat >= told'.mass /\ told'.embedded \subseteq conv'.pushed
  PROVE  TurnInvariant'
<1>1. repo \in RepoRecord /\ turns \in Nat
  BY DEF TurnInvariant, TurnTypes
<1>2. ~prep'.up
  BY DEF NoPrep
<1> QED
  BY <1>1, <1>2 DEF TurnInvariant, TurnTypes, ArmedInCalm, PreparedCounts, TurnsTold, NothingMissed, LedgerKept

\* A conversation that is judged: itself, or what attends to more.
Judged(c) ==
  /\ c \in ConvRecord /\ c.up = conv.up /\ c.sha = conv.sha /\ c.heat = conv.heat /\ c.armed = conv.armed
  /\ c.pushed = conv.pushed /\ c.disclosed = conv.disclosed

LEMMA TurnFacts ==
  ASSUME TurnInvariant
  PROVE  /\ repo \in RepoRecord /\ conv \in ConvRecord /\ told \in ToldRecord /\ turns \in Nat
         /\ (conv.armed => told.calm) /\ ~told.missed /\ KnownHeld(conv, told.known) /\ told.known \in SUBSET Files
         /\ (conv.up => conv.heat >= told.mass /\ told.embedded \subseteq conv.pushed)
         /\ told.mass \in Nat /\ told.calm \in BOOLEAN /\ conv.heat \in Nat
         /\ told.embedded \in SUBSET (Files \cup {Neighbour})
BY DEF TurnInvariant, TurnTypes, ArmedInCalm, TurnsTold, NothingMissed, LedgerKept, ToldRecord, ConvRecord

LEMMA AfreshTold ==
  ASSUME TurnInvariant, NEW k \in SUBSET Files, NEW w,
         w = [told EXCEPT !.mass = 0, !.embedded = {}, !.calm = TRUE, !.known = k]
  PROVE  w \in ToldRecord /\ w.mass = 0 /\ w.embedded = {} /\ w.calm /\ w.known = k /\ ~w.missed
<1>1. told \in ToldRecord /\ ~told.missed
  BY TurnFacts
<1> QED BY <1>1 DEF ToldRecord

\* Nothing that was deleted is passed over.
LEMMA DeletedSeen ==
  ASSUME repo \in RepoRecord, NEW c \in ConvRecord, NEW f \in Files, c.sha[f] # 0, repo.tree[f] = 0
  PROVE  f \in Deleted(c)
<1>1. FactsOf[f] = 0
  BY DEF FactsOf
<1> QED BY <1>1 DEF Deleted

\* What is knowable at an adoption is in the baseline it adopts.
LEMMA KnowableIs ==
  ASSUME repo \in RepoRecord, NEW c, c.sha = FactsOf
  PROVE  Knowable \in SUBSET Files /\ KnownHeld(c, Knowable)
BY DEF Knowable, KnownHeld, FactsOf

LEMMA NothingPassed ==
  ASSUME TurnInvariant, NEW c, Judged(c), NEW whole \in BOOLEAN, \A f \in Deleted(c) \cap Relevant(c, whole) : IsTest(f)
  PROVE  ~PassesOver(c, whole)
<1>1. c \in ConvRecord /\ repo \in RepoRecord /\ KnownHeld(c, told.known)
  BY TurnFacts DEF Judged, KnownHeld
<1> QED BY <1>1, DeletedSeen DEF PassesOver, KnownHeld

LEMMA SilentKeeps ==
  ASSUME TurnInvariant, NEW c, Judged(c), NEW whole \in BOOLEAN, Silent(c, whole)
  PROVE  TurnInvariant'
<1>1. c \in ConvRecord /\ c.up = conv.up /\ c.heat = conv.heat /\ c.armed = conv.armed /\ c.pushed = conv.pushed
      /\ UNCHANGED <<repo, turns>>
  BY DEF Judged, Silent
<1>2. repo \in RepoRecord /\ told \in ToldRecord /\ (conv.armed => told.calm) /\ ~told.missed
      /\ (conv.up => conv.heat >= told.mass /\ told.embedded \subseteq conv.pushed) /\ told.mass \in Nat
  BY TurnFacts
<1>3. CASE /\ Adopt(Forgets(c)) /\ told' = [told EXCEPT !.mass = 0, !.embedded = {}, !.calm = TRUE, !.known = Knowable]
  <2>1. /\ conv' \in ConvRecord /\ conv'.heat = 0 /\ conv'.sha = FactsOf /\ prep' = NoPrep
    BY <1>1, <1>2, <1>3, ForgetsIs DEF Adopt
  <2>2. Knowable \in SUBSET Files /\ KnownHeld(conv', Knowable)
    BY <1>2, <2>1, KnowableIs
  <2>3. told' \in ToldRecord /\ told'.mass = 0 /\ told'.embedded = {} /\ told'.calm /\ told'.known = Knowable /\ ~told'.missed
    BY <1>3, <2>2, AfreshTold
  <2> QED BY <1>1, <2>1, <2>2, <2>3, NothingWaits
<1>4. CASE c.up /\ ~Drifted(c) /\ Adopt(c) /\ told' = [told EXCEPT !.missed = @ \/ PassesOver(c, whole)]
  <2>1. Deleted(c) = {}
    BY <1>4 DEF Drifted, Deleted
  <2>2. ~PassesOver(c, whole)
    BY <2>1, NothingPassed
  <2>3. told' = told
    <3>1. told' = [told EXCEPT !.missed = FALSE]
      BY <1>2, <1>4, <2>2
    <3> QED BY <3>1, <1>2 DEF ToldRecord
  <2>4. conv' = c /\ prep' = NoPrep /\ KnownHeld(c, told.known)
    BY <1>4, TurnFacts DEF Adopt, Judged, KnownHeld
  <2> QED BY <1>1, <1>2, <2>3, <2>4, NothingWaits
<1>5. CASE /\ OutsideOnly(c, whole) /\ Adopt(KeepsLedger(c)) /\ c.up
           /\ told' = [told EXCEPT !.known = Knowable, !.missed = @ \/ PassesOver(c, whole)]
  <2>1. Deleted(c) \cap Relevant(c, whole) = {}
    BY <1>5 DEF OutsideOnly
  <2>2. ~PassesOver(c, whole)
    BY <2>1, NothingPassed
  <2>3. told' = [told EXCEPT !.known = Knowable, !.missed = FALSE]
    BY <1>2, <1>5, <2>2
  <2>4. /\ conv' \in ConvRecord /\ conv'.heat = c.heat /\ conv'.armed = c.armed /\ conv'.pushed = c.pushed
        /\ conv'.sha = FactsOf /\ prep' = NoPrep
    BY <1>1, <1>2, <1>5, CatchesUpIs DEF Adopt, KeepsLedger
  <2>5. Knowable \in SUBSET Files /\ KnownHeld(conv', Knowable)
    BY <1>2, <2>4, KnowableIs
  <2>6. /\ told' \in ToldRecord /\ told'.mass = told.mass /\ told'.embedded = told.embedded /\ told'.calm = told.calm
        /\ told'.known = Knowable /\ ~told'.missed
    BY <2>3, <2>5, <1>2 DEF ToldRecord
  <2> QED BY <1>1, <1>2, <1>5, <2>4, <2>5, <2>6, NothingWaits
<1> QED BY <1>3, <1>4, <1>5 DEF Silent

LEMMA QuietVerdict ==
  ASSUME TurnInvariant, NEW c, Judged(c), NEW whole \in BOOLEAN, NEW warm \in Nat,
         ~StructuralRed(c, Relevant(c, whole)), c.up, Adopt(QuietTurn(c, warm)), UNCHANGED <<repo, turns>>,
         told' = [told EXCEPT !.calm = @ \/ 2 * Surprise(c, warm) <= Threshold, !.known = Knowable,
                              !.missed = @ \/ PassesOver(c, whole)]
  PROVE  TurnInvariant'
<1>1. c \in ConvRecord /\ c.up = conv.up /\ c.heat = conv.heat /\ c.armed = conv.armed /\ c.pushed = conv.pushed
  BY DEF Judged
<1>2. repo \in RepoRecord /\ told \in ToldRecord /\ (conv.armed => told.calm) /\ ~told.missed /\ told.calm \in BOOLEAN
      /\ (conv.up => conv.heat >= told.mass /\ told.embedded \subseteq conv.pushed) /\ told.mass \in Nat
  BY TurnFacts
<1>3. ~PassesOver(c, whole)
  <2>1. \A f \in Deleted(c) \cap Relevant(c, whole) : IsTest(f)
    BY DEF StructuralRed
  <2> QED BY <2>1, NothingPassed
<1> DEFINE low == 2 * Surprise(c, warm) <= Threshold
           x == told.calm \/ low
<1>4. told' = [told EXCEPT !.calm = x, !.known = Knowable, !.missed = FALSE]
  BY <1>2, <1>3
<1>5. x \in BOOLEAN /\ (told.calm => x) /\ (low => x)
  OBVIOUS
<1>6. QuietTurn(c, warm).armed => c.armed \/ low
  BY <1>1, <1>2, QuietIs DEF Rearmed
<1>8. /\ conv' = QuietTurn(c, warm) /\ prep' = NoPrep /\ conv'.sha = FactsOf
      /\ conv' \in ConvRecord /\ conv'.heat = c.heat /\ conv'.pushed = c.pushed
  BY <1>1, <1>2, QuietIs DEF Adopt
<1>10. Knowable \in SUBSET Files /\ KnownHeld(conv', Knowable)
  BY <1>2, <1>8, KnowableIs
<1> HIDE DEF x, low
<1>7. /\ told' \in ToldRecord /\ told'.mass = told.mass /\ told'.embedded = told.embedded /\ told'.calm = x
      /\ told'.known = Knowable /\ ~told'.missed
  BY <1>2, <1>4, <1>5, <1>10 DEF ToldRecord
<1>9. conv'.armed => told'.calm
  BY <1>1, <1>2, <1>5, <1>6, <1>7, <1>8
<1> QED BY <1>1, <1>2, <1>7, <1>8, <1>9, <1>10, NothingWaits

LEMMA RedVerdict ==
  ASSUME TurnInvariant, NEW c, Judged(c), NEW ours, NEW warm \in Nat, c.up,
         StructuralRed(c, ours) \/ WarmthFire(c, warm), UNCHANGED <<repo, turns, conv, told>>,
         NEW embedded \in {{}, {t \in Target(c, ours, warm) \ c.pushed : t # Neighbour => FactsOf[t] # 0}},
         prep' = [up |-> TRUE, conv |-> Loud(c, warm, embedded), mass |-> IF Neighbour \in c.disclosed THEN 0 ELSE warm,
                  warmth |-> ~StructuralRed(c, ours), embedded |-> embedded, known |-> Knowable, surprise |-> Surprise(c, warm)]
  PROVE  TurnInvariant'
<1>1. c \in ConvRecord /\ c.up = conv.up /\ c.heat = conv.heat /\ c.armed = conv.armed /\ c.pushed = conv.pushed
  BY DEF Judged
<1>2. repo \in RepoRecord /\ told \in ToldRecord /\ (conv.armed => told.calm) /\ ~told.missed /\ turns \in Nat
      /\ (conv.up => conv.heat >= told.mass /\ told.embedded \subseteq conv.pushed) /\ told.mass \in Nat /\ conv.heat \in Nat
  BY TurnFacts
<1>3. embedded \in SUBSET (Files \cup {Neighbour}) /\ embedded \cap c.pushed = {}
  <2>1. Target(c, ours, warm) \subseteq Files \cup {Neighbour}
    <3>1. SemanticChanged(c) \cap ours \subseteq Files
      BY DEF SemanticChanged, Changed
    <3> DEFINE files == SemanticChanged(c) \cap ours
    <3>2. files # {} => (CHOOSE f \in files : TRUE) \in files
      OBVIOUS
    <3> QED BY <3>1, <3>2 DEF Target
  <2> QED BY <2>1
<1> DEFINE d == Loud(c, warm, embedded)
           m == IF Neighbour \in c.disclosed THEN 0 ELSE warm
           b == ~StructuralRed(c, ours)
           s == Surprise(c, warm)
<1>4. /\ d \in ConvRecord /\ d.up /\ d.heat = Charged(c, warm) /\ ~d.armed /\ d.pushed = c.pushed \cup embedded
      /\ d.sha = FactsOf
  BY <1>1, <1>2, <1>3, LoudIs
<1>5. s \in Nat /\ Charged(c, warm) \in Nat /\ Charged(c, warm) >= c.heat /\ (Neighbour \notin c.disclosed => Charged(c, warm) >= warm)
  BY <1>1, SurpriseIs
<1>6. m \in Nat /\ Charged(c, warm) >= m
  BY <1>5
<1>7. b \in BOOLEAN /\ (b => told.calm)
  BY <1>1, <1>2 DEF WarmthFire
<1>13. Knowable \in SUBSET Files /\ KnownHeld(d, Knowable)
  BY <1>2, <1>4, KnowableIs
<1>8. prep' = [up |-> TRUE, conv |-> d, mass |-> m, warmth |-> b, embedded |-> embedded, known |-> Knowable, surprise |-> s]
  OBVIOUS
<1> HIDE DEF d, m, b, s
<1>9. prep' \in PrepRecord
  BY <1>3, <1>4, <1>5, <1>6, <1>7, <1>8, <1>13 DEF PrepRecord
<1>10. /\ prep'.conv = d /\ prep'.mass = m /\ prep'.embedded = embedded /\ prep'.known = Knowable /\ (prep'.warmth => told.calm)
  BY <1>7, <1>8
<1>11. PreparedCounts'
  <2>1. d.heat >= told.mass /\ d.heat >= m
    BY <1>1, <1>2, <1>4, <1>5, <1>6
  <2>2. embedded \cap told.embedded = {} /\ told.embedded \cup embedded \subseteq d.pushed
    BY <1>1, <1>2, <1>3, <1>4
  <2> QED BY <2>1, <2>2, <1>4, <1>10, <1>13 DEF PreparedCounts, KnownHeld
<1>12. TurnTypes' /\ ArmedInCalm' /\ TurnsTold'
  BY <1>9 DEF TurnInvariant, TurnTypes, ArmedInCalm, TurnsTold, NothingMissed, LedgerKept
<1> QED BY <1>11, <1>12 DEF TurnInvariant

LEMMA VerdictKeeps ==
  ASSUME TurnInvariant, NEW c, Judged(c), NEW whole \in BOOLEAN, NEW mass \in Nat, Verdict(c, whole, mass)
  PROVE  TurnInvariant'
<1> DEFINE ours == Relevant(c, whole)
           warm == IF SemanticChanged(c) \cap ours = {} THEN 0 ELSE mass
<1>1. warm \in Nat /\ c.up /\ UNCHANGED <<repo, turns>>
  BY SMTT(40) DEF Verdict
<1>2. CASE /\ ~(StructuralRed(c, ours) \/ WarmthFire(c, warm)) /\ Adopt(QuietTurn(c, warm))
           /\ told' = [told EXCEPT !.calm = @ \/ 2 * Surprise(c, warm) <= Threshold, !.known = Knowable,
                                   !.missed = @ \/ PassesOver(c, whole)]
  <2> HIDE DEF warm
  <2> QED BY <1>1, <1>2, QuietVerdict
<1>3. ASSUME StructuralRed(c, ours) \/ WarmthFire(c, warm), UNCHANGED <<conv, told>>,
             NEW embedded \in {{}, {t \in Target(c, ours, warm) \ c.pushed : t # Neighbour => FactsOf[t] # 0}},
             prep' = [up |-> TRUE, conv |-> Loud(c, warm, embedded), mass |-> IF Neighbour \in c.disclosed THEN 0 ELSE warm,
                      warmth |-> ~StructuralRed(c, ours), embedded |-> embedded, known |-> Knowable, surprise |-> Surprise(c, warm)]
      PROVE  TurnInvariant'
  <2> HIDE DEF warm, ours
  <2> QED BY <1>1, <1>3, RedVerdict
<1> QED BY <1>2, <1>3 DEF Verdict

LEMMA DeliveredKeeps == ASSUME TurnInvariant, Delivered PROVE TurnInvariant'
<1>1. /\ prep.up /\ prep' = NoPrep /\ UNCHANGED <<repo, turns>>
      /\ conv' = [prep.conv EXCEPT !.disclosed = conv.disclosed, !.focus = conv.focus, !.at = conv.at]
      /\ told' = [told EXCEPT !.mass = Max({@, prep.mass}), !.embedded = @ \cup prep.embedded, !.calm = FALSE, !.known = prep.known,
                              !.missed = @ \/ (prep.warmth /\ ~told.calm) \/ prep.embedded \cap told.embedded # {}]
  BY DEF Delivered
<1>2. prep \in PrepRecord
  BY <1>1 DEF TurnInvariant, TurnTypes, NoPrep
<1>3. /\ prep.conv \in ConvRecord /\ prep.mass \in Nat /\ prep.embedded \in SUBSET (Files \cup {Neighbour})
      /\ prep.conv.up /\ ~prep.conv.armed /\ (prep.warmth => told.calm) /\ prep.embedded \cap told.embedded = {}
      /\ prep.conv.heat >= told.mass /\ prep.conv.heat >= prep.mass /\ told.embedded \cup prep.embedded \subseteq prep.conv.pushed
      /\ prep.known \in SUBSET Files /\ KnownHeld(prep.conv, prep.known)
  BY <1>1, <1>2 DEF PrepRecord, TurnInvariant, PreparedCounts
<1>4. conv \in ConvRecord /\ told \in ToldRecord /\ ~told.missed /\ told.mass \in Nat
      /\ told.embedded \in SUBSET (Files \cup {Neighbour})
  BY TurnFacts
<1> DEFINE m == Max({told.mass, prep.mass})
           e == told.embedded \cup prep.embedded
           p == prep.conv
           k == prep.known
<1>5. m \in Nat /\ (m = told.mass \/ m = prep.mass)
  BY <1>3, <1>4, GreaterOf
<1>6. told' = [told EXCEPT !.mass = m, !.embedded = e, !.calm = FALSE, !.known = k, !.missed = FALSE]
  BY <1>1, <1>3, <1>4
<1>7. e \in SUBSET (Files \cup {Neighbour}) /\ e \subseteq p.pushed
  BY <1>3, <1>4
<1>8. p.heat >= m
  BY <1>3, <1>5
<1>9. p \in ConvRecord /\ ~p.armed /\ conv' = [p EXCEPT !.disclosed = conv.disclosed, !.focus = conv.focus, !.at = conv.at]
  BY <1>1, <1>3
<1>12. k \in SUBSET Files /\ KnownHeld(p, k)
  BY <1>3
<1> HIDE DEF m, e, p, k
<1>10. told' \in ToldRecord /\ told'.mass = m /\ told'.embedded = e /\ told'.known = k /\ ~told'.missed
  BY <1>4, <1>5, <1>6, <1>7, <1>12 DEF ToldRecord
<1>11. conv' \in ConvRecord /\ conv'.heat = p.heat /\ conv'.pushed = p.pushed /\ ~conv'.armed /\ conv'.sha = p.sha
  BY <1>4, <1>9 DEF ConvRecord
<1>13. KnownHeld(conv', told'.known)
  BY <1>10, <1>11, <1>12 DEF KnownHeld
<1> QED BY <1>1, <1>7, <1>8, <1>10, <1>11, <1>13, NothingWaits

\* Navigation touches neither the ledger nor the latch.
Navigated(c) ==
  c \in ConvRecord /\ c.up = conv.up /\ c.sha = conv.sha /\ c.heat = conv.heat /\ c.armed = conv.armed /\ c.pushed = conv.pushed
LEMMA NavigatedKeeps ==
  ASSUME TurnInvariant, Navigated(conv'), UNCHANGED <<repo, prep, told, turns>> PROVE TurnInvariant'
<1>1. TurnTypes'
  BY DEF TurnInvariant, TurnTypes, Navigated
<1>2. ArmedInCalm' /\ PreparedCounts' /\ TurnsTold'
  BY DEF TurnInvariant, ArmedInCalm, PreparedCounts, TurnsTold, NothingMissed, LedgerKept, Navigated, KnownHeld
<1> QED BY <1>1, <1>2 DEF TurnInvariant

LEMMA ClearedIs == ASSUME NEW c \in ConvRecord, Navigated(c) PROVE Navigated(Cleared(c))
<1> DEFINE d == Cleared(c)
<1>1. d = [c EXCEPT !.disclosed = {}, !.focus = "", !.at = <<>>]
  BY DEF Cleared
<1>2. {} \in SUBSET {Neighbour} /\ "" \in {"", "src/f", "out/o"} /\ <<>> \in {<<>>} \cup (Trees \X SUBSET Files)
  OBVIOUS
<1> HIDE DEF d
<1>3. d \in ConvRecord /\ d.up = c.up /\ d.sha = c.sha /\ d.heat = c.heat /\ d.armed = c.armed /\ d.pushed = c.pushed
  BY <1>1, <1>2 DEF ConvRecord
<1>4. Navigated(d)
  BY <1>3 DEF Navigated
<1> QED BY <1>4 DEF d

LEMMA ItNavigates == ASSUME TurnInvariant PROVE Navigated(conv)
BY TurnFacts DEF Navigated

LEMMA FocusKeeps ==
  ASSUME TurnInvariant, NEW f \in {"src/f", "out/o"}, NEW seen \in SUBSET {Neighbour}, Focus(f, seen) PROVE TurnInvariant'
<1> DEFINE c == IF conv.focus # f \/ conv.at # Generation THEN Cleared(conv) ELSE conv
           g == Generation
           n == c.disclosed \cup (seen \ Files)
           d == [c EXCEPT !.disclosed = n, !.focus = f, !.at = g]
<1>1. UNCHANGED <<repo, prep, told, turns>> /\ conv' = Attends(d, seen \cup {f})
  BY DEF Focus
<1>2. conv \in ConvRecord /\ repo \in RepoRecord
  BY TurnFacts
<1>3. Navigated(c)
  BY <1>2, ItNavigates, ClearedIs
<1>4. g \in {<<>>} \cup (Trees \X SUBSET Files)
  BY <1>2, GenerationIs
<1> HIDE DEF c, g
<1>5. n \in SUBSET {Neighbour}
  BY <1>3 DEF Navigated, ConvRecord
<1> HIDE DEF n
<1>6. d \in ConvRecord /\ d.up = c.up /\ d.sha = c.sha /\ d.heat = c.heat /\ d.armed = c.armed /\ d.pushed = c.pushed
  <2>1. c \in ConvRecord /\ f \in {"", "src/f", "out/o"}
    BY <1>3 DEF Navigated
  <2> QED BY <2>1, <1>4, <1>5 DEF ConvRecord
<1> HIDE DEF d
<1>7. Navigated(conv')
  BY <1>1, <1>3, <1>6, AttendsIs DEF Navigated
<1> QED BY <1>1, <1>7, NavigatedKeeps

LEMMA DwellKeeps ==
  ASSUME TurnInvariant, NEW seen \in SUBSET {Neighbour}, Dwell(seen) PROVE TurnInvariant'
<1> DEFINE n == conv.disclosed \cup (seen \ Files)
           d == [conv EXCEPT !.disclosed = n]
<1>1. UNCHANGED <<repo, prep, told, turns>> /\ (conv' = Cleared(conv) \/ conv' = Attends(d, seen))
  BY DEF Dwell
<1>2. conv \in ConvRecord
  BY TurnFacts
<1>3. n \in SUBSET {Neighbour}
  BY <1>2 DEF ConvRecord
<1> HIDE DEF n
<1>4. d \in ConvRecord /\ d.up = conv.up /\ d.sha = conv.sha /\ d.heat = conv.heat /\ d.armed = conv.armed /\ d.pushed = conv.pushed
  BY <1>2, <1>3 DEF ConvRecord
<1> HIDE DEF d
<1>5. Navigated(conv')
  <2>1. CASE conv' = Cleared(conv)
    BY <2>1, <1>2, ItNavigates, ClearedIs
  <2>2. CASE conv' = Attends(d, seen)
    BY <2>2, <1>4, AttendsIs DEF Navigated
  <2> QED BY <1>1, <2>1, <2>2
<1> QED BY <1>1, <1>5, NavigatedKeeps

LEMMA ResetTurnKeeps == ASSUME TurnInvariant, ResetTurn PROVE TurnInvariant'
<1>1. conv \in ConvRecord /\ repo \in RepoRecord
  BY TurnFacts
<1>2. told' \in ToldRecord /\ told'.calm /\ ~told'.missed /\ told'.known = {}
  BY AfreshTold DEF ResetTurn
<1>7. KnownHeld(conv', told'.known)
  BY <1>2 DEF KnownHeld
<1>3. conv.sha \in Trees /\ FactsOf \in Trees
  BY <1>1, GenerationIs DEF ConvRecord
<1> DEFINE s == conv.sha
<1>4. conv' = [up |-> FALSE, sha |-> s, routes |-> {}, failed |-> FALSE, head |-> 0, heat |-> 0, armed |-> TRUE,
               pushed |-> {}, attention |-> {}, disclosed |-> {}, focus |-> "", at |-> <<>>]
  BY DEF ResetTurn, Cold
<1> HIDE DEF s
<1>5. s \in Trees
  BY <1>3 DEF s
<1>6. conv' \in ConvRecord /\ ~conv'.up
  BY <1>4, <1>5 DEF ConvRecord
<1> QED BY <1>2, <1>6, <1>7, NothingWaits DEF ResetTurn

LEMMA CoolsKeeps == ASSUME TurnInvariant, Cools PROVE TurnInvariant'
<1> DEFINE h == conv.heat \div 2
           m == told.mass \div 2
<1>1. conv' = [conv EXCEPT !.heat = h] /\ told' = [told EXCEPT !.mass = m] /\ prep' = NoPrep /\ UNCHANGED <<repo, turns>>
  BY DEF Cools
<1>2. conv \in ConvRecord /\ told \in ToldRecord /\ (conv.armed => told.calm) /\ ~told.missed /\ conv.heat \in Nat /\ told.mass \in Nat
      /\ KnownHeld(conv, told.known) /\ (conv.up => conv.heat >= told.mass /\ told.embedded \subseteq conv.pushed)
  BY TurnFacts
<1>3. h \in Nat /\ m \in Nat /\ (conv.heat >= told.mass => h >= m)
  BY <1>2
<1> HIDE DEF h, m
<1>4. /\ conv' \in ConvRecord /\ conv'.heat = h /\ conv'.up = conv.up /\ conv'.armed = conv.armed /\ conv'.pushed = conv.pushed
      /\ conv'.sha = conv.sha
  BY <1>1, <1>2, <1>3 DEF ConvRecord
<1>5. /\ told' \in ToldRecord /\ told'.mass = m /\ told'.calm = told.calm /\ told'.embedded = told.embedded /\ ~told'.missed
      /\ told'.known = told.known
  BY <1>1, <1>2, <1>3 DEF ToldRecord
<1>6. KnownHeld(conv', told'.known)
  BY <1>2, <1>4, <1>5 DEF KnownHeld
<1> QED BY <1>1, <1>2, <1>3, <1>4, <1>5, <1>6, NothingWaits

LEMMA TurnKeeps ==
  ASSUME TurnInvariant, NEW r \in RepoRecord, Turn(r) PROVE TurnInvariant'
<1>1. repo' = r /\ turns' = turns + 1 /\ UNCHANGED <<conv, prep, told>>
  BY DEF Turn
<1> QED
  BY <1>1 DEF TurnInvariant, TurnTypes, ArmedInCalm, PreparedCounts, TurnsTold, NothingMissed, LedgerKept, KnownHeld

LEMMA TurnMoves == ASSUME TurnInvariant, [TurnNext]_turnVars PROVE TurnInvariant'
<1>0. repo \in RepoRecord /\ conv \in ConvRecord
  BY TurnFacts
<1>1. CASE UNCHANGED turnVars
  BY <1>1 DEF turnVars, TurnInvariant, TurnTypes, ArmedInCalm, PreparedCounts, TurnsTold, NothingMissed, LedgerKept, KnownHeld
<1>2. CASE SyncTurn
  <2>1. PICK c \in {conv, Attends(conv, {"src/f"})}, whole \in BOOLEAN :
          Silent(c, whole) \/ \E mass \in {0, Threshold, MaxMass} : Verdict(c, whole, mass)
    BY <1>2 DEF SyncTurn
  <2>2. Judged(c)
    BY <1>0, AttendsIs DEF Judged
  <2>3. {0, Threshold, MaxMass} \subseteq Nat
    BY TurnAssumption
  <2> QED BY <2>1, <2>2, <2>3, SilentKeeps, VerdictKeeps
<1>3. CASE Delivered
  BY <1>3, DeliveredKeeps
<1>4. CASE NavigateTurn
  BY <1>4, FocusKeeps, DwellKeeps DEF NavigateTurn
<1>5. CASE ResetTurn
  BY <1>5, ResetTurnKeeps
<1>6. CASE Cools
  BY <1>6, CoolsKeeps
<1>7. CASE RepoMoves
  <2>1. ASSUME NEW f \in Files, NEW x \in TreeContents, EditTree(f, x) PROVE TurnInvariant'
    <3> DEFINE r == [repo EXCEPT !.tree[f] = x]
    <3>1. r \in RepoRecord
      BY <1>0 DEF RepoRecord, Trees, TreeContents
    <3>2. Turn(r)
      BY <2>1 DEF EditTree
    <3> HIDE DEF r
    <3> QED BY <3>1, <3>2, TurnKeeps
  <2>2. ASSUME NEW x \in {1, 2}, NEW a \in {"commit", "checkout"}, Switch(x, a) PROVE TurnInvariant'
    <3> DEFINE r == [repo EXCEPT !.tree["src/f"] = x, !.head = @ + 1, !.action = a]
    <3>1. r \in RepoRecord
      <4> DEFINE t == [repo.tree EXCEPT !["src/f"] = x]
                 n == repo.head + 1
      <4>0. repo.tree \in [Files -> Nat] /\ repo.head \in Nat /\ x \in Nat /\ "src/f" \in Files
        BY <1>0 DEF RepoRecord, Trees, Files
      <4>1. t \in Trees /\ n \in Nat
        BY <4>0 DEF Trees
      <4>2. r = [repo EXCEPT !.tree = t, !.head = n, !.action = a]
        OBVIOUS
      <4> HIDE DEF t, n, r
      <4> QED BY <1>0, <4>1, <4>2 DEF RepoRecord
    <3>2. Turn(r)
      BY <2>2 DEF Switch
    <3> HIDE DEF r
    <3> QED BY <3>1, <3>2, TurnKeeps
  <2>3. ASSUME NEW k \in {"none", "gap", "lost", "failed"}, EngineFault(k) PROVE TurnInvariant'
    <3> DEFINE r == [repo EXCEPT !.fault = k]
    <3>1. r \in RepoRecord
      BY <1>0 DEF RepoRecord
    <3>2. Turn(r)
      BY <2>3 DEF EngineFault
    <3> HIDE DEF r
    <3> QED BY <3>1, <3>2, TurnKeeps
  <2> QED BY <1>7, <2>1, <2>2, <2>3 DEF RepoMoves
<1> QED BY <1>1, <1>2, <1>3, <1>4, <1>5, <1>6, <1>7 DEF TurnNext

\* TurnsTold (core/sync.ts): over any sequence of turns no sync ends in silence
\* over the deletion of an attended source that the last baseline knew, that is,
\* of one adopted neither while a gap withheld the source nor by the checkout that
\* deleted it; no target is embedded twice, warmth alone is not told twice without
\* a calm turn, and the ledger holds at least what was told.
THEOREM TurnsHold == TurnSpec => []TurnsTold
<1>1. TurnInit => TurnInvariant
  BY TurnBegins
<1>2. TurnInvariant /\ [TurnNext]_turnVars => TurnInvariant'
  BY TurnMoves
<1>3. TurnInvariant => TurnsTold
  BY DEF TurnInvariant
<1> QED BY <1>1, <1>2, <1>3, PTL DEF TurnSpec

-----------------------------------------------------------------------------
(* The facts about the files.                                                 *)

Stock == [FactSources -> Nat]
WorldRecord == [tree : Stock, committed : Stock, head : Nat, git : BOOLEAN, marker : BOOLEAN, parser : Nat]
StoreRecord ==
  [up : BOOLEAN, facts : Stock, complete : SUBSET FactSources, tainted : SUBSET FactSources, listed : SUBSET FactSources,
   dirty : SUBSET {"a", "n"}, head : Nat, kind : {"git", "plain"}, enrolled : BOOLEAN, same : SUBSET FactSources,
   parser : Nat]
CacheRecord ==
  [up : BOOLEAN, facts : Stock, complete : SUBSET FactSources, tainted : SUBSET FactSources, enrolled : BOOLEAN,
   same : SUBSET FactSources, parser : Nat]
FactTypes == world \in WorldRecord /\ st \in StoreRecord /\ cache \in CacheRecord /\ looked \in BOOLEAN /\ acts \in Nat

\* What is unchanged since it was read is as it was read, unless it failed.
Sound(s) ==
  \A f \in FactSources \ s.tainted : (f \in s.same => s.facts[f] = world.tree[f]) /\ (s.facts[f] # 0 => f \in s.complete)

\* No cache was ever written with a boundary open; what is known and not
\* listed is dirty, or lies behind a boundary that vanished.
Boundaries ==
  /\ ~cache.enrolled /\ ("n/b" \in st.listed => st.enrolled)
  /\ \A f \in KnownFiles(st) \ st.listed : (f = "a" /\ "a" \in st.dirty) \/ (f = "n/b" /\ ~world.marker)

\* At an unmoved head what is not dirty has the facts of the commit, and what
\* is not listed is dirty just when the commit has it.
PathOf(f) == IF f = "a" THEN "a" ELSE "n"
Basis ==
  /\ st.head <= world.head /\ (st.up /\ st.kind = "plain" => ~world.git)
  /\ st.up /\ st.kind = "git" /\ st.head = world.head =>
       \A f \in FactSources :
         /\ f \in st.listed \ st.tainted /\ PathOf(f) \notin st.dirty => st.facts[f] = world.committed[f]
         /\ f \notin st.listed /\ (f = "n/b" => st.enrolled) => (world.committed[f] = 0 <=> PathOf(f) \notin st.dirty)

\* What was just brought up to date.
Looks ==
  looked /\ st.up => /\ st.kind = "git" => world.git
                     /\ st.kind = "plain" => Discovered(st.enrolled) \subseteq st.listed

FactsInvariant == FactTypes /\ Sound(st) /\ Sound(cache) /\ Boundaries /\ Basis /\ Looks /\ FactsFollow

LEMMA WorldIs ==
  ASSUME world \in WorldRecord
  PROVE  /\ world.tree \in Stock /\ world.committed \in Stock /\ world.head \in Nat /\ world.parser \in Nat
         /\ world.git \in BOOLEAN /\ world.marker \in BOOLEAN
         /\ \A f \in FactSources : world.tree[f] \in Nat /\ world.committed[f] \in Nat
BY DEF WorldRecord, Stock

LEMMA StoreIs ==
  ASSUME NEW s \in StoreRecord
  PROVE  /\ s.up \in BOOLEAN /\ s.facts \in Stock /\ s.complete \in SUBSET FactSources /\ s.tainted \in SUBSET FactSources
         /\ s.listed \in SUBSET FactSources /\ s.dirty \in SUBSET {"a", "n"} /\ s.head \in Nat /\ s.enrolled \in BOOLEAN
         /\ s.same \in SUBSET FactSources /\ s.parser \in Nat /\ s.kind \in {"git", "plain"}
         /\ \A f \in FactSources : s.facts[f] \in Nat
BY DEF StoreRecord, Stock

\* What one pass over the files of a store leaves.
Passed(s, cands, files, e) ==
  /\ e \in StoreRecord /\ e.up = s.up /\ e.listed = s.listed /\ e.dirty = s.dirty /\ e.head = s.head
  /\ e.kind = s.kind /\ e.enrolled = s.enrolled /\ e.parser = s.parser /\ Sound(e)
  /\ \A f \in FactSources \ cands : e.facts[f] = s.facts[f]
  /\ \A f \in cands \ e.tainted : e.facts[f] = world.tree[f]
  /\ \A f \in cands : world.tree[f] = 0 => e.facts[f] = 0
  /\ \A f \in e.tainted : f \in s.tainted \/ (f \in cands /\ world.tree[f] # 0) \/ (f \in files /\ s.facts[f] # 0)

LEMMA ExtractedIs ==
  ASSUME world \in WorldRecord, NEW s \in StoreRecord, NEW cands \in SUBSET FactSources, NEW files \in SUBSET FactSources,
         NEW backoff, NEW reanchor, NEW failing, Sound(s)
  PROVE  Passed(s, cands, files, Extracted(s, cands, files, backoff, reanchor, failing))
<1> DEFINE dirty == Dirty(s, cands, backoff)
           stale == IF reanchor THEN {f \in files \ dirty : s.facts[f] # 0} ELSE {}
           read == Readable(cands)
           unread == cands \ read
           facts == [f \in FactSources |-> IF f \in unread THEN 0 ELSE IF f \in dirty THEN world.tree[f] ELSE s.facts[f]]
           complete == (s.complete \cup dirty) \ (failing \cap (dirty \cup stale))
           tainted == (s.tainted \ dirty) \cup (failing \cap (dirty \cup stale))
           same == (s.same \cup read) \ unread
           waiting == WaitingFor(s, backoff)
           e == Extracted(s, cands, files, backoff, reanchor, failing)
<1>1. read = {f \in cands : world.tree[f] # 0}
  BY DEF Readable
<1>2. waiting \subseteq s.tainted /\ waiting \subseteq s.same
  BY DEF WaitingFor
<1>3. dirty = {f \in read \ waiting : s.facts[f] # world.tree[f] \/ f \in s.tainted}
  BY DEF Dirty
<1>4. stale \subseteq files /\ \A f \in stale : s.facts[f] # 0
  OBVIOUS
<1>5. e = [s EXCEPT !.facts = facts, !.complete = complete, !.tainted = tainted, !.same = same]
  BY DEF Extracted, SettledFacts
<1> HIDE DEF dirty, read, waiting, stale, e
<1>6. /\ s.facts \in Stock /\ s.complete \in SUBSET FactSources /\ s.tainted \in SUBSET FactSources
      /\ s.same \in SUBSET FactSources /\ world.tree \in Stock
  BY StoreIs, WorldIs
<1>7. /\ dirty \subseteq cands /\ read \subseteq cands /\ stale \subseteq FactSources
  BY <1>1, <1>3, <1>4
<1>8. facts \in Stock
  BY <1>6 DEF Stock
<1>9. complete \in SUBSET FactSources /\ tainted \in SUBSET FactSources /\ same \in SUBSET FactSources
  BY <1>6, <1>7
<1>10. \A f \in FactSources : facts[f] = IF f \in unread THEN 0 ELSE IF f \in dirty THEN world.tree[f] ELSE s.facts[f]
  OBVIOUS
<1> HIDE DEF facts, complete, tainted, same
<1>11. /\ e \in StoreRecord /\ e.up = s.up /\ e.listed = s.listed /\ e.dirty = s.dirty /\ e.head = s.head
       /\ e.kind = s.kind /\ e.enrolled = s.enrolled /\ e.parser = s.parser
       /\ e.facts = facts /\ e.complete = complete /\ e.tainted = tainted /\ e.same = same
  BY <1>5, <1>8, <1>9 DEF StoreRecord
<1>12. \A f \in FactSources \ cands : facts[f] = s.facts[f]
  BY <1>7, <1>10
<1>13. \A f \in cands : world.tree[f] = 0 => facts[f] = 0
  BY <1>1, <1>10
<1>14. \A f \in cands \ tainted : facts[f] = world.tree[f]
  <2> SUFFICES ASSUME NEW f \in cands, f \notin tainted PROVE facts[f] = world.tree[f]
    OBVIOUS
  <2>1. CASE f \notin read
    BY <2>1, <1>1, <1>10
  <2>2. CASE f \in dirty
    BY <2>2, <1>3, <1>10
  <2>3. CASE f \in read /\ f \notin dirty
    <3>1. f \notin s.tainted
      BY <2>3 DEF tainted
    <3>2. s.facts[f] = world.tree[f]
      BY <2>3, <3>1, <1>2, <1>3
    <3> QED BY <2>3, <3>2, <1>10
  <2> QED BY <2>1, <2>2, <2>3
<1>15. \A f \in tainted : f \in s.tainted \/ (f \in cands /\ world.tree[f] # 0) \/ (f \in files /\ s.facts[f] # 0)
  BY <1>1, <1>3, <1>4, <1>7 DEF tainted
<1>16. Sound(e)
  <2> SUFFICES ASSUME NEW f \in FactSources, f \notin tainted
               PROVE  (f \in same => facts[f] = world.tree[f]) /\ (facts[f] # 0 => f \in complete)
    BY <1>11 DEF Sound
  <2>1. f \in same => facts[f] = world.tree[f]
    <3>1. CASE f \in cands
      BY <3>1, <1>14
    <3>2. CASE f \notin cands /\ f \in same
      <4>1. f \in s.same /\ f \notin s.tainted
        BY <3>2, <1>7 DEF same, tainted
      <4> QED BY <3>2, <4>1, <1>12 DEF Sound
    <3> QED BY <3>1, <3>2
  <2>2. facts[f] # 0 => f \in complete
    <3>1. CASE f \in dirty
      BY <3>1 DEF complete, tainted
    <3>2. CASE f \notin dirty
      <4>1. facts[f] # 0 => facts[f] = s.facts[f]
        BY <3>2, <1>10
      <4>2. f \notin s.tainted
        BY <3>2 DEF tainted
      <4> QED BY <4>1, <4>2 DEF Sound, complete, tainted
    <3> QED BY <3>1, <3>2
  <2> QED BY <2>1, <2>2
<1>17. Passed(s, cands, files, e)
  BY <1>11, <1>12, <1>13, <1>14, <1>15, <1>16 DEF Passed
<1> QED BY <1>17 DEF e

LEMMA KnownIs ==
  ASSUME NEW s \in StoreRecord
  PROVE  /\ KnownFiles(s) \in SUBSET FactSources
         /\ \A f \in FactSources : f \in KnownFiles(s) <=> (s.facts[f] # 0 \/ f \in s.tainted)
BY StoreIs DEF KnownFiles

\* What is forgotten leaves neither facts nor marks.
LEMMA ForgottenIs ==
  ASSUME world \in WorldRecord, NEW s \in StoreRecord, NEW gone \in SUBSET FactSources, NEW e, e = Forgotten(s, gone), Sound(s)
  PROVE  /\ e \in StoreRecord /\ e.up = s.up /\ e.listed = s.listed /\ e.dirty = s.dirty /\ e.head = s.head
         /\ e.kind = s.kind /\ e.enrolled = s.enrolled /\ e.parser = s.parser /\ Sound(e)
         /\ e.tainted = s.tainted \ gone /\ e.same = s.same \ gone
         /\ \A f \in FactSources : e.facts[f] = IF f \in gone THEN 0 ELSE s.facts[f]
<1> DEFINE facts == [f \in FactSources |-> IF f \in gone THEN 0 ELSE s.facts[f]]
           tainted == s.tainted \ gone
           same == s.same \ gone
<1>1. e = [s EXCEPT !.facts = facts, !.tainted = tainted, !.same = same]
  BY DEF Forgotten
<1>2. facts \in Stock
  BY StoreIs DEF Stock
<1>3. tainted \in SUBSET FactSources /\ same \in SUBSET FactSources
  BY StoreIs
<1>4. \A f \in FactSources : facts[f] = IF f \in gone THEN 0 ELSE s.facts[f]
  OBVIOUS
<1> HIDE DEF facts, tainted, same
<1>5. /\ e \in StoreRecord /\ e.up = s.up /\ e.listed = s.listed /\ e.dirty = s.dirty /\ e.head = s.head
      /\ e.kind = s.kind /\ e.enrolled = s.enrolled /\ e.parser = s.parser /\ e.complete = s.complete
      /\ e.facts = facts /\ e.tainted = tainted /\ e.same = same
  BY <1>1, <1>2, <1>3 DEF StoreRecord
<1>6. Sound(e)
  BY <1>4, <1>5 DEF Sound, tainted, same
<1> QED BY <1>4, <1>5, <1>6 DEF tainted, same

\* Another parser marks all that is known.
WithParser(s) ==
  IF s.parser = world.parser THEN s
  ELSE [s EXCEPT !.parser = world.parser, !.tainted = @ \cup {f \in FactSources : s.facts[f] # 0}, !.same = {}]

LEMMA Reparsed ==
  ASSUME world \in WorldRecord, NEW s \in StoreRecord, Sound(s), NEW e,
         e = WithParser(s)
  PROVE  /\ e \in StoreRecord /\ e.up = s.up /\ e.listed = s.listed /\ e.dirty = s.dirty /\ e.head = s.head
         /\ e.kind = s.kind /\ e.enrolled = s.enrolled /\ Sound(e)
         /\ KnownFiles(e) = KnownFiles(s) /\ e.facts = s.facts /\ s.tainted \subseteq e.tainted
<1>1. CASE s.parser = world.parser
  BY <1>1 DEF WithParser
<1>2. CASE s.parser # world.parser
  <2> DEFINE n == {f \in FactSources : s.facts[f] # 0}
             tainted == s.tainted \cup n
             p == world.parser
  <2>1. e = [s EXCEPT !.parser = p, !.tainted = tainted, !.same = {}]
    BY <1>2 DEF WithParser
  <2>2. tainted \in SUBSET FactSources /\ p \in Nat /\ {} \in SUBSET FactSources
    BY StoreIs, WorldIs
  <2>3. \A f \in FactSources : f \in tainted <=> f \in s.tainted \/ s.facts[f] # 0
    OBVIOUS
  <2> HIDE DEF tainted, p, n
  <2>4. /\ e \in StoreRecord /\ e.up = s.up /\ e.listed = s.listed /\ e.dirty = s.dirty /\ e.head = s.head
        /\ e.kind = s.kind /\ e.enrolled = s.enrolled /\ e.facts = s.facts /\ e.tainted = tainted /\ e.same = {}
    BY <2>1, <2>2 DEF StoreRecord
  <2>5. Sound(e)
    BY <2>3, <2>4 DEF Sound
  <2>6. s.tainted \subseteq FactSources
    BY StoreIs
  <2>7. s.tainted \subseteq tainted
    BY <2>3, <2>6
  <2>8. KnownFiles(e) = KnownFiles(s)
    BY <2>2, <2>3, <2>4, <2>6 DEF KnownFiles
  <2> QED BY <2>4, <2>5, <2>7, <2>8
<1> QED BY <1>1, <1>2

\* What a refresh leaves: the facts of the content, except of what it had no
\* reason to look at, and nothing known off the list but what was changed.
Brought(s, files, anew, changed, deleted, e) ==
  /\ e \in StoreRecord /\ e.up = s.up /\ e.listed = files /\ e.dirty = s.dirty /\ e.head = s.head
  /\ e.kind = s.kind /\ e.enrolled = s.enrolled /\ Sound(e)
  /\ \A f \in files \ e.tainted :
       \/ e.facts[f] = world.tree[f]
       \/ f \in deleted /\ e.facts[f] = 0
       \/ f \in KnownFiles(s) \cup s.listed /\ f \notin changed \cup deleted \cup s.tainted /\ e.facts[f] = s.facts[f]
  /\ \A f \in FactSources \ files : f \in KnownFiles(e) =>
       (f \in changed /\ world.tree[f] # 0) \/ (~anew /\ f \in KnownFiles(s))

LEMMA RefreshedIs ==
  ASSUME world \in WorldRecord, NEW s \in StoreRecord, Sound(s), NEW files \in SUBSET FactSources,
         NEW changed \in SUBSET FactSources, NEW deleted, NEW backoff, NEW reanchor, NEW failing, NEW anew
  PROVE  Brought(s, files, anew, changed, deleted, Refreshed(s, files, changed, deleted, backoff, reanchor, failing))
<1> DEFINE t == WithParser(s)
           gone == (KnownFiles(t) \ files) \cup (deleted \cap KnownFiles(t))
           rest == Forgotten(t, gone)
           cands == ((changed \cup (files \ KnownFiles(t))) \ gone) \cup (rest.tainted \cap files)
           x == Extracted(rest, cands, files, backoff, reanchor, failing)
           e == Refreshed(s, files, changed, deleted, backoff, reanchor, failing)
<1>1. e = [x EXCEPT !.listed = files]
  BY DEF Refreshed, WithParser
<1> HIDE DEF e
<1>2. /\ t \in StoreRecord /\ t.up = s.up /\ t.dirty = s.dirty /\ t.head = s.head
      /\ t.kind = s.kind /\ t.enrolled = s.enrolled /\ Sound(t)
      /\ KnownFiles(t) = KnownFiles(s) /\ t.facts = s.facts /\ s.tainted \subseteq t.tainted
  <2>1. t = WithParser(s)
    OBVIOUS
  <2> HIDE DEF t
  <2> QED BY <2>1, Reparsed
<1> HIDE DEF t
<1>3. KnownFiles(t) \in SUBSET FactSources
  BY <1>2, KnownIs
<1>4. gone \in SUBSET FactSources
  BY <1>3
<1> DEFINE known == KnownFiles(t)
<1>5. /\ rest \in StoreRecord /\ rest.up = t.up /\ rest.dirty = t.dirty /\ rest.head = t.head
      /\ rest.kind = t.kind /\ rest.enrolled = t.enrolled /\ Sound(rest) /\ rest.tainted = t.tainted \ gone
      /\ \A f \in FactSources : rest.facts[f] = IF f \in gone THEN 0 ELSE t.facts[f]
  <2> HIDE DEF gone
  <2> QED BY <1>2, <1>4, ForgottenIs
<1> HIDE DEF rest
<1>6. cands \in SUBSET FactSources
  BY <1>3, <1>5, StoreIs
<1>7. /\ x \in StoreRecord /\ x.up = rest.up /\ x.dirty = rest.dirty /\ x.head = rest.head
      /\ x.kind = rest.kind /\ x.enrolled = rest.enrolled /\ Sound(x)
      /\ \A f \in FactSources \ cands : x.facts[f] = rest.facts[f]
      /\ \A f \in cands \ x.tainted : x.facts[f] = world.tree[f]
      /\ \A f \in cands : world.tree[f] = 0 => x.facts[f] = 0
      /\ \A f \in x.tainted : f \in rest.tainted \/ (f \in cands /\ world.tree[f] # 0) \/ (f \in files /\ rest.facts[f] # 0)
  <2>1. rest \in StoreRecord /\ Sound(rest)
    BY <1>5
  <2> HIDE DEF cands
  <2>2. Passed(rest, cands, files, x)
    BY <2>1, <1>6, ExtractedIs
  <2> HIDE DEF x
  <2> QED BY <2>2 DEF Passed
<1> HIDE DEF x
<1>8. /\ e \in StoreRecord /\ e.up = x.up /\ e.listed = files /\ e.dirty = x.dirty /\ e.head = x.head
      /\ e.kind = x.kind /\ e.enrolled = x.enrolled /\ e.facts = x.facts /\ e.tainted = x.tainted /\ e.same = x.same
      /\ e.complete = x.complete
  BY <1>1, <1>7 DEF StoreRecord
<1>9. Sound(e)
  BY <1>7, <1>8 DEF Sound
<1>10. \A f \in FactSources : f \in known <=> t.facts[f] # 0 \/ f \in t.tainted
  BY <1>2, KnownIs
<1>11. t.tainted \subseteq FactSources /\ rest.tainted \subseteq FactSources /\ x.tainted \subseteq FactSources
  BY <1>2, <1>5, <1>7, StoreIs
<1>12. \A f \in files \ e.tainted :
         \/ e.facts[f] = world.tree[f]
         \/ f \in deleted /\ e.facts[f] = 0
         \/ f \in KnownFiles(s) /\ f \notin changed \cup deleted \cup s.tainted /\ e.facts[f] = s.facts[f]
  <2> SUFFICES ASSUME NEW f \in files, f \notin x.tainted
               PROVE  \/ x.facts[f] = world.tree[f]
                      \/ f \in deleted /\ x.facts[f] = 0
                      \/ f \in KnownFiles(s) /\ f \notin changed \cup deleted \cup s.tainted /\ x.facts[f] = s.facts[f]
    BY <1>8
  <2>1. CASE f \in cands
    <3> HIDE DEF cands
    <3> QED BY <2>1, <1>7
  <2>2. CASE f \notin cands /\ f \in gone
    <3>1. f \in deleted
      BY <2>2
    <3>2. x.facts[f] = rest.facts[f] /\ rest.facts[f] = 0
      <4> HIDE DEF cands, gone
      <4> QED BY <2>2, <1>5, <1>7
    <3> QED BY <3>1, <3>2
  <2>3. CASE f \notin cands /\ f \notin gone
    <3>1. f \in known /\ f \notin changed \cup deleted /\ f \notin rest.tainted
      BY <2>3
    <3>2. f \notin t.tainted
      <4> HIDE DEF gone
      <4> QED BY <2>3, <3>1, <1>5
    <3>3. x.facts[f] = t.facts[f]
      <4> HIDE DEF cands, gone
      <4> QED BY <2>3, <1>5, <1>7
    <3> QED BY <3>1, <3>2, <3>3, <1>2
  <2> QED BY <2>1, <2>2, <2>3
<1>13. \A f \in FactSources \ files : f \in KnownFiles(e) => f \in changed /\ world.tree[f] # 0
  <2> SUFFICES ASSUME NEW f \in FactSources, f \notin files, f \in KnownFiles(e) PROVE f \in changed /\ world.tree[f] # 0
    OBVIOUS
  <2>1. x.facts[f] # 0 \/ f \in x.tainted
    BY <1>8, KnownIs
  <2>2. rest.facts[f] = 0 /\ f \notin rest.tainted
    <3>1. CASE f \in gone
      <4> HIDE DEF gone
      <4> QED BY <3>1, <1>5
    <3>2. CASE f \notin gone
      <4>1. f \notin known
        BY <3>2
      <4>2. t.facts[f] = 0 /\ f \notin t.tainted
        BY <4>1, <1>10
      <4> HIDE DEF gone
      <4> QED BY <3>2, <4>2, <1>5
    <3> QED BY <3>1, <3>2
  <2>3. f \in cands
    <3> HIDE DEF cands
    <3> QED BY <2>1, <2>2, <1>7
  <2>4. world.tree[f] # 0
    <3> HIDE DEF cands
    <3> QED BY <2>1, <2>2, <2>3, <1>7
  <2>5. f \in changed
    BY <2>2, <2>3
  <2> QED BY <2>4, <2>5
<1>14. Brought(s, files, anew, changed, deleted, e)
  BY <1>2, <1>5, <1>7, <1>8, <1>9, <1>12, <1>13 DEF Brought
<1> QED BY <1>14 DEF e

\* What others do only ever ages the facts.
LEMMA WorldAges ==
  ASSUME FactsInvariant, NEW w \in WorldRecord, NEW changed \in SUBSET FactSources, World(w, changed),
         \A f \in FactSources \ changed : w.tree[f] = world.tree[f],
         w.head > world.head \/ (w.head = world.head /\ w.committed = world.committed),
         w.marker => world.marker, w.git => world.git
  PROVE  FactsInvariant'
<1> DEFINE same == st.same \ changed
           csame == cache.same \ changed
<1>1. /\ world' = w /\ acts' = acts + 1 /\ looked' = FALSE
      /\ st' = [st EXCEPT !.same = same] /\ cache' = [cache EXCEPT !.same = csame]
  BY DEF World
<1>2. world \in WorldRecord /\ st \in StoreRecord /\ cache \in CacheRecord /\ acts \in Nat
  BY DEF FactsInvariant, FactTypes
<1>3. same \in SUBSET FactSources /\ csame \in SUBSET FactSources
  BY <1>2, StoreIs DEF CacheRecord
<1>4. \A f \in FactSources : (f \in same => f \in st.same /\ f \notin changed) /\ (f \in csame => f \in cache.same /\ f \notin changed)
  OBVIOUS
<1> HIDE DEF same, csame
<1>5. /\ st' \in StoreRecord /\ st'.up = st.up /\ st'.facts = st.facts /\ st'.complete = st.complete
      /\ st'.tainted = st.tainted /\ st'.listed = st.listed /\ st'.dirty = st.dirty /\ st'.head = st.head
      /\ st'.kind = st.kind /\ st'.enrolled = st.enrolled /\ st'.same = same
  BY <1>1, <1>2, <1>3 DEF StoreRecord
<1>6. /\ cache' \in CacheRecord /\ cache'.facts = cache.facts /\ cache'.complete = cache.complete
      /\ cache'.tainted = cache.tainted /\ cache'.enrolled = cache.enrolled /\ cache'.same = csame
  BY <1>1, <1>2, <1>3 DEF CacheRecord
<1>7. FactTypes'
  <2>1. looked' \in BOOLEAN /\ world' \in WorldRecord
    BY <1>1
  <2>2. acts' \in Nat
    BY <1>1, <1>2
  <2> QED BY <1>5, <1>6, <2>1, <2>2 DEF FactTypes
<1>8. Sound(st)'
  <2> SUFFICES ASSUME NEW f \in FactSources, f \notin st.tainted
               PROVE  (f \in same => st.facts[f] = w.tree[f]) /\ (st.facts[f] # 0 => f \in st.complete)
    BY <1>1, <1>5 DEF Sound
  <2> QED BY <1>4 DEF FactsInvariant, Sound
<1>9. Sound(cache)'
  BY <1>1, <1>4, <1>6 DEF FactsInvariant, Sound
<1>10. Boundaries'
  <2>1. KnownFiles(st)' = KnownFiles(st)
    BY <1>5 DEF KnownFiles
  <2> QED BY <1>1, <1>5, <1>6, <2>1 DEF FactsInvariant, Boundaries
<1>11. Basis'
  <2>1. st.head \in Nat /\ world.head \in Nat /\ w.head \in Nat /\ st.head <= world.head
    BY <1>2, StoreIs DEF FactsInvariant, Basis, WorldRecord
  <2>2. st.head <= w.head /\ (st.head = w.head => st.head = world.head /\ w.committed = world.committed)
    BY <2>1
  <2> QED BY <1>1, <1>5, <2>2 DEF FactsInvariant, Basis, PathOf
<1>12. Looks' /\ FactsFollow'
  BY <1>1 DEF Looks, FactsFollow
<1> QED BY <1>7, <1>8, <1>9, <1>10, <1>11, <1>12 DEF FactsInvariant

\* A root that is let go, and one whose reading failed, is as at the beginning.
LEMMA NoStateIs == NoState \in StoreRecord /\ ~NoState.up /\ ~NoState.enrolled /\ NoState.tainted = {} /\ NoState.same = {}
                   /\ NoState.listed = {} /\ NoState.head = 0 /\ NoState.complete = {} /\ NoState.dirty = {}
                   /\ \A f \in FactSources : NoState.facts[f] = 0
<1>1. NoFacts \in Stock
  BY DEF NoFacts, Stock
<1>2. {} \in SUBSET FactSources /\ {} \in SUBSET {"a", "n"} /\ 0 \in Nat
  OBVIOUS
<1>3. \A f \in FactSources : NoFacts[f] = 0
  BY DEF NoFacts
<1> QED BY <1>1, <1>2, <1>3 DEF NoState, StoreRecord

LEMMA LetGo ==
  ASSUME FactsInvariant, st' = NoState, looked' = FALSE, UNCHANGED <<world, cache, acts>>
  PROVE  FactsInvariant'
<1>1. world \in WorldRecord /\ world.head \in Nat /\ cache \in CacheRecord /\ acts \in Nat
  BY WorldIs DEF FactsInvariant, FactTypes
<1>2. FactTypes'
  BY <1>1, NoStateIs DEF FactTypes
<1>3. Sound(st)' /\ Sound(cache)'
  BY NoStateIs DEF FactsInvariant, Sound
<1>4. Boundaries'
  BY NoStateIs DEF FactsInvariant, Boundaries, KnownFiles
<1>5. Basis' /\ Looks' /\ FactsFollow'
  BY <1>1, NoStateIs DEF Basis, Looks, FactsFollow
<1> QED BY <1>2, <1>3, <1>4, <1>5 DEF FactsInvariant

\* What of the cache is believed.
LEMMA CachedIs ==
  ASSUME FactsInvariant
  PROVE  Cached \in StoreRecord /\ Sound(Cached) /\ ~Cached.enrolled
<1>1. cache \in CacheRecord /\ Sound(cache) /\ ~cache.enrolled
  BY DEF FactsInvariant, FactTypes, Boundaries
<1>2. CASE Cached = NoState
  BY <1>2, NoStateIs DEF Sound
<1>3. CASE Cached # NoState
  <2> DEFINE c == Cached
  <2>1. c = [NoState EXCEPT !.facts = cache.facts, !.complete = cache.complete, !.tainted = cache.tainted,
                            !.enrolled = cache.enrolled, !.same = cache.same]
    BY <1>3 DEF Cached
  <2>2. /\ cache.facts \in Stock /\ cache.complete \in SUBSET FactSources /\ cache.tainted \in SUBSET FactSources
        /\ cache.enrolled \in BOOLEAN /\ cache.same \in SUBSET FactSources
    BY <1>1 DEF CacheRecord
  <2> HIDE DEF c
  <2>3. /\ c \in StoreRecord /\ c.facts = cache.facts /\ c.complete = cache.complete /\ c.tainted = cache.tainted
        /\ c.enrolled = cache.enrolled /\ c.same = cache.same
    BY <2>1, <2>2, NoStateIs DEF StoreRecord
  <2>4. Sound(c)
    BY <1>1, <2>3 DEF Sound
  <2> QED BY <1>1, <2>3, <2>4 DEF c
<1> QED BY <1>2, <1>3

\* What loading leaves: every listed file, with the facts of its content.
Arrived(e) ==
  /\ e \in StoreRecord /\ e.listed = Discovered(FALSE) /\ e.head = world.head /\ ~e.enrolled /\ Sound(e)
  /\ e.kind = (IF world.git THEN "git" ELSE "plain") /\ e.dirty = (IF world.git THEN Changes ELSE {})
  /\ \A f \in e.listed \ e.tainted : e.facts[f] = world.tree[f]
  /\ KnownFiles(e) \subseteq e.listed

LEMMA DiscoveredIs ==
  ASSUME world \in WorldRecord, NEW open \in BOOLEAN
  PROVE  /\ Discovered(open) \in SUBSET FactSources
         /\ "a" \in Discovered(open) <=> world.tree["a"] # 0
         /\ "n/b" \in Discovered(open) <=> world.tree["n/b"] # 0 /\ open /\ world.marker
BY DEF Discovered, FactSources

LEMMA ChangesIs ==
  ASSUME world \in WorldRecord
  PROVE  /\ Changes \in SUBSET {"a", "n"}
         /\ "a" \in Changes <=> world.tree["a"] # world.committed["a"]
         /\ "n" \in Changes <=> world.tree["n/b"] # world.committed["n/b"] /\ world.marker
BY DEF Changes

LEMMA LoadedIs ==
  ASSUME FactsInvariant, NEW backoff, NEW reanchor, NEW failing
  PROVE  Arrived(Loaded(backoff, reanchor, failing))
<1> DEFINE files == Discovered(FALSE)
           gone == KnownFiles(Cached) \ files
           rest == Forgotten(Cached, gone)
           hit == {f \in files : rest.facts[f] # 0 /\ f \in rest.same \ rest.tainted}
           x == Extracted(rest, files \ hit, files, backoff, reanchor, failing)
           k == IF world.git THEN "git" ELSE "plain"
           d == IF world.git THEN Changes ELSE {}
           e == Loaded(backoff, reanchor, failing)
<1>1. world \in WorldRecord /\ (cache.up /\ cache.enrolled) = FALSE /\ world.parser \in Nat /\ world.head \in Nat
  BY WorldIs DEF FactsInvariant, FactTypes, Boundaries, CacheRecord
<1>2. e = [x EXCEPT !.up = TRUE, !.listed = files, !.parser = world.parser, !.head = world.head, !.kind = k, !.dirty = d]
  BY <1>1 DEF Loaded
<1> HIDE DEF e
<1>3. Cached \in StoreRecord /\ Sound(Cached) /\ ~Cached.enrolled
  BY CachedIs
<1>4. files \in SUBSET FactSources /\ gone \in SUBSET FactSources
  BY <1>1, <1>3, DiscoveredIs, KnownIs
<1>5. k \in {"git", "plain"} /\ d \in SUBSET {"a", "n"}
  BY <1>1, ChangesIs
<1>6. /\ rest \in StoreRecord /\ rest.enrolled = Cached.enrolled /\ Sound(rest)
      /\ rest.tainted = Cached.tainted \ gone
      /\ \A f \in FactSources : rest.facts[f] = IF f \in gone THEN 0 ELSE Cached.facts[f]
  <2> HIDE DEF gone
  <2> QED BY <1>1, <1>3, <1>4, ForgottenIs
<1> HIDE DEF rest
<1> DEFINE cands == files \ hit
<1>7. cands \in SUBSET FactSources
  BY <1>4
<1>8. Passed(rest, cands, files, x)
  <2>1. rest \in StoreRecord /\ Sound(rest)
    BY <1>6
  <2> HIDE DEF files, hit
  <2> QED BY <1>1, <1>4, <1>7, <2>1, ExtractedIs
<1>9. \A f \in FactSources : f \in KnownFiles(rest) => f \in files
  <2> SUFFICES ASSUME NEW f \in FactSources, f \in KnownFiles(rest) PROVE f \in files
    OBVIOUS
  <2>1. rest.facts[f] # 0 \/ f \in rest.tainted
    BY <1>6, KnownIs
  <2>2. f \notin gone
    <3> HIDE DEF gone
    <3> QED BY <2>1, <1>6
  <2>3. Cached.facts[f] # 0 \/ f \in Cached.tainted
    <3> HIDE DEF gone
    <3> QED BY <2>1, <2>2, <1>6
  <2>4. f \in KnownFiles(Cached)
    BY <2>3, <1>3, KnownIs
  <2> QED BY <2>2, <2>4
<1>10. \A f \in hit : f \in FactSources /\ f \in files /\ rest.facts[f] = world.tree[f]
  BY <1>4, <1>6 DEF Sound
<1> HIDE DEF x, files, hit, k, d, gone
<1>11. /\ x \in StoreRecord /\ x.enrolled = rest.enrolled /\ Sound(x)
       /\ \A f \in FactSources \ cands : x.facts[f] = rest.facts[f]
       /\ \A f \in cands \ x.tainted : x.facts[f] = world.tree[f]
       /\ \A f \in x.tainted : f \in rest.tainted \/ f \in cands \/ f \in files
  <2> HIDE DEF cands
  <2> QED BY <1>8 DEF Passed
<1>12. /\ e \in StoreRecord /\ e.listed = files /\ e.head = world.head /\ e.kind = k /\ e.dirty = d
       /\ e.enrolled = x.enrolled /\ e.facts = x.facts /\ e.tainted = x.tainted /\ e.same = x.same /\ e.complete = x.complete
  <2>1. TRUE \in BOOLEAN
    OBVIOUS
  <2> QED BY <1>1, <1>2, <1>4, <1>5, <1>11, <2>1 DEF StoreRecord
<1>13. Sound(e)
  BY <1>11, <1>12 DEF Sound
<1>14. \A f \in e.listed \ e.tainted : e.facts[f] = world.tree[f]
  <2> SUFFICES ASSUME NEW f \in files, f \notin x.tainted PROVE x.facts[f] = world.tree[f]
    BY <1>12
  <2>1. CASE f \in hit
    BY <2>1, <1>10, <1>11
  <2>2. CASE f \notin hit
    BY <2>2, <1>11
  <2> QED BY <2>1, <2>2
<1>15. KnownFiles(e) \subseteq e.listed
  <2>1. KnownFiles(e) \in SUBSET FactSources
    BY <1>12, KnownIs
  <2> SUFFICES ASSUME NEW f \in FactSources, f \in KnownFiles(e), f \notin files PROVE FALSE
    BY <2>1, <1>12
  <2>2. x.facts[f] # 0 \/ f \in x.tainted
    BY <1>12, KnownIs
  <2>3. f \notin cands
    OBVIOUS
  <2>4. rest.facts[f] # 0 \/ f \in rest.tainted
    BY <2>2, <2>3, <1>11
  <2>5. f \in KnownFiles(rest)
    BY <2>4, <1>6, KnownIs
  <2> QED BY <2>5, <1>9
<1>16. e.enrolled = FALSE
  BY <1>3, <1>6, <1>11, <1>12 DEF StoreRecord
<1>17. Arrived(e)
  BY <1>12, <1>13, <1>14, <1>15, <1>16 DEF Arrived, files, k, d
<1> QED BY <1>17 DEF e

\* Loading brings everything up to date; what is saved of it is as sound.
LEMMA LoadArrives ==
  ASSUME FactsInvariant, Load PROVE FactsInvariant'
<1>1. PICK backoff, reanchor, failing :
        LET s == Loaded(backoff, reanchor, failing) IN
          /\ st' = s /\ cache' \in {cache, Persisted(s)} /\ looked' = TRUE /\ UNCHANGED <<world, acts>>
  BY DEF Load
<1>2. Arrived(st') /\ cache' \in {cache, Persisted(st')} /\ looked' = TRUE /\ world' = world /\ acts' = acts
  BY <1>1, LoadedIs
<1>3. /\ st' \in StoreRecord /\ st'.listed = Discovered(FALSE) /\ st'.head = world.head /\ ~st'.enrolled /\ Sound(st')
      /\ st'.kind = (IF world.git THEN "git" ELSE "plain") /\ st'.dirty = (IF world.git THEN Changes ELSE {})
      /\ \A f \in st'.listed \ st'.tainted : st'.facts[f] = world.tree[f]
      /\ KnownFiles(st') \subseteq st'.listed
  BY <1>2 DEF Arrived
<1>4. world \in WorldRecord /\ cache \in CacheRecord /\ Sound(cache) /\ ~cache.enrolled /\ acts \in Nat
  BY DEF FactsInvariant, FactTypes, Boundaries
<1>5. Sound(st)'
  BY <1>2, <1>3 DEF Sound
<1>6. cache' \in CacheRecord /\ Sound(cache)' /\ ~cache'.enrolled
  <2>1. CASE cache' = cache
    BY <1>2, <1>4, <2>1 DEF Sound
  <2>2. CASE cache' = Persisted(st')
    <3> DEFINE facts == [f \in FactSources |-> IF f \in st'.tainted THEN 0 ELSE st'.facts[f]]
    <3>1. cache' = [up |-> TRUE, facts |-> facts, complete |-> st'.complete, tainted |-> st'.tainted,
                    enrolled |-> st'.enrolled, same |-> st'.same, parser |-> st'.parser]
      BY <2>2 DEF Persisted
    <3>2. facts \in Stock /\ \A f \in FactSources \ st'.tainted : facts[f] = st'.facts[f]
      BY <1>3, StoreIs DEF Stock
    <3> HIDE DEF facts
    <3>3. /\ st'.complete \in SUBSET FactSources /\ st'.tainted \in SUBSET FactSources /\ st'.enrolled \in BOOLEAN
          /\ st'.same \in SUBSET FactSources /\ st'.parser \in Nat
      BY <1>3, StoreIs
    <3>4. /\ cache' \in CacheRecord /\ cache'.facts = facts /\ cache'.complete = st'.complete
          /\ cache'.tainted = st'.tainted /\ cache'.same = st'.same /\ cache'.enrolled = st'.enrolled
      BY <3>1, <3>2, <3>3 DEF CacheRecord
    <3> QED BY <1>2, <1>3, <3>2, <3>4 DEF Sound
  <2> QED BY <1>2, <2>1, <2>2
<1>7. FactTypes'
  BY <1>2, <1>3, <1>4, <1>6 DEF FactTypes
<1>8. /\ "a" \in st'.listed <=> world.tree["a"] # 0
      /\ "n/b" \notin st'.listed
  <2>1. FALSE \in BOOLEAN
    OBVIOUS
  <2> QED BY <1>3, <1>4, <2>1, DiscoveredIs
<1>9. Boundaries'
  BY <1>3, <1>6, <1>8 DEF Boundaries
<1>10. Basis'
  <2>1. st'.head = world'.head /\ world.head \in Nat /\ st'.head <= world'.head
    BY <1>2, <1>3, <1>4, WorldIs
  <2>2. world'.git => st'.dirty = Changes /\ ("a" \in Changes <=> world.tree["a"] # world.committed["a"])
    BY <1>2, <1>3, <1>4, ChangesIs
  <2>3. st'.kind = "git" <=> world'.git
    BY <1>2, <1>3
  <2>4. \A f \in FactSources : world'.git =>
          /\ f \in st'.listed \ st'.tainted /\ PathOf(f) \notin st'.dirty => st'.facts[f] = world'.committed[f]
          /\ f \notin st'.listed /\ (f = "n/b" => st'.enrolled) => (world'.committed[f] = 0 <=> PathOf(f) \notin st'.dirty)
    <3> SUFFICES ASSUME NEW f \in FactSources, world'.git
                 PROVE  /\ f \in st'.listed \ st'.tainted /\ PathOf(f) \notin st'.dirty => st'.facts[f] = world'.committed[f]
                        /\ f \notin st'.listed /\ (f = "n/b" => st'.enrolled) =>
                             (world'.committed[f] = 0 <=> PathOf(f) \notin st'.dirty)
      OBVIOUS
    <3>1. CASE f = "n/b"
      BY <3>1, <1>3, <1>8
    <3>2. CASE f = "a"
      BY <3>2, <1>2, <1>3, <1>8, <2>2 DEF PathOf
    <3> QED BY <3>1, <3>2 DEF FactSources
  <2> QED BY <2>1, <2>3, <2>4 DEF Basis
<1>11. Discovered(st.enrolled)' = st'.listed
  BY <1>2, <1>3, StoreIs DEF Discovered
<1>12. Looks'
  BY <1>2, <1>3, <1>11 DEF Looks
<1>13. FactsFollow'
  BY <1>2, <1>3, <1>11 DEF FactsFollow
<1> QED BY <1>5, <1>6, <1>7, <1>9, <1>10, <1>12, <1>13 DEF FactsInvariant

\* What a pass has seen is noted before anything is read.
Noted(plan) == [st EXCEPT !.head = plan.head, !.dirty = plan.dirty, !.enrolled = plan.open, !.kind = plan.kind]

LEMMA NotedIs ==
  ASSUME FactsInvariant, NEW plan, plan.head \in Nat, plan.dirty \in SUBSET {"a", "n"}, plan.open \in BOOLEAN,
         plan.kind \in {"git", "plain"}
  PROVE  /\ Noted(plan) \in StoreRecord /\ Noted(plan).up = st.up /\ Noted(plan).facts = st.facts
         /\ Noted(plan).tainted = st.tainted /\ Noted(plan).listed = st.listed /\ Noted(plan).head = plan.head
         /\ Noted(plan).dirty = plan.dirty /\ Noted(plan).enrolled = plan.open /\ Noted(plan).kind = plan.kind
         /\ KnownFiles(Noted(plan)) = KnownFiles(st) /\ Sound(Noted(plan))
<1> DEFINE n == Noted(plan)
           h == plan.head
           d == plan.dirty
           o == plan.open
           k == plan.kind
<1>1. n = [st EXCEPT !.head = h, !.dirty = d, !.enrolled = o, !.kind = k]
  BY DEF Noted
<1>2. h \in Nat /\ d \in SUBSET {"a", "n"} /\ o \in BOOLEAN /\ k \in {"git", "plain"}
  OBVIOUS
<1>3. st \in StoreRecord /\ Sound(st)
  BY DEF FactsInvariant, FactTypes
<1> HIDE DEF n, h, d, o, k
<1>4. /\ n \in StoreRecord /\ n.up = st.up /\ n.facts = st.facts /\ n.complete = st.complete
      /\ n.tainted = st.tainted /\ n.listed = st.listed /\ n.head = h /\ n.dirty = d /\ n.enrolled = o
      /\ n.kind = k /\ n.same = st.same
  BY <1>1, <1>2, <1>3 DEF StoreRecord
<1>5. KnownFiles(n) = KnownFiles(st)
  BY <1>4 DEF KnownFiles
<1>6. Sound(n)
  BY <1>3, <1>4 DEF Sound
<1> QED BY <1>4, <1>5, <1>6 DEF n, h, d, o, k

LEMMA EnrolledIs ==
  ASSUME NEW hints \in SUBSET FactSources, FactsInvariant
  PROVE  /\ Enrolled(hints) \in BOOLEAN /\ (Enrolled(hints) => world.marker)
         /\ (world.marker /\ ~Enrolled(hints) => ~st.enrolled /\ ("n/b" \in hints => "n/b" \in st.listed))
<1>1. st.enrolled \in BOOLEAN /\ world.marker \in BOOLEAN
  BY WorldIs, StoreIs DEF FactsInvariant, FactTypes
<1> QED BY <1>1 DEF Enrolled

\* A pass over a repository: what is listed has the facts of its content.
LEMMA ProbeFollows ==
  ASSUME FactsInvariant, st.up, GitSeen, UNCHANGED <<world, cache, acts>>, looked' \in BOOLEAN,
         NEW hints \in SUBSET FactSources,
         Brought(Noted(Probed(hints)), Probed(hints).files, Probed(hints).anew, Probed(hints).changed,
                 Probed(hints).deleted, st')
  PROVE  FactsInvariant'
<1> DEFINE plan == Probed(hints)
           enrolled == Enrolled(hints)
           relists == Relists(enrolled)
           open == enrolled \/ "n" \in Changes
           files == IF relists THEN Discovered(open) ELSE st.listed
           named == IF relists THEN files ELSE Changes \cap FactSources
           changed == hints \cup st.tainted \cup Readable(named)
           deleted == IF relists THEN st.listed \ files ELSE {f \in named : world.tree[f] = 0 /\ st.facts[f] # 0}
<1>1. /\ plan.files = files /\ plan.open = open /\ plan.kind = "git" /\ plan.head = world.head /\ plan.dirty = Changes
      /\ plan.changed = changed /\ plan.deleted = deleted /\ plan.anew = relists
  BY DEF Probed
<1>2. /\ world \in WorldRecord /\ st \in StoreRecord /\ cache \in CacheRecord /\ acts \in Nat /\ world.head \in Nat
      /\ ~cache.enrolled /\ st.tainted \in SUBSET FactSources /\ st.listed \in SUBSET FactSources
  BY WorldIs, StoreIs DEF FactsInvariant, FactTypes, Boundaries
<1>3. /\ enrolled \in BOOLEAN /\ (enrolled => world.marker)
      /\ (world.marker /\ ~enrolled => ~st.enrolled /\ ("n/b" \in hints => "n/b" \in st.listed))
  BY EnrolledIs
<1>4. /\ Changes \in SUBSET {"a", "n"}
      /\ "a" \in Changes <=> world.tree["a"] # world.committed["a"]
      /\ "n" \in Changes <=> world.tree["n/b"] # world.committed["n/b"] /\ world.marker
  BY <1>2, ChangesIs
<1>5. /\ relists <=> \/ enrolled # st.enrolled \/ world.head # st.head \/ st.dirty \ Changes # {} \/ "n" \in Changes
                     \/ "a" \in Changes \ st.dirty /\ (world.committed["a"] = 0 \/ world.tree["a"] = 0)
      /\ st.kind = "git" /\ world.git
  BY DEF Relists, HeadMoved, GitSeen
<1>6. open \in BOOLEAN /\ (open => world.marker)
  BY <1>3, <1>4
<1>7. /\ Discovered(open) \in SUBSET FactSources /\ ("a" \in Discovered(open) <=> world.tree["a"] # 0)
      /\ ("n/b" \in Discovered(open) <=> world.tree["n/b"] # 0 /\ open /\ world.marker)
  <2> HIDE DEF open
  <2> QED BY <1>2, <1>6, DiscoveredIs
<1>8. \A f \in Readable(named) : f \in named /\ world.tree[f] # 0
  BY DEF Readable
<1>9. \A f \in named : world.tree[f] # 0 => f \in Readable(named)
  BY DEF Readable
<1> HIDE DEF plan, enrolled, relists, open
<1>10. /\ Noted(plan).up = st.up /\ Noted(plan).facts = st.facts /\ Noted(plan).tainted = st.tainted
       /\ Noted(plan).listed = st.listed /\ Noted(plan).head = world.head /\ Noted(plan).dirty = Changes
       /\ Noted(plan).enrolled = open /\ Noted(plan).kind = "git" /\ KnownFiles(Noted(plan)) = KnownFiles(st)
  BY <1>1, <1>2, <1>4, <1>6, NotedIs
<1>11. Brought(Noted(plan), files, relists, changed, deleted, st')
  BY <1>1 DEF plan
<1>12. /\ st' \in StoreRecord /\ st'.up = st.up /\ st'.listed = files /\ st'.dirty = Changes /\ st'.head = world.head
       /\ st'.kind = "git" /\ st'.enrolled = open /\ Sound(st')
       /\ \A f \in files \ st'.tainted :
            \/ st'.facts[f] = world.tree[f]
            \/ f \in deleted /\ st'.facts[f] = 0
            \/ f \notin changed \cup deleted \cup st.tainted /\ st'.facts[f] = st.facts[f]
       /\ \A f \in FactSources \ files : f \in KnownFiles(st') =>
            (f \in changed /\ world.tree[f] # 0) \/ (~relists /\ f \in KnownFiles(st))
  <2> HIDE DEF files, changed, deleted
  <2> QED BY <1>10, <1>11 DEF Brought
<1>13. /\ "n/b" \in st.listed => st.enrolled
       /\ \A f \in KnownFiles(st) \ st.listed : (f = "a" /\ "a" \in st.dirty) \/ (f = "n/b" /\ ~world.marker)
  BY DEF FactsInvariant, Boundaries
<1>14. st.head = world.head =>
         /\ \A f \in st.listed \ st.tainted : PathOf(f) \notin st.dirty => st.facts[f] = world.committed[f]
         /\ \A f \in FactSources : f \notin st.listed /\ (f = "n/b" => st.enrolled) =>
              (world.committed[f] = 0 <=> PathOf(f) \notin st.dirty)
  <2>1. st.head = world.head => \A f \in FactSources :
          /\ f \in st.listed \ st.tainted /\ PathOf(f) \notin st.dirty => st.facts[f] = world.committed[f]
          /\ f \notin st.listed /\ (f = "n/b" => st.enrolled) => (world.committed[f] = 0 <=> PathOf(f) \notin st.dirty)
    BY <1>5 DEF FactsInvariant, Basis
  <2>2. \A f \in st.listed : f \in FactSources
    BY <1>2
  <2> QED BY <2>1, <2>2
<1>15. ~relists => /\ enrolled = st.enrolled /\ open = st.enrolled /\ world.head = st.head /\ st.dirty \subseteq Changes
                   /\ "n" \notin Changes /\ files = st.listed
  <2> SUFFICES ASSUME ~relists
               PROVE  /\ enrolled = st.enrolled /\ open = st.enrolled /\ world.head = st.head /\ st.dirty \subseteq Changes
                      /\ "n" \notin Changes /\ files = st.listed
    OBVIOUS
  <2>1. files = st.listed
    OBVIOUS
  <2> HIDE DEF files
  <2>2. enrolled = st.enrolled /\ world.head = st.head /\ st.dirty \ Changes = {} /\ "n" \notin Changes
    BY <1>5
  <2>3. open = enrolled
    BY <1>3, <2>2 DEF open
  <2> QED BY <2>1, <2>2, <2>3
<1>16. "n/b" \in files => open /\ world.marker
  <2>1. CASE relists
    BY <2>1, <1>7
  <2>2. CASE ~relists
    BY <2>2, <1>6, <1>13, <1>15
  <2> QED BY <2>1, <2>2
<1>17. \A f \in st.tainted : f \in KnownFiles(st)
  BY DEF KnownFiles
\* What is listed has the facts of its content.
<1>18. \A f \in files \ st'.tainted : st'.facts[f] = world.tree[f]
  <2> SUFFICES ASSUME NEW f \in files, f \notin st'.tainted,
                      \/ f \in deleted /\ st'.facts[f] = 0
                      \/ f \notin changed \cup deleted \cup st.tainted /\ st'.facts[f] = st.facts[f]
               PROVE  st'.facts[f] = world.tree[f]
    BY <1>12
  <2>1. CASE relists
    <3>1. f \notin deleted /\ f \in named /\ world.tree[f] # 0
      <4>1. f \in Discovered(open)
        BY <2>1
      <4>2. world.tree[f] # 0
        BY <4>1 DEF Discovered
      <4> QED BY <2>1, <4>2
    <3>2. f \in Readable(named)
      <4> HIDE DEF named
      <4> QED BY <3>1, <1>9
    <3> QED BY <3>1, <3>2
  <2>2. CASE ~relists
    <3>1. f \in st.listed /\ f \in FactSources
      BY <2>2, <1>2
    <3>2. CASE f \in deleted
      BY <2>2, <3>2
    <3>3. CASE f \notin changed \cup deleted \cup st.tainted /\ st'.facts[f] = st.facts[f]
      <4>1. PathOf(f) \notin Changes => st.facts[f] = world.tree[f]
        <5>1. PathOf(f) \notin Changes => st.facts[f] = world.committed[f]
          BY <2>2, <3>1, <3>3, <1>14, <1>15
        <5>2. PathOf(f) \notin Changes => world.tree[f] = world.committed[f]
          BY <3>1, <1>4, <1>16 DEF PathOf, FactSources
        <5> QED BY <5>1, <5>2
      <4>2. PathOf(f) \in Changes => f = "a" /\ f \in named
        BY <2>2, <3>1, <1>15 DEF PathOf, FactSources
      <4>3. f \in named => world.tree[f] = 0
        <5> HIDE DEF named, deleted
        <5> QED BY <3>3, <1>9
      <4>4. f \in named => st.facts[f] = 0
        BY <2>2, <3>3, <4>3
      <4> QED BY <3>3, <4>1, <4>2, <4>3, <4>4
    <3> QED BY <3>2, <3>3
  <2> QED BY <2>1, <2>2
\* What is not listed is dirty just when the commit has it.
<1>19. \A f \in FactSources : f \notin files /\ (f = "n/b" => open) =>
         (world.committed[f] = 0 <=> PathOf(f) \notin Changes)
  <2>1. CASE relists
    <3>1. files = Discovered(open)
      BY <2>1
    <3> HIDE DEF files
    <3> QED BY <3>1, <1>4, <1>6, <1>7 DEF PathOf, FactSources
  <2>2. CASE ~relists
    <3>1. \A f \in FactSources : f \notin st.listed /\ (f = "n/b" => st.enrolled) =>
            (world.committed[f] = 0 <=> PathOf(f) \notin st.dirty)
      BY <2>2, <1>14, <1>15
    <3>2. "n" \notin Changes /\ "n" \notin st.dirty /\ ("a" \in st.dirty => "a" \in Changes)
      BY <2>2, <1>15
    <3>3. "a" \in Changes /\ world.committed["a"] = 0 => "a" \in st.dirty
      BY <2>2, <1>5
    <3> QED BY <2>2, <3>1, <3>2, <3>3, <1>15 DEF PathOf, FactSources
  <2> QED BY <2>1, <2>2
\* What is known and not listed is dirty, or behind a vanished boundary.
<1>20. \A f \in KnownFiles(st') \ files : (f = "a" /\ "a" \in Changes) \/ (f = "n/b" /\ ~world.marker)
  <2>1. KnownFiles(st') \in SUBSET FactSources
    BY <1>12, KnownIs
  <2> SUFFICES ASSUME NEW f \in FactSources, f \in KnownFiles(st'), f \notin files
               PROVE  (f = "a" /\ "a" \in Changes) \/ (f = "n/b" /\ ~world.marker)
    BY <2>1
  <2>2. CASE ~relists /\ f \in KnownFiles(st)
    BY <2>2, <1>13, <1>15
  <2>3. CASE f \in changed /\ world.tree[f] # 0
    <3>2. CASE f = "a" /\ relists
      BY <2>3, <3>2, <1>7
    <3>3. CASE f = "a" /\ ~relists
      <4>1. world.tree["a"] = world.committed["a"] => "a" \in st.dirty
        <5>1. "a" \notin st.listed /\ "a" \in FactSources
          BY <3>3, <1>15
        <5>2. world.committed["a"] = 0 <=> "a" \notin st.dirty
          BY <3>3, <5>1, <1>14, <1>15 DEF PathOf
        <5> QED BY <2>3, <3>3, <5>2
      <4>2. world.tree["a"] # world.committed["a"] => "a" \in Changes
        BY <1>4
      <4> QED BY <3>3, <4>1, <4>2, <1>15
    <3>4. CASE f = "n/b" /\ world.marker
      <4>1. CASE open
        <5>1. ~relists
          BY <2>3, <3>4, <4>1, <1>7
        <5>2. "n/b" \notin st.listed /\ "n" \notin st.dirty /\ "n" \notin Changes /\ st.enrolled /\ "n/b" \in FactSources
          BY <3>4, <4>1, <5>1, <1>15
        <5>3. world.committed["n/b"] = 0
          BY <5>1, <5>2, <1>14, <1>15 DEF PathOf
        <5> QED BY <2>3, <3>4, <5>2, <5>3, <1>4
      <4>2. CASE ~open
        <5>1. ~enrolled /\ ~st.enrolled /\ "n/b" \notin st.listed
          BY <3>4, <4>2, <1>3, <1>13 DEF open
        <5>2. "n/b" \notin hints /\ "n/b" \notin st.tainted
          BY <3>4, <5>1, <1>3, <1>13, <1>17
        <5>3. "n/b" \in named
          BY <2>3, <3>4, <5>2, <1>8
        <5>4. relists
          BY <5>3, <1>4
        <5> QED BY <3>4, <5>3, <5>4
      <4> QED BY <4>1, <4>2
    <3> QED BY <3>2, <3>3, <3>4 DEF FactSources
  <2> QED BY <2>2, <2>3, <1>12
<1> HIDE DEF files, changed, deleted, named
<1>21. world' = world /\ cache' = cache /\ acts' = acts
  OBVIOUS
<1>22. FactTypes'
  BY <1>2, <1>12, <1>21 DEF FactTypes, FactsInvariant
<1>23. Sound(st)' /\ Sound(cache)'
  BY <1>12, <1>21 DEF FactsInvariant, Sound
<1>24. Boundaries'
  BY <1>2, <1>12, <1>16, <1>20, <1>21 DEF Boundaries
<1>25. Basis'
  <2>1. st'.head <= world'.head
    BY <1>2, <1>12, <1>21
  <2>2. \A f \in FactSources : f \in files \ st'.tainted /\ PathOf(f) \notin Changes => st'.facts[f] = world.committed[f]
    BY <1>4, <1>16, <1>18 DEF PathOf, FactSources
  <2> QED BY <1>12, <1>19, <1>21, <2>1, <2>2 DEF Basis
<1>26. Looks'
  BY <1>5, <1>12, <1>21 DEF Looks
<1>27. \A f \in Discovered(open) \ files : f \in Changes /\ world.committed[f] # 0
  <2> SUFFICES ASSUME NEW f \in Discovered(open), f \notin files PROVE f \in Changes /\ world.committed[f] # 0
    OBVIOUS
  <2>1. f \in FactSources /\ world.tree[f] # 0 /\ ~relists
    BY <1>7 DEF Discovered, files
  <2>2. CASE f = "a"
    BY <2>1, <2>2, <1>4, <1>19 DEF PathOf
  <2>3. CASE f = "n/b"
    BY <2>1, <2>3, <1>4, <1>7, <1>15, <1>19 DEF PathOf
  <2> QED BY <2>1, <2>2, <2>3 DEF FactSources
<1>28. FactsFollow'
  <2>1. Discovered(st.enrolled)' = Discovered(open)
    BY <1>12, <1>21 DEF Discovered
  <2> QED BY <1>12, <1>18, <1>21, <1>27, <2>1 DEF FactsFollow
<1> QED BY <1>22, <1>23, <1>24, <1>25, <1>26, <1>28 DEF FactsInvariant

\* A pass without a repository: only a forced sweep, or one before it, vouches
\* for what is listed.
LEMMA WalkFollows ==
  ASSUME FactsInvariant, st.up, ~GitSeen, UNCHANGED <<world, cache, acts>>, looked' \in BOOLEAN,
         NEW hints \in SUBSET FactSources, NEW force \in BOOLEAN, NEW due \in BOOLEAN, looked' => looked \/ force,
         Brought(Noted(Walked(hints, force, due)), Walked(hints, force, due).files, Walked(hints, force, due).anew,
                 Walked(hints, force, due).changed, Walked(hints, force, due).deleted, st')
  PROVE  FactsInvariant'
<1> DEFINE plan == Walked(hints, force, due)
           open == Enrolled(hints)
           given == hints \cup st.tainted
           walk == force \/ due \/ given # {} \/ open # st.enrolled
           files == IF walk THEN Discovered(open) ELSE st.listed
           changed == IF walk /\ (force \/ due) THEN given \cup st.listed ELSE given
<1>1. /\ plan.files = files /\ plan.open = open /\ plan.kind = "plain" /\ plan.head = 0 /\ plan.dirty = st.dirty
      /\ plan.changed = changed /\ plan.deleted = {} /\ plan.anew = walk
  BY DEF Walked
<1>2. /\ world \in WorldRecord /\ st \in StoreRecord /\ cache \in CacheRecord /\ acts \in Nat /\ world.head \in Nat
      /\ ~cache.enrolled /\ st.tainted \in SUBSET FactSources /\ st.listed \in SUBSET FactSources
      /\ st.dirty \in SUBSET {"a", "n"} /\ st.kind \in {"git", "plain"} /\ 0 \in Nat
  BY WorldIs, StoreIs DEF FactsInvariant, FactTypes, Boundaries
<1>3. /\ open \in BOOLEAN /\ (open => world.marker)
      /\ (world.marker /\ ~open => ~st.enrolled /\ ("n/b" \in hints => "n/b" \in st.listed))
  BY EnrolledIs
<1>4. st.kind = "git" => ~world.git
  BY DEF GitSeen
<1>5. /\ walk => force \/ due \/ given # {} \/ open # st.enrolled
      /\ ~walk => ~force /\ ~due /\ given = {} /\ open = st.enrolled /\ files = st.listed /\ changed = {}
      /\ walk => files = Discovered(open)
      /\ given \subseteq changed /\ changed \subseteq given \cup st.listed /\ (force => st.listed \subseteq changed)
  OBVIOUS
<1> HIDE DEF open
<1>6. /\ Discovered(open) \in SUBSET FactSources /\ ("a" \in Discovered(open) <=> world.tree["a"] # 0)
      /\ ("n/b" \in Discovered(open) <=> world.tree["n/b"] # 0 /\ open /\ world.marker)
  BY <1>2, <1>3, DiscoveredIs
<1> HIDE DEF plan, files, changed, walk
<1>7. /\ Noted(plan).up = st.up /\ Noted(plan).facts = st.facts /\ Noted(plan).tainted = st.tainted
      /\ Noted(plan).listed = st.listed /\ Noted(plan).head = 0 /\ Noted(plan).dirty = st.dirty
      /\ Noted(plan).enrolled = open /\ Noted(plan).kind = "plain" /\ KnownFiles(Noted(plan)) = KnownFiles(st)
  BY <1>1, <1>2, <1>3, NotedIs
<1>8. Brought(Noted(plan), files, walk, changed, {}, st')
  BY <1>1 DEF plan
<1>9. /\ st' \in StoreRecord /\ st'.up = st.up /\ st'.listed = files /\ st'.dirty = st.dirty /\ st'.head = 0
      /\ st'.kind = "plain" /\ st'.enrolled = open /\ Sound(st')
      /\ \A f \in files \ st'.tainted :
           \/ st'.facts[f] = world.tree[f]
           \/ f \in KnownFiles(st) \cup st.listed /\ f \notin changed \cup st.tainted /\ st'.facts[f] = st.facts[f]
      /\ \A f \in FactSources \ files : f \in KnownFiles(st') =>
           (f \in changed /\ world.tree[f] # 0) \/ (~walk /\ f \in KnownFiles(st))
  BY <1>7, <1>8 DEF Brought
<1>10. /\ "n/b" \in st.listed => st.enrolled
       /\ \A f \in KnownFiles(st) \ st.listed : (f = "a" /\ "a" \in st.dirty) \/ (f = "n/b" /\ ~world.marker)
       /\ st.tainted \subseteq KnownFiles(st)
  BY DEF FactsInvariant, Boundaries, KnownFiles
<1>11. "n/b" \in files => open
  <2>1. CASE walk
    BY <2>1, <1>5, <1>6
  <2>2. CASE ~walk
    BY <2>2, <1>5, <1>10
  <2> QED BY <2>1, <2>2
<1>12. \A f \in KnownFiles(st') \ files : (f = "a" /\ "a" \in st.dirty) \/ (f = "n/b" /\ ~world.marker)
  <2>1. KnownFiles(st') \in SUBSET FactSources
    BY <1>9, KnownIs
  <2> SUFFICES ASSUME NEW f \in FactSources, f \in KnownFiles(st'), f \notin files
               PROVE  (f = "a" /\ "a" \in st.dirty) \/ (f = "n/b" /\ ~world.marker)
    BY <2>1
  <2>2. CASE ~walk
    <3>1. f \in KnownFiles(st) /\ f \notin st.listed
      BY <2>2, <1>5, <1>9
    <3> QED BY <3>1, <1>10
  <2>3. CASE walk
    <3>1. f \in changed /\ world.tree[f] # 0 /\ f \notin Discovered(open)
      BY <2>3, <1>5, <1>9
    <3>2. f = "n/b"
      BY <3>1, <1>6 DEF FactSources
    <3>3. ASSUME world.marker PROVE FALSE
      <4>1. ~open /\ ~st.enrolled /\ "n/b" \notin st.listed
        BY <3>1, <3>2, <3>3, <1>3, <1>6, <1>10
      <4>2. "n/b" \notin hints /\ "n/b" \notin st.tainted
        BY <4>1, <3>3, <1>3, <1>10
      <4> QED BY <3>1, <3>2, <4>1, <4>2, <1>5
    <3> QED BY <3>2, <3>3
  <2> QED BY <2>2, <2>3
<1>13. ~force /\ looked' => /\ looked /\ st.kind = "plain" /\ Discovered(st.enrolled) \subseteq st.listed
                            /\ \A f \in st.listed \ st.tainted : st.facts[f] = world.tree[f] \/ f \in st.dirty
  BY <1>2, <1>4 DEF FactsInvariant, Looks, FactsFollow
<1>14. looked' => Discovered(open) \subseteq files
  BY <1>5, <1>13
<1>15. looked' => \A f \in files \ st'.tainted : st'.facts[f] = world.tree[f] \/ f \in st.dirty
  <2> SUFFICES ASSUME looked', NEW f \in files, f \in KnownFiles(st) \cup st.listed, f \notin changed \cup st.tainted,
                      st'.facts[f] = st.facts[f]
               PROVE  st.facts[f] = world.tree[f] \/ f \in st.dirty
    BY <1>9
  <2>1. CASE f \in st.listed
    <3>1. ~force
      BY <2>1, <1>5
    <3> QED BY <2>1, <3>1, <1>13
  <2>2. CASE f \notin st.listed
    <3>1. walk /\ f \in Discovered(open)
      BY <2>2, <1>5
    <3> QED BY <2>2, <3>1, <1>6, <1>10
  <2> QED BY <2>1, <2>2
<1>16. world' = world /\ cache' = cache /\ acts' = acts
  OBVIOUS
<1>17. FactTypes'
  BY <1>2, <1>9, <1>16 DEF FactTypes, FactsInvariant
<1>18. Sound(st)' /\ Sound(cache)'
  BY <1>9, <1>16 DEF FactsInvariant, Sound
<1>19. Boundaries'
  BY <1>2, <1>9, <1>11, <1>12, <1>16 DEF Boundaries
<1>20. Basis'
  <2>1. ~world.git
    BY <1>2, <1>4 DEF FactsInvariant, Basis
  <2> QED BY <1>2, <1>9, <1>16, <2>1 DEF Basis
<1>21. Discovered(st.enrolled)' = Discovered(open)
  BY <1>9, <1>16 DEF Discovered
<1>22. Looks' /\ FactsFollow'
  <2>1. Looks'
    BY <1>9, <1>14, <1>21 DEF Looks
  <2>2. FactsFollow'
    BY <1>9, <1>14, <1>15, <1>16, <1>21 DEF FactsFollow
  <2> QED BY <2>1, <2>2
<1> QED BY <1>17, <1>18, <1>19, <1>20, <1>22 DEF FactsInvariant

\* A pass that found nothing to do is one that brought the store to its plan.
LEMMA NothingToDo ==
  ASSUME FactsInvariant, NEW plan, plan.head \in Nat, plan.dirty \in SUBSET {"a", "n"}, plan.open \in BOOLEAN,
         plan.kind \in {"git", "plain"}, st' = Noted(plan)
  PROVE  Brought(Noted(plan), st.listed, FALSE, {}, {}, st')
<1>1. /\ st' \in StoreRecord /\ st'.facts = st.facts /\ st'.tainted = st.tainted /\ st'.listed = st.listed
      /\ KnownFiles(st') = KnownFiles(st) /\ Sound(st')
  BY NotedIs
<1>2. Sound(Noted(plan)) /\ Noted(plan).listed = st.listed /\ Noted(plan).facts = st.facts
      /\ Noted(plan).tainted = st.tainted /\ KnownFiles(Noted(plan)) = KnownFiles(st)
  BY NotedIs
<1> QED BY <1>1, <1>2 DEF Brought

\* A plan, of either kind.
LEMMA PlansAre ==
  ASSUME FactsInvariant, NEW hints \in SUBSET FactSources, NEW force \in BOOLEAN, NEW due \in BOOLEAN, NEW plan,
         plan = IF GitSeen THEN Probed(hints) ELSE Walked(hints, force, due)
  PROVE  /\ plan.head \in Nat /\ plan.dirty \in SUBSET {"a", "n"} /\ plan.open \in BOOLEAN /\ plan.kind \in {"git", "plain"}
         /\ plan.files \in SUBSET FactSources /\ plan.changed \in SUBSET FactSources
         /\ ~plan.anew => plan.files = st.listed
         /\ plan.kind = "git" <=> GitSeen
<1>1. /\ world \in WorldRecord /\ st \in StoreRecord /\ world.head \in Nat /\ 0 \in Nat
      /\ st.tainted \in SUBSET FactSources /\ st.listed \in SUBSET FactSources /\ st.dirty \in SUBSET {"a", "n"}
  BY WorldIs, StoreIs DEF FactsInvariant, FactTypes
<1>2. Enrolled(hints) \in BOOLEAN
  BY EnrolledIs
<1>3. Changes \in SUBSET {"a", "n"}
  BY <1>1, ChangesIs
<1>4. CASE GitSeen
  <2> DEFINE open == Enrolled(hints) \/ "n" \in Changes
             relists == Relists(Enrolled(hints))
             files == IF relists THEN Discovered(open) ELSE st.listed
             named == IF relists THEN files ELSE Changes \cap FactSources
  <2>1. plan = Probed(hints)
    BY <1>4
  <2>2. /\ plan.files = files /\ plan.open = open /\ plan.kind = "git" /\ plan.head = world.head /\ plan.dirty = Changes
        /\ plan.changed = hints \cup st.tainted \cup Readable(named) /\ plan.anew = relists
    BY <2>1 DEF Probed
  <2>3. open \in BOOLEAN
    BY <1>2
  <2>4. Discovered(open) \in SUBSET FactSources
    <3> HIDE DEF open
    <3> QED BY <1>1, <2>3, DiscoveredIs
  <2>5. files \in SUBSET FactSources
    BY <1>1, <2>4
  <2>6. named \in SUBSET FactSources
    BY <2>5
  <2>7. Readable(named) \in SUBSET FactSources
    BY <2>6 DEF Readable
  <2>8. ~relists => files = st.listed
    OBVIOUS
  <2> HIDE DEF open, relists, files, named
  <2> QED BY <1>1, <1>3, <1>4, <2>2, <2>3, <2>5, <2>7, <2>8
<1>5. CASE ~GitSeen
  <2> DEFINE open == Enrolled(hints)
             given == hints \cup st.tainted
             walk == force \/ due \/ given # {} \/ open # st.enrolled
             files == IF walk THEN Discovered(open) ELSE st.listed
             changed == IF walk /\ (force \/ due) THEN given \cup st.listed ELSE given
  <2>1. plan = Walked(hints, force, due)
    BY <1>5
  <2>2. /\ plan.files = files /\ plan.open = open /\ plan.kind = "plain" /\ plan.head = 0 /\ plan.dirty = st.dirty
        /\ plan.changed = changed /\ plan.anew = walk
    BY <2>1 DEF Walked
  <2>3. Discovered(open) \in SUBSET FactSources
    BY <1>1, <1>2, DiscoveredIs
  <2>4. files \in SUBSET FactSources /\ changed \in SUBSET FactSources
    BY <1>1, <2>3
  <2>5. ~walk => files = st.listed
    OBVIOUS
  <2> HIDE DEF open, walk, files, changed
  <2>6. open \in BOOLEAN
    BY <1>2 DEF open
  <2> QED BY <1>1, <1>5, <2>2, <2>4, <2>5, <2>6
<1> QED BY <1>4, <1>5

PassOf(plan, force) ==
  \/ /\ plan.changed = {} /\ plan.deleted = {} /\ ~plan.anew
     /\ st' = Noted(plan) /\ looked' = (looked \/ UpToDate(plan, force))
  \/ st' = NoState /\ looked' = FALSE
  \/ /\ looked' = (looked \/ UpToDate(plan, force))
     /\ \E backoff, reanchor, failing :
          st' = Refreshed(Noted(plan), plan.files, plan.changed, plan.deleted, backoff, reanchor, failing)

LEMMA RefreshFollows ==
  ASSUME FactsInvariant, NEW hints \in Failures, NEW force \in BOOLEAN, Refresh(hints, force)
  PROVE  FactsInvariant'
<1>1. hints \in SUBSET FactSources
  BY DEF Failures
<1>2. PICK due \in BOOLEAN : PassOf(IF GitSeen THEN Probed(hints) ELSE Walked(hints, force, due), force)
  <2>1. PICK due \in Choice(~GitSeen) :
          LET plan == IF GitSeen THEN Probed(hints) ELSE Walked(hints, force, due) IN
          \/ /\ plan.changed = {} /\ plan.deleted = {} /\ ~plan.anew
             /\ st' = Noted(plan) /\ looked' = (looked \/ UpToDate(plan, force))
          \/ /\ plan.changed # {} \/ plan.deleted # {} \/ plan.anew
             /\ \/ FailReading(plan) /\ looked' = FALSE
                \/ /\ looked' = (looked \/ UpToDate(plan, force))
                   /\ \E backoff \in Choice(st.tainted # {}), reanchor \in Choice(\E f \in plan.files : st.facts[f] # 0),
                        failing \in {F \in Failures : F \subseteq plan.files \cup plan.changed} :
                        st' = Refreshed(Noted(plan), plan.files, plan.changed, plan.deleted, backoff, reanchor, failing)
    BY DEF Refresh, Noted
  <2>2. due \in BOOLEAN
    BY DEF Choice
  <2> DEFINE plan == IF GitSeen THEN Probed(hints) ELSE Walked(hints, force, due)
  <2>3. \/ /\ plan.changed = {} /\ plan.deleted = {} /\ ~plan.anew
           /\ st' = Noted(plan) /\ looked' = (looked \/ UpToDate(plan, force))
        \/ /\ plan.changed # {} \/ plan.deleted # {} \/ plan.anew
           /\ \/ FailReading(plan) /\ looked' = FALSE
              \/ /\ looked' = (looked \/ UpToDate(plan, force))
                 /\ \E backoff \in Choice(st.tainted # {}), reanchor \in Choice(\E f \in plan.files : st.facts[f] # 0),
                      failing \in {F \in Failures : F \subseteq plan.files \cup plan.changed} :
                      st' = Refreshed(Noted(plan), plan.files, plan.changed, plan.deleted, backoff, reanchor, failing)
    BY <2>1
  <2> HIDE DEF plan
  <2>4. PassOf(plan, force)
    BY <2>3 DEF PassOf, FailReading
  <2> QED BY <2>2, <2>4 DEF plan
<1>3. st.up /\ world' = world /\ cache' = cache /\ acts' = acts
  BY DEF Refresh
<1> DEFINE plan == IF GitSeen THEN Probed(hints) ELSE Walked(hints, force, due)
<1>4. /\ plan.head \in Nat /\ plan.dirty \in SUBSET {"a", "n"} /\ plan.open \in BOOLEAN /\ plan.kind \in {"git", "plain"}
      /\ plan.files \in SUBSET FactSources /\ plan.changed \in SUBSET FactSources
      /\ (~plan.anew => plan.files = st.listed)
      /\ (plan.kind = "git" <=> GitSeen)
  BY ZenonT(60), <1>1, PlansAre
<1>5. world \in WorldRecord /\ looked \in BOOLEAN
  BY DEF FactsInvariant, FactTypes
<1>6. CASE st' = NoState /\ looked' = FALSE
  BY <1>3, <1>6, LetGo
<1>7. ASSUME looked' = (looked \/ UpToDate(plan, force)),
             Brought(Noted(plan), plan.files, plan.anew, plan.changed, plan.deleted, st')
      PROVE  FactsInvariant'
  <2>1. looked' \in BOOLEAN
    BY <1>5, <1>7 DEF UpToDate
  <2>2. CASE GitSeen
    <3>1. plan = Probed(hints)
      BY <2>2
    <3> HIDE DEF plan
    <3> QED BY <1>1, <1>3, <1>7, <2>1, <2>2, <3>1, ProbeFollows
  <2>3. CASE ~GitSeen
    <3>1. plan = Walked(hints, force, due)
      BY <2>3
    <3> HIDE DEF plan
    <3>2. looked' => looked \/ force
      BY <1>4, <1>5, <1>7, <2>3 DEF UpToDate
    <3> QED BY <1>1, <1>3, <1>7, <2>1, <2>3, <3>1, <3>2, WalkFollows
  <2> QED BY <2>2, <2>3
<1>8. CASE /\ plan.changed = {} /\ plan.deleted = {} /\ ~plan.anew
           /\ st' = Noted(plan) /\ looked' = (looked \/ UpToDate(plan, force))
  <2> HIDE DEF plan
  <2>1. Brought(Noted(plan), st.listed, FALSE, {}, {}, st')
    BY <1>4, <1>8, NothingToDo
  <2>2. plan.files = st.listed
    BY <1>4, <1>8
  <2>3. Brought(Noted(plan), plan.files, plan.anew, plan.changed, plan.deleted, st')
    BY <1>8, <2>1, <2>2 DEF Brought
  <2> QED BY <1>7, <1>8, <2>3
<1>9. CASE /\ looked' = (looked \/ UpToDate(plan, force))
           /\ \E backoff, reanchor, failing :
                st' = Refreshed(Noted(plan), plan.files, plan.changed, plan.deleted, backoff, reanchor, failing)
  <2> HIDE DEF plan
  <2>1. PICK backoff, reanchor, failing :
          st' = Refreshed(Noted(plan), plan.files, plan.changed, plan.deleted, backoff, reanchor, failing)
    BY <1>9
  <2>2. Noted(plan) \in StoreRecord /\ Sound(Noted(plan))
    BY <1>4, NotedIs
  <2>3. Brought(Noted(plan), plan.files, plan.anew, plan.changed, plan.deleted, st')
    BY <1>4, <1>5, <2>1, <2>2, RefreshedIs
  <2> QED BY <1>7, <1>9, <2>3
<1> QED BY <1>2, <1>6, <1>8, <1>9 DEF PassOf

\* The acts of the world, each an ageing.
LEMMA ActsAge ==
  ASSUME FactsInvariant,
         \/ Commit \/ Other
         \/ \E c \in FileContents : Checkout(c) \/ \E f \in FactSources : Write(f, c)
  PROVE  FactsInvariant'
<1>1. world \in WorldRecord /\ world.tree \in Stock /\ world.committed \in Stock /\ world.head \in Nat
  BY WorldIs DEF FactsInvariant, FactTypes
<1>2. FileContents \subseteq Nat
  BY DEF FileContents
<1>3. world.head + 1 \in Nat /\ world.head + 1 > world.head /\ 1 \in Nat /\ FALSE \in BOOLEAN
  BY <1>1
<1>4. CASE Commit
  <2> DEFINE w == [world EXCEPT !.committed = world.tree, !.head = @ + 1]
  <2>1. World(w, {})
    BY <1>4 DEF Commit
  <2>2. /\ w \in WorldRecord /\ w.tree = world.tree /\ w.head = world.head + 1 /\ w.marker = world.marker /\ w.git = world.git
    BY <1>1, <1>3 DEF WorldRecord
  <2> HIDE DEF w
  <2>3. {} \in SUBSET FactSources
    OBVIOUS
  <2> QED BY <1>3, <2>1, <2>2, <2>3, WorldAges
<1>5. CASE Other
  <2>1. CASE World([world EXCEPT !.git = FALSE], {})
    <3> DEFINE w == [world EXCEPT !.git = FALSE]
    <3>1. /\ w \in WorldRecord /\ w.tree = world.tree /\ w.committed = world.committed /\ w.head = world.head
          /\ w.marker = world.marker /\ w.git = FALSE
      BY <1>1, <1>3 DEF WorldRecord
    <3>2. World(w, {}) /\ {} \in SUBSET FactSources
      BY <2>1
    <3> HIDE DEF w
    <3> QED BY <3>1, <3>2, WorldAges
  <2>2. CASE World([world EXCEPT !.marker = FALSE], {})
    <3> DEFINE w == [world EXCEPT !.marker = FALSE]
    <3>1. /\ w \in WorldRecord /\ w.tree = world.tree /\ w.committed = world.committed /\ w.head = world.head
          /\ w.marker = FALSE /\ w.git = world.git
      BY <1>1, <1>3 DEF WorldRecord
    <3>2. World(w, {}) /\ {} \in SUBSET FactSources
      BY <2>2
    <3> HIDE DEF w
    <3> QED BY <3>1, <3>2, WorldAges
  <2>3. CASE World([world EXCEPT !.parser = 1], {})
    <3> DEFINE w == [world EXCEPT !.parser = 1]
    <3>1. /\ w \in WorldRecord /\ w.tree = world.tree /\ w.committed = world.committed /\ w.head = world.head
          /\ w.marker = world.marker /\ w.git = world.git
      BY <1>1, <1>3 DEF WorldRecord
    <3>2. World(w, {}) /\ {} \in SUBSET FactSources
      BY <2>3
    <3> HIDE DEF w
    <3> QED BY <3>1, <3>2, WorldAges
  <2> QED BY <1>5, <2>1, <2>2, <2>3 DEF Other
<1>6. ASSUME NEW c \in FileContents, Checkout(c) PROVE FactsInvariant'
  <2> DEFINE committed == [world.committed EXCEPT !["a"] = c]
             tree == [world.tree EXCEPT !["a"] = c]
             w == [world EXCEPT !.committed = committed, !.tree = tree, !.head = @ + 1]
  <2>1. World(w, {"a"}) /\ {"a"} \in SUBSET FactSources
    BY <1>6 DEF Checkout, FactSources
  <2>2. committed \in Stock /\ tree \in Stock /\ \A f \in FactSources \ {"a"} : tree[f] = world.tree[f]
    BY <1>1, <1>2 DEF Stock
  <2> HIDE DEF committed, tree
  <2>3. /\ w \in WorldRecord /\ w.tree = tree /\ w.head = world.head + 1 /\ w.marker = world.marker /\ w.git = world.git
    BY <1>1, <1>3, <2>2 DEF WorldRecord
  <2> HIDE DEF w
  <2> QED BY <1>3, <2>1, <2>2, <2>3, WorldAges
<1>7. ASSUME NEW c \in FileContents, NEW f \in FactSources, Write(f, c) PROVE FactsInvariant'
  <2> DEFINE tree == [world.tree EXCEPT ![f] = c]
             w == [world EXCEPT !.tree = tree]
  <2>1. World(w, {f}) /\ {f} \in SUBSET FactSources
    BY <1>7 DEF Write
  <2>2. tree \in Stock /\ \A g \in FactSources \ {f} : tree[g] = world.tree[g]
    BY <1>1, <1>2 DEF Stock
  <2> HIDE DEF tree
  <2>3. /\ w \in WorldRecord /\ w.tree = tree /\ w.head = world.head /\ w.committed = world.committed
        /\ w.marker = world.marker /\ w.git = world.git
    BY <1>1, <2>2 DEF WorldRecord
  <2> HIDE DEF w
  <2> QED BY <1>3, <2>1, <2>2, <2>3, WorldAges
<1> QED BY <1>4, <1>5, <1>6, <1>7

LEMMA FactsBegin == FactsInit => FactsInvariant
<1> SUFFICES ASSUME FactsInit PROVE FactsInvariant
  OBVIOUS
<1> DEFINE ones == [f \in FactSources |-> 1]
           w == [tree |-> ones, committed |-> ones, head |-> 0, git |-> TRUE, marker |-> TRUE, parser |-> 0]
<1>1. world = w /\ st = NoState /\ cache = NoCache /\ looked = FALSE /\ acts = 0
  BY DEF FactsInit
<1>2. ones \in Stock /\ NoFacts \in Stock /\ 0 \in Nat /\ {} \in SUBSET FactSources /\ TRUE \in BOOLEAN /\ FALSE \in BOOLEAN
  BY DEF Stock, NoFacts
<1> HIDE DEF ones
<1>3. w \in WorldRecord /\ w.head = 0
  BY <1>2 DEF WorldRecord
<1>4. /\ NoCache \in CacheRecord /\ ~NoCache.enrolled /\ NoCache.tainted = {} /\ NoCache.same = {}
      /\ \A f \in FactSources : NoCache.facts[f] = 0
  BY <1>2 DEF NoCache, CacheRecord, NoFacts
<1> HIDE DEF w
<1>5. FactTypes
  BY <1>1, <1>2, <1>3, <1>4, NoStateIs DEF FactTypes
<1>6. Sound(st) /\ Sound(cache)
  BY <1>1, <1>4, NoStateIs DEF Sound
<1>7. Boundaries
  BY <1>1, <1>4, NoStateIs DEF Boundaries, KnownFiles
<1>8. Basis /\ Looks /\ FactsFollow
  BY <1>1, <1>3, NoStateIs DEF Basis, Looks, FactsFollow
<1> QED BY <1>5, <1>6, <1>7, <1>8 DEF FactsInvariant

LEMMA FactsStep == FactsInvariant /\ [FactsNext]_factVars => FactsInvariant'
<1> SUFFICES ASSUME FactsInvariant, [FactsNext]_factVars PROVE FactsInvariant'
  OBVIOUS
<1>1. CASE Load
  BY <1>1, LoadArrives
<1>2. CASE Evict
  BY <1>2, LetGo DEF Evict
<1>3. CASE \/ Commit \/ Other
           \/ \E c \in FileContents : Checkout(c) \/ \E f \in FactSources : Write(f, c)
  BY <1>3, ActsAge
<1>4. CASE \E hints \in Failures, force \in BOOLEAN : Refresh(hints, force)
  BY <1>4, RefreshFollows
<1>5. CASE UNCHANGED factVars
  BY <1>5 DEF factVars, FactsInvariant, FactTypes, Sound, Boundaries, Basis, Looks, FactsFollow, KnownFiles, Discovered
<1> QED BY <1>1, <1>2, <1>3, <1>4, <1>5 DEF FactsNext

(* The facts about files are the truth wherever the navigator has just looked *)
(* (the refresh and the load of fovea/core/state.ts and build.ts), and facts  *)
(* not marked failed were extracted without a failure, across restarts.       *)
THEOREM FactsHold == FactsSpec => []FactsTrue
<1>1. FactsInvariant => FactsTrue
  BY DEF FactsInvariant, FactsTrue, FactsHonest, Sound
<1> QED BY <1>1, FactsBegin, FactsStep, PTL DEF FactsSpec

-----------------------------------------------------------------------------
(* The scratch directory.                                                     *)

ScratchSteps == {"enter", "drop"} \X Paths
DiskType == disk \in [Paths -> 0..MaxStamps]
OwnType == own \in [known : [Paths -> 0..Untracked], failure : BOOLEAN, closed : BOOLEAN]
TaskType == task = NoTask \/ task \in [target : TreePaths, snap : [Paths -> 0..MaxStamps], todo : Seq(ScratchSteps)]
SweepType == sweeping \in [pc : {"idle", "looked"}, seen : 0..MaxStamps] /\ held \in BOOLEAN
PastType ==
  past \in [stamps : 0..MaxStamps, tampers : Nat, foreign : SUBSET (1..MaxStamps), vetted : SUBSET (0..MaxStamps),
            lost : SUBSET (1..MaxStamps), captured : SUBSET (1..MaxStamps), outcome : {"none", "failed", "ok"}]
ScratchTypes == DiskType /\ OwnType /\ TaskType /\ SweepType /\ PastType

\* A node is in a directory that is there.
Nested == \A c \in Paths : disk[c] # 0 /\ Up(c) # "" => disk[Up(c)] # 0

\* What is recorded was captured; what was captured is recorded until it is
\* removed, unless an entry without identity bars every removal above it.
Recorded ==
  /\ \A p \in Paths : own.known[p] \in {0, Untracked} \cup past.captured
  /\ \A s \in past.captured : s \in past.lost \/ \E p \in Paths : own.known[p] \in {0, s}

\* A removal in progress: its steps are of its tree, its own directory goes last,
\* all it looked at is vetted, and what it will find recorded it is about to remove.
RemovalSound ==
  task # NoTask =>
    /\ task.todo # <<>> /\ task.todo[Len(task.todo)] = Drop(task.target)
    /\ \A i \in 1..Len(task.todo) : task.todo[i][2] \in Tree(task.target)
    /\ \A p \in Tree(task.target) :
         /\ task.snap[p] \in past.vetted
         /\ Known(p) => /\ own.known[p] = task.snap[p] /\ task.snap[p] # 0
                        /\ \E i \in 1..Len(task.todo) : task.todo[i] = Drop(p)
    /\ own.closed <=> task.target = "dir"

SweepSound == sweeping.pc = "looked" => sweeping.seen \in past.vetted

\* Before the directory is made there is nothing; a closed owner has no writer and
\* no sweep; after a close that succeeded there is nothing again.
Uncreated ==
  ~own.closed /\ ~Known("dir") => past.captured = {} /\ \A p \in Paths : disk[p] = 0 /\ ~Known(p)
Shut ==
  /\ own.closed => ~held /\ sweeping.pc = "idle"
  /\ past.outcome # "none" => own.closed /\ task = NoTask
  /\ past.outcome = "ok" => /\ ~Known("dir") /\ ~own.failure /\ past.captured \subseteq past.lost
                            /\ \A p \in Paths : disk[p] = 0

ScratchInvariant ==
  /\ ScratchTypes /\ Nested /\ Recorded /\ RemovalSound /\ SweepSound /\ Uncreated /\ Shut /\ OnlyVettedRemoved
-----------------------------------------------------------------------------
LEMMA PathTable ==
  /\ Paths = {"dir", "stage", "root", "stage/a", "root/a", "cache", "facts", "odd"}
  /\ Up("dir") = "" /\ Up("stage") = "dir" /\ Up("root") = "dir" /\ Up("cache") = "dir" /\ Up("facts") = "dir"
  /\ Up("odd") = "dir" /\ Up("stage/a") = "stage" /\ Up("root/a") = "root" /\ Up("") = ""
BY DEF Paths, TreePaths, Up

LEMMA TreeTable ==
  /\ Tree("dir") = Paths /\ Tree("stage") = {"stage", "stage/a"} /\ Tree("root") = {"root", "root/a"}
  /\ Tree("stage/a") = {"stage/a"} /\ Tree("root/a") = {"root/a"}
  /\ Tree("cache") = {"cache"} /\ Tree("facts") = {"facts"} /\ Tree("odd") = {"odd"}
<1>1. Tree("dir") = Paths
  BY PathTable DEF Tree
<1>2. Tree("stage") = {"stage", "stage/a"} /\ Tree("root") = {"root", "root/a"}
  BY PathTable DEF Tree
<1>3. Tree("stage/a") = {"stage/a"} /\ Tree("root/a") = {"root/a"}
  BY PathTable DEF Tree
<1>4. Tree("cache") = {"cache"} /\ Tree("facts") = {"facts"} /\ Tree("odd") = {"odd"}
  BY PathTable DEF Tree
<1> QED BY <1>1, <1>2, <1>3, <1>4

LEMMA KidsTable ==
  /\ Kids("stage") = {"stage/a"} /\ Kids("root") = {"root/a"}
  /\ Kids("dir") = {"stage", "root", "cache", "facts", "odd"}
  /\ \A p \in {"stage/a", "root/a", "cache", "facts", "odd"} : Kids(p) = {}
BY PathTable DEF Kids

LEMMA InitScratchHolds == ScratchInit => ScratchInvariant
<1> SUFFICES ASSUME ScratchInit PROVE ScratchInvariant
  OBVIOUS
<1>1. 0 \in 0..MaxStamps /\ Untracked \in 0..Untracked /\ 0 # Untracked
  BY ScratchBounds DEF Untracked
<1>2. ScratchTypes
  BY <1>1 DEF ScratchInit, ScratchTypes, DiskType, OwnType, TaskType, SweepType, PastType
<1> QED BY <1>1, <1>2 DEF ScratchInit, ScratchInvariant, Nested, Recorded, RemovalSound, SweepSound, Uncreated, Shut, OnlyVettedRemoved, Known
LEMMA FreshIs ==
  ASSUME PastType, MayStamp
  PROVE  /\ FreshStamp \in 1..MaxStamps /\ FreshStamp \in 0..MaxStamps /\ FreshStamp \in 0..Untracked
         /\ FreshStamp # Untracked /\ FreshStamp # 0 /\ past.stamps + 1 = FreshStamp
<1>1. past.stamps \in 0..MaxStamps
  BY DEF PastType
<1> QED BY <1>1, ScratchBounds DEF MayStamp, FreshStamp, Untracked

LEMMA NumbersAre ==
  /\ Untracked \in 0..Untracked /\ 0 \in 0..Untracked /\ 0 \in 0..MaxStamps /\ 0 # Untracked
  /\ \A n \in 0..MaxStamps : n \in 0..Untracked /\ n # Untracked
BY ScratchBounds DEF Untracked


\* An entry is written.
LEMMA EntryWritten ==
  ASSUME OwnType, NEW p \in Paths, NEW v \in 0..Untracked, own' = [own EXCEPT !.known[p] = v]
  PROVE  /\ OwnType' /\ own'.known = [own.known EXCEPT ![p] = v] /\ own'.known[p] = v
         /\ \A q \in Paths : q # p => own'.known[q] = own.known[q]
         /\ own'.failure = own.failure /\ own'.closed = own.closed
<1>1. own \in [known : [Paths -> 0..Untracked], failure : BOOLEAN, closed : BOOLEAN]
  BY DEF OwnType
<1> HIDE DEF Untracked
<1>2. [own.known EXCEPT ![p] = v] \in [Paths -> 0..Untracked]
  BY <1>1
<1>3. own'.known = [own.known EXCEPT ![p] = v] /\ own'.failure = own.failure /\ own'.closed = own.closed
  BY <1>1
<1>4. OwnType'
  BY <1>1, <1>2 DEF OwnType
<1> QED BY <1>1, <1>3, <1>4

\* The history when a node is created.
LEMMA StampedFields ==
  ASSUME PastType, MayStamp
  PROVE  /\ Stamped.lost = past.lost /\ Stamped.captured = past.captured /\ Stamped.vetted = past.vetted
         /\ Stamped.outcome = past.outcome /\ Stamped.stamps = past.stamps + 1 /\ Stamped.foreign = past.foreign
         /\ Stamped.tampers = past.tampers
         /\ Stamped \in [stamps : 0..MaxStamps, tampers : Nat, foreign : SUBSET (1..MaxStamps), vetted : SUBSET (0..MaxStamps),
              lost : SUBSET (1..MaxStamps), captured : SUBSET (1..MaxStamps), outcome : {"none", "failed", "ok"}]
<1>1. past.stamps + 1 \in 0..MaxStamps
  BY FreshIs
<1> QED BY <1>1 DEF PastType, Stamped

\* The owner made a node and recorded it, or failed to look at it.
Created(p) ==
  /\ DiskType' /\ OwnType' /\ PastType' /\ p \in {"dir", "stage", "root", "facts"} /\ p \in Paths
  /\ task = NoTask /\ ~own.closed /\ ~Known(p) /\ (p = "dir" \/ RootKept)
  /\ disk'[p] \in 1..MaxStamps /\ \A q \in Paths : q # p => disk'[q] = disk[q]
  /\ own'.known[p] \in {0, disk'[p]} /\ \A q \in Paths : q # p => own'.known[q] = own.known[q]
  /\ own'.failure = own.failure /\ own'.closed = own.closed
  /\ past'.captured = past.captured \cup {disk'[p]} /\ past'.lost = past.lost /\ past'.vetted = past.vetted
  /\ past'.outcome = past.outcome
  /\ task' = task /\ sweeping' = sweeping /\ held' = held

LEMMA CreatedBy ==
  ASSUME ScratchTypes, NEW p \in {"dir", "stage", "root", "facts"}, p = "dir" \/ RootKept, AdmittedNode, MayStamp,
         ~Known(p), NEW seen \in {0, FreshStamp},
         disk' = [disk EXCEPT ![p] = FreshStamp], own' = [own EXCEPT !.known[p] = seen],
         past' = [Stamped EXCEPT !.captured = @ \cup {FreshStamp}],
         task' = task, sweeping' = sweeping, held' = held
  PROVE  Created(p)
<1>0. MayStamp /\ DiskType /\ OwnType /\ PastType /\ p \in Paths /\ task = NoTask /\ ~own.closed
  BY PathTable DEF ScratchTypes, AdmittedNode, NoTaskRuns
<1>1. FreshStamp \in 1..MaxStamps /\ FreshStamp \in 0..MaxStamps /\ FreshStamp \in 0..Untracked /\ 0 \in 0..Untracked
  BY <1>0, FreshIs, NumbersAre
<1> HIDE DEF FreshStamp, Stamped, Untracked
<1>4. DiskType' /\ disk'[p] = FreshStamp /\ \A q \in Paths : q # p => disk'[q] = disk[q]
  BY <1>0, <1>1 DEF DiskType
<1>5. /\ OwnType' /\ own'.known[p] = seen /\ \A q \in Paths : q # p => own'.known[q] = own.known[q]
      /\ own'.failure = own.failure /\ own'.closed = own.closed
  BY <1>0, <1>1, EntryWritten
<1>6. /\ past'.captured = past.captured \cup {FreshStamp} /\ past'.lost = past.lost /\ past'.vetted = past.vetted
      /\ past'.outcome = past.outcome /\ PastType'
  BY <1>0, <1>1, StampedFields DEF PastType
<1> QED BY <1>0, <1>1, <1>4, <1>5, <1>6 DEF Created

LEMMA AllocateIs ==
  ASSUME ScratchTypes, NEW p \in {"dir", "stage", "root"}, p = "dir" \/ RootKept, Allocate(p)
  PROVE  Created(p)
<1> USE DEF Allocate
<1>1. PICK seen \in {0, FreshStamp} : /\ own' = [own EXCEPT !.known[p] = seen]
                                      /\ past' = [Stamped EXCEPT !.captured = @ \cup {FreshStamp}]
  OBVIOUS
<1>2. AdmittedNode /\ MayStamp /\ ~Known(p) /\ disk' = [disk EXCEPT ![p] = FreshStamp]
      /\ task' = task /\ sweeping' = sweeping /\ held' = held /\ p \in {"dir", "stage", "root", "facts"}
  OBVIOUS
<1> QED BY <1>1, <1>2, CreatedBy

LEMMA CaptureIs ==
  ASSUME ScratchTypes, CaptureFile
  PROVE  Created("facts")
<1> USE DEF CaptureFile
<1>1. /\ AdmittedNode /\ RootKept /\ MayStamp /\ ~Known("facts") /\ disk' = [disk EXCEPT !["facts"] = FreshStamp]
      /\ own' = [own EXCEPT !.known["facts"] = FreshStamp] /\ past' = [Stamped EXCEPT !.captured = @ \cup {FreshStamp}]
      /\ task' = task /\ sweeping' = sweeping /\ held' = held
  OBVIOUS
<1>2. FreshStamp \in {0, FreshStamp} /\ "facts" \in {"dir", "stage", "root", "facts"}
  OBVIOUS
<1> HIDE DEF CaptureFile
<1> QED BY <1>1, <1>2, CreatedBy

\* A node was made in a directory that is there, and nothing was removed.
Plain(p) ==
  /\ DiskType' /\ p \in Paths /\ disk'[p] # 0 /\ (Up(p) # "" => disk'[Up(p)] # 0)
  /\ \A q \in Paths : q # p => disk'[q] = disk[q]

LEMMA NestedGrows ==
  ASSUME Nested, NEW p, Plain(p)
  PROVE  Nested'
<1>1. ASSUME NEW c \in Paths, disk'[c] # 0, Up(c) # "" PROVE disk'[Up(c)] # 0
  <2>1. CASE c = p
    BY <2>1, <1>1 DEF Plain
  <2>2. CASE c # p
    <3>1. disk[c] # 0 /\ disk[Up(c)] # 0
      BY <2>2, <1>1 DEF Nested, Plain
    <3>2. Up(c) \in Paths
      BY <1>1, PathTable
    <3> QED BY <3>1, <3>2 DEF Plain
  <2> QED BY <2>1, <2>2
<1> QED BY <1>1 DEF Nested

LEMMA CreatedKeeps ==
  ASSUME ScratchInvariant, NEW p, Created(p)
  PROVE  ScratchInvariant'
<1> DEFINE v == disk'[p]
<1>1. ScratchTypes /\ Nested /\ Recorded /\ RemovalSound /\ SweepSound /\ Uncreated /\ Shut /\ OnlyVettedRemoved
  BY DEF ScratchInvariant
<1>2. /\ DiskType' /\ OwnType' /\ PastType'
      /\ v \in 1..MaxStamps /\ \A q \in Paths : q # p => disk'[q] = disk[q]
      /\ own'.known[p] \in {0, v} /\ \A q \in Paths : q # p => own'.known[q] = own.known[q]
      /\ own'.failure = own.failure /\ own'.closed = own.closed
      /\ past'.captured = past.captured \cup {v} /\ past'.lost = past.lost /\ past'.vetted = past.vetted
      /\ past'.outcome = past.outcome
      /\ task' = task /\ sweeping' = sweeping /\ held' = held
  BY DEF Created
<1>3. task = NoTask /\ ~own.closed /\ ~Known(p) /\ p \in Paths /\ (p = "dir" \/ RootKept)
      /\ p \in {"dir", "stage", "root", "facts"}
  BY DEF Created
<1>4. v # 0 /\ v # Untracked /\ 0 # Untracked
  BY <1>2, ScratchBounds DEF Untracked
<1> HIDE DEF v, Untracked
<1>5. ScratchTypes'
  BY <1>1, <1>2 DEF ScratchTypes, TaskType, SweepType
<1>6. Nested'
  <2>1. p # "dir" => disk'["dir"] # 0
    BY <1>1, <1>2, <1>3, PathTable DEF RootKept
  <2>2. Plain(p)
    BY <2>1, <1>2, <1>3, <1>4, PathTable DEF Plain, v
  <2> QED BY <2>2, <1>1, NestedGrows
<1>7. Recorded'
  <2>1. ASSUME NEW q \in Paths PROVE own'.known[q] \in {0, Untracked} \cup past'.captured
    BY <1>1, <1>2 DEF Recorded
  <2>2. ASSUME NEW s \in past'.captured PROVE s \in past'.lost \/ \E q \in Paths : own'.known[q] \in {0, s}
    <3>1. CASE s = v
      BY <3>1, <1>2, <1>3
    <3>2. CASE s # v
      <4>1. s \in past.captured
        BY <3>2, <1>2
      <4>2. CASE s \in past.lost
        BY <4>2, <1>2
      <4>3. CASE \E q \in Paths : own.known[q] \in {0, s}
        <5>1. PICK q \in Paths : own.known[q] \in {0, s}
          BY <4>3
        <5>2. s # Untracked
          BY <4>1, <1>1, ScratchBounds DEF ScratchTypes, PastType, Untracked
        <5>3. q # p
          BY <5>1, <5>2, <1>3, <1>4 DEF Known
        <5> QED BY <5>1, <5>3, <1>2
      <4> QED BY <4>1, <4>2, <4>3, <1>1 DEF Recorded
    <3> QED BY <3>1, <3>2
  <2> QED BY <2>1, <2>2 DEF Recorded
<1>8. RemovalSound' /\ SweepSound' /\ OnlyVettedRemoved'
  BY <1>1, <1>2, <1>3 DEF RemovalSound, SweepSound, OnlyVettedRemoved
<1>9. Known("dir")'
  <2>1. CASE p = "dir"
    BY <2>1, <1>2, <1>4 DEF Known
  <2>2. CASE p # "dir"
    BY <2>2, <1>2, <1>3, PathTable DEF Known, RootKept
  <2> QED BY <2>1, <2>2
<1>10. Uncreated' /\ Shut'
  BY <1>1, <1>2, <1>3, <1>9 DEF Uncreated, Shut
<1> QED BY <1>5, <1>6, <1>7, <1>8, <1>10 DEF ScratchInvariant

\* A step that makes or removes nodes and records nothing.
Elsewhere ==
  /\ DiskType' /\ PastType' /\ Nested' /\ own' = own /\ task' = task /\ sweeping' = sweeping
  /\ held' \in BOOLEAN /\ (held' /\ ~held => ~own.closed) /\ (Known("dir") \/ disk' = disk)
  /\ past'.lost = past.lost /\ past'.captured = past.captured /\ past'.vetted = past.vetted
  /\ past'.outcome = past.outcome

LEMMA ElsewhereKeeps ==
  ASSUME ScratchInvariant, Elsewhere
  PROVE  ScratchInvariant'
<1>1. ScratchTypes /\ Nested /\ Recorded /\ RemovalSound /\ SweepSound /\ Uncreated /\ Shut /\ OnlyVettedRemoved
  BY DEF ScratchInvariant
<1> USE DEF Elsewhere
<1>2. ScratchTypes' /\ Nested'
  BY <1>1 DEF ScratchTypes, OwnType, TaskType, SweepType
<1>3. Recorded'
  BY <1>1 DEF Recorded
<1>4. RemovalSound' /\ SweepSound' /\ OnlyVettedRemoved'
  BY <1>1 DEF RemovalSound, SweepSound, OnlyVettedRemoved, Known
<1>5. Uncreated'
  BY <1>1 DEF Uncreated, Known
<1>6. Shut'
  BY <1>1 DEF Shut, Known
<1> QED BY <1>2, <1>3, <1>4, <1>5, <1>6 DEF ScratchInvariant

LEMMA FillKeeps ==
  ASSUME ScratchInvariant, FillStage
  PROVE  ScratchInvariant'
<1>1. ScratchTypes /\ Nested /\ Uncreated /\ DiskType /\ PastType
  BY DEF ScratchInvariant, ScratchTypes
<1>2. /\ AdmittedNode /\ MayStamp /\ Known("stage") /\ disk["stage"] # 0 /\ disk' = [disk EXCEPT !["stage/a"] = FreshStamp]
      /\ past' = Stamped /\ own' = own /\ task' = task /\ sweeping' = sweeping /\ held' = held
  BY DEF FillStage
<1>3. FreshStamp \in 1..MaxStamps /\ FreshStamp \in 0..MaxStamps /\ FreshStamp # 0
  BY <1>1, <1>2, FreshIs
<1> HIDE DEF FreshStamp
<1>4. DiskType' /\ disk'["stage/a"] = FreshStamp /\ \A q \in Paths : q # "stage/a" => disk'[q] = disk[q]
  BY <1>1, <1>2, <1>3, PathTable DEF DiskType
<1>5. Plain("stage/a")
  BY <1>2, <1>3, <1>4, PathTable DEF Plain
<1>6. PastType' /\ past'.lost = past.lost /\ past'.captured = past.captured /\ past'.vetted = past.vetted
      /\ past'.outcome = past.outcome
  BY <1>1, <1>2, StampedFields DEF PastType
<1>7. Known("dir")
  BY <1>1, <1>2, PathTable DEF Uncreated, AdmittedNode
<1>8. Elsewhere
  BY <1>1, <1>2, <1>4, <1>5, <1>6, <1>7, NestedGrows DEF Elsewhere, ScratchTypes, SweepType
<1> QED BY <1>8, ElsewhereKeeps

LEMMA HoldKeeps ==
  ASSUME ScratchInvariant, HoldCache
  PROVE  ScratchInvariant'
<1>1. ScratchTypes /\ Nested /\ DiskType /\ PastType
  BY DEF ScratchInvariant, ScratchTypes
<1>2. /\ AdmittedNode /\ RootKept /\ held' = TRUE /\ disk' = disk /\ own' = own /\ task' = task
      /\ sweeping' = sweeping /\ past' = past
  BY DEF HoldCache
<1>3. DiskType' /\ PastType' /\ Nested'
  BY <1>1, <1>2 DEF DiskType, PastType, Nested
<1>4. Elsewhere
  BY <1>2, <1>3 DEF Elsewhere, AdmittedNode
<1> QED BY <1>4, ElsewhereKeeps

LEMMA PublishKeeps ==
  ASSUME ScratchInvariant, PublishCache
  PROVE  ScratchInvariant'
<1>1. ScratchTypes /\ Nested /\ Uncreated /\ Shut /\ DiskType /\ PastType
  BY DEF ScratchInvariant, ScratchTypes
<1>2. held /\ held' = FALSE /\ own' = own /\ task' = task /\ sweeping' = sweeping
  BY DEF PublishCache
<1>3. CASE disk' = disk /\ past' = past
  <2>1. DiskType' /\ PastType' /\ Nested'
    BY <1>1, <1>3 DEF DiskType, PastType, Nested
  <2>2. Elsewhere
    BY <1>2, <1>3, <2>1 DEF Elsewhere
  <2> QED BY <2>2, ElsewhereKeeps
<1>4. CASE MayStamp /\ disk["dir"] # 0 /\ disk' = [disk EXCEPT !["cache"] = FreshStamp] /\ past' = Stamped
  <2>1. FreshStamp \in 1..MaxStamps /\ FreshStamp \in 0..MaxStamps /\ FreshStamp # 0
    BY <1>1, <1>4, FreshIs
  <2> HIDE DEF FreshStamp
  <2>2. DiskType' /\ disk'["cache"] = FreshStamp /\ \A q \in Paths : q # "cache" => disk'[q] = disk[q]
    BY <1>1, <1>4, <2>1, PathTable DEF DiskType
  <2>3. Plain("cache")
    BY <1>4, <2>1, <2>2, PathTable DEF Plain
  <2>4. PastType' /\ past'.lost = past.lost /\ past'.captured = past.captured /\ past'.vetted = past.vetted
        /\ past'.outcome = past.outcome
    BY <1>1, <1>4, StampedFields DEF PastType
  <2>5. Known("dir")
    BY <1>1, <1>2, <1>4, PathTable DEF Uncreated, Shut
  <2>6. Elsewhere
    BY <1>1, <1>2, <2>2, <2>3, <2>4, <2>5, NestedGrows DEF Elsewhere
  <2> QED BY <2>6, ElsewhereKeeps
<1> QED BY <1>3, <1>4 DEF PublishCache

LEMMA TamperKeeps ==
  ASSUME ScratchInvariant, NEW p \in Paths, Tamper(p)
  PROVE  ScratchInvariant'
<1>1. ScratchTypes /\ Nested /\ DiskType /\ PastType
  BY DEF ScratchInvariant, ScratchTypes
<1>2. /\ Known("dir") /\ (Up(p) # "" => disk[Up(p)] # 0) /\ own' = own /\ task' = task /\ sweeping' = sweeping
      /\ held' = held
  BY DEF Tamper
<1>3. \A c \in Paths : Up(c) \in Tree(p) => c \in Tree(p)
  BY PathTable, TreeTable
<1>4. p \in Tree(p) /\ Up(p) \notin Tree(p)
  BY PathTable, TreeTable
<1>5. CASE /\ MayStamp /\ disk' = [q \in Paths |-> IF q = p THEN FreshStamp ELSE IF q \in Tree(p) THEN 0 ELSE disk[q]]
           /\ past' = [Stamped EXCEPT !.tampers = @ + 1, !.foreign = @ \cup {FreshStamp}]
  <2>1. FreshStamp \in 1..MaxStamps /\ FreshStamp \in 0..MaxStamps /\ FreshStamp # 0 /\ 0 \in 0..MaxStamps
    BY <1>1, <1>5, FreshIs, NumbersAre
  <2> HIDE DEF FreshStamp, Stamped
  <2>2. DiskType'
    BY <1>1, <1>5, <2>1 DEF DiskType
  <2>3. disk'[p] # 0 /\ \A q \in Paths : q # p => disk'[q] = IF q \in Tree(p) THEN 0 ELSE disk[q]
    BY <1>5, <2>1
  <2>4. ASSUME NEW c \in Paths, disk'[c] # 0, Up(c) # "" PROVE disk'[Up(c)] # 0
    <3>1. Up(c) \in Paths
      BY <2>4, PathTable
    <3>2. CASE c = p
      <4>1. Up(p) # p
        BY <3>2, PathTable
      <4> QED BY <3>1, <3>2, <4>1, <2>3, <2>4, <1>2, <1>4
    <3>3. CASE c # p
      <4>1. c \notin Tree(p) /\ disk[c] # 0 /\ disk[Up(c)] # 0
        BY <3>3, <2>3, <2>4, <1>1 DEF Nested
      <4> QED BY <4>1, <3>1, <2>3, <1>3
    <3> QED BY <3>2, <3>3
  <2>5. PastType' /\ past'.lost = past.lost /\ past'.captured = past.captured /\ past'.vetted = past.vetted
        /\ past'.outcome = past.outcome
    <3>1. past.tampers + 1 \in Nat /\ past.foreign \cup {FreshStamp} \in SUBSET (1..MaxStamps)
      BY <1>1, <2>1 DEF PastType
    <3>2. past' = [Stamped EXCEPT !.tampers = past.tampers + 1, !.foreign = past.foreign \cup {FreshStamp}]
      BY <1>1, <1>5, StampedFields
    <3> QED BY <1>1, <1>5, <3>1, <3>2, StampedFields DEF PastType
  <2>6. Elsewhere
    BY <1>1, <1>2, <2>2, <2>4, <2>5 DEF Elsewhere, Nested, ScratchTypes, SweepType
  <2> QED BY <2>6, ElsewhereKeeps
<1>6. CASE /\ disk' = [q \in Paths |-> IF q \in Tree(p) THEN 0 ELSE disk[q]]
           /\ past' = [past EXCEPT !.tampers = @ + 1]
  <2>1. 0 \in 0..MaxStamps
    BY NumbersAre
  <2>2. DiskType' /\ \A q \in Paths : disk'[q] = IF q \in Tree(p) THEN 0 ELSE disk[q]
    BY <1>1, <1>6, <2>1 DEF DiskType
  <2>3. ASSUME NEW c \in Paths, disk'[c] # 0, Up(c) # "" PROVE disk'[Up(c)] # 0
    <3>1. Up(c) \in Paths
      BY <2>3, PathTable
    <3>2. c \notin Tree(p) /\ disk[c] # 0 /\ disk[Up(c)] # 0
      BY <2>2, <2>3, <1>1 DEF Nested
    <3> QED BY <3>1, <3>2, <2>2, <1>3
  <2>4. PastType' /\ past'.lost = past.lost /\ past'.captured = past.captured /\ past'.vetted = past.vetted
        /\ past'.outcome = past.outcome
    BY <1>1, <1>6 DEF PastType
  <2>5. Elsewhere
    BY <1>1, <1>2, <2>2, <2>3, <2>4 DEF Elsewhere, Nested, ScratchTypes, SweepType
  <2> QED BY <2>5, ElsewhereKeeps
<1> QED BY <1>5, <1>6 DEF Tamper

LEMMA SeesKeeps ==
  ASSUME ScratchInvariant, SweepSees
  PROVE  ScratchInvariant'
<1>1. /\ ScratchTypes /\ Nested /\ Recorded /\ RemovalSound /\ SweepSound /\ Uncreated /\ Shut /\ OnlyVettedRemoved
      /\ DiskType /\ PastType
  BY DEF ScratchInvariant, ScratchTypes
<1>2. /\ ~own.closed /\ ~held /\ sweeping' = [pc |-> "looked", seen |-> disk["cache"]]
      /\ past' = [past EXCEPT !.vetted = @ \cup {disk["cache"]}] /\ disk' = disk /\ own' = own /\ task' = task /\ held' = held
  BY DEF SweepSees
<1>3. disk["cache"] \in 0..MaxStamps
  BY <1>1, PathTable DEF DiskType
<1>4. /\ PastType' /\ past'.vetted = past.vetted \cup {disk["cache"]} /\ past'.lost = past.lost
      /\ past'.captured = past.captured /\ past'.outcome = past.outcome
  BY <1>1, <1>2, <1>3 DEF PastType
<1>5. SweepType'
  BY <1>1, <1>2, <1>3 DEF ScratchTypes, SweepType
<1>6. ScratchTypes' /\ Nested'
  BY <1>1, <1>2, <1>4, <1>5 DEF ScratchTypes, DiskType, OwnType, TaskType, Nested
<1>7. Recorded' /\ Uncreated'
  BY <1>1, <1>2, <1>4 DEF Recorded, Uncreated, Known
<1>8. RemovalSound'
  BY <1>1, <1>2, <1>4 DEF RemovalSound, Known
<1>9. SweepSound' /\ Shut' /\ OnlyVettedRemoved'
  BY <1>1, <1>2, <1>4 DEF SweepSound, Shut, OnlyVettedRemoved
<1> QED BY <1>6, <1>7, <1>8, <1>9 DEF ScratchInvariant

LEMMA MoveKeeps ==
  ASSUME ScratchInvariant, MoveStage
  PROVE  ScratchInvariant'
<1>1. /\ ScratchTypes /\ Nested /\ Recorded /\ RemovalSound /\ SweepSound /\ Uncreated /\ Shut /\ OnlyVettedRemoved
      /\ DiskType /\ OwnType /\ PastType
  BY DEF ScratchInvariant, ScratchTypes
<1>2. /\ task = NoTask /\ ~own.closed /\ RootKept /\ own.known["stage"] # 0 /\ disk["stage"] = own.known["stage"]
      /\ ~Known("root")
      /\ disk' = [disk EXCEPT !["root"] = disk["stage"], !["root/a"] = disk["stage/a"], !["stage"] = 0, !["stage/a"] = 0]
      /\ own' = [own EXCEPT !.known = [@ EXCEPT !["root"] = own.known["stage"], !["stage"] = Untracked]]
      /\ task' = task /\ sweeping' = sweeping /\ held' = held /\ past' = past
  BY DEF MoveStage, AdmittedNode, NoTaskRuns
<1>3. /\ disk["stage"] \in 0..MaxStamps /\ disk["stage/a"] \in 0..MaxStamps /\ 0 \in 0..MaxStamps
      /\ own.known["stage"] \in 0..Untracked /\ Untracked \in 0..Untracked
  BY <1>1, PathTable, NumbersAre DEF DiskType, OwnType
<1>4. /\ DiskType' /\ disk'["root"] = disk["stage"] /\ disk'["root/a"] = disk["stage/a"] /\ disk'["stage"] = 0
      /\ disk'["stage/a"] = 0 /\ \A q \in Paths \ {"root", "root/a", "stage", "stage/a"} : disk'[q] = disk[q]
  BY <1>1, <1>2, <1>3, PathTable DEF DiskType
<1> HIDE DEF Untracked
<1>5. [own.known EXCEPT !["root"] = own.known["stage"], !["stage"] = Untracked] \in [Paths -> 0..Untracked]
  BY <1>1, <1>3 DEF OwnType
<1>6. /\ OwnType' /\ own'.failure = own.failure /\ own'.closed = own.closed
      /\ own'.known = [own.known EXCEPT !["root"] = own.known["stage"], !["stage"] = Untracked]
  BY <1>1, <1>2, <1>5 DEF OwnType
<1>7. /\ own'.known["root"] = own.known["stage"] /\ own'.known["stage"] = Untracked
      /\ \A q \in Paths \ {"root", "stage"} : own'.known[q] = own.known[q]
  BY <1>1, <1>6, PathTable DEF OwnType
<1>8. ScratchTypes'
  BY <1>1, <1>2, <1>4, <1>6 DEF ScratchTypes, TaskType, SweepType, PastType
<1>9. Nested'
  <2>1. disk["dir"] # 0
    BY <1>1, <1>2, PathTable DEF RootKept
  <2>2. disk["stage"] # 0
    BY <1>2
  <2>3. ASSUME NEW c \in Paths, disk'[c] # 0, Up(c) # "" PROVE disk'[Up(c)] # 0
    <3>1. CASE c = "root/a"
      BY <3>1, <2>2, <1>4, PathTable
    <3>2. CASE c \in {"stage", "stage/a"}
      BY <3>2, <2>3, <1>4
    <3>3. CASE c \notin {"root/a", "stage", "stage/a"}
      <4>1. Up(c) = "dir"
        BY <3>3, <2>3, PathTable
      <4> QED BY <4>1, <2>1, <1>4, PathTable
    <3> QED BY <3>1, <3>2, <3>3
  <2> QED BY <2>3 DEF Nested
<1>10. Recorded'
  <2>1. ASSUME NEW q \in Paths PROVE own'.known[q] \in {0, Untracked} \cup past'.captured
    <3>1. "stage" \in Paths
      BY PathTable
    <3> QED BY <3>1, <1>1, <1>2, <1>7 DEF Recorded
  <2>2. ASSUME NEW s \in past'.captured PROVE s \in past'.lost \/ \E q \in Paths : own'.known[q] \in {0, s}
    <3>1. CASE s \in past.lost
      BY <3>1, <1>2
    <3>2. CASE \E q \in Paths : own.known[q] \in {0, s}
      <4>1. PICK q \in Paths : own.known[q] \in {0, s}
        BY <3>2
      <4>2. s # Untracked /\ 0 # Untracked
        BY <2>2, <1>1, <1>2, ScratchBounds DEF PastType, Untracked
      <4>3. q # "root"
        BY <4>1, <4>2, <1>2 DEF Known
      <4>4. CASE q = "stage"
        BY <4>1, <4>4, <1>7, PathTable
      <4>5. CASE q # "stage"
        BY <4>1, <4>3, <4>5, <1>7
      <4> QED BY <4>4, <4>5
    <3> QED BY <3>1, <3>2, <1>1, <1>2 DEF Recorded
  <2> QED BY <2>1, <2>2 DEF Recorded
<1>11. RemovalSound' /\ SweepSound' /\ OnlyVettedRemoved'
  BY <1>1, <1>2 DEF RemovalSound, SweepSound, OnlyVettedRemoved
<1>12. Known("dir")'
  BY <1>2, <1>7, PathTable DEF Known, RootKept
<1>13. Uncreated' /\ Shut'
  BY <1>1, <1>2, <1>6, <1>12 DEF Uncreated, Shut
<1> QED BY <1>8, <1>9, <1>10, <1>11, <1>13 DEF ScratchInvariant

\* A failure is noted and nothing is removed; a removal in progress may end.
Fading ==
  /\ own' = [own EXCEPT !.failure = TRUE] /\ disk' = disk /\ held' = held
  /\ \/ task' = task /\ past' = past /\ past.outcome # "ok"
     \/ task' = NoTask /\ past' = (IF own.closed THEN [past EXCEPT !.outcome = "failed"] ELSE past)
  /\ SweepType' /\ SweepSound' /\ (own.closed => sweeping' = sweeping)

LEMMA FadingKeeps ==
  ASSUME ScratchInvariant, Fading
  PROVE  ScratchInvariant'
<1>1. /\ ScratchTypes /\ Nested /\ Recorded /\ RemovalSound /\ SweepSound /\ Uncreated /\ Shut /\ OnlyVettedRemoved
      /\ DiskType /\ OwnType /\ PastType /\ TaskType
  BY DEF ScratchInvariant, ScratchTypes
<1>2. OwnType' /\ own'.known = own.known /\ own'.closed = own.closed
  BY <1>1 DEF Fading, OwnType
<1>3. /\ PastType' /\ past'.lost = past.lost /\ past'.captured = past.captured /\ past'.vetted = past.vetted
      /\ (past' = past \/ (own.closed /\ task' = NoTask /\ past'.outcome = "failed"))
  <2>1. CASE past' = past
    BY <2>1, <1>1 DEF PastType
  <2>2. CASE own.closed /\ task' = NoTask /\ past' = [past EXCEPT !.outcome = "failed"]
    BY <2>2, <1>1 DEF PastType
  <2> QED BY <2>1, <2>2 DEF Fading
<1>4. disk' = disk /\ held' = held /\ (task' = task \/ task' = NoTask) /\ SweepType' /\ SweepSound'
  BY DEF Fading
<1>5. ScratchTypes' /\ Nested' /\ Recorded' /\ Uncreated' /\ OnlyVettedRemoved'
  BY <1>1, <1>2, <1>3, <1>4 DEF ScratchTypes, DiskType, TaskType, Nested, Recorded, Uncreated, Known, OnlyVettedRemoved
<1>6. RemovalSound'
  <2>1. CASE task' = NoTask
    BY <2>1 DEF RemovalSound
  <2>2. CASE task' = task
    BY <2>2, <1>1, <1>2, <1>3 DEF RemovalSound, Known
  <2> QED BY <1>4, <2>1, <2>2
<1>7. past'.outcome # "ok"
  <2>1. CASE task' = task /\ past' = past /\ past.outcome # "ok"
    BY <2>1
  <2>2. CASE past' = past /\ ~own.closed
    BY <2>2, <1>1 DEF Shut
  <2>3. CASE past' = [past EXCEPT !.outcome = "failed"]
    BY <2>3, <1>1 DEF PastType
  <2> QED BY <2>1, <2>2, <2>3 DEF Fading
<1>8. Shut'
  BY <1>1, <1>2, <1>3, <1>4, <1>7 DEF Shut, Fading
<1> QED BY <1>4, <1>5, <1>6, <1>8 DEF ScratchInvariant

\* A file of the directory goes away, and the entry about it; it was looked at.
LEMMA TemporaryKeeps ==
  ASSUME ScratchInvariant, ~own.closed, NEW p \in {"facts", "cache"}, NEW e, NEW av \in BOOLEAN, Temporary(p, e, av),
         disk[p] # 0 /\ disk[p] = e => e \in past.vetted \cup past.captured,
         SweepType', SweepSound',
         task' = task, held' = held
  PROVE  ScratchInvariant'
<1>1. /\ ScratchTypes /\ Nested /\ Recorded /\ RemovalSound /\ SweepSound /\ Uncreated /\ Shut /\ OnlyVettedRemoved
      /\ DiskType /\ OwnType /\ PastType /\ TaskType
  BY DEF ScratchInvariant, ScratchTypes
<1>2. past.outcome = "none" /\ p \in Paths
  BY <1>1, PathTable DEF Shut
<1>3. CASE disk' = disk /\ own' = own /\ past' = past
  <2>1. ScratchTypes'
    BY <1>1, <1>3 DEF ScratchTypes, DiskType, OwnType, TaskType, PastType
  <2>2. Nested' /\ Recorded' /\ RemovalSound' /\ Uncreated' /\ OnlyVettedRemoved'
    BY <1>1, <1>3 DEF Nested, Recorded, RemovalSound, Uncreated, OnlyVettedRemoved, Known
  <2>3. Shut'
    BY <1>1, <1>3, <1>2 DEF Shut
  <2> QED BY <2>1, <2>2, <2>3 DEF ScratchInvariant
<1>4. CASE own' = [own EXCEPT !.failure = TRUE] /\ disk' = disk /\ past' = past
  <2>1. Fading
    BY <1>2, <1>4 DEF Fading
  <2> QED BY <2>1, FadingKeeps
<1>5. CASE /\ RootKept /\ ~(Known(p) /\ disk[p] # own.known[p]) /\ disk[p] # 0 /\ disk[p] = e
           /\ disk' = [disk EXCEPT ![p] = 0] /\ own' = [own EXCEPT !.known[p] = Untracked] /\ past' = Gone(p, past)
  <2>1. disk[p] \in 1..MaxStamps /\ 0 \in 0..MaxStamps /\ Untracked \in 0..Untracked /\ disk[p] # Untracked /\ 0 # Untracked
    BY <1>1, <1>2, <1>5, NumbersAre, ScratchBounds DEF DiskType
  <2> HIDE DEF Untracked
  <2>2. DiskType' /\ disk'[p] = 0 /\ \A q \in Paths : q # p => disk'[q] = disk[q]
    BY <1>1, <1>2, <1>5, <2>1 DEF DiskType
  <2>3. /\ OwnType' /\ own'.known[p] = Untracked /\ \A q \in Paths : q # p => own'.known[q] = own.known[q]
        /\ own'.failure = own.failure /\ own'.closed = own.closed
    BY <1>1, <1>2, <1>5, <2>1, EntryWritten
  <2>4. /\ PastType' /\ past'.lost = past.lost \cup {disk[p]} /\ past'.captured = past.captured
        /\ past'.vetted = past.vetted /\ past'.outcome = past.outcome
    BY <1>1, <1>5, <2>1 DEF PastType, Gone
  <2>5. ScratchTypes'
    BY <1>1, <2>2, <2>3, <2>4 DEF ScratchTypes, TaskType
  <2>6. Nested'
    <3>1. ASSUME NEW c \in Paths, disk'[c] # 0, Up(c) # "" PROVE disk'[Up(c)] # 0
      <4>1. c # p /\ Up(c) # p /\ Up(c) \in Paths
        BY <3>1, <2>2, PathTable
      <4> QED BY <4>1, <3>1, <2>2, <1>1 DEF Nested
    <3> QED BY <3>1 DEF Nested
  <2>7. Recorded'
    <3>1. ASSUME NEW q \in Paths PROVE own'.known[q] \in {0, Untracked} \cup past'.captured
      BY <1>1, <2>3, <2>4 DEF Recorded
    <3>2. ASSUME NEW s \in past'.captured PROVE s \in past'.lost \/ \E q \in Paths : own'.known[q] \in {0, s}
      <4>1. CASE s \in past.lost
        BY <4>1, <2>4
      <4>2. CASE \E q \in Paths : own.known[q] \in {0, s}
        <5>1. PICK q \in Paths : own.known[q] \in {0, s}
          BY <4>2
        <5>2. s # Untracked
          BY <3>2, <2>4, <1>1, ScratchBounds DEF PastType, Untracked
        <5>3. CASE q = p
          BY <5>1, <5>2, <5>3, <1>5, <2>1, <2>4 DEF Known
        <5>4. CASE q # p
          BY <5>1, <5>4, <2>3
        <5> QED BY <5>3, <5>4
      <4> QED BY <3>2, <4>1, <4>2, <2>4, <1>1 DEF Recorded
    <3> QED BY <3>1, <3>2 DEF Recorded
  <2>8. RemovalSound'
    <3>1. ASSUME NEW q \in Paths, Known(q)' PROVE Known(q) /\ own'.known[q] = own.known[q]
      BY <3>1, <2>3 DEF Known
    <3>2. \A t \in TreePaths : Tree(t) \subseteq Paths
      BY DEF Tree
    <3>3. task # NoTask => task.target \in TreePaths
      BY <1>1 DEF TaskType
    <3> QED BY <3>1, <3>2, <3>3, <1>1, <2>3, <2>4 DEF RemovalSound
  <2>9. Known("dir")'
    BY <1>5, <2>3, PathTable DEF Known, RootKept
  <2>10. Uncreated' /\ Shut' /\ OnlyVettedRemoved'
    BY <1>1, <1>2, <1>5, <2>3, <2>4, <2>9 DEF Uncreated, Shut, OnlyVettedRemoved
  <2> QED BY <2>5, <2>6, <2>7, <2>8, <2>10 DEF ScratchInvariant
<1> QED BY <1>3, <1>4, <1>5 DEF Temporary

LEMMA RemoveFileKeeps ==
  ASSUME ScratchInvariant, RemoveFile
  PROVE  ScratchInvariant'
<1>1. /\ ScratchTypes /\ SweepSound /\ Recorded /\ OwnType
  BY DEF ScratchInvariant, ScratchTypes
<1>2. /\ ~own.closed /\ Temporary("facts", own.known["facts"], TRUE) /\ task' = task /\ held' = held /\ sweeping' = sweeping
      /\ Known("facts")
  BY DEF RemoveFile
<1>3. own.known["facts"] # 0 => own.known["facts"] \in past.vetted \cup past.captured
  BY <1>1, <1>2, PathTable DEF Recorded, Known
<1>4. SweepType'
  BY <1>1, <1>2 DEF ScratchTypes, SweepType
<1>5. past'.vetted = past.vetted
  BY <1>1, <1>2 DEF Temporary, Gone, ScratchTypes, PastType
<1>6. SweepSound'
  BY <1>1, <1>2, <1>5 DEF SweepSound
<1> QED BY <1>2, <1>3, <1>4, <1>5, <1>6, <1>1, TemporaryKeeps DEF SweepSound

LEMMA SweepRemovesKeeps ==
  ASSUME ScratchInvariant, SweepRemoves
  PROVE  ScratchInvariant'
<1>1. /\ ScratchTypes /\ SweepSound /\ Shut /\ SweepType
  BY DEF ScratchInvariant, ScratchTypes
<1>2. /\ sweeping.pc = "looked" /\ sweeping' = [pc |-> "idle", seen |-> 0] /\ Temporary("cache", sweeping.seen, ~held)
      /\ task' = task /\ held' = held
  BY DEF SweepRemoves
<1>3. ~own.closed /\ sweeping.seen \in past.vetted
  BY <1>1, <1>2 DEF Shut, SweepSound
<1>4. SweepType' /\ SweepSound'
  BY <1>1, <1>2, NumbersAre DEF SweepType, SweepSound
<1>5. (~held) \in BOOLEAN
  OBVIOUS
<1>6. sweeping'.pc # "looked"
  BY <1>2
<1> QED BY <1>2, <1>3, <1>4, <1>5, <1>6, TemporaryKeeps

-----------------------------------------------------------------------------
\* An element of a sequence.
Holds(s, x) == \E i \in 1..Len(s) : s[i] = x

LEMMA JoinHolds ==
  ASSUME NEW S, NEW s \in Seq(S), NEW t \in Seq(S)
  PROVE  /\ s \o t \in Seq(S) /\ Len(s \o t) = Len(s) + Len(t)
         /\ \A x : Holds(s \o t, x) <=> Holds(s, x) \/ Holds(t, x)
         /\ Len(t) > 0 => (s \o t)[Len(s \o t)] = t[Len(t)]
<1>1. s \o t \in Seq(S) /\ Len(s \o t) = Len(s) + Len(t)
  BY ConcatProperties
<1>2. \A i \in 1..(Len(s) + Len(t)) : (s \o t)[i] = IF i <= Len(s) THEN s[i] ELSE t[i - Len(s)]
  BY ConcatProperties
<1>3. Len(s) \in Nat /\ Len(t) \in Nat
  BY LenProperties
<1> DEFINE a == s \o t
           N == Len(s)
           M == Len(t)
<1>4. a \in Seq(S) /\ Len(a) = N + M /\ (\A i \in 1..(N + M) : a[i] = IF i <= N THEN s[i] ELSE t[i - N]) /\ N \in Nat /\ M \in Nat
  BY <1>1, <1>2, <1>3
<1> HIDE DEF a, N, M
<1>5. M > 0 => a[N + M] = t[M]
  BY <1>4
<1>6. ASSUME NEW x, \E i \in 1..(N + M) : a[i] = x PROVE (\E i \in 1..N : s[i] = x) \/ \E i \in 1..M : t[i] = x
  <2>1. PICK i \in 1..(N + M) : a[i] = x
    BY <1>6
  <2>2. CASE i <= N
    BY <2>1, <2>2, <1>4
  <2>3. CASE i > N
    <3>1. i - N \in 1..M /\ a[i] = t[i - N]
      BY <2>3, <1>4
    <3> QED BY <3>1, <2>1
  <2> QED BY <2>2, <2>3, <1>4
<1>7. ASSUME NEW x, NEW i \in 1..N, s[i] = x PROVE \E j \in 1..(N + M) : a[j] = x
  BY <1>7, <1>4
<1>8. ASSUME NEW x, NEW i \in 1..M, t[i] = x PROVE \E j \in 1..(N + M) : a[j] = x
  <2>1. i + N \in 1..(N + M) /\ ~(i + N <= N) /\ (i + N) - N = i
    BY <1>4
  <2>2. a[i + N] = t[i]
    BY <2>1, <1>4
  <2> QED BY <2>1, <2>2, <1>8
<1>9. \A x : (\E j \in 1..(N + M) : a[j] = x) <=> (\E i \in 1..N : s[i] = x) \/ (\E i \in 1..M : t[i] = x)
  BY <1>6, <1>7, <1>8
<1> QED BY <1>4, <1>5, <1>9 DEF Holds, a, N, M

LEMMA OneHolds ==
  ASSUME NEW S, NEW e \in S
  PROVE  <<e>> \in Seq(S) /\ Len(<<e>>) = 1 /\ <<e>>[1] = e /\ \A x : Holds(<<e>>, x) <=> x = e
<1>1. <<e>> \in Seq(S) /\ Len(<<e>>) = 1 /\ <<e>>[1] = e
  OBVIOUS
<1>2. ASSUME NEW x PROVE Holds(<<e>>, x) <=> x = e
  BY <1>1 DEF Holds
<1> QED BY <1>1, <1>2

LEMMA NoneHolds ==
  ASSUME NEW S
  PROVE  <<>> \in Seq(S) /\ Len(<<>>) = 0 /\ \A x : ~Holds(<<>>, x)
BY DEF Holds

\* What a plan is: it ends with the removal of the tree itself, its steps are of
\* the tree, and every node that is there is removed by one.
Planned(s, t) ==
  /\ s \in Seq(ScratchSteps) /\ Len(s) > 0 /\ s[Len(s)] = Drop(t)
  /\ \A x : Holds(s, x) => x[2] \in Tree(t)
  /\ \A p \in Tree(t) : disk[p] # 0 => Holds(s, Drop(p))
Leaf(p) == IF disk[p] = 0 THEN <<>> ELSE <<Drop(p)>>
Branch(p) == IF disk[p] = 0 THEN <<>> ELSE <<Enter(p)>> \o Leaf(Inside(p)) \o <<Drop(p)>>

LEMMA StepsOf ==
  ASSUME NEW p \in Paths
  PROVE  Enter(p) \in ScratchSteps /\ Drop(p) \in ScratchSteps /\ Enter(p)[2] = p /\ Drop(p)[2] = p
BY DEF Enter, Drop, ScratchSteps

LEMMA LeafIs ==
  ASSUME NEW p \in Paths
  PROVE  /\ Leaf(p) \in Seq(ScratchSteps)
         /\ \A x : Holds(Leaf(p), x) => x[2] = p
         /\ disk[p] # 0 => Holds(Leaf(p), Drop(p))
<1>1. CASE disk[p] = 0
  <2>1. Leaf(p) = <<>>
    BY <1>1 DEF Leaf
  <2> QED BY <2>1, <1>1, NoneHolds
<1>2. CASE disk[p] # 0
  <2>1. Leaf(p) = <<Drop(p)>> /\ Drop(p) \in ScratchSteps /\ Drop(p)[2] = p
    BY <1>2, StepsOf DEF Leaf
  <2> HIDE DEF Drop
  <2>2. <<Drop(p)>> \in Seq(ScratchSteps) /\ \A x : Holds(<<Drop(p)>>, x) <=> x = Drop(p)
    BY <2>1, OneHolds
  <2> QED BY <2>1, <2>2
<1> QED BY <1>1, <1>2

LEMMA BranchIs ==
  ASSUME NEW p \in {"stage", "root"}
  PROVE  /\ Branch(p) \in Seq(ScratchSteps)
         /\ \A x : Holds(Branch(p), x) => x[2] \in Tree(p)
         /\ disk[p] # 0 => /\ Len(Branch(p)) > 0 /\ Branch(p)[Len(Branch(p))] = Drop(p)
                           /\ \A q \in Tree(p) : disk[q] # 0 => Holds(Branch(p), Drop(q))
<1>1. CASE disk[p] = 0
  <2>1. Branch(p) = <<>>
    BY <1>1 DEF Branch
  <2> QED BY <2>1, <1>1, NoneHolds
<1>2. CASE disk[p] # 0
  <2> DEFINE c == Inside(p)
             e == <<Enter(p)>>
             d == <<Drop(p)>>
  <2>1. c \in Paths /\ p \in Paths /\ Tree(p) = {p, c}
    BY PathTable, TreeTable DEF Inside
  <2>2. Branch(p) = e \o Leaf(c) \o d
    BY <1>2 DEF Branch
  <2> HIDE DEF c
  <2>3. e \in Seq(ScratchSteps) /\ \A x : Holds(e, x) <=> x = Enter(p)
    BY <2>1, StepsOf, OneHolds
  <2>4. d \in Seq(ScratchSteps) /\ Len(d) = 1 /\ d[1] = Drop(p) /\ \A x : Holds(d, x) <=> x = Drop(p)
    BY <2>1, StepsOf, OneHolds
  <2>5. Leaf(c) \in Seq(ScratchSteps) /\ (\A x : Holds(Leaf(c), x) => x[2] = c) /\ (disk[c] # 0 => Holds(Leaf(c), Drop(c)))
    BY <2>1, LeafIs
  <2> HIDE DEF e, d
  <2>6. e \o Leaf(c) \in Seq(ScratchSteps) /\ \A x : Holds(e \o Leaf(c), x) <=> Holds(e, x) \/ Holds(Leaf(c), x)
    BY <2>3, <2>5, JoinHolds
  <2> DEFINE u == e \o Leaf(c)
  <2> HIDE DEF u
  <2>7. /\ u \o d \in Seq(ScratchSteps) /\ Len(u \o d) = Len(u) + Len(d)
        /\ \A x : Holds(u \o d, x) <=> Holds(u, x) \/ Holds(d, x)
        /\ Len(d) > 0 => (u \o d)[Len(u \o d)] = d[Len(d)]
    <3>1. u \in Seq(ScratchSteps)
      BY <2>6 DEF u
    <3> QED BY SMTT(40), <3>1, <2>4, JoinHolds
  <2>8. Len(u) \in Nat
    BY <2>6 DEF u
  <2>9. Len(u \o d) > 0 /\ (u \o d)[Len(u \o d)] = Drop(p)
    BY <2>4, <2>7, <2>8
  <2>10. ASSUME NEW x, Holds(u \o d, x) PROVE x[2] \in Tree(p)
    BY <2>10, <2>1, <2>3, <2>4, <2>5, <2>6, <2>7, StepsOf DEF u
  <2>11. ASSUME NEW q \in Tree(p), disk[q] # 0 PROVE Holds(u \o d, Drop(q))
    BY <2>11, <2>1, <2>3, <2>4, <2>5, <2>6, <2>7 DEF u
  <2>12. Branch(p) = u \o d
    BY <2>2 DEF u
  <2> QED BY <2>7, <2>9, <2>10, <2>11, <2>12
<1> QED BY <1>1, <1>2

LEMMA PlanIs ==
  ASSUME DiskType, Nested, NEW t \in TreePaths, disk[t] # 0, t = "dir" => disk["odd"] = 0
  PROVE  Planned(Plan(t), t)
<1>1. CASE t \in {"stage", "root"}
  <2>1. Plan(t) = Branch(t)
    BY <1>1 DEF Plan, Branch, Leaf
  <2> QED BY SMTT(40), <2>1, <1>1, BranchIs DEF Planned
<1>2. CASE t = "dir"
  <2> DEFINE e == <<Enter("dir")>>
             d == <<Drop("dir")>>
             s1 == e \o Branch("stage")
             s2 == s1 \o Branch("root")
             s3 == s2 \o Leaf("cache")
             s4 == s3 \o Leaf("facts")
  <2>1. Plan(t) = s4 \o d
    BY <1>2 DEF Plan, Branch, Leaf
  <2>2. /\ {"dir", "cache", "facts", "stage", "root"} \subseteq Paths /\ Tree("stage") \subseteq Paths /\ Tree("root") \subseteq Paths
        /\ Tree("dir") = Paths
    BY PathTable, TreeTable
  <2>3. e \in Seq(ScratchSteps) /\ \A x : Holds(e, x) <=> x = Enter("dir")
    BY <2>2, StepsOf, OneHolds
  <2>4. d \in Seq(ScratchSteps) /\ Len(d) = 1 /\ d[1] = Drop("dir") /\ \A x : Holds(d, x) <=> x = Drop("dir")
    BY <2>2, StepsOf, OneHolds
  <2>5. Branch("stage") \in Seq(ScratchSteps) /\ Branch("root") \in Seq(ScratchSteps)
    BY BranchIs
  <2>6. Leaf("cache") \in Seq(ScratchSteps) /\ Leaf("facts") \in Seq(ScratchSteps)
    BY <2>2, LeafIs
  <2> HIDE DEF e, d
  <2>7. s1 \in Seq(ScratchSteps) /\ \A x : Holds(s1, x) <=> Holds(e, x) \/ Holds(Branch("stage"), x)
    BY <2>3, <2>5, JoinHolds
  <2> HIDE DEF s1
  <2>8. s2 \in Seq(ScratchSteps) /\ \A x : Holds(s2, x) <=> Holds(s1, x) \/ Holds(Branch("root"), x)
    BY <2>7, <2>5, JoinHolds
  <2> HIDE DEF s2
  <2>9. s3 \in Seq(ScratchSteps) /\ \A x : Holds(s3, x) <=> Holds(s2, x) \/ Holds(Leaf("cache"), x)
    BY <2>8, <2>6, JoinHolds
  <2> HIDE DEF s3
  <2>10. s4 \in Seq(ScratchSteps) /\ \A x : Holds(s4, x) <=> Holds(s3, x) \/ Holds(Leaf("facts"), x)
    BY <2>9, <2>6, JoinHolds
  <2> HIDE DEF s4
  <2>11. /\ s4 \o d \in Seq(ScratchSteps) /\ Len(s4 \o d) = Len(s4) + Len(d)
         /\ \A x : Holds(s4 \o d, x) <=> Holds(s4, x) \/ Holds(d, x)
         /\ Len(d) > 0 => (s4 \o d)[Len(s4 \o d)] = d[Len(d)]
    BY <2>4, <2>10, JoinHolds
  <2>12. Len(s4) \in Nat
    BY <2>10
  <2>13. Len(s4 \o d) > 0 /\ (s4 \o d)[Len(s4 \o d)] = Drop("dir")
    BY <2>4, <2>11, <2>12
  <2>14. ASSUME NEW x
         PROVE Holds(s4 \o d, x) <=> \/ x = Enter("dir") \/ x = Drop("dir") \/ Holds(Branch("stage"), x)
                                     \/ Holds(Branch("root"), x) \/ Holds(Leaf("cache"), x) \/ Holds(Leaf("facts"), x)
    BY <2>3, <2>4, <2>7, <2>8, <2>9, <2>10, <2>11
  <2>15. ASSUME NEW x, Holds(s4 \o d, x) PROVE x[2] \in Paths
    <3>1. Holds(Branch("stage"), x) \/ Holds(Branch("root"), x) => x[2] \in Paths
      BY <2>2, BranchIs
    <3>2. Holds(Leaf("cache"), x) \/ Holds(Leaf("facts"), x) => x[2] \in Paths
      BY <2>2, LeafIs
    <3>3. x = Enter("dir") \/ x = Drop("dir") => x[2] \in Paths
      BY <2>2, StepsOf
    <3> QED BY <3>1, <3>2, <3>3, <2>14, <2>15
  <2>16. ASSUME NEW p \in Paths, disk[p] # 0 PROVE Holds(s4 \o d, Drop(p))
    <3>1. CASE p = "dir"
      BY <3>1, <2>14
    <3>2. CASE p \in {"stage", "stage/a"}
      <4>1. disk["stage"] # 0
        BY <3>2, <2>16, PathTable DEF Nested
      <4>2. p \in Tree("stage")
        BY <3>2, TreeTable
      <4>3. Holds(Branch("stage"), Drop(p))
        BY <4>1, <4>2, <2>16, BranchIs
      <4> QED BY <4>3, <2>14
    <3>3. CASE p \in {"root", "root/a"}
      <4>1. disk["root"] # 0
        BY <3>3, <2>16, PathTable DEF Nested
      <4>2. p \in Tree("root")
        BY <3>3, TreeTable
      <4>3. Holds(Branch("root"), Drop(p))
        BY <4>1, <4>2, <2>16, BranchIs
      <4> QED BY <4>3, <2>14
    <3>4. CASE p \in {"cache", "facts"}
      <4>1. Holds(Leaf(p), Drop(p))
        BY <2>16, LeafIs
      <4> QED BY <4>1, <3>4, <2>14
    <3>5. p # "odd"
      BY <2>16, <1>2
    <3> QED BY <3>1, <3>2, <3>3, <3>4, <3>5, PathTable
  <2> QED BY <1>2, <2>1, <2>2, <2>11, <2>13, <2>15, <2>16 DEF Planned
<1> QED BY <1>1, <1>2 DEF TreePaths

\* A removal that begins is sound: nothing it will find recorded is unknown or
\* replaced.
LEMMA BeginSound ==
  ASSUME ScratchInvariant, NEW t \in TreePaths, ~Refused(t),
         task' = [target |-> t, snap |-> disk, todo |-> Plan(t)], own'.known = own.known,
         own'.closed <=> t = "dir", \A p \in Tree(t) : disk[p] \in past'.vetted
  PROVE  RemovalSound' /\ TaskType' /\ task' # NoTask
<1>1. DiskType /\ Nested
  BY DEF ScratchInvariant, ScratchTypes
<1>2. /\ RootKept /\ Known(t) /\ \A p \in Tree(t) : Known(p) => own.known[p] # 0 /\ disk[p] = own.known[p]
      /\ t = "dir" => disk["odd"] = 0
  BY DEF Refused
<1>3. t \in Tree(t) /\ Tree(t) \subseteq Paths /\ t # "none"
  BY TreeTable, PathTable DEF TreePaths
<1>4. Planned(Plan(t), t)
  BY <1>1, <1>2, <1>3, PlanIs
<1> DEFINE s == Plan(t)
<1>5. /\ s \in Seq(ScratchSteps) /\ Len(s) > 0 /\ s[Len(s)] = Drop(t)
      /\ \A x : Holds(s, x) => x[2] \in Tree(t)
      /\ \A p \in Tree(t) : disk[p] # 0 => Holds(s, Drop(p))
  BY <1>4 DEF Planned
<1>6. task' = [target |-> t, snap |-> disk, todo |-> s]
  OBVIOUS
<1> HIDE DEF s
<1>7. task'.target = t /\ task'.snap = disk /\ task'.todo = s /\ TaskType' /\ task' # NoTask
  <2>1. task' \in [target : TreePaths, snap : [Paths -> 0..MaxStamps], todo : Seq(ScratchSteps)]
    BY <1>1, <1>5, <1>6 DEF DiskType
  <2> QED BY <2>1, <1>3, <1>6 DEF TaskType, NoTask
<1>8. \A i \in 1..Len(s) : s[i][2] \in Tree(t)
  BY <1>5 DEF Holds
<1>9. ASSUME NEW p \in Tree(t), Known(p)'
      PROVE  own'.known[p] = disk[p] /\ disk[p] # 0 /\ \E i \in 1..Len(s) : s[i] = Drop(p)
  <2>1. Known(p) /\ own'.known[p] = disk[p] /\ disk[p] # 0
    BY <1>9, <1>2 DEF Known
  <2> QED BY <2>1, <1>5 DEF Holds
<1>10. s # <<>>
  BY <1>5
<1> HIDE DEF Drop
<1> QED BY <1>5, <1>7, <1>8, <1>9, <1>10 DEF RemovalSound

LEMMA StillKeeps ==
  ASSUME ScratchInvariant, UNCHANGED scratchVars
  PROVE  ScratchInvariant'
<1>1. disk' = disk /\ own' = own /\ task' = task /\ sweeping' = sweeping /\ held' = held /\ past' = past
  BY DEF scratchVars
<1>2. ScratchTypes'
  BY <1>1 DEF ScratchInvariant, ScratchTypes, DiskType, OwnType, TaskType, SweepType, PastType
<1>3. Nested' /\ Recorded' /\ SweepSound' /\ Uncreated' /\ OnlyVettedRemoved'
  BY <1>1 DEF ScratchInvariant, Nested, Recorded, SweepSound, Uncreated, OnlyVettedRemoved, Known
<1>4. RemovalSound'
  BY <1>1 DEF ScratchInvariant, RemovalSound, Known
<1>5. Shut'
  BY <1>1 DEF ScratchInvariant, Shut, Known
<1> QED BY <1>2, <1>3, <1>4, <1>5 DEF ScratchInvariant

LEMMA RemoveTreeKeeps ==
  ASSUME ScratchInvariant, NEW t \in {"stage", "root"}, RemoveTree(t)
  PROVE  ScratchInvariant'
<1>1. /\ ScratchTypes /\ Nested /\ Recorded /\ RemovalSound /\ SweepSound /\ Uncreated /\ Shut /\ OnlyVettedRemoved
      /\ DiskType /\ OwnType /\ PastType /\ TaskType /\ SweepType
  BY DEF ScratchInvariant, ScratchTypes
<1>2. /\ task = NoTask /\ ~own.closed /\ Known("dir") /\ BeginRemoval(t) /\ disk' = disk /\ sweeping' = sweeping
      /\ held' = held
  BY DEF RemoveTree, NoTaskRuns
<1>3. CASE own' = own /\ task' = task /\ past' = past
  BY <1>2, <1>3, StillKeeps DEF scratchVars
<1>4. CASE RemovalFailed /\ EndTask
  <2>1. SweepType' /\ SweepSound'
    BY <1>1, <1>2, <1>4 DEF SweepType, SweepSound, EndTask, Closing
  <2>2. Fading
    BY <1>2, <1>4, <2>1 DEF Fading, RemovalFailed, EndTask, Closing
  <2> QED BY <2>2, FadingKeeps
<1>5. CASE /\ ~Refused(t) /\ task' = [target |-> t, snap |-> disk, todo |-> Plan(t)] /\ own' = own
           /\ past' = [past EXCEPT !.vetted = @ \cup {disk[p] : p \in Tree(t)}]
  <2>1. \A p \in Tree(t) : disk[p] \in 0..MaxStamps
    BY <1>1, PathTable DEF DiskType, Tree
  <2>2. /\ PastType' /\ past'.vetted = past.vetted \cup {disk[p] : p \in Tree(t)} /\ past'.lost = past.lost
        /\ past'.captured = past.captured /\ past'.outcome = past.outcome
    <3>1. past.vetted \cup {disk[p] : p \in Tree(t)} \in SUBSET (0..MaxStamps)
      BY <1>1, <2>1 DEF PastType
    <3> DEFINE w == past.vetted \cup {disk[p] : p \in Tree(t)}
    <3>2. past' = [past EXCEPT !.vetted = w] /\ w \in SUBSET (0..MaxStamps)
      BY <1>5, <3>1
    <3> HIDE DEF w
    <3>3. PastType' /\ past'.vetted = w /\ past'.lost = past.lost /\ past'.captured = past.captured
          /\ past'.outcome = past.outcome
      BY <1>1, <3>2 DEF PastType
    <3> QED BY <3>3 DEF w
  <2>3. t \in TreePaths /\ t # "dir" /\ \A p \in Tree(t) : disk[p] \in past'.vetted
    BY <2>2 DEF TreePaths
  <2>4. RemovalSound' /\ TaskType' /\ task' # NoTask
    BY <1>2, <1>5, <2>3, BeginSound
  <2>5. ScratchTypes' /\ Nested'
    BY <1>1, <1>2, <1>5, <2>2, <2>4 DEF ScratchTypes, DiskType, OwnType, SweepType, Nested
  <2>6. Recorded' /\ Uncreated' /\ SweepSound' /\ OnlyVettedRemoved'
    BY <1>1, <1>2, <1>5, <2>2 DEF Recorded, Uncreated, Known, SweepSound, OnlyVettedRemoved
  <2>7. Shut'
    BY <1>1, <1>2, <1>5, <2>2 DEF Shut
  <2> QED BY <2>4, <2>5, <2>6, <2>7 DEF ScratchInvariant
<1> QED BY <1>2, <1>3, <1>4, <1>5 DEF BeginRemoval

LEMMA CloseKeeps ==
  ASSUME ScratchInvariant, CloseScratch
  PROVE  ScratchInvariant'
<1>1. /\ ScratchTypes /\ Nested /\ Recorded /\ RemovalSound /\ SweepSound /\ Uncreated /\ Shut /\ OnlyVettedRemoved
      /\ DiskType /\ OwnType /\ PastType /\ TaskType /\ SweepType
  BY DEF ScratchInvariant, ScratchTypes
<1>2. /\ task = NoTask /\ ~own.closed /\ sweeping.pc = "idle" /\ ~held /\ disk' = disk /\ sweeping' = sweeping
      /\ held' = held /\ past.outcome = "none"
  BY <1>1 DEF CloseScratch, NoTaskRuns, Shut
<1>3. CASE /\ ~Known("dir") /\ own' = [own EXCEPT !.closed = TRUE] /\ task' = task
           /\ past' = [past EXCEPT !.outcome = IF own.failure THEN "failed" ELSE "ok"]
  <2>1. OwnType' /\ own'.known = own.known /\ own'.closed /\ own'.failure = own.failure
    BY <1>1, <1>3 DEF OwnType
  <2>2. /\ PastType' /\ past'.lost = past.lost /\ past'.captured = past.captured /\ past'.vetted = past.vetted
        /\ past'.outcome = IF own.failure THEN "failed" ELSE "ok"
    BY <1>1, <1>3 DEF PastType
  <2>3. past.captured = {} /\ \A p \in Paths : disk[p] = 0
    BY <1>1, <1>2, <1>3 DEF Uncreated
  <2>4. ScratchTypes' /\ Nested' /\ Recorded' /\ SweepSound' /\ OnlyVettedRemoved' /\ Uncreated'
    BY <1>1, <1>2, <1>3, <2>1, <2>2 DEF ScratchTypes, DiskType, TaskType, SweepType, Nested, Recorded, SweepSound,
       OnlyVettedRemoved, Uncreated
  <2>5. RemovalSound'
    BY <1>2, <1>3 DEF RemovalSound
  <2>6. Shut'
    BY <1>2, <1>3, <2>1, <2>2, <2>3 DEF Shut, Known
  <2> QED BY <2>4, <2>5, <2>6 DEF ScratchInvariant
<1>4. CASE /\ own' = [own EXCEPT !.closed = TRUE, !.failure = TRUE] /\ task' = task
           /\ past' = [past EXCEPT !.outcome = "failed"]
  <2>1. OwnType' /\ own'.known = own.known /\ own'.closed
    BY <1>1, <1>4 DEF OwnType
  <2>2. /\ PastType' /\ past'.lost = past.lost /\ past'.captured = past.captured /\ past'.vetted = past.vetted
        /\ past'.outcome = "failed"
    BY <1>1, <1>4 DEF PastType
  <2>3. ScratchTypes' /\ Nested' /\ Recorded' /\ SweepSound' /\ OnlyVettedRemoved' /\ Uncreated'
    BY <1>1, <1>2, <1>4, <2>1, <2>2 DEF ScratchTypes, DiskType, TaskType, SweepType, Nested, Recorded, SweepSound,
       OnlyVettedRemoved, Uncreated
  <2>4. RemovalSound' /\ Shut'
    BY <1>2, <1>4, <2>1, <2>2 DEF RemovalSound, Shut
  <2> QED BY <2>3, <2>4 DEF ScratchInvariant
<1>5. CASE /\ ~Refused("dir") /\ own' = [own EXCEPT !.closed = TRUE]
           /\ task' = [target |-> "dir", snap |-> disk, todo |-> Plan("dir")]
           /\ past' = [past EXCEPT !.vetted = @ \cup {disk[p] : p \in Paths}]
  <2>1. OwnType' /\ own'.known = own.known /\ own'.closed /\ own'.failure = own.failure
    BY <1>1, <1>5 DEF OwnType
  <2>2. /\ PastType' /\ past'.vetted = past.vetted \cup {disk[p] : p \in Paths} /\ past'.lost = past.lost
        /\ past'.captured = past.captured /\ past'.outcome = past.outcome
    <3> DEFINE w == past.vetted \cup {disk[p] : p \in Paths}
    <3>1. past' = [past EXCEPT !.vetted = w] /\ w \in SUBSET (0..MaxStamps)
      BY <1>1, <1>5 DEF PastType, DiskType
    <3> HIDE DEF w
    <3>2. PastType' /\ past'.vetted = w /\ past'.lost = past.lost /\ past'.captured = past.captured
          /\ past'.outcome = past.outcome
      BY <1>1, <3>1 DEF PastType
    <3> QED BY <3>2 DEF w
  <2>3. "dir" \in TreePaths /\ \A p \in Tree("dir") : disk[p] \in past'.vetted
    BY <2>2, TreeTable DEF TreePaths
  <2>4. RemovalSound' /\ TaskType' /\ task' # NoTask
    BY <1>5, <2>1, <2>3, BeginSound
  <2>5. ScratchTypes' /\ Nested'
    BY <1>1, <1>2, <2>1, <2>2, <2>4 DEF ScratchTypes, DiskType, SweepType, Nested
  <2>6. Recorded' /\ Uncreated' /\ SweepSound' /\ OnlyVettedRemoved' /\ Shut'
    BY <1>1, <1>2, <2>1, <2>2 DEF Recorded, Uncreated, Known, SweepSound, OnlyVettedRemoved, Shut
  <2> QED BY <2>4, <2>5, <2>6 DEF ScratchInvariant
<1> QED BY <1>3, <1>4, <1>5 DEF CloseScratch

\* A step of a removal that goes on: what it still has to do is what it had less
\* the first step.
LEMMA Onward ==
  ASSUME NEW s \in Seq(ScratchSteps), Len(s) > 1
  PROVE  /\ Tail(s) \in Seq(ScratchSteps) /\ Tail(s) # <<>> /\ Tail(s)[Len(Tail(s))] = s[Len(s)]
         /\ \A i \in 1..Len(Tail(s)) : i + 1 \in 1..Len(s) /\ Tail(s)[i] = s[i + 1]
         /\ \A i \in 1..Len(s) : i # 1 => i - 1 \in 1..Len(Tail(s)) /\ Tail(s)[i - 1] = s[i]
<1>1. /\ Tail(s) \in Seq(ScratchSteps) /\ Len(Tail(s)) = Len(s) - 1
      /\ \A i \in 1..(Len(s) - 1) : Tail(s)[i] = s[i + 1]
  BY HeadTailProperties
<1> DEFINE N == Len(s)
           t == Tail(s)
<1>2. N \in Nat /\ N > 1 /\ t \in Seq(ScratchSteps) /\ Len(t) = N - 1 /\ \A i \in 1..(N - 1) : t[i] = s[i + 1]
  BY <1>1
<1> HIDE DEF N, t
<1>3. t # <<>>
  BY <1>2
<1>4. t[N - 1] = s[N] /\ \A i \in 1..(N - 1) : i + 1 \in 1..N
  BY <1>2
<1>5. \A i \in 1..N : i # 1 => i - 1 \in 1..(N - 1) /\ t[i - 1] = s[i]
  BY <1>2
<1> QED BY <1>2, <1>3, <1>4, <1>5 DEF N, t

LEMMA DropsDiffer ==
  ASSUME NEW p, NEW q, p # q
  PROVE  Drop(p) # Drop(q)
BY DEF Drop

\* A removal that has the steps s left, from its parts.
Remains(t, s) ==
  /\ t \in TreePaths /\ task'.todo = s /\ task'.target = t /\ task'.snap = task.snap /\ s # <<>>
  /\ s[Len(s)] = Drop(t) /\ (own'.closed <=> t = "dir")
  /\ \A i \in 1..Len(s) : s[i][2] \in Tree(t)
  /\ \A q \in Tree(t) : task.snap[q] \in past'.vetted
  /\ \A q \in Tree(t) : Known(q)' => /\ own'.known[q] = task.snap[q] /\ task.snap[q] # 0
                                      /\ \E i \in 1..Len(s) : s[i] = Drop(q)

LEMMA RemovalIs ==
  ASSUME NEW t, NEW s, Remains(t, s)
  PROVE  RemovalSound'
<1> USE DEF Remains
<1>1. /\ task'.todo # <<>> /\ task'.todo[Len(task'.todo)] = Drop(task'.target)
      /\ \A i \in 1..Len(task'.todo) : task'.todo[i][2] \in Tree(task'.target)
      /\ (own'.closed <=> task'.target = "dir")
  OBVIOUS
<1>2. ASSUME NEW q \in Tree(task'.target)
      PROVE  /\ task'.snap[q] \in past'.vetted
             /\ Known(q)' => /\ own'.known[q] = task'.snap[q] /\ task'.snap[q] # 0
                             /\ \E i \in 1..Len(task'.todo) : task'.todo[i] = Drop(q)
  OBVIOUS
<1> QED BY <1>1, <1>2 DEF RemovalSound

LEMMA RemoveNextKeeps ==
  ASSUME ScratchInvariant, RemoveNext
  PROVE  ScratchInvariant'
<1>1. /\ ScratchTypes /\ Nested /\ Recorded /\ RemovalSound /\ SweepSound /\ Uncreated /\ Shut /\ OnlyVettedRemoved
      /\ DiskType /\ OwnType /\ PastType /\ TaskType /\ SweepType
  BY DEF ScratchInvariant, ScratchTypes
<1> DEFINE s == task.todo
           step == Head(s)
           p == step[2]
           t == task.target
           good == /\ Rechecked(p)
                   /\ (step[1] = "enter" => Members(p) = {c \in Kids(p) : task.snap[c] # 0})
                   /\ (step[1] = "drop" => disk[p] # 0 /\ Members(p) = {})
<1>2. task # NoTask /\ sweeping' = sweeping /\ held' = held
  BY DEF RemoveNext, NoTaskRuns
<1>3. task \in [target : TreePaths, snap : [Paths -> 0..MaxStamps], todo : Seq(ScratchSteps)]
  BY <1>1, <1>2 DEF TaskType
<1>4. /\ s \in Seq(ScratchSteps) /\ s # <<>> /\ s[Len(s)] = Drop(t) /\ Len(s) > 0 /\ step = s[1] /\ Len(s) \in Nat
      /\ \A i \in 1..Len(s) : s[i][2] \in Tree(t)
      /\ \A q \in Tree(t) : /\ task.snap[q] \in past.vetted
                            /\ Known(q) => /\ own.known[q] = task.snap[q] /\ task.snap[q] # 0
                                           /\ \E i \in 1..Len(s) : s[i] = Drop(q)
      /\ (own.closed <=> t = "dir") /\ t \in TreePaths
  BY <1>1, <1>2, <1>3 DEF RemovalSound
<1>11. Len(s) = 1 \/ Len(s) > 1
  <2>1. ASSUME NEW n \in Nat, n > 0 PROVE n = 1 \/ n > 1
    BY <2>1
  <2>2. Len(s) \in Nat /\ Len(s) > 0
    BY <1>4
  <2> HIDE DEF s
  <2> QED BY <2>1, <2>2
<1>5. past.outcome = "none" /\ (own.closed => ~held /\ sweeping.pc = "idle")
  BY <1>1, <1>2 DEF Shut
<1>6. p \in Tree(t) /\ Tree(t) \subseteq Paths /\ step \in ScratchSteps
  BY <1>4 DEF Tree
<1>7. CASE ~good
  <2>1. RemovalFailed /\ EndTask /\ disk' = disk
    BY <1>7 DEF RemoveNext
  <2>2. past' = IF own.closed THEN [past EXCEPT !.outcome = "failed"] ELSE past
    BY <2>1 DEF EndTask, Closing
  <2>3. SweepType' /\ SweepSound'
    BY <1>1, <1>2, <2>2 DEF SweepType, SweepSound, PastType
  <2>4. Fading
    BY <1>2, <2>1, <2>2, <2>3 DEF Fading, RemovalFailed, EndTask
  <2> QED BY <2>4, FadingKeeps
<1>8. CASE good /\ step[1] = "enter"
  <2>1. task' = [task EXCEPT !.todo = Tail(@)] /\ disk' = disk /\ own' = own /\ past' = past
    BY <1>8 DEF RemoveNext
  <2>2. Len(s) > 1
    BY <1>4, <1>8 DEF Drop
  <2> HIDE DEF s
  <2>3. /\ Tail(s) \in Seq(ScratchSteps) /\ Tail(s) # <<>> /\ Tail(s)[Len(Tail(s))] = s[Len(s)]
        /\ \A i \in 1..Len(Tail(s)) : i + 1 \in 1..Len(s) /\ Tail(s)[i] = s[i + 1]
        /\ \A i \in 1..Len(s) : i # 1 => i - 1 \in 1..Len(Tail(s)) /\ Tail(s)[i - 1] = s[i]
    BY <1>4, <2>2, Onward
  <2>4. task'.todo = Tail(s) /\ task'.target = t /\ task'.snap = task.snap /\ TaskType'
    BY <1>3, <2>1, <2>3 DEF TaskType, s
  <2>5. ASSUME NEW q \in Tree(t), Known(q)
        PROVE  own.known[q] = task.snap[q] /\ task.snap[q] # 0 /\ \E i \in 1..Len(Tail(s)) : Tail(s)[i] = Drop(q)
    <3>1. PICK i \in 1..Len(s) : s[i] = Drop(q)
      BY <2>5, <1>4
    <3>2. i # 1
      BY <3>1, <1>4, <1>8 DEF Drop
    <3> QED BY ZenonT(60), <3>1, <3>2, <2>3, <2>5, <1>4
  <2>6. RemovalSound'
    <3> HIDE DEF Drop
    <3>1. \A i \in 1..Len(Tail(s)) : Tail(s)[i][2] \in Tree(t)
      BY <1>4, <2>3
    <3>2. Tail(s)[Len(Tail(s))] = Drop(t) /\ t \in TreePaths /\ (own'.closed <=> t = "dir")
      BY <1>4, <2>1, <2>3
    <3>3. \A q \in Tree(t) : task.snap[q] \in past'.vetted
      BY <1>4, <2>1
    <3>4. \A q \in Tree(t) : Known(q)' => /\ own'.known[q] = task.snap[q] /\ task.snap[q] # 0
                                           /\ \E i \in 1..Len(Tail(s)) : Tail(s)[i] = Drop(q)
      BY <2>1, <2>5 DEF Known
    <3>5. Remains(t, Tail(s))
      BY <2>3, <2>4, <3>1, <3>2, <3>3, <3>4 DEF Remains
    <3> QED BY <3>5, RemovalIs
  <2>7. ScratchTypes' /\ Nested' /\ Recorded' /\ SweepSound' /\ Uncreated' /\ OnlyVettedRemoved'
    BY <1>1, <1>2, <2>1, <2>4 DEF ScratchTypes, DiskType, OwnType, SweepType, PastType, Nested, Recorded, SweepSound,
       Uncreated, Known, OnlyVettedRemoved
  <2>8. Shut'
    BY <1>2, <1>5, <2>1 DEF Shut
  <2> QED BY <2>6, <2>7, <2>8 DEF ScratchInvariant
<1>9. CASE good /\ step[1] # "enter"
  <2>1. /\ disk' = [disk EXCEPT ![p] = 0] /\ own' = [own EXCEPT !.known[p] = Untracked]
        /\ task' = (IF Len(s) = 1 THEN NoTask ELSE [task EXCEPT !.todo = Tail(@)])
        /\ past' = [Gone(p, past) EXCEPT !.outcome = IF own.closed /\ Len(s) = 1
                                                       THEN (IF own.failure THEN "failed" ELSE "ok") ELSE @]
    BY <1>9 DEF RemoveNext, Closing
  <2>2. RootKept /\ disk[p] = task.snap[p] /\ disk[p] # 0 /\ Members(p) = {} /\ step = Drop(p)
    <3>1. step[1] = "drop" /\ step = Drop(p)
      BY <1>6, <1>9 DEF ScratchSteps, Drop
    <3> QED BY <3>1, <1>9 DEF Rechecked, SameAs
  <2> HIDE DEF s, step, p, good
  <2>3. disk[p] \in 1..MaxStamps /\ 0 \in 0..MaxStamps /\ Untracked \in 0..Untracked /\ disk[p] # Untracked /\ 0 # Untracked
    BY <1>1, <1>6, <2>2, NumbersAre, ScratchBounds DEF DiskType
  <2> HIDE DEF Untracked
  <2>4. DiskType' /\ disk'[p] = 0 /\ \A q \in Paths : q # p => disk'[q] = disk[q]
    BY <1>1, <1>6, <2>1, <2>3 DEF DiskType
  <2>5. /\ OwnType' /\ own'.known[p] = Untracked /\ \A q \in Paths : q # p => own'.known[q] = own.known[q]
        /\ own'.failure = own.failure /\ own'.closed = own.closed
    BY <1>1, <1>6, <2>1, <2>3, EntryWritten
  <2>6. /\ PastType' /\ past'.lost = past.lost \cup {disk[p]} /\ past'.captured = past.captured
        /\ past'.vetted = past.vetted
        /\ past'.outcome = IF own.closed /\ Len(s) = 1 THEN (IF own.failure THEN "failed" ELSE "ok") ELSE "none"
    <3>1. Gone(p, past) = [past EXCEPT !.lost = past.lost \cup {disk[p]}] /\ past.lost \cup {disk[p]} \in SUBSET (1..MaxStamps)
      BY <1>1, <2>3 DEF Gone, PastType
    <3> DEFINE o == IF own.closed /\ Len(s) = 1 THEN (IF own.failure THEN "failed" ELSE "ok") ELSE "none"
               l == past.lost \cup {disk[p]}
    <3>2. past' = [past EXCEPT !.lost = l, !.outcome = o] /\ o \in {"none", "failed", "ok"} /\ l \in SUBSET (1..MaxStamps)
      BY <1>1, <1>5, <2>1, <3>1 DEF PastType
    <3> HIDE DEF o, l
    <3>3. /\ PastType' /\ past'.lost = l /\ past'.captured = past.captured
          /\ past'.vetted = past.vetted /\ past'.outcome = o
      BY <1>1, <3>2 DEF PastType
    <3> QED BY <3>3 DEF o, l
  <2>7. Nested'
    <3>1. ASSUME NEW c \in Paths, disk'[c] # 0, Up(c) # "" PROVE disk'[Up(c)] # 0
      <4>1. c # p /\ Up(c) \in Paths /\ disk[c] # 0
        BY <3>1, <2>4, PathTable
      <4>2. Up(c) # p
        BY <4>1, <2>2 DEF Members, Kids
      <4> QED BY <4>1, <4>2, <3>1, <2>4, <1>1 DEF Nested
    <3> QED BY <3>1 DEF Nested
  <2>8. Recorded'
    <3>1. ASSUME NEW q \in Paths PROVE own'.known[q] \in {0, Untracked} \cup past'.captured
      BY <1>1, <2>5, <2>6 DEF Recorded
    <3>2. ASSUME NEW n \in past'.captured PROVE n \in past'.lost \/ \E q \in Paths : own'.known[q] \in {0, n}
      <4>1. CASE n \in past.lost
        BY <4>1, <2>6
      <4>2. CASE \E q \in Paths : own.known[q] \in {0, n}
        <5>1. PICK q \in Paths : own.known[q] \in {0, n}
          BY <4>2
        <5>2. n # Untracked
          BY <3>2, <2>6, <1>1, ScratchBounds DEF PastType, Untracked
        <5>3. CASE q = p
          <6>1. Known(p)
            BY <5>1, <5>2, <5>3, <2>3 DEF Known
          <6>2. own.known[p] = disk[p]
            BY <6>1, <1>4, <1>6, <2>2
          <6> QED BY <6>2, <5>1, <5>3, <2>2, <2>6
        <5>4. CASE q # p
          BY <5>1, <5>4, <2>5
        <5> QED BY <5>3, <5>4
      <4> QED BY <3>2, <4>1, <4>2, <2>6, <1>1 DEF Recorded
    <3> QED BY <3>1, <3>2 DEF Recorded
  <2>9. SweepSound' /\ OnlyVettedRemoved'
    BY <1>1, <1>2, <1>4, <1>6, <2>2, <2>6 DEF SweepSound, OnlyVettedRemoved
  <2>10. SweepType'
    BY <1>1, <1>2 DEF SweepType
  <2>11. own.closed \/ Known("dir")'
    <3>1. CASE t = "dir"
      BY <3>1, <1>4
    <3>2. CASE t # "dir"
      <4>1. p # "dir"
        BY <3>2, <1>4, <1>6, TreeTable DEF TreePaths
      <4> QED BY <4>1, <2>2, <2>5, PathTable DEF RootKept, Known
    <3> QED BY <3>1, <3>2
  <2>12. Uncreated'
    BY <2>5, <2>11 DEF Uncreated
  <2>13. CASE Len(s) = 1
    <3>1. task' = NoTask /\ p = t
      BY <2>13, <2>1, <1>4, <2>2 DEF Drop
    <3>2. RemovalSound' /\ TaskType'
      BY <3>1 DEF RemovalSound, TaskType
    <3>3. ASSUME own.closed PROVE /\ \A q \in Paths : own'.known[q] = Untracked
                                  /\ \A q \in Paths : disk'[q] = 0
      <4>1. t = "dir" /\ p = "dir" /\ Tree(t) = Paths
        BY <3>1, <3>3, <1>4, TreeTable
      <4>2. ASSUME NEW q \in Paths, q # p PROVE own'.known[q] = Untracked
        <5>1. ~Known(q)
          <6>1. SUFFICES ASSUME Known(q) PROVE FALSE
            OBVIOUS
          <6>2. PICK i \in 1..Len(s) : s[i] = Drop(q)
            BY <6>1, <4>1, <1>4
          <6>3. i = 1
            BY <2>13, <6>2
          <6>4. step = Drop(q)
            BY <6>2, <6>3, <1>4
          <6> QED BY <6>4, <2>2, <4>2, DropsDiffer
        <5> QED BY <5>1, <4>2, <2>5 DEF Known
      <4>3. \A c \in Kids("dir") : disk[c] = 0
        BY <2>2, <4>1 DEF Members
      <4>4. ASSUME NEW q \in Paths PROVE disk'[q] = 0
        <5>1. CASE q = "dir"
          BY <5>1, <4>1, <2>4
        <5>2. CASE q \in {"stage", "root", "cache", "facts", "odd"}
          BY <5>2, <4>1, <4>3, <2>4, KidsTable
        <5>3. CASE q \in {"stage/a", "root/a"}
          <6>1. disk[Up(q)] = 0
            BY <5>3, <4>3, KidsTable, PathTable
          <6>2. disk[q] = 0
            BY <6>1, <5>3, <1>1, PathTable DEF Nested
          <6> QED BY <6>2, <5>3, <4>1, <2>4
        <5> QED BY <5>1, <5>2, <5>3, PathTable
      <4> QED BY <4>2, <4>4, <2>5
    <3>4. ASSUME own.closed PROVE past'.captured \subseteq past'.lost
      <4>1. ASSUME NEW n \in past'.captured PROVE n # Untracked
        BY <4>1, <2>6, <1>1, ScratchBounds DEF PastType, Untracked
      <4> QED BY <4>1, <3>3, <3>4, <2>3, <2>8 DEF Recorded
    <3>5. Shut'
      <4>1. own.closed => ~Known("dir")'
        BY <3>3, PathTable DEF Known
      <4> QED BY <1>2, <1>5, <2>5, <2>6, <2>13, <3>1, <3>3, <3>4, <4>1 DEF Shut
    <3> QED BY <1>1, <2>4, <2>5, <2>6, <2>7, <2>8, <2>9, <2>10, <2>12, <3>2, <3>5 DEF ScratchInvariant, ScratchTypes
  <2>14. CASE Len(s) # 1
    <3>1. Len(s) > 1 /\ task' = [task EXCEPT !.todo = Tail(@)]
      <4>1. Len(s) > 1
        BY <2>14, <1>11
      <4> QED BY <4>1, <2>14, <2>1
    <3>2. /\ Tail(s) \in Seq(ScratchSteps) /\ Tail(s) # <<>> /\ Tail(s)[Len(Tail(s))] = s[Len(s)]
          /\ \A i \in 1..Len(Tail(s)) : i + 1 \in 1..Len(s) /\ Tail(s)[i] = s[i + 1]
          /\ \A i \in 1..Len(s) : i # 1 => i - 1 \in 1..Len(Tail(s)) /\ Tail(s)[i - 1] = s[i]
      BY <1>4, <3>1, Onward
    <3>3. task'.todo = Tail(s) /\ task'.target = t /\ task'.snap = task.snap /\ TaskType' /\ task' # NoTask
      BY <1>3, <3>1, <3>2, <1>4 DEF TaskType, s, NoTask
    <3>4. ASSUME NEW q \in Tree(t), Known(q)'
          PROVE  own'.known[q] = task.snap[q] /\ task.snap[q] # 0 /\ \E i \in 1..Len(Tail(s)) : Tail(s)[i] = Drop(q)
      <4>1. q # p /\ Known(q) /\ own'.known[q] = own.known[q]
        BY <3>4, <1>6, <2>5 DEF Known
      <4>2. PICK i \in 1..Len(s) : s[i] = Drop(q)
        BY <4>1, <1>4
      <4>3. i # 1
        <5>1. i = 1 => step = Drop(q)
          BY <4>2, <1>4
        <5> QED BY <5>1, <4>1, <2>2, DropsDiffer
      <4> QED BY SMTT(40), <4>1, <4>2, <4>3, <3>2, <1>4
    <3>5. RemovalSound'
      <4> HIDE DEF Drop
      <4>1. \A i \in 1..Len(Tail(s)) : Tail(s)[i][2] \in Tree(t)
        BY <1>4, <3>2
      <4>2. Tail(s)[Len(Tail(s))] = Drop(t) /\ t \in TreePaths /\ (own'.closed <=> t = "dir")
        BY <1>4, <2>5, <3>2
      <4>3. \A q \in Tree(t) : task.snap[q] \in past'.vetted
        BY <1>4, <2>6
      <4>4. Remains(t, Tail(s))
        BY <3>2, <3>3, <3>4, <4>1, <4>2, <4>3 DEF Remains
      <4> QED BY <4>4, RemovalIs
    <3>6. Shut'
      BY <1>2, <1>5, <2>5, <2>6, <2>14 DEF Shut
    <3> QED BY <1>1, <2>4, <2>5, <2>6, <2>7, <2>8, <2>9, <2>10, <2>12, <3>3, <3>5, <3>6 DEF ScratchInvariant, ScratchTypes
  <2> QED BY <2>13, <2>14
<1> QED BY <1>7, <1>8, <1>9

LEMMA ScratchStepKeeps ==
  ASSUME ScratchInvariant, ScratchNext
  PROVE  ScratchInvariant'
<1> USE DEF ScratchNext
<1>0. ScratchTypes
  BY DEF ScratchInvariant
<1>1. CASE CreateScratch
  BY <1>0, <1>1, AllocateIs, CreatedKeeps DEF CreateScratch
<1>2. CASE CreateStage
  BY <1>0, <1>2, AllocateIs, CreatedKeeps DEF CreateStage
<1>3. CASE FillStage
  BY <1>3, FillKeeps
<1>4. CASE MoveStage
  BY <1>4, MoveKeeps
<1>5. CASE HoldCache
  BY <1>5, HoldKeeps
<1>6. CASE PublishCache
  BY <1>6, PublishKeeps
<1>7. CASE CaptureFile
  BY <1>0, <1>7, CaptureIs, CreatedKeeps
<1>8. CASE RemoveFile
  BY <1>8, RemoveFileKeeps
<1>9. CASE SweepSees
  BY <1>9, SeesKeeps
<1>10. CASE SweepRemoves
  BY <1>10, SweepRemovesKeeps
<1>11. CASE \E t \in {"stage", "root"} : RemoveTree(t)
  BY <1>11, RemoveTreeKeeps
<1>12. CASE RemoveNext
  BY <1>12, RemoveNextKeeps
<1>13. CASE CloseScratch
  BY <1>13, CloseKeeps
<1>14. CASE \E p \in Paths : Tamper(p)
  BY <1>14, TamperKeeps
<1> QED BY <1>1, <1>2, <1>3, <1>4, <1>5, <1>6, <1>7, <1>8, <1>9, <1>10, <1>11, <1>12, <1>13, <1>14

\* Nothing is deleted that was not looked at first, whatever other processes put
\* in its place, and a close that succeeds leaves nothing of what was captured
\* (scratch-owner.ts: remove, close; temp-storage.ts: the sweep).
THEOREM ScratchIsKept == ScratchSpec => []ScratchKept
<1>1. ScratchInit => ScratchInvariant
  BY InitScratchHolds
<1>2. ScratchInvariant /\ [ScratchNext]_scratchVars => ScratchInvariant'
  BY ScratchStepKeeps, StillKeeps
<1>3. ScratchInvariant => ScratchKept
  BY DEF ScratchInvariant, ScratchKept, ClosedIsClean, Shut
<1> QED BY <1>1, <1>2, <1>3, PTL DEF ScratchSpec

-----------------------------------------------------------------------------
(* The journal.                                                               *)

Names == Hosts \cup {Outside}
ChangeRecord == [origin : Names, before : Contents, after : Contents, at : Nat]
ChangeList == Seq(ChangeRecord)
-----------------------------------------------------------------------------
(* Lists of changes.                                                          *)

LEMMA Appended ==
  ASSUME NEW s \in ChangeList, NEW c \in ChangeRecord
  PROVE  /\ Append(s, c) \in ChangeList /\ Len(s) \in Nat /\ Len(Append(s, c)) = Len(s) + 1 /\ Append(s, c) # <<>>
         /\ Append(s, c)[Len(s) + 1] = c /\ \A i \in 1..Len(s) : Append(s, c)[i] = s[i]
<1>1. s \in Seq(ChangeRecord)
  BY DEF ChangeList
<1> HIDE DEF ChangeRecord
<1>2. Len(s) \in Nat
  BY <1>1, LenProperties
<1>3. /\ Append(s, c) \in Seq(ChangeRecord) /\ Len(Append(s, c)) = Len(s) + 1
      /\ Append(s, c)[Len(s) + 1] = c /\ \A i \in 1..Len(s) : Append(s, c)[i] = s[i]
  BY <1>1, AppendProperties
<1>4. Append(s, c) # <<>>
  BY <1>2, <1>3
<1> QED BY <1>2, <1>3, <1>4 DEF ChangeList

\* Its places, one by one.
LEMMA AppendedPlace ==
  ASSUME NEW s \in ChangeList, NEW c \in ChangeRecord, NEW i \in 1..Len(Append(s, c))
  PROVE  \/ i \in 1..Len(s) /\ Append(s, c)[i] = s[i]
         \/ i = Len(s) + 1 /\ Append(s, c)[i] = c
<1>1. Len(s) \in Nat /\ Len(Append(s, c)) = Len(s) + 1
  BY Appended
<1>2. i \in 1..Len(s) \/ i = Len(s) + 1
  BY <1>1
<1> QED BY <1>2, Appended

LEMMA Shortened ==
  ASSUME NEW s \in ChangeList, s # <<>>
  PROVE  /\ Tail(s) \in ChangeList /\ Len(s) \in Nat /\ 1 \in 1..Len(s) /\ Head(s) = s[1] /\ Head(s) \in ChangeRecord
         /\ Len(Tail(s)) = Len(s) - 1
         /\ \A i \in 1..Len(Tail(s)) : i + 1 \in 1..Len(s) /\ Tail(s)[i] = s[i + 1]
         /\ \A i \in 1..Len(s) : i # 1 => i - 1 \in 1..Len(Tail(s)) /\ Tail(s)[i - 1] = s[i]
<1>1. s \in Seq(ChangeRecord)
  BY DEF ChangeList
<1> HIDE DEF ChangeRecord
<1>2. Len(s) \in Nat /\ Len(s) # 0
  BY <1>1, LenProperties, EmptySeq
<1>3. /\ Head(s) \in ChangeRecord /\ Tail(s) \in Seq(ChangeRecord) /\ Len(Tail(s)) = Len(s) - 1
      /\ \A i \in 1..Len(Tail(s)) : Tail(s)[i] = s[i + 1]
  BY <1>1, HeadTailProperties
<1>4. \A i \in 1..Len(Tail(s)) : i + 1 \in 1..Len(s)
  BY <1>2, <1>3
<1>5. Head(s) = s[1]
  BY <1>1
<1>6. ASSUME NEW i \in 1..Len(s), i # 1 PROVE i - 1 \in 1..Len(Tail(s)) /\ Tail(s)[i - 1] = s[i]
  <2>1. i - 1 \in 1..Len(Tail(s)) /\ (i - 1) + 1 = i
    BY <1>2, <1>3, <1>6
  <2> QED BY <2>1, <1>3
<1> QED BY <1>2, <1>3, <1>4, <1>5, <1>6 DEF ChangeList

\* Each of a list is in another.
AllAmong(s, all) == \A i \in 1..Len(s) : \E j \in 1..Len(all) : s[i] = all[j]

LEMMA AmongAppended ==
  ASSUME NEW s \in ChangeList, NEW c \in ChangeRecord, NEW all, AllAmong(s, all), \E j \in 1..Len(all) : c = all[j]
  PROVE  AllAmong(Append(s, c), all)
<1>1. ASSUME NEW i \in 1..Len(Append(s, c)) PROVE \E j \in 1..Len(all) : Append(s, c)[i] = all[j]
  BY AppendedPlace DEF AllAmong
<1> QED BY <1>1 DEF AllAmong

LEMMA AmongShortened ==
  ASSUME NEW s \in ChangeList, s # <<>>, NEW all, AllAmong(s, all)
  PROVE  AllAmong(Tail(s), all) /\ \E j \in 1..Len(all) : Head(s) = all[j]
<1>1. AllAmong(Tail(s), all)
  BY Shortened DEF AllAmong
<1>2. \E j \in 1..Len(all) : Head(s) = all[j]
  BY Shortened DEF AllAmong
<1> QED BY <1>1, <1>2

-----------------------------------------------------------------------------
(* The order of a host's own changes.                                         *)

\* What a host has in one list was made before what it has in the other.
Earlier(h, s, p) == \A i \in 1..Len(s), j \in 1..Len(p) : s[i].origin = h => s[i].at < p[j].at

LEMMA OnceAppended ==
  ASSUME NEW s \in ChangeList, NEW c \in ChangeRecord, AppendedOnce(s),
         \A i \in 1..Len(s) : s[i].origin = c.origin => s[i].at < c.at
  PROVE  AppendedOnce(Append(s, c))
<1> DEFINE a == Append(s, c)
<1>1. ASSUME NEW i \in 1..Len(a), NEW j \in 1..Len(a), i < j, a[i].origin = a[j].origin PROVE a[i].at < a[j].at
  <2>1. Len(s) \in Nat /\ Len(a) = Len(s) + 1
    BY Appended
  <2>2. i \in 1..Len(s) /\ a[i] = s[i]
    <3>1. i # Len(s) + 1
      BY <1>1, <2>1
    <3> QED BY <3>1, AppendedPlace
  <2>3. CASE j \in 1..Len(s) /\ a[j] = s[j]
    <3> HIDE DEF a
    <3> QED BY <1>1, <2>2, <2>3 DEF AppendedOnce
  <2>4. CASE a[j] = c
    <3> HIDE DEF a
    <3> QED BY <1>1, <2>2, <2>4
  <2> QED BY <2>3, <2>4, AppendedPlace
<1> HIDE DEF a
<1>2. AppendedOnce(a)
  BY <1>1 DEF AppendedOnce
<1> QED BY <1>2 DEF a

LEMMA OnceShortened ==
  ASSUME NEW s \in ChangeList, s # <<>>, AppendedOnce(s)
  PROVE  /\ AppendedOnce(Tail(s))
         /\ \A j \in 1..Len(Tail(s)) : Tail(s)[j].origin = Head(s).origin => Head(s).at < Tail(s)[j].at
<1> DEFINE t == Tail(s)
<1>1. /\ Len(s) \in Nat /\ 1 \in 1..Len(s) /\ Head(s) = s[1] /\ Len(t) = Len(s) - 1
      /\ \A i \in 1..Len(t) : i + 1 \in 1..Len(s) /\ t[i] = s[i + 1]
  BY Shortened
<1> HIDE DEF t
<1>2. ASSUME NEW i \in 1..Len(t), NEW j \in 1..Len(t), i < j, t[i].origin = t[j].origin PROVE t[i].at < t[j].at
  <2>1. i + 1 < j + 1
    BY <1>1, <1>2
  <2> QED BY <1>1, <1>2, <2>1 DEF AppendedOnce
<1>3. ASSUME NEW j \in 1..Len(t), t[j].origin = Head(s).origin PROVE Head(s).at < t[j].at
  <2>1. 1 < j + 1
    BY <1>1
  <2> QED BY <1>1, <1>3, <2>1 DEF AppendedOnce
<1>4. AppendedOnce(t)
  BY <1>2 DEF AppendedOnce
<1> QED BY <1>3, <1>4 DEF t

\* The later list grows, the earlier one does, either loses its first.
LEMMA EarlierAppended ==
  ASSUME NEW h, NEW s, NEW p \in ChangeList, NEW c \in ChangeRecord, Earlier(h, s, p), \A i \in 1..Len(s) : s[i].at < c.at
  PROVE  Earlier(h, s, Append(p, c))
<1>1. ASSUME NEW i \in 1..Len(s), NEW j \in 1..Len(Append(p, c)), s[i].origin = h PROVE s[i].at < Append(p, c)[j].at
  BY <1>1, AppendedPlace DEF Earlier
<1> QED BY <1>1 DEF Earlier

LEMMA EarlierGrows ==
  ASSUME NEW h, NEW s \in ChangeList, NEW p, NEW c \in ChangeRecord, Earlier(h, s, p),
         c.origin = h => \A j \in 1..Len(p) : c.at < p[j].at
  PROVE  Earlier(h, Append(s, c), p)
<1>1. ASSUME NEW i \in 1..Len(Append(s, c)), NEW j \in 1..Len(p), Append(s, c)[i].origin = h
      PROVE  Append(s, c)[i].at < p[j].at
  BY <1>1, AppendedPlace DEF Earlier
<1> QED BY <1>1 DEF Earlier

LEMMA EarlierShortened ==
  ASSUME NEW h, NEW s, NEW p, Earlier(h, s, p)
  PROVE  /\ s \in ChangeList /\ s # <<>> => Earlier(h, Tail(s), p)
         /\ p \in ChangeList /\ p # <<>> => Earlier(h, s, Tail(p))
<1>1. ASSUME s \in ChangeList, s # <<>> PROVE Earlier(h, Tail(s), p)
  BY <1>1, Shortened DEF Earlier
<1>2. ASSUME p \in ChangeList, p # <<>> PROVE Earlier(h, s, Tail(p))
  BY <1>2, Shortened DEF Earlier
<1> QED BY <1>1, <1>2

-----------------------------------------------------------------------------
(* Where a change is.                                                         *)

\* It is in the journal, or waits, or was lost to the bound of the journal with
\* all of its host before it.
Outlived(h, c, s, p) == (\A i \in 1..Len(s) : s[i].origin = h => s[i].at > c.at) /\ \A j \in 1..Len(p) : p[j].at > c.at
Placed(h, c, s, p, trimmed) == Among(c, s) \/ Among(c, p) \/ (trimmed /\ Outlived(h, c, s, p))

\* One that waited was appended.
LEMMA PlacedMoves ==
  ASSUME NEW k, NEW x, NEW s \in ChangeList, NEW p, NEW c \in ChangeRecord, NEW p2, NEW q, Placed(k, x, s, p, q),
         Among(x, p) => Among(x, p2) \/ x = c, AllAmong(p2, p), c.origin = k => Among(c, p)
  PROVE  Placed(k, x, Append(s, c), p2, q)
<1> DEFINE a == Append(s, c)
<1>1. CASE Among(x, s)
  <2>1. PICK i \in 1..Len(s) : s[i] = x
    BY <1>1 DEF Among
  <2>2. i \in 1..Len(a) /\ a[i] = x
    <3>1. Len(s) \in Nat /\ Len(a) = Len(s) + 1 /\ a[i] = s[i]
      BY Appended
    <3> QED BY <2>1, <3>1
  <2> HIDE DEF a
  <2>3. Among(x, a)
    BY <2>2 DEF Among
  <2> QED BY <2>3 DEF Placed, a
<1>2. CASE Among(x, p)
  <2>1. CASE x = c
    <3>1. Len(s) + 1 \in 1..Len(a) /\ a[Len(s) + 1] = x
      <4>1. Len(s) \in Nat /\ Len(a) = Len(s) + 1 /\ a[Len(s) + 1] = c
        BY Appended
      <4> QED BY <2>1, <4>1
    <3> HIDE DEF a
    <3>2. Among(x, a)
      BY <3>1 DEF Among
    <3> QED BY <3>2 DEF Placed, a
  <2> QED BY <1>2, <2>1 DEF Placed
<1>3. CASE q /\ Outlived(k, x, s, p)
  <2>1. \A j \in 1..Len(p2) : p2[j].at > x.at
    BY <1>3 DEF Outlived, AllAmong
  <2>2. ASSUME NEW i \in 1..Len(a), a[i].origin = k PROVE a[i].at > x.at
    <3>1. CASE i \in 1..Len(s) /\ a[i] = s[i]
      <4> HIDE DEF a
      <4> QED BY <1>3, <2>2, <3>1 DEF Outlived
    <3>2. CASE a[i] = c
      <4> HIDE DEF a
      <4> QED BY <1>3, <2>2, <3>2 DEF Outlived, Among
    <3> QED BY <3>1, <3>2, AppendedPlace
  <2>3. Outlived(k, x, a, p2)
    BY <2>1, <2>2 DEF Outlived
  <2> QED BY <1>3, <2>3 DEF Placed
<1> QED BY <1>1, <1>2, <1>3 DEF Placed

\* The journal loses its first record.
LEMMA PlacedTrims ==
  ASSUME NEW k, NEW x, NEW s \in ChangeList, NEW p, NEW q, Placed(k, x, s, p, q), x.origin = k,
         s # <<>>, AppendedOnce(s), Earlier(k, s, p)
  PROVE  Placed(k, x, Tail(s), p, TRUE)
<1> DEFINE t == Tail(s)
<1>1. /\ 1 \in 1..Len(s) /\ Head(s) = s[1] /\ \A i \in 1..Len(s) : i # 1 => i - 1 \in 1..Len(t) /\ t[i - 1] = s[i]
      /\ \A i \in 1..Len(t) : i + 1 \in 1..Len(s) /\ t[i] = s[i + 1]
  BY Shortened
<1>2. \A j \in 1..Len(t) : t[j].origin = Head(s).origin => Head(s).at < t[j].at
  BY OnceShortened
<1> HIDE DEF t
<1>6. Head(s).at \in Nat /\ \A i \in 1..Len(t) : t[i].at \in Nat
  <2>1. t \in ChangeList /\ Head(s) \in ChangeRecord
    BY Shortened DEF t
  <2>2. \A i \in 1..Len(t) : t[i] \in ChangeRecord
    BY <2>1, ElementOfSeq DEF ChangeList
  <2> QED BY <2>1, <2>2 DEF ChangeRecord
<1>3. CASE Among(x, s)
  <2>1. PICK i \in 1..Len(s) : s[i] = x
    BY <1>3 DEF Among
  <2>2. CASE i = 1
    <3>1. \A j \in 1..Len(t) : t[j].origin = k => t[j].at > x.at
      BY <1>1, <1>2, <1>6, <2>1, <2>2
    <3>2. \A j \in 1..Len(p) : p[j].at > x.at
      BY <2>1 DEF Earlier
    <3>3. Outlived(k, x, t, p)
      BY <3>1, <3>2 DEF Outlived
    <3> QED BY <3>3 DEF Placed, t
  <2>3. CASE i # 1
    <3>1. Among(x, t)
      BY <1>1, <2>1, <2>3 DEF Among
    <3> QED BY <3>1 DEF Placed, t
  <2> QED BY <2>2, <2>3
<1>4. CASE Among(x, p)
  BY <1>4 DEF Placed
<1>5. CASE Outlived(k, x, s, p)
  <2>1. Outlived(k, x, t, p)
    BY <1>1, <1>5 DEF Outlived
  <2> QED BY <2>1 DEF Placed, t
<1> QED BY <1>3, <1>4, <1>5 DEF Placed

\* Another one waits, or another one is given up.
LEMMA PlacedWaits ==
  ASSUME NEW k, NEW x, NEW s, NEW p \in ChangeList, NEW q, NEW c \in ChangeRecord, Placed(k, x, s, p, q), c.at > x.at
  PROVE  Placed(k, x, s, Append(p, c), q)
<1> DEFINE a == Append(p, c)
<1>1. CASE Among(x, s)
  BY <1>1 DEF Placed
<1>2. CASE Among(x, p)
  <2>1. PICK i \in 1..Len(p) : p[i] = x
    BY <1>2 DEF Among
  <2>2. i \in 1..Len(a) /\ a[i] = x
    <3>1. Len(p) \in Nat /\ Len(a) = Len(p) + 1 /\ a[i] = p[i]
      BY Appended
    <3> QED BY <2>1, <3>1
  <2> HIDE DEF a
  <2>3. Among(x, a)
    BY <2>2 DEF Among
  <2> QED BY <2>3 DEF Placed, a
<1>3. CASE q /\ Outlived(k, x, s, p)
  <2>1. ASSUME NEW i \in 1..Len(a) PROVE a[i].at > x.at
    BY <1>3, AppendedPlace DEF Outlived
  <2>2. Outlived(k, x, s, a)
    BY <1>3, <2>1 DEF Outlived
  <2> QED BY <1>3, <2>2 DEF Placed
<1> QED BY <1>1, <1>2, <1>3 DEF Placed

LEMMA PlacedLoses ==
  ASSUME NEW k, NEW x, NEW s, NEW p \in ChangeList, p # <<>>, NEW q, Placed(k, x, s, p, q), x # Head(p)
  PROVE  Placed(k, x, s, Tail(p), q)
<1>1. ASSUME Among(x, p) PROVE Among(x, Tail(p))
  <2>1. PICK i \in 1..Len(p) : p[i] = x
    BY <1>1 DEF Among
  <2>2. i # 1
    BY <2>1, Shortened
  <2>3. i - 1 \in 1..Len(Tail(p)) /\ Tail(p)[i - 1] = x
    BY <2>1, <2>2, Shortened
  <2> QED BY <2>3 DEF Among
<1>2. Outlived(k, x, s, p) => Outlived(k, x, s, Tail(p))
  BY Shortened DEF Outlived
<1> QED BY <1>1, <1>2 DEF Placed

-----------------------------------------------------------------------------
(* Who made the chains to a content.                                          *)

ChainStates == [Contents -> [reached : BOOLEAN, owners : SUBSET Names]]

LEMMA ChainedIs ==
  ASSUME NEW cs \in ChainStates, NEW r \in ChangeRecord
  PROVE  /\ Chained(cs, r) \in ChainStates
         /\ \A c \in Contents : \/ Chained(cs, r)[c].owners = cs[c].owners
                                \/ /\ c = r.after
                                   /\ Chained(cs, r)[c].owners = cs[c].owners \cup cs[r.before].owners \cup {r.origin}
<1>1. r.before \in Contents /\ r.after \in Contents /\ r.origin \in Names
  BY DEF ChangeRecord
<1> DEFINE o == cs[r.after].owners \cup cs[r.before].owners \cup {r.origin}
<1>2. o \in SUBSET Names /\ cs[r.after] \in [reached : BOOLEAN, owners : SUBSET Names]
  BY <1>1 DEF ChainStates
<1>3. CASE cs[r.before].reached
  <2>1. Chained(cs, r) = [cs EXCEPT ![r.after] = [reached |-> TRUE, owners |-> o]]
    BY <1>1, <1>3 DEF Chained, ChainStates
  <2> HIDE DEF o, Names
  <2>2. [reached |-> TRUE, owners |-> o] \in [reached : BOOLEAN, owners : SUBSET Names]
    BY <1>2
  <2>3. Chained(cs, r) \in ChainStates
    BY <2>1, <2>2 DEF ChainStates
  <2>4. ASSUME NEW c \in Contents
        PROVE  \/ Chained(cs, r)[c].owners = cs[c].owners
               \/ c = r.after /\ Chained(cs, r)[c].owners = o
    BY <2>1, <1>1 DEF ChainStates
  <2> QED BY <2>3, <2>4 DEF o
<1>4. CASE ~cs[r.before].reached
  <2>1. Chained(cs, r) = cs
    BY <1>4 DEF Chained
  <2> QED BY <2>1
<1> QED BY <1>3, <1>4

\* What an attribution found so far came from records, and one of them led to the
\* content it is about.
Founded(cs, s, n) ==
  \A c \in Contents :
    /\ \A o \in cs[c].owners : \E i \in 1..n : s[i].origin = o
    /\ cs[c].owners # {} => \E i \in 1..n : s[i].after = c /\ s[i].origin \in cs[c].owners

LEMMA FoundedGrows ==
  ASSUME NEW s \in ChangeList, NEW n \in Nat, n + 1 <= Len(s), NEW cs \in ChainStates, Founded(cs, s, n)
  PROVE  Chained(cs, s[n + 1]) \in ChainStates /\ Founded(Chained(cs, s[n + 1]), s, n + 1)
<1> DEFINE r == s[n + 1]
           nx == Chained(cs, r)
<1>1. r \in ChangeRecord /\ n + 1 \in 1..(n + 1) /\ \A i \in 1..n : i \in 1..(n + 1)
  <2>1. n + 1 \in 1..Len(s)
    BY LenProperties DEF ChangeList
  <2> QED BY <2>1, ElementOfSeq DEF ChangeList
<1>2. r.before \in Contents /\ r.after \in Contents
  BY <1>1 DEF ChangeRecord
<1>3. /\ nx \in ChainStates
      /\ \A c \in Contents : \/ nx[c].owners = cs[c].owners
                             \/ c = r.after /\ nx[c].owners = cs[c].owners \cup cs[r.before].owners \cup {r.origin}
  BY <1>1, ChainedIs
<1> HIDE DEF nx
<1>4. ASSUME NEW c \in Contents
      PROVE  /\ \A o \in nx[c].owners : \E i \in 1..(n + 1) : s[i].origin = o
             /\ nx[c].owners # {} => \E i \in 1..(n + 1) : s[i].after = c /\ s[i].origin \in nx[c].owners
  <2>1. CASE nx[c].owners = cs[c].owners
    BY <2>1, <1>1 DEF Founded
  <2>2. CASE c = r.after /\ nx[c].owners = cs[c].owners \cup cs[r.before].owners \cup {r.origin}
    <3>1. ASSUME NEW o \in nx[c].owners PROVE \E i \in 1..(n + 1) : s[i].origin = o
      <4>1. CASE o \in cs[c].owners \/ o \in cs[r.before].owners
        BY <4>1, <1>1, <1>2 DEF Founded
      <4>2. CASE o = r.origin
        BY <4>2, <1>1
      <4> QED BY <4>1, <4>2, <3>1, <2>2
    <3>2. s[n + 1].after = c /\ s[n + 1].origin \in nx[c].owners
      BY <2>2
    <3> QED BY <3>1, <3>2, <1>1
  <2> QED BY <1>3, <2>1, <2>2
<1> QED BY <1>3, <1>4 DEF Founded, nx

LEMMA OwnersFounded ==
  ASSUME NEW s \in ChangeList, NEW before \in Contents, NEW after \in Contents
  PROVE  LET owners == OwnersForTransition(s, before, after)
         IN /\ owners \in SUBSET Names
            /\ \A o \in owners : \E i \in 1..Len(s) : s[i].origin = o
            /\ owners # {} => \E i \in 1..Len(s) : s[i].after = after /\ s[i].origin \in owners
<1> DEFINE N == Len(s)
           Body(g) == [n \in 0..N |-> IF n = 0 THEN Unchained(before) ELSE Chained(g[n - 1], s[n])]
           upTo == CHOOSE g : g = Body(g)
           G == [p \in (1..N) \X ChainStates |-> Chained(p[2], s[p[1]])]
<1>1. N \in Nat /\ \A n \in 1..N : s[n] \in ChangeRecord
  BY LenProperties, ElementOfSeq DEF ChangeList
<1>0. Unchained(before) \in ChainStates
  BY DEF Unchained, ChainStates
<1>2. G \in [(1..N) \X ChainStates -> ChainStates]
  <2>1. ASSUME NEW n \in 1..N, NEW c \in ChainStates PROVE Chained(c, s[n]) \in ChainStates
    BY <1>1, ChainedIs
  <2> HIDE DEF N
  <2> QED BY <2>1
<1>3. \A n \in 1..N : \A c \in ChainStates : G[<<n, c>>] = Chained(c, s[n])
  OBVIOUS
<1> HIDE DEF N, G
<1>4. PICK f : Follows(f, N, ChainStates, Unchained(before), G)
  BY <1>0, <1>1, <1>2, RecursionExists
<1>5. f \in [0..N -> ChainStates] /\ f[0] = Unchained(before) /\ \A n \in 1..N : f[n] = G[<<n, f[n - 1]>>]
  BY <1>4 DEF Follows
<1>6. ASSUME NEW n \in 1..N PROVE f[n] = Chained(f[n - 1], s[n])
  <2>1. n - 1 \in 0..N
    BY <1>1
  <2>2. f[n - 1] \in ChainStates
    BY <1>5, <2>1
  <2> QED BY <2>2, <1>3, <1>5
<1>7. f = Body(f)
  <2>1. ASSUME NEW n \in 0..N PROVE f[n] = Body(f)[n]
    <3>1. CASE n = 0
      BY <3>1, <1>5
    <3>2. CASE n # 0
      <4>1. n \in 1..N
        BY <1>1, <3>2
      <4>2. f[n] = Chained(f[n - 1], s[n])
        BY <4>1, <1>6
      <4> QED BY <4>2, <3>2
    <3> QED BY <3>1, <3>2
  <2> QED BY <2>1, <1>5
<1>8. upTo = Body(upTo)
  <2> HIDE DEF Body
  <2> QED BY <1>7
<1>9. OwnersForTransition(s, before, after) = upTo[N][after].owners
  BY DEF OwnersForTransition, N
<1> HIDE DEF upTo
<1>10. upTo[0] = Unchained(before) /\ \A n \in 1..N : upTo[n] = Chained(upTo[n - 1], s[n])
  <2>1. ASSUME NEW n \in 0..N PROVE upTo[n] = IF n = 0 THEN Unchained(before) ELSE Chained(upTo[n - 1], s[n])
    BY <1>8
  <2>2. 0 \in 0..N /\ \A n \in 1..N : n \in 0..N /\ n # 0
    BY <1>1
  <2> QED BY <2>1, <2>2
<1> HIDE DEF Body
<1>11. \A n \in Nat : n <= N => upTo[n] \in ChainStates /\ Founded(upTo[n], s, n)
  <2> DEFINE S == {m \in Nat : m <= N => upTo[m] \in ChainStates /\ Founded(upTo[m], s, m)}
  <2>1. 0 \in S
    <3>1. Founded(Unchained(before), s, 0)
      BY DEF Founded, Unchained
    <3> QED BY <3>1, <1>0, <1>10
  <2>2. ASSUME NEW n \in Nat, n \in S PROVE n + 1 \in S
    <3>1. SUFFICES ASSUME n + 1 <= N PROVE upTo[n + 1] \in ChainStates /\ Founded(upTo[n + 1], s, n + 1)
      OBVIOUS
    <3>2. upTo[n] \in ChainStates /\ Founded(upTo[n], s, n) /\ n + 1 \in 1..N /\ (n + 1) - 1 = n
      BY <2>2, <3>1, <1>1
    <3>3. upTo[n + 1] = Chained(upTo[n], s[n + 1])
      BY <3>2, <1>10
    <3> QED BY <3>1, <3>2, <3>3, FoundedGrows DEF N
  <2> HIDE DEF S
  <2>3. \A n \in Nat : n \in S
    BY <2>1, <2>2, NumbersInduction
  <2> QED BY <2>3 DEF S
<1>12. upTo[N] \in ChainStates /\ Founded(upTo[N], s, N)
  BY <1>1, <1>11
<1>13. upTo[N][after].owners \in SUBSET Names
  BY <1>12 DEF ChainStates
<1> QED BY <1>9, <1>12, <1>13 DEF Founded, N

-----------------------------------------------------------------------------
(* The inductive invariant.                                                   *)

Ledgers == [sequence : Nat, records : ChangeList]
ObservationRecord == [bound : BOOLEAN, gap : BOOLEAN, since : Nat, lapsed : Nat, renewals : Nat]
FileTypes == content \in Contents /\ commits \in ChangeList /\ \A n \in 1..Len(commits) : commits[n].at = n
LedgerTypes == ledger \in Ledgers /\ ledgerLock \subseteq Hosts
HostTypes ==
  /\ pending \in [Hosts -> ChangeList] /\ observation \in [Hosts -> ObservationRecord]
  /\ appender \in [Hosts -> [pc : {"idle", "loaded", "leaving"}, loaded : Ledgers]]
MarkTypes ==
  mark \in [Hosts -> [known : BOOLEAN, content : Contents, sequence : Nat, pc : {"idle", "read"}, read : Ledgers, gap : BOOLEAN]]
VerdictTypes == verdict \in [Hosts -> [owners : SUBSET Names, unseen : Int]]
JournalTypes == FileTypes /\ LedgerTypes /\ HostTypes /\ MarkTypes /\ VerdictTypes

LedgerBounded == Len(ledger.records) <= MaxRecords /\ Len(ledger.records) <= ledger.sequence
\* Who is past the lock holds it, and loaded the journal there is.
LockSound ==
  \A h \in Hosts : /\ appender[h].pc # "idle" => ledgerLock = {h}
                   /\ appender[h].pc = "loaded" => pending[h] # <<>> /\ appender[h].loaded = ledger
OwnPending == \A h \in Hosts : \A i \in 1..Len(pending[h]) : pending[h][i].origin = h
\* What is kept anywhere are changes of the file.
AllReal ==
  /\ AllAmong(ledger.records, commits)
  /\ \A h \in Hosts : AllAmong(pending[h], commits) /\ AllAmong(mark[h].read.records, commits)
\* A host's changes are appended and wait in the order they were made, each once.
AllOrdered ==
  /\ AppendedOnce(ledger.records)
  /\ \A h \in Hosts : AppendedOnce(pending[h]) /\ Earlier(h, ledger.records, pending[h])
\* Those under its present observation are somewhere, unless that has a gap.
PlacedOf(h) ==
  \A n \in 1..Len(commits) : commits[n].origin = h /\ Ours(h, commits[n]) =>
    Placed(h, commits[n], ledger.records, pending[h], ledger.sequence > Len(ledger.records))
AllPlaced == \A h \in Hosts : Alive(h) /\ ~observation[h].gap => PlacedOf(h)
JournalInvariant ==
  /\ JournalTypes /\ LedgerBounded /\ LockSound /\ OwnPending /\ AllReal /\ AllOrdered /\ AllPlaced /\ AttributionSound

LEMMA RestingIs ==
  /\ Resting \in [pc : {"idle", "loaded", "leaving"}, loaded : Ledgers] /\ Resting.pc = "idle"
  /\ [Resting EXCEPT !.pc = "leaving"] \in [pc : {"idle", "loaded", "leaving"}, loaded : Ledgers]
  /\ [Resting EXCEPT !.pc = "leaving"].pc = "leaving"
  /\ Unmarked \in [known : BOOLEAN, content : Contents, sequence : Nat, pc : {"idle", "read"}, read : Ledgers, gap : BOOLEAN]
  /\ Unmarked.read.records = <<>> /\ Unjudged \in [owners : SUBSET Names, unseen : Int]
  /\ Unjudged.owners = {} /\ Unjudged.unseen = 0 /\ Empty \in Ledgers /\ Empty.records = <<>> /\ Empty.sequence = 0
<1>1. <<>> \in ChangeList
  BY DEF ChangeList
<1>2. Empty \in Ledgers /\ Empty.records = <<>> /\ Empty.sequence = 0
  BY <1>1 DEF Empty, Ledgers
<1> HIDE DEF Ledgers
<1> QED BY <1>2, JournalNames DEF Resting, Unmarked, Unjudged

LEMMA JournalBegins == JournalInit => JournalInvariant
<1> SUFFICES ASSUME JournalInit PROVE JournalInvariant
  OBVIOUS
<1> USE DEF JournalInit
<1>1. <<>> \in ChangeList /\ Empty \in Ledgers /\ Len(Empty.records) = 0 /\ Empty.sequence = 0 /\ Empty.records = <<>>
  BY RestingIs DEF ChangeList
<1>2. Watching \in ObservationRecord
  BY DEF Watching, ObservationRecord
<1> HIDE DEF Ledgers, ObservationRecord
<1>5. JournalTypes
  BY <1>1, <1>2, RestingIs, JournalNames DEF JournalTypes, FileTypes, LedgerTypes, HostTypes, MarkTypes, VerdictTypes
<1>6. LedgerBounded /\ LockSound /\ OwnPending
  BY <1>1, RestingIs, JournalBounds DEF LedgerBounded, LockSound, OwnPending
<1>7. AllReal
  BY <1>1, RestingIs DEF AllReal, AllAmong
<1>8. AllOrdered /\ AllPlaced
  BY <1>1 DEF AllOrdered, AllPlaced, PlacedOf, AppendedOnce, Earlier
<1>9. AttributionSound
  BY RestingIs DEF AttributionSound
<1> QED BY <1>5, <1>6, <1>7, <1>8, <1>9 DEF JournalInvariant

-----------------------------------------------------------------------------
(* Every step preserves it.                                                   *)

\* The parts that say what is where.
Whereabouts == OwnPending /\ AllReal /\ AllOrdered /\ AllPlaced

LEMMA JournalFacts ==
  ASSUME JournalInvariant
  PROVE  /\ FileTypes /\ LedgerTypes /\ HostTypes /\ MarkTypes /\ VerdictTypes /\ LedgerBounded /\ LockSound
         /\ OwnPending /\ AllReal /\ AllOrdered /\ AllPlaced /\ AttributionSound
         /\ commits \in ChangeList /\ content \in Contents /\ ledger \in Ledgers /\ ledger.records \in ChangeList
         /\ ledger.sequence \in Nat
         /\ \A h \in Hosts : pending[h] \in ChangeList /\ observation[h] \in ObservationRecord
BY DEF JournalInvariant, JournalTypes, FileTypes, LedgerTypes, HostTypes, Ledgers

\* Where nothing moved, nothing is missed: an observation that lost nothing, or
\* that began with no change of its own, or none.
Continues(h) ==
  \/ /\ observation'[h].bound = observation[h].bound /\ observation'[h].since = observation[h].since
     /\ observation[h].gap => observation'[h].gap
  \/ ~observation'[h].bound \/ observation'[h].since = Len(commits)

LEMMA PlacedStays ==
  ASSUME FileTypes, NEW h \in Hosts, Alive(h) /\ ~observation[h].gap => PlacedOf(h), Continues(h), crashed \subseteq crashed',
         UNCHANGED <<commits, ledger>>, pending'[h] = pending[h], Alive(h)', ~observation'[h].gap
  PROVE  PlacedOf(h)'
<1>1. CASE /\ observation'[h].bound = observation[h].bound /\ observation'[h].since = observation[h].since
           /\ observation[h].gap => observation'[h].gap
  <2>1. PlacedOf(h)
    BY <1>1 DEF Alive
  <2> QED BY <1>1, <2>1 DEF PlacedOf, Ours, Alive
<1>2. CASE ~observation'[h].bound \/ observation'[h].since = Len(commits)
  <2>1. ASSUME NEW n \in 1..Len(commits) PROVE ~(observation'[h].bound /\ commits[n].at > observation'[h].since)
    <3>1. commits[n].at = n /\ Len(commits) \in Nat
      BY LenProperties DEF FileTypes, ChangeList
    <3> QED BY <1>2, <3>1
  <2> QED BY <2>1 DEF PlacedOf, Ours
<1> QED BY <1>1, <1>2 DEF Continues

\* What a verdict says of the changes stays true of more of them.
LEMMA AttributionStays ==
  ASSUME AttributionSound, \A j \in 1..Len(commits) : j \in 1..Len(commits') /\ commits'[j] = commits[j],
         \A h \in Hosts : \/ verdict'[h].owners = {} /\ verdict'[h].unseen = 0
                          \/ verdict'[h] = verdict[h] /\ mark'[h].content = mark[h].content
  PROVE  AttributionSound'
<1> SUFFICES ASSUME NEW h \in Hosts
             PROVE  /\ verdict'[h].unseen = 0
                    /\ \A o \in verdict'[h].owners : \E n \in 1..Len(commits') : commits'[n].origin = o
                    /\ verdict'[h].owners # {} => \E n \in 1..Len(commits') :
                         commits'[n].after = mark'[h].content /\ commits'[n].origin \in verdict'[h].owners
  BY DEF AttributionSound
<1>1. CASE verdict'[h].owners = {} /\ verdict'[h].unseen = 0
  BY <1>1
<1>2. CASE verdict'[h] = verdict[h] /\ mark'[h].content = mark[h].content
  <2>1. \A o \in verdict[h].owners : \E n \in 1..Len(commits) : commits[n].origin = o
    BY DEF AttributionSound
  <2>2. verdict[h].owners # {} => \E n \in 1..Len(commits) :
          commits[n].after = mark[h].content /\ commits[n].origin \in verdict[h].owners
    BY DEF AttributionSound
  <2>3. verdict[h].unseen = 0
    BY DEF AttributionSound
  <2> QED BY <1>2, <2>1, <2>2, <2>3
<1> QED BY <1>1, <1>2

LEMMA VerdictsRest ==
  ASSUME JournalInvariant, commits' = commits,
         \A h \in Hosts : \/ verdict'[h].owners = {} /\ verdict'[h].unseen = 0
                          \/ verdict'[h] = verdict[h] /\ mark'[h].content = mark[h].content
  PROVE  AttributionSound'
BY AttributionStays DEF JournalInvariant

\* The steps that leave the file and the journal's lists alone.
LEMMA WhereaboutsRest ==
  ASSUME JournalInvariant, UNCHANGED <<commits, ledger>>, crashed \subseteq crashed',
         \A h \in Hosts : Continues(h) \/ ~Alive(h)', \A h \in Hosts : pending'[h] = pending[h] \/ (pending'[h] = <<>> /\ ~Alive(h)'),
         \A h \in Hosts : AllAmong(mark'[h].read.records, commits)
  PROVE  Whereabouts'
<1>1. FileTypes /\ OwnPending /\ AllReal /\ AllOrdered /\ AllPlaced
  BY JournalFacts
<1>2. OwnPending'
  BY <1>1 DEF OwnPending
<1>3. AllReal'
  BY <1>1 DEF AllReal, AllAmong
<1>4. AllOrdered'
  <2>1. ASSUME NEW h \in Hosts PROVE AppendedOnce(pending'[h]) /\ Earlier(h, ledger.records, pending'[h])
    <3>1. CASE pending'[h] = pending[h]
      BY <1>1, <3>1 DEF AllOrdered
    <3>2. CASE pending'[h] = <<>>
      BY <3>2 DEF AppendedOnce, Earlier
    <3> QED BY <3>1, <3>2
  <2> QED BY <1>1, <2>1 DEF AllOrdered
<1>5. AllPlaced'
  <2>1. ASSUME NEW h \in Hosts, Alive(h)', ~observation'[h].gap PROVE PlacedOf(h)'
    BY <1>1, <2>1, PlacedStays DEF AllPlaced
  <2> QED BY <2>1 DEF AllPlaced
<1> QED BY <1>2, <1>3, <1>4, <1>5 DEF Whereabouts

\* The file changes: nothing that was said of its changes becomes false.
LEMMA ChangesGrow ==
  ASSUME JournalInvariant, NEW c \in ChangeRecord, commits' = Append(commits, c), content' = c.after, c.at = Len(commits) + 1
  PROVE  /\ FileTypes' /\ Len(commits) \in Nat /\ Len(commits') = Len(commits) + 1 /\ commits'[Len(commits) + 1] = c
         /\ \A j \in 1..Len(commits) : j \in 1..Len(commits') /\ commits'[j] = commits[j]
         /\ \A s : AllAmong(s, commits) => AllAmong(s, commits') /\ \A i \in 1..Len(s) : s[i].at < c.at
<1>0. commits \in ChangeList /\ FileTypes
  BY JournalFacts
<1>1. /\ commits' \in ChangeList /\ Len(commits) \in Nat /\ Len(commits') = Len(commits) + 1 /\ commits'[Len(commits) + 1] = c
      /\ \A j \in 1..Len(commits) : commits'[j] = commits[j]
  BY <1>0, Appended
<1>2. \A j \in 1..Len(commits) : j \in 1..Len(commits')
  BY <1>1
<1>3. \A n \in 1..Len(commits') : commits'[n].at = n
  <2>1. ASSUME NEW n \in 1..Len(commits') PROVE commits'[n].at = n
    <3>1. n \in 1..Len(commits) \/ n = Len(commits) + 1
      BY <1>1
    <3> QED BY <1>0, <1>1, <3>1 DEF FileTypes
  <2> QED BY <2>1
<1>4. c.after \in Contents
  BY DEF ChangeRecord
<1>5. ASSUME NEW s, AllAmong(s, commits) PROVE AllAmong(s, commits') /\ \A i \in 1..Len(s) : s[i].at < c.at
  <2>1. AllAmong(s, commits')
    BY <1>1, <1>2, <1>5 DEF AllAmong
  <2>2. ASSUME NEW i \in 1..Len(s) PROVE s[i].at < c.at
    <3>1. PICK j \in 1..Len(commits) : s[i] = commits[j]
      BY <1>5 DEF AllAmong
    <3>2. s[i].at = j
      BY <1>0, <3>1 DEF FileTypes
    <3> QED BY <1>1, <3>2
  <2> QED BY <2>1, <2>2
<1> QED BY <1>1, <1>2, <1>3, <1>4, <1>5 DEF FileTypes

\* It waits, is told as a gap, or nobody observes it.
LEMMA ChangePlaced ==
  ASSUME JournalInvariant, NEW c \in ChangeRecord, commits' = Append(commits, c), content' = c.after, c.at = Len(commits) + 1,
         UNCHANGED <<ledger, mark, crashed>>,
         \A k \in Hosts : pending'[k] = pending[k] \/ (k = c.origin /\ pending'[k] = Append(pending[k], c)),
         \A k \in Hosts : /\ observation'[k].bound = observation[k].bound /\ observation'[k].since = observation[k].since
                          /\ observation[k].gap => observation'[k].gap,
         \A k \in Hosts : k = c.origin /\ observation[k].bound =>
                            pending'[k] = Append(pending[k], c) \/ observation'[k].gap
  PROVE  Whereabouts'
<1>0. /\ Len(commits) \in Nat /\ Len(commits') = Len(commits) + 1 /\ commits'[Len(commits) + 1] = c
      /\ \A j \in 1..Len(commits) : j \in 1..Len(commits') /\ commits'[j] = commits[j]
      /\ \A s : AllAmong(s, commits) => AllAmong(s, commits') /\ \A i \in 1..Len(s) : s[i].at < c.at
  BY ChangesGrow
<1>1. /\ FileTypes /\ OwnPending /\ AllReal /\ AllOrdered /\ AllPlaced /\ ledger.records \in ChangeList
      /\ \A k \in Hosts : pending[k] \in ChangeList
  BY JournalFacts
<1>2. ASSUME NEW k \in Hosts
      PROVE  /\ \A i \in 1..Len(pending'[k]) : pending'[k][i].origin = k
             /\ AllAmong(pending'[k], commits')
             /\ AppendedOnce(pending'[k]) /\ Earlier(k, ledger.records, pending'[k])
  <2>1. CASE pending'[k] = pending[k]
    <3>1. AllAmong(pending[k], commits')
      BY <1>0, <1>1 DEF AllReal
    <3> QED BY <1>1, <2>1, <3>1 DEF OwnPending, AllOrdered
  <2>2. CASE k = c.origin /\ pending'[k] = Append(pending[k], c)
    <3>1. PICK p \in ChangeList : p = pending[k]
      BY <1>1
    <3>2. /\ AllAmong(p, commits') /\ (\A i \in 1..Len(p) : p[i].at < c.at) /\ AppendedOnce(p) /\ Earlier(k, ledger.records, p)
          /\ \A i \in 1..Len(p) : p[i].origin = k
      BY <1>0, <1>1, <3>1 DEF AllReal, AllOrdered, OwnPending
    <3>3. \A i \in 1..Len(ledger.records) : ledger.records[i].at < c.at
      BY <1>0, <1>1 DEF AllReal
    <3>4. \E j \in 1..Len(commits') : c = commits'[j]
      BY <1>0
    <3>5. AllAmong(Append(p, c), commits')
      BY ZenonT(40), <3>2, <3>4, AmongAppended
    <3>6. AppendedOnce(Append(p, c)) /\ Earlier(k, ledger.records, Append(p, c))
      BY <3>2, <3>3, OnceAppended, EarlierAppended
    <3>7. \A i \in 1..Len(Append(p, c)) : Append(p, c)[i].origin = k
      BY <2>2, <3>2, AppendedPlace
    <3> QED BY <2>2, <3>1, <3>5, <3>6, <3>7
  <2> QED BY <2>1, <2>2
<1>3. OwnPending'
  BY <1>2 DEF OwnPending
<1>4. AllReal'
  <2>1. AllAmong(ledger.records, commits') /\ \A k \in Hosts : AllAmong(mark[k].read.records, commits')
    BY <1>0, <1>1 DEF AllReal
  <2> QED BY <1>2, <2>1 DEF AllReal
<1>5. AllOrdered'
  BY <1>1, <1>2 DEF AllOrdered
<1>6. AllPlaced'
  <2> DEFINE q == ledger.sequence > Len(ledger.records)
  <2>1. ASSUME NEW k \in Hosts, Alive(k)', ~observation'[k].gap PROVE PlacedOf(k)'
    <3>1. PlacedOf(k)
      BY <1>1, <2>1 DEF AllPlaced, Alive
    <3>2. PICK p \in ChangeList : p = pending[k]
      BY <1>1
    <3>3. ASSUME NEW n \in 1..Len(commits'), commits'[n].origin = k,
                 observation'[k].bound, commits'[n].at > observation'[k].since
          PROVE  Placed(k, commits'[n], ledger.records, pending'[k], q)
      <4>1. CASE n \in 1..Len(commits)
        <5>1. Placed(k, commits[n], ledger.records, p, q)
          <6>1. Ours(k, commits[n]) /\ commits[n].origin = k
            BY <1>0, <3>3, <4>1 DEF Ours
          <6> QED BY <3>1, <3>2, <4>1, <6>1 DEF PlacedOf
        <5>2. commits'[n] = commits[n] /\ c.at > commits[n].at
          BY <1>0, <1>1, <4>1 DEF FileTypes
        <5>3. CASE pending'[k] = pending[k]
          BY <3>2, <5>1, <5>2, <5>3
        <5>4. CASE pending'[k] = Append(pending[k], c)
          <6> HIDE DEF q
          <6>1. Placed(k, commits[n], ledger.records, Append(p, c), q)
            BY <5>1, <5>2, PlacedWaits
          <6> QED BY <3>2, <5>2, <5>4, <6>1
        <5> QED BY <5>3, <5>4
      <4>2. CASE n = Len(commits) + 1
        <5>1. commits'[n] = c /\ pending'[k] = Append(p, c)
          BY <1>0, <2>1, <3>2, <3>3, <4>2
        <5>2. /\ Len(p) \in Nat /\ Len(Append(p, c)) = Len(p) + 1 /\ Append(p, c)[Len(p) + 1] = c
          BY Appended
        <5>3. Among(c, Append(p, c))
          BY <5>2 DEF Among
        <5> QED BY <5>1, <5>3 DEF Placed
      <4> QED BY <1>0, <4>1, <4>2
    <3> QED BY <3>3 DEF PlacedOf, Ours
  <2> QED BY <2>1 DEF AllPlaced
<1> QED BY <1>3, <1>4, <1>5, <1>6 DEF Whereabouts

LEMMA CommitFileKeeps ==
  ASSUME JournalInvariant, NEW h \in Hosts, NEW to \in Contents, CommitFile(h, to)
  PROVE  JournalInvariant'
<1> DEFINE c == Change(h, to)
<1>1. c \in ChangeRecord /\ c.origin = h /\ c.after = to /\ c.at = Len(commits) + 1
  <2>1. Len(commits) + 1 \in Nat /\ content \in Contents
    <3>1. Len(commits) \in Nat
      BY JournalFacts, LenProperties DEF ChangeList
    <3> QED BY <3>1, JournalFacts
  <2> QED BY <2>1 DEF Change, ChangeRecord, Names
<1>2. /\ commits' = Append(commits, c) /\ content' = to /\ UNCHANGED <<ledger, ledgerLock, appender, mark, verdict, crashed>>
      /\ \/ ~observation[h].bound /\ UNCHANGED <<pending, observation>>
         \/ pending' = [pending EXCEPT ![h] = Append(@, c)] /\ observation' = observation
         \/ pending' = pending /\ observation' = [observation EXCEPT ![h].gap = TRUE]
  BY DEF CommitFile
<1> HIDE DEF c
<1>3. /\ LedgerTypes /\ HostTypes /\ MarkTypes /\ VerdictTypes /\ LedgerBounded /\ LockSound /\ AttributionSound
      /\ \A k \in Hosts : pending[k] \in ChangeList
  BY JournalFacts
<1>4. /\ pending \in [Hosts -> ChangeList] /\ observation \in [Hosts -> ObservationRecord]
  BY <1>3 DEF HostTypes
<1>5. Append(pending[h], c) \in ChangeList /\ Append(pending[h], c) # <<>>
  BY <1>1, <1>3, Appended
<1>6. /\ \A k \in Hosts : pending'[k] = pending[k] \/ (k = h /\ pending'[k] = Append(pending[k], c))
      /\ \A k \in Hosts : /\ observation'[k].bound = observation[k].bound /\ observation'[k].since = observation[k].since
                          /\ observation[k].gap => observation'[k].gap
      /\ observation[h].bound => pending'[h] = Append(pending[h], c) \/ observation'[h].gap
      /\ pending' \in [Hosts -> ChangeList] /\ observation' \in [Hosts -> ObservationRecord]
  <2>1. CASE ~observation[h].bound /\ UNCHANGED <<pending, observation>>
    BY <1>4, <2>1
  <2>2. CASE pending' = [pending EXCEPT ![h] = Append(@, c)] /\ observation' = observation
    BY <1>4, <1>5, <2>2
  <2>3. CASE pending' = pending /\ observation' = [observation EXCEPT ![h].gap = TRUE]
    <3>1. observation' \in [Hosts -> ObservationRecord]
      BY <1>4, <2>3 DEF ObservationRecord
    <3>2. /\ \A k \in Hosts : /\ observation'[k].bound = observation[k].bound /\ observation'[k].since = observation[k].since
                              /\ observation[k].gap => observation'[k].gap
          /\ observation'[h].gap
      BY <1>4, <2>3 DEF ObservationRecord
    <3> QED BY <1>4, <2>3, <3>1, <3>2
  <2> QED BY <1>2, <2>1, <2>2, <2>3
<1>7. Whereabouts'
  BY <1>1, <1>2, <1>6, ChangePlaced
<1>8. FileTypes' /\ AttributionSound'
  BY <1>1, <1>2, <1>3, ChangesGrow, AttributionStays
<1>9. LedgerTypes' /\ HostTypes' /\ MarkTypes' /\ VerdictTypes' /\ LedgerBounded'
  BY <1>2, <1>3, <1>6 DEF LedgerTypes, HostTypes, MarkTypes, VerdictTypes, LedgerBounded
<1>10. LockSound'
  BY <1>2, <1>3, <1>5, <1>6 DEF LockSound
<1> QED BY <1>7, <1>8, <1>9, <1>10 DEF JournalInvariant, JournalTypes, Whereabouts

LEMMA EditOutsideKeeps ==
  ASSUME JournalInvariant, NEW to \in Contents, EditOutside(to)
  PROVE  JournalInvariant'
<1> DEFINE c == Change(Outside, to)
<1>1. c \in ChangeRecord /\ c.origin = Outside /\ c.after = to /\ c.at = Len(commits) + 1
  <2>1. Len(commits) + 1 \in Nat /\ content \in Contents
    <3>1. Len(commits) \in Nat
      BY JournalFacts, LenProperties DEF ChangeList
    <3> QED BY <3>1, JournalFacts
  <2> QED BY <2>1 DEF Change, ChangeRecord, Names
<1>2. /\ commits' = Append(commits, c) /\ content' = to
      /\ UNCHANGED <<pending, observation, ledger, ledgerLock, appender, mark, verdict, crashed>>
  BY DEF EditOutside
<1> HIDE DEF c
<1>3. /\ LedgerTypes /\ HostTypes /\ MarkTypes /\ VerdictTypes /\ LedgerBounded /\ LockSound /\ AttributionSound
  BY JournalFacts
<1>4. Whereabouts'
  BY <1>1, <1>2, ChangePlaced, JournalNames
<1>5. FileTypes' /\ AttributionSound'
  BY <1>1, <1>2, <1>3, ChangesGrow, AttributionStays
<1>6. LedgerTypes' /\ HostTypes' /\ MarkTypes' /\ VerdictTypes' /\ LedgerBounded' /\ LockSound'
  BY <1>2, <1>3 DEF LedgerTypes, HostTypes, MarkTypes, VerdictTypes, LedgerBounded, LockSound
<1> QED BY <1>4, <1>5, <1>6 DEF JournalInvariant, JournalTypes, Whereabouts

\* What waited first, and the observation after it was missed.
LEMMA OwnTail ==
  ASSUME JournalInvariant, NEW h \in Hosts, pending[h] # <<>>
  PROVE  /\ Tail(pending[h]) \in ChangeList /\ Head(pending[h]) \in ChangeRecord /\ Head(pending[h]).origin = h
         /\ Among(Head(pending[h]), pending[h]) /\ AllAmong(Tail(pending[h]), pending[h])
         /\ (\A x : Among(x, pending[h]) => Among(x, Tail(pending[h])) \/ x = Head(pending[h]))
         /\ AllAmong(Tail(pending[h]), commits) /\ (\E j \in 1..Len(commits) : Head(pending[h]) = commits[j])
         /\ \A i \in 1..Len(Tail(pending[h])) : Tail(pending[h])[i].origin = h
         /\ AppendedOnce(Tail(pending[h])) /\ Earlier(h, ledger.records, Tail(pending[h]))
         /\ \A j \in 1..Len(Tail(pending[h])) : Head(pending[h]).at < Tail(pending[h])[j].at
         /\ \A i \in 1..Len(ledger.records) : ledger.records[i].origin = h => ledger.records[i].at < Head(pending[h]).at
<1>1. PICK p \in ChangeList : p = pending[h]
  BY JournalFacts
<1>2. p # <<>> /\ AllAmong(p, commits) /\ (\A i \in 1..Len(p) : p[i].origin = h) /\ AppendedOnce(p) /\ Earlier(h, ledger.records, p)
  BY <1>1, JournalFacts DEF OwnPending, AllReal, AllOrdered
<1>3. /\ Tail(p) \in ChangeList /\ 1 \in 1..Len(p) /\ Head(p) = p[1] /\ Head(p) \in ChangeRecord
      /\ \A i \in 1..Len(Tail(p)) : i + 1 \in 1..Len(p) /\ Tail(p)[i] = p[i + 1]
      /\ \A i \in 1..Len(p) : i # 1 => i - 1 \in 1..Len(Tail(p)) /\ Tail(p)[i - 1] = p[i]
  BY <1>2, Shortened
<1>4. Head(p).origin = h /\ \A i \in 1..Len(Tail(p)) : Tail(p)[i].origin = h
  BY <1>2, <1>3
<1>5. Among(Head(p), p) /\ AllAmong(Tail(p), p) /\ \A x : Among(x, p) => Among(x, Tail(p)) \/ x = Head(p)
  BY <1>3 DEF Among, AllAmong
<1>6. AllAmong(Tail(p), commits) /\ \E j \in 1..Len(commits) : Head(p) = commits[j]
  BY <1>2, AmongShortened
<1>7. /\ AppendedOnce(Tail(p)) /\ Earlier(h, ledger.records, Tail(p))
      /\ \A j \in 1..Len(Tail(p)) : Head(p).at < Tail(p)[j].at
  BY <1>2, <1>4, OnceShortened, EarlierShortened
<1>8. \A i \in 1..Len(ledger.records) : ledger.records[i].origin = h => ledger.records[i].at < Head(p).at
  BY <1>2, <1>3 DEF Earlier
<1> QED BY <1>1, <1>3, <1>4, <1>5, <1>6, <1>7, <1>8

LEMMA MissedIs ==
  ASSUME HostTypes, NEW h \in Hosts, Missed(h)
  PROVE  /\ observation' \in [Hosts -> ObservationRecord]
         /\ \A k \in Hosts : /\ observation'[k].bound = observation[k].bound /\ observation'[k].since = observation[k].since
                             /\ observation[k].gap => observation'[k].gap
         /\ Ours(h, Head(pending[h])) => observation'[h].gap
<1> DEFINE g == observation[h].gap \/ Ours(h, Head(pending[h]))
<1>1. observation \in [Hosts -> ObservationRecord] /\ observation' = [observation EXCEPT ![h].gap = g]
  BY DEF HostTypes, Missed
<1>2. g \in BOOLEAN /\ (observation[h].gap => g) /\ (Ours(h, Head(pending[h])) => g)
  BY <1>1 DEF ObservationRecord, Ours
<1> HIDE DEF g
<1>3. observation' \in [Hosts -> ObservationRecord]
  BY <1>1, <1>2 DEF ObservationRecord
<1>4. \A k \in Hosts : observation'[k].bound = observation[k].bound /\ observation'[k].since = observation[k].since
  BY <1>1 DEF ObservationRecord
<1>5. observation'[h].gap = g /\ \A k \in Hosts : k # h => observation'[k] = observation[k]
  BY <1>1 DEF ObservationRecord
<1> QED BY <1>2, <1>3, <1>4, <1>5

\* The first transition that waits is given up.
LEMMA GivenUp ==
  ASSUME JournalInvariant, NEW h \in Hosts, pending[h] # <<>>, UNCHANGED <<commits, ledger, mark, crashed>>, Missed(h),
         pending' = [pending EXCEPT ![h] = Tail(@)]
  PROVE  Whereabouts'
<1>1. /\ FileTypes /\ HostTypes /\ OwnPending /\ AllReal /\ AllOrdered /\ AllPlaced
      /\ \A k \in Hosts : pending[k] \in ChangeList
  BY JournalFacts
<1>2. /\ Tail(pending[h]) \in ChangeList /\ AllAmong(Tail(pending[h]), commits)
      /\ (\A i \in 1..Len(Tail(pending[h])) : Tail(pending[h])[i].origin = h)
      /\ AppendedOnce(Tail(pending[h])) /\ Earlier(h, ledger.records, Tail(pending[h]))
  BY OwnTail
<1>3. pending'[h] = Tail(pending[h]) /\ \A k \in Hosts : k # h => pending'[k] = pending[k]
  BY <1>1 DEF HostTypes
<1>4. OwnPending'
  <2>1. ASSUME NEW k \in Hosts, NEW i \in 1..Len(pending'[k]) PROVE pending'[k][i].origin = k
    BY <1>1, <1>2, <1>3, <2>1 DEF OwnPending
  <2> QED BY <2>1 DEF OwnPending
<1>5. AllReal'
  <2>1. ASSUME NEW k \in Hosts PROVE AllAmong(pending'[k], commits)
    BY <1>1, <1>2, <1>3 DEF AllReal
  <2> QED BY <1>1, <2>1 DEF AllReal
<1>6. AllOrdered'
  <2>1. ASSUME NEW k \in Hosts PROVE AppendedOnce(pending'[k]) /\ Earlier(k, ledger.records, pending'[k])
    BY <1>1, <1>2, <1>3 DEF AllOrdered
  <2> QED BY <1>1, <2>1 DEF AllOrdered
<1>7. /\ \A k \in Hosts : /\ observation'[k].bound = observation[k].bound /\ observation'[k].since = observation[k].since
                          /\ observation[k].gap => observation'[k].gap
      /\ Ours(h, Head(pending[h])) => observation'[h].gap
  BY <1>1, MissedIs
<1>8. ASSUME NEW k \in Hosts, Alive(k)', ~observation'[k].gap PROVE PlacedOf(k)'
  <2>1. PlacedOf(k)
    BY <1>1, <1>7, <1>8 DEF AllPlaced, Alive
  <2>2. CASE k # h
    BY <1>3, <1>7, <2>1, <2>2 DEF PlacedOf, Ours
  <2>3. CASE k = h
    <3> DEFINE q == ledger.sequence > Len(ledger.records)
    <3>1. PICK p \in ChangeList : p = pending[h] /\ p # <<>>
      BY <1>1
    <3>2. ASSUME NEW n \in 1..Len(commits), commits[n].origin = h,
                 observation'[h].bound, commits[n].at > observation'[h].since
          PROVE  Placed(h, commits[n], ledger.records, Tail(p), q)
      <4>1. Ours(h, commits[n])
        BY <1>7, <3>2 DEF Ours
      <4>2. Placed(h, commits[n], ledger.records, p, q)
        BY <2>1, <2>3, <3>1, <3>2, <4>1 DEF PlacedOf
      <4>3. commits[n] # Head(p)
        BY <1>7, <1>8, <2>3, <3>1, <4>1
      <4> HIDE DEF q
      <4> QED BY <3>1, <4>2, <4>3, PlacedLoses
    <3> QED BY <1>3, <2>3, <3>1, <3>2 DEF PlacedOf, Ours
  <2> QED BY <2>2, <2>3
<1>9. AllPlaced'
  BY <1>8 DEF AllPlaced
<1> QED BY <1>4, <1>5, <1>6, <1>9 DEF Whereabouts

LEMMA LockLedgerKeeps ==
  ASSUME JournalInvariant, NEW h \in Hosts, LockLedger(h)
  PROVE  JournalInvariant'
<1>1. /\ appender[h].pc = "idle" /\ pending[h] # <<>>
      /\ UNCHANGED <<content, commits, ledger, mark, verdict, crashed>>
      /\ \/ /\ ledgerLock = {} /\ ledgerLock' = {h} /\ UNCHANGED <<pending, observation>>
            /\ appender' = [appender EXCEPT ![h] = [pc |-> "loaded", loaded |-> ledger]]
         \/ /\ Missed(h) /\ pending' = [pending EXCEPT ![h] = Tail(@)] /\ UNCHANGED <<ledgerLock, appender>>
  BY DEF LockLedger
<1>2. /\ FileTypes /\ LedgerTypes /\ HostTypes /\ MarkTypes /\ VerdictTypes /\ LedgerBounded /\ LockSound /\ AllReal
  BY JournalFacts
<1>3. FileTypes' /\ AttributionSound' /\ MarkTypes' /\ VerdictTypes' /\ LedgerBounded'
  BY <1>1, <1>2, VerdictsRest DEF FileTypes, MarkTypes, VerdictTypes, LedgerBounded
<1>4. CASE /\ ledgerLock = {} /\ ledgerLock' = {h} /\ UNCHANGED <<pending, observation>>
           /\ appender' = [appender EXCEPT ![h] = [pc |-> "loaded", loaded |-> ledger]]
  <2>1. LedgerTypes' /\ HostTypes'
    <3>1. [pc |-> "loaded", loaded |-> ledger] \in [pc : {"idle", "loaded", "leaving"}, loaded : Ledgers]
      BY <1>2 DEF LedgerTypes
    <3> HIDE DEF Ledgers
    <3> QED BY <1>1, <1>2, <1>4, <3>1 DEF LedgerTypes, HostTypes
  <2>2. LockSound'
    <3>1. ASSUME NEW k \in Hosts, k # h PROVE appender'[k] = appender[k] /\ appender[k].pc = "idle"
      BY <1>2, <1>4, <3>1 DEF LockSound, HostTypes
    <3>2. appender'[h] = [pc |-> "loaded", loaded |-> ledger]
      BY <1>2, <1>4 DEF HostTypes
    <3> QED BY <1>1, <1>4, <3>1, <3>2 DEF LockSound
  <2>3. Whereabouts'
    BY <1>1, <1>2, <1>4, WhereaboutsRest DEF Continues, AllReal
  <2> QED BY <1>3, <2>1, <2>2, <2>3 DEF JournalInvariant, JournalTypes, Whereabouts
<1>5. CASE Missed(h) /\ pending' = [pending EXCEPT ![h] = Tail(@)] /\ UNCHANGED <<ledgerLock, appender>>
  <2>1. Whereabouts'
    BY <1>1, <1>5, GivenUp
  <2>2. /\ \A k \in Hosts : k # h => pending'[k] = pending[k]
        /\ pending' \in [Hosts -> ChangeList] /\ observation' \in [Hosts -> ObservationRecord]
    BY <1>1, <1>2, <1>5, OwnTail, MissedIs DEF HostTypes
  <2>3. LedgerTypes' /\ HostTypes'
    BY <1>1, <1>2, <1>5, <2>2 DEF LedgerTypes, HostTypes
  <2>4. LockSound'
    BY <1>1, <1>2, <1>5, <2>2 DEF LockSound
  <2> QED BY <1>3, <2>1, <2>3, <2>4 DEF JournalInvariant, JournalTypes, Whereabouts
<1> QED BY <1>1, <1>4, <1>5

LEMMA UnlockLedgerKeeps ==
  ASSUME JournalInvariant, NEW h \in Hosts, UnlockLedger(h)
  PROVE  JournalInvariant'
<1>1. /\ appender[h].pc = "leaving" /\ ledgerLock' = {} /\ appender' = [appender EXCEPT ![h] = Resting]
      /\ UNCHANGED <<content, commits, pending, ledger, observation, mark, verdict, crashed>>
  BY DEF UnlockLedger
<1>2. /\ FileTypes /\ LedgerTypes /\ HostTypes /\ MarkTypes /\ VerdictTypes /\ LedgerBounded /\ LockSound /\ AllReal
  BY JournalFacts
<1>3. FileTypes' /\ AttributionSound' /\ MarkTypes' /\ VerdictTypes' /\ LedgerBounded'
  BY <1>1, <1>2, VerdictsRest DEF FileTypes, MarkTypes, VerdictTypes, LedgerBounded
<1>6. Whereabouts'
  BY <1>1, <1>2, WhereaboutsRest DEF Continues, AllReal
<1>4. LedgerTypes' /\ HostTypes'
  <2> HIDE DEF Ledgers
  <2> QED BY <1>1, <1>2, RestingIs DEF LedgerTypes, HostTypes
<1>5. LockSound'
  <2>1. ASSUME NEW k \in Hosts PROVE appender'[k].pc = "idle"
    <3>1. CASE k = h
      BY <1>1, <1>2, <3>1, RestingIs DEF HostTypes
    <3>2. CASE k # h
      BY <1>1, <1>2, <3>2 DEF LockSound, HostTypes
    <3> QED BY <3>1, <3>2
  <2> QED BY <2>1 DEF LockSound
<1> QED BY <1>3, <1>4, <1>5, <1>6 DEF JournalInvariant, JournalTypes, Whereabouts

LEMMA CrashHostKeeps ==
  ASSUME JournalInvariant, NEW h \in Hosts, CrashHost(h)
  PROVE  JournalInvariant'
<1>1. /\ crashed' = crashed \cup {h} /\ UNCHANGED <<content, commits, ledger, ledgerLock, observation>>
      /\ pending' = [pending EXCEPT ![h] = <<>>] /\ appender' = [appender EXCEPT ![h] = Resting]
      /\ mark' = [mark EXCEPT ![h] = Unmarked] /\ verdict' = [verdict EXCEPT ![h] = Unjudged]
  BY DEF CrashHost
<1>2. /\ FileTypes /\ LedgerTypes /\ HostTypes /\ MarkTypes /\ VerdictTypes /\ LedgerBounded /\ LockSound /\ AllReal
  BY JournalFacts
<1>3. <<>> \in ChangeList
  BY DEF ChangeList
<1>4. LedgerTypes' /\ HostTypes' /\ MarkTypes' /\ VerdictTypes'
  <2> HIDE DEF Ledgers
  <2>1. LedgerTypes' /\ HostTypes'
    BY <1>1, <1>2, <1>3, RestingIs DEF LedgerTypes, HostTypes
  <2>2. MarkTypes'
    BY <1>1, <1>2, RestingIs DEF MarkTypes
  <2>3. VerdictTypes'
    BY <1>1, <1>2, RestingIs DEF VerdictTypes
  <2> QED BY <2>1, <2>2, <2>3
<1>5. /\ pending'[h] = <<>> /\ appender'[h].pc = "idle" /\ mark'[h].read.records = <<>>
      /\ verdict'[h].owners = {} /\ verdict'[h].unseen = 0
      /\ \A k \in Hosts : k # h => /\ pending'[k] = pending[k] /\ appender'[k] = appender[k]
                                   /\ mark'[k] = mark[k] /\ verdict'[k] = verdict[k]
  BY <1>1, <1>2, RestingIs DEF HostTypes, MarkTypes, VerdictTypes
<1>6. FileTypes' /\ LedgerBounded'
  BY <1>1, <1>2 DEF FileTypes, LedgerBounded
<1>7. AttributionSound'
  BY <1>1, <1>5, VerdictsRest
<1>8. LockSound'
  BY <1>1, <1>2, <1>5 DEF LockSound
<1>9. Whereabouts'
  <2>1. ~Alive(h)' /\ \A k \in Hosts : Continues(k)
    BY <1>1 DEF Alive, Continues
  <2>2. \A k \in Hosts : AllAmong(mark'[k].read.records, commits)
    BY <1>2, <1>5 DEF AllReal, AllAmong
  <2> QED BY <1>1, <1>5, <2>1, <2>2, WhereaboutsRest
<1> QED BY <1>4, <1>6, <1>7, <1>8, <1>9 DEF JournalInvariant, JournalTypes, Whereabouts

LEMMA ReleaseLeaseKeeps ==
  ASSUME JournalInvariant, NEW h \in Hosts, NEW childLost \in BOOLEAN, ReleaseLease(h, childLost)
  PROVE  JournalInvariant'
<1> DEFINE N == Len(commits)
           rn == observation[h].renewals + 1
           o == [bound |-> FALSE, gap |-> FALSE, since |-> N, lapsed |-> N, renewals |-> rn]
           rested == [mark[h] EXCEPT !.pc = "idle", !.read = Empty, !.gap = FALSE]
           Marks == [known : BOOLEAN, content : Contents, sequence : Nat, pc : {"idle", "read"}, read : Ledgers, gap : BOOLEAN]
<1>1. /\ UNCHANGED <<content, commits, pending, ledger, ledgerLock, appender, crashed>>
      /\ observation' = [observation EXCEPT ![h] = o]
      /\ \/ mark' = [mark EXCEPT ![h] = Unmarked] /\ verdict' = [verdict EXCEPT ![h] = Unjudged]
         \/ mark' = [mark EXCEPT ![h] = rested] /\ verdict' = verdict
  <2>1. CASE childLost
    BY <2>1 DEF ReleaseLease
  <2>2. CASE ~childLost
    BY <2>2 DEF ReleaseLease
  <2> QED BY <2>1, <2>2
<1>2. /\ FileTypes /\ LedgerTypes /\ HostTypes /\ MarkTypes /\ VerdictTypes /\ LedgerBounded /\ LockSound /\ AllReal
      /\ observation[h] \in ObservationRecord
  BY JournalFacts
<1>3. o \in ObservationRecord
  <2>1. N \in Nat /\ rn \in Nat
    BY <1>2, LenProperties DEF FileTypes, ChangeList, ObservationRecord
  <2> HIDE DEF N, rn
  <2> QED BY <2>1 DEF ObservationRecord
<1>4. mark \in [Hosts -> Marks] /\ Unmarked \in Marks /\ Unmarked.read.records = <<>> /\ Empty \in Ledgers /\ Empty.records = <<>>
  BY <1>2, RestingIs DEF MarkTypes
<1>5. rested \in Marks /\ rested.read = Empty /\ rested.content = mark[h].content
  <2> HIDE DEF Ledgers
  <2> QED BY <1>4
<1>6. o.bound = FALSE
  OBVIOUS
<1> HIDE DEF o, rested, Marks, N
<1>7. /\ mark' \in [Hosts -> Marks] /\ \A k \in Hosts : k # h => mark'[k] = mark[k] /\ verdict'[k] = verdict[k]
      /\ mark'[h].read.records = <<>>
      /\ \/ verdict'[h].owners = {} /\ verdict'[h].unseen = 0
         \/ verdict'[h] = verdict[h] /\ mark'[h].content = mark[h].content
  BY <1>1, <1>2, <1>4, <1>5, RestingIs DEF VerdictTypes
<1>8. verdict' \in [Hosts -> [owners : SUBSET Names, unseen : Int]]
  BY <1>1, <1>2, RestingIs DEF VerdictTypes
<1>9. /\ observation' \in [Hosts -> ObservationRecord] /\ ~observation'[h].bound
      /\ \A k \in Hosts : k # h => observation'[k] = observation[k]
  BY <1>1, <1>2, <1>3, <1>6 DEF HostTypes
<1>10. FileTypes' /\ LedgerTypes' /\ HostTypes' /\ MarkTypes' /\ VerdictTypes' /\ LedgerBounded' /\ LockSound'
  BY <1>1, <1>2, <1>7, <1>8, <1>9
     DEF FileTypes, LedgerTypes, HostTypes, MarkTypes, VerdictTypes, LedgerBounded, LockSound, Marks
<1>11. AttributionSound'
  BY <1>1, <1>7, VerdictsRest
<1>12. Whereabouts'
  <2>1. \A k \in Hosts : Continues(k)
    BY <1>9 DEF Continues
  <2>2. \A k \in Hosts : AllAmong(mark'[k].read.records, commits)
    BY SMTT(30), <1>2, <1>7 DEF AllReal, AllAmong
  <2> QED BY <1>1, <2>1, <2>2, WhereaboutsRest
<1> QED BY <1>10, <1>11, <1>12 DEF JournalInvariant, JournalTypes, Whereabouts

LEMMA BindLeaseKeeps ==
  ASSUME JournalInvariant, NEW h \in Hosts, BindLease(h)
  PROVE  JournalInvariant'
<1> DEFINE N == Len(commits)
<1>1. /\ observation' = [observation EXCEPT ![h].bound = TRUE, ![h].since = N]
      /\ UNCHANGED <<content, commits, pending, ledger, ledgerLock, appender, mark, verdict, crashed>>
  BY DEF BindLease
<1>2. /\ FileTypes /\ LedgerTypes /\ HostTypes /\ MarkTypes /\ VerdictTypes /\ LedgerBounded /\ LockSound /\ AllReal
  BY JournalFacts
<1>3. N \in Nat
  BY <1>2, LenProperties DEF FileTypes, ChangeList
<1>9. /\ observation' \in [Hosts -> ObservationRecord] /\ observation'[h].since = N
      /\ \A k \in Hosts : k # h => observation'[k] = observation[k]
  <2> HIDE DEF N
  <2> QED BY <1>1, <1>2, <1>3 DEF HostTypes, ObservationRecord
<1>10. FileTypes' /\ LedgerTypes' /\ HostTypes' /\ MarkTypes' /\ VerdictTypes' /\ LedgerBounded' /\ LockSound'
  BY <1>1, <1>2, <1>9 DEF FileTypes, LedgerTypes, HostTypes, MarkTypes, VerdictTypes, LedgerBounded, LockSound
<1>11. AttributionSound'
  BY <1>1, VerdictsRest
<1>12. Whereabouts'
  <2>1. \A k \in Hosts : Continues(k)
    BY <1>9 DEF Continues
  <2>2. \A k \in Hosts : AllAmong(mark'[k].read.records, commits)
    BY <1>1, <1>2 DEF AllReal
  <2> QED BY <1>1, <2>1, <2>2, WhereaboutsRest
<1> QED BY <1>10, <1>11, <1>12 DEF JournalInvariant, JournalTypes, Whereabouts

LEMMA ResetObservationKeeps ==
  ASSUME JournalInvariant, NEW h \in Hosts, ResetObservation(h)
  PROVE  JournalInvariant'
<1> DEFINE N == Len(commits)
           rn == observation[h].renewals + 1
<1>1. /\ observation' = [observation EXCEPT ![h].gap = FALSE, ![h].since = N, ![h].renewals = rn]
      /\ mark' = [mark EXCEPT ![h] = Unmarked] /\ verdict' = [verdict EXCEPT ![h] = Unjudged]
      /\ UNCHANGED <<content, commits, pending, ledger, ledgerLock, appender, crashed>>
  <2>1. observation \in [Hosts -> ObservationRecord]
    BY JournalFacts DEF HostTypes
  <2> QED BY <2>1 DEF ResetObservation, ObservationRecord
<1>2. /\ FileTypes /\ LedgerTypes /\ HostTypes /\ MarkTypes /\ VerdictTypes /\ LedgerBounded /\ LockSound /\ AllReal
      /\ observation[h] \in ObservationRecord
  BY JournalFacts
<1>3. N \in Nat /\ rn \in Nat
  BY <1>2, LenProperties DEF FileTypes, ChangeList, ObservationRecord
<1>9. /\ observation' \in [Hosts -> ObservationRecord] /\ observation'[h].since = N
      /\ \A k \in Hosts : k # h => observation'[k] = observation[k]
  <2> HIDE DEF N, rn
  <2> QED BY <1>1, <1>2, <1>3 DEF HostTypes, ObservationRecord
<1>7. /\ mark'[h].read.records = <<>> /\ verdict'[h].owners = {} /\ verdict'[h].unseen = 0
      /\ \A k \in Hosts : k # h => mark'[k] = mark[k] /\ verdict'[k] = verdict[k]
  BY <1>1, <1>2, RestingIs DEF MarkTypes, VerdictTypes
<1>8. MarkTypes' /\ VerdictTypes'
  <2> HIDE DEF Ledgers
  <2>1. MarkTypes'
    BY <1>1, <1>2, RestingIs DEF MarkTypes
  <2>2. VerdictTypes'
    BY <1>1, <1>2, RestingIs DEF VerdictTypes
  <2> QED BY <2>1, <2>2
<1>10. FileTypes' /\ LedgerTypes' /\ HostTypes' /\ LedgerBounded' /\ LockSound'
  BY <1>1, <1>2, <1>9 DEF FileTypes, LedgerTypes, HostTypes, LedgerBounded, LockSound
<1>11. AttributionSound'
  BY <1>1, <1>7, VerdictsRest
<1>12. Whereabouts'
  <2>1. \A k \in Hosts : Continues(k)
    BY <1>9 DEF Continues
  <2>2. \A k \in Hosts : AllAmong(mark'[k].read.records, commits)
    BY SMTT(30), <1>2, <1>7 DEF AllReal, AllAmong
  <2> QED BY <1>1, <2>1, <2>2, WhereaboutsRest
<1> QED BY <1>8, <1>10, <1>11, <1>12 DEF JournalInvariant, JournalTypes, Whereabouts

LEMMA ReadLedgerKeeps ==
  ASSUME JournalInvariant, NEW h \in Hosts, NEW failed \in BOOLEAN, ReadLedger(h, failed)
  PROVE  JournalInvariant'
<1> DEFINE Marks == [known : BOOLEAN, content : Contents, sequence : Nat, pc : {"idle", "read"}, read : Ledgers, gap : BOOLEAN]
           g == observation[h].gap \/ failed
           r == IF failed THEN Empty ELSE ledger
           m == [mark[h] EXCEPT !.pc = "read", !.read = r, !.gap = g]
<1>2. /\ FileTypes /\ LedgerTypes /\ HostTypes /\ MarkTypes /\ VerdictTypes /\ LedgerBounded /\ LockSound /\ AllReal
      /\ observation[h] \in ObservationRecord /\ ledger \in Ledgers
  BY JournalFacts
<1>4. mark \in [Hosts -> Marks] /\ observation \in [Hosts -> ObservationRecord]
  BY <1>2 DEF MarkTypes, HostTypes
<1>1. /\ mark' = [mark EXCEPT ![h] = m] /\ observation' = [observation EXCEPT ![h].gap = g]
      /\ UNCHANGED <<content, commits, pending, ledger, ledgerLock, appender, verdict, crashed>>
  BY <1>4 DEF ReadLedger
<1>3. r \in Ledgers /\ g \in BOOLEAN /\ (observation[h].gap => g) /\ AllAmong(r.records, commits)
  BY <1>2, RestingIs DEF ObservationRecord, AllReal, AllAmong
<1>5. m \in Marks /\ m.read = r /\ m.content = mark[h].content
  <2> HIDE DEF Ledgers, r, g
  <2> QED BY <1>3, <1>4
<1> HIDE DEF m, Marks, r, g
<1>7. mark' \in [Hosts -> Marks] /\ mark'[h] = m /\ \A k \in Hosts : k # h => mark'[k] = mark[k]
  BY <1>1, <1>4, <1>5
<1>9. /\ observation' \in [Hosts -> ObservationRecord]
      /\ \A k \in Hosts : /\ observation'[k].bound = observation[k].bound /\ observation'[k].since = observation[k].since
                          /\ observation[k].gap => observation'[k].gap
  BY <1>1, <1>3, <1>4 DEF ObservationRecord
<1>10. /\ LedgerTypes' /\ HostTypes' /\ VerdictTypes' /\ FileTypes' /\ LedgerBounded' /\ LockSound' /\ MarkTypes'
  BY <1>1, <1>2, <1>7, <1>9
     DEF LedgerTypes, HostTypes, VerdictTypes, FileTypes, LedgerBounded, LockSound, MarkTypes, Marks
<1>11. AttributionSound'
  BY <1>1, <1>5, <1>7, VerdictsRest
<1>12. Whereabouts'
  <2>1. \A k \in Hosts : Continues(k)
    BY <1>9 DEF Continues
  <2>2. \A k \in Hosts : AllAmong(mark'[k].read.records, commits)
    BY <1>2, <1>3, <1>5, <1>7 DEF AllReal
  <2> QED BY <1>1, <2>1, <2>2, WhereaboutsRest
<1> QED BY <1>10, <1>11, <1>12 DEF JournalInvariant, JournalTypes, Whereabouts

LEMMA ExtendedIs ==
  ASSUME NEW j \in Ledgers, NEW r \in ChangeRecord, Len(j.records) <= MaxRecords, Len(j.records) <= j.sequence,
         NEW all, AllAmong(j.records, all), \E i \in 1..Len(all) : r = all[i]
  PROVE  /\ Extended(j, r) \in Ledgers /\ AllAmong(Extended(j, r).records, all)
         /\ Len(Extended(j, r).records) <= MaxRecords /\ Len(Extended(j, r).records) <= Extended(j, r).sequence
<1>1. j.records \in ChangeList /\ j.sequence \in Nat
  BY DEF Ledgers
<1>2. PICK s \in ChangeList : s = Append(j.records, r)
  BY <1>1, Appended
<1>3. s # <<>> /\ Len(s) = Len(j.records) + 1 /\ Len(j.records) \in Nat
  BY <1>1, <1>2, Appended
<1>4. AllAmong(s, all)
  BY <1>1, <1>2, AmongAppended
<1>5. Tail(s) \in ChangeList /\ AllAmong(Tail(s), all)
  BY <1>3, <1>4, Shortened, AmongShortened
<1>6. Len(Tail(s)) = Len(s) - 1
  BY <1>3, HeadTailProperties DEF ChangeList
<1> HIDE DEF ChangeRecord
<1>7. Extended(j, r).sequence = j.sequence + 1 /\ Extended(j, r).records = IF Len(s) > MaxRecords THEN Tail(s) ELSE s
  BY <1>2 DEF Extended
<1>8. Extended(j, r) \in Ledgers
  <2>1. (IF Len(s) > MaxRecords THEN Tail(s) ELSE s) \in ChangeList /\ j.sequence + 1 \in Nat
    BY <1>1, <1>5
  <2>2. Extended(j, r) = [sequence |-> j.sequence + 1, records |-> IF Len(s) > MaxRecords THEN Tail(s) ELSE s]
    BY <1>2 DEF Extended
  <2> QED BY <2>1, <2>2 DEF Ledgers
<1>9. AllAmong(Extended(j, r).records, all)
  BY <1>4, <1>5, <1>7
<1>10. Len(Extended(j, r).records) <= MaxRecords /\ Len(Extended(j, r).records) <= Extended(j, r).sequence
  <2>1. CASE Len(s) > MaxRecords
    BY <1>1, <1>3, <1>6, <1>7, <2>1, JournalBounds
  <2>2. CASE ~(Len(s) > MaxRecords)
    BY <1>1, <1>3, <1>7, <2>2, JournalBounds
  <2> QED BY <2>1, <2>2
<1> QED BY <1>8, <1>9, <1>10

\* The journal takes a record on, and may lose its first one.
LEMMA ExtendedOrder ==
  ASSUME NEW j \in Ledgers, NEW r \in ChangeRecord, AppendedOnce(Append(j.records, r)),
         NEW k, NEW p, Earlier(k, Append(j.records, r), p)
  PROVE  AppendedOnce(Extended(j, r).records) /\ Earlier(k, Extended(j, r).records, p)
<1>1. PICK s \in ChangeList : s = Append(j.records, r) /\ s # <<>>
  BY Appended DEF Ledgers
<1>2. Extended(j, r).records = s \/ Extended(j, r).records = Tail(s)
  BY <1>1 DEF Extended
<1>3. AppendedOnce(Tail(s)) /\ Earlier(k, Tail(s), p)
  BY <1>1, OnceShortened, EarlierShortened
<1> QED BY <1>1, <1>2, <1>3

LEMMA ExtendedPlaces ==
  ASSUME NEW j \in Ledgers, NEW r \in ChangeRecord, Len(j.records) <= MaxRecords, Len(j.records) <= j.sequence,
         AppendedOnce(Append(j.records, r)), NEW k, NEW p, Earlier(k, Append(j.records, r), p), NEW x, x.origin = k,
         Placed(k, x, Append(j.records, r), p, j.sequence > Len(j.records))
  PROVE  Placed(k, x, Extended(j, r).records, p, Extended(j, r).sequence > Len(Extended(j, r).records))
<1>1. PICK s \in ChangeList : s = Append(j.records, r)
  BY Appended DEF Ledgers
<1>2. s # <<>> /\ Len(s) = Len(j.records) + 1 /\ Len(j.records) \in Nat /\ j.sequence \in Nat
  BY <1>1, Appended DEF Ledgers
<1>3. Extended(j, r).sequence = j.sequence + 1 /\ Extended(j, r).records = IF Len(s) > MaxRecords THEN Tail(s) ELSE s
  BY <1>1 DEF Extended
<1>4. CASE Len(s) > MaxRecords
  <2>1. Len(Tail(s)) = Len(s) - 1
    BY <1>2, Shortened
  <2>2. Extended(j, r).sequence > Len(Extended(j, r).records)
    BY <1>2, <1>3, <1>4, <2>1
  <2>3. Placed(k, x, Tail(s), p, TRUE)
    BY <1>1, <1>2, PlacedTrims
  <2> QED BY <1>3, <1>4, <2>2, <2>3 DEF Placed
<1>5. CASE ~(Len(s) > MaxRecords)
  <2>1. j.sequence > Len(j.records) => Extended(j, r).sequence > Len(Extended(j, r).records)
    BY <1>2, <1>3, <1>5
  <2> QED BY <1>1, <1>3, <1>5, <2>1 DEF Placed
<1> QED BY <1>4, <1>5

\* The first transition that waits is appended.
LEMMA TakenOn ==
  ASSUME JournalInvariant, NEW h \in Hosts, pending[h] # <<>>, UNCHANGED <<commits, mark, crashed, ledgerLock>>,
         ledger' = Extended(ledger, Head(pending[h])), pending' = [pending EXCEPT ![h] = Tail(@)],
         \A k \in Hosts : /\ observation'[k].bound = observation[k].bound /\ observation'[k].since = observation[k].since
                          /\ observation[k].gap => observation'[k].gap
  PROVE  Whereabouts' /\ LedgerTypes' /\ LedgerBounded'
<1>1. /\ FileTypes /\ LedgerTypes /\ HostTypes /\ LedgerBounded /\ OwnPending /\ AllReal /\ AllOrdered /\ AllPlaced
      /\ ledger \in Ledgers /\ ledger.records \in ChangeList /\ \A k \in Hosts : pending[k] \in ChangeList
  BY JournalFacts
<1>2. PICK r \in ChangeRecord : r = Head(pending[h])
  BY OwnTail
<1>3. PICK t \in ChangeList : t = Tail(pending[h])
  BY OwnTail
<1>4. /\ r.origin = h /\ Among(r, pending[h]) /\ AllAmong(t, pending[h])
      /\ (\A x : Among(x, pending[h]) => Among(x, t) \/ x = r)
      /\ AllAmong(t, commits) /\ (\E j \in 1..Len(commits) : r = commits[j])
      /\ (\A i \in 1..Len(t) : t[i].origin = h) /\ AppendedOnce(t) /\ Earlier(h, ledger.records, t)
      /\ (\A j \in 1..Len(t) : r.at < t[j].at)
      /\ \A i \in 1..Len(ledger.records) : ledger.records[i].origin = h => ledger.records[i].at < r.at
  BY <1>2, <1>3, OwnTail
<1>5. pending'[h] = t /\ \A k \in Hosts : k # h => pending'[k] = pending[k]
  BY <1>1, <1>3 DEF HostTypes
<1>6. /\ Extended(ledger, r) \in Ledgers /\ AllAmong(Extended(ledger, r).records, commits)
      /\ Len(Extended(ledger, r).records) <= MaxRecords
      /\ Len(Extended(ledger, r).records) <= Extended(ledger, r).sequence
  BY <1>1, <1>4, ExtendedIs DEF LedgerBounded, AllReal
<1>7. AppendedOnce(Append(ledger.records, r))
  BY <1>1, <1>4, OnceAppended DEF AllOrdered
<1>8. ASSUME NEW k \in Hosts PROVE Earlier(k, Append(ledger.records, r), pending'[k])
  <2>1. Earlier(k, ledger.records, pending'[k]) /\ (r.origin = k => \A j \in 1..Len(pending'[k]) : r.at < pending'[k][j].at)
    BY <1>1, <1>4, <1>5 DEF AllOrdered
  <2> QED BY <1>1, <2>1, EarlierGrows
<1>9. LedgerTypes' /\ LedgerBounded'
  BY <1>1, <1>2, <1>6 DEF LedgerTypes, LedgerBounded
<1>10. OwnPending'
  <2>1. ASSUME NEW k \in Hosts, NEW i \in 1..Len(pending'[k]) PROVE pending'[k][i].origin = k
    BY <1>1, <1>4, <1>5, <2>1 DEF OwnPending
  <2> QED BY <2>1 DEF OwnPending
<1>11. AllReal'
  <2>1. ASSUME NEW k \in Hosts PROVE AllAmong(pending'[k], commits)
    BY <1>1, <1>4, <1>5 DEF AllReal
  <2> QED BY <1>1, <1>2, <1>6, <2>1 DEF AllReal
<1>12. AllOrdered'
  <2>1. ASSUME NEW k \in Hosts
        PROVE  /\ AppendedOnce(Extended(ledger, r).records) /\ AppendedOnce(pending'[k])
               /\ Earlier(k, Extended(ledger, r).records, pending'[k])
    <3>1. AppendedOnce(Extended(ledger, r).records) /\ Earlier(k, Extended(ledger, r).records, pending'[k])
      BY <1>1, <1>7, <1>8, ExtendedOrder
    <3> QED BY <1>1, <1>4, <1>5, <3>1 DEF AllOrdered
  <2>2. AppendedOnce(Extended(ledger, r).records)
    BY <2>1
  <2> QED BY <1>2, <2>1, <2>2 DEF AllOrdered
<1>13. ASSUME NEW k \in Hosts, Alive(k)', ~observation'[k].gap PROVE PlacedOf(k)'
  <2> DEFINE q == ledger.sequence > Len(ledger.records)
             e == Extended(ledger, r)
             q2 == e.sequence > Len(e.records)
  <2>1. PlacedOf(k)
    BY <1>1, <1>13 DEF AllPlaced, Alive
  <2>2. ASSUME NEW n \in 1..Len(commits), commits[n].origin = k,
               observation'[k].bound, commits[n].at > observation'[k].since
        PROVE  Placed(k, commits[n], e.records, pending'[k], q2)
    <3>1. PICK x : x = commits[n]
      OBVIOUS
    <3>2. Placed(k, x, ledger.records, pending[k], q) /\ x.origin = k
      <4>1. Ours(k, commits[n])
        BY <2>2 DEF Ours
      <4> QED BY <2>1, <2>2, <3>1, <4>1 DEF PlacedOf
    <3>3. /\ Among(x, pending[k]) => Among(x, pending'[k]) \/ x = r
          /\ AllAmong(pending'[k], pending[k]) /\ (r.origin = k => Among(r, pending[k]))
      <4>1. CASE k = h
        BY <1>4, <1>5, <4>1
      <4>2. CASE k # h
        BY <1>4, <1>5, <4>2 DEF AllAmong
      <4> QED BY <4>1, <4>2
    <3>4. Placed(k, x, Append(ledger.records, r), pending'[k], q)
      <4> HIDE DEF q
      <4> QED BY <1>1, <3>2, <3>3, PlacedMoves
    <3> QED BY <1>1, <1>7, <1>8, <3>1, <3>2, <3>4, ExtendedPlaces DEF LedgerBounded
  <2>3. ledger' = e
    BY <1>2
  <2> HIDE DEF e
  <2> QED BY <2>2, <2>3 DEF PlacedOf, Ours
<1>14. AllPlaced'
  BY <1>13 DEF AllPlaced
<1> QED BY <1>9, <1>10, <1>11, <1>12, <1>14 DEF Whereabouts

LEMMA RenameLedgerKeeps ==
  ASSUME JournalInvariant, NEW h \in Hosts, NEW published \in BOOLEAN, NEW error \in BOOLEAN,
         RenameLedger(h, published, error)
  PROVE  JournalInvariant'
<1>1. /\ FileTypes /\ LedgerTypes /\ HostTypes /\ MarkTypes /\ VerdictTypes /\ LedgerBounded /\ LockSound
  BY JournalFacts
<1>2. appender[h].pc = "loaded" /\ ledgerLock = {h} /\ appender[h].loaded = ledger /\ pending[h] # <<>>
  BY <1>1 DEF RenameLedger, LockSound
<1>3. /\ published \/ error
      /\ ledger' = IF published THEN Extended(ledger, Head(pending[h])) ELSE ledger
      /\ pending' = [pending EXCEPT ![h] = Tail(@)]
      /\ IF error THEN Missed(h) ELSE UNCHANGED observation
      /\ appender' = [appender EXCEPT ![h] = [Resting EXCEPT !.pc = "leaving"]]
      /\ UNCHANGED <<content, commits, ledgerLock, mark, verdict, crashed>>
  BY <1>2 DEF RenameLedger
<1>4. /\ observation' \in [Hosts -> ObservationRecord]
      /\ \A k \in Hosts : /\ observation'[k].bound = observation[k].bound /\ observation'[k].since = observation[k].since
                          /\ observation[k].gap => observation'[k].gap
  <2>1. CASE error
    BY <1>1, <1>3, <2>1, MissedIs
  <2>2. CASE ~error
    BY <1>1, <1>3, <2>2 DEF HostTypes
  <2> QED BY <2>1, <2>2
<1>5. pending' \in [Hosts -> ChangeList]
  BY <1>1, <1>2, <1>3, OwnTail DEF HostTypes
<1>6. Whereabouts' /\ LedgerTypes' /\ LedgerBounded'
  <2>1. CASE published
    BY <1>2, <1>3, <1>4, <2>1, TakenOn
  <2>2. CASE ~published
    <3>1. ledger' = ledger /\ Missed(h)
      BY <1>3, <2>2
    <3>2. Whereabouts'
      BY <1>2, <1>3, <3>1, GivenUp
    <3> QED BY <1>1, <1>3, <3>1, <3>2 DEF LedgerTypes, LedgerBounded
  <2> QED BY <2>1, <2>2
<1>7. FileTypes' /\ MarkTypes' /\ VerdictTypes' /\ AttributionSound'
  BY <1>1, <1>3, VerdictsRest DEF FileTypes, MarkTypes, VerdictTypes
<1>9. HostTypes'
  <2> HIDE DEF Ledgers
  <2> QED BY <1>1, <1>3, <1>4, <1>5, RestingIs DEF HostTypes
<1>10. LockSound'
  <2>1. ASSUME NEW k \in Hosts PROVE appender'[k].pc # "loaded" /\ (appender'[k].pc # "idle" => k = h)
    <3>1. CASE k = h
      BY <1>1, <1>3, <3>1, RestingIs DEF HostTypes
    <3>2. CASE k # h
      BY <1>1, <1>2, <1>3, <3>2 DEF LockSound, HostTypes
    <3> QED BY <3>1, <3>2
  <2> QED BY <1>2, <1>3, <2>1 DEF LockSound
<1> QED BY <1>6, <1>7, <1>9, <1>10 DEF JournalInvariant, JournalTypes, Whereabouts

\* What a sync reads past its baseline: all of it is in the journal it read, and
\* nothing is missing unless the baseline shows it.
LEMMA LaterIs ==
  ASSUME NEW m \in [known : BOOLEAN, content : Contents, sequence : Nat, pc : {"idle", "read"}, read : Ledgers, gap : BOOLEAN]
  PROVE  /\ ~Gapped(m) => /\ Later(m) \in ChangeList /\ AllAmong(Later(m), m.read.records)
                          /\ m.read.sequence - m.sequence - Len(Later(m)) = 0
<1> SUFFICES ASSUME ~Gapped(m)
             PROVE  /\ Later(m) \in ChangeList /\ AllAmong(Later(m), m.read.records)
                    /\ m.read.sequence - m.sequence - Len(Later(m)) = 0
  OBVIOUS
<1>1. m.read.records \in ChangeList /\ m.read.sequence \in Nat /\ m.sequence \in Nat
  BY DEF Ledgers
<1> DEFINE s == m.read.records
           first == m.read.sequence - Len(s)
           from == IF m.sequence > first THEN m.sequence - first + 1 ELSE 1
<1>2. s \in Seq(ChangeRecord) /\ Len(s) \in Nat
  BY <1>1, LenProperties DEF ChangeList
<1>3. m.sequence <= m.read.sequence /\ m.sequence >= m.read.sequence - Len(s)
  BY <1>1, <1>2 DEF Gapped
<1>4. from \in 1..(Len(s) + 1) /\ Len(s) - from + 1 = m.read.sequence - m.sequence
  BY SMTT(40), <1>1, <1>2, <1>3
<1>5. Later(m) = SubSeq(s, from, Len(s))
  BY DEF Later
<1> HIDE DEF s, from, first, ChangeRecord
<1>6. /\ SubSeq(s, from, Len(s)) \in Seq(ChangeRecord)
      /\ Len(SubSeq(s, from, Len(s))) = IF from <= Len(s) THEN Len(s) - from + 1 ELSE 0
      /\ \A i \in 1..(Len(s) - from + 1) : SubSeq(s, from, Len(s))[i] = s[from + i - 1]
  BY <1>2, <1>4, SubSeqProperties
<1>7. Len(Later(m)) = Len(s) - from + 1
  BY <1>2, <1>4, <1>5, <1>6
<1>8. AllAmong(Later(m), s)
  <2>1. ASSUME NEW i \in 1..Len(Later(m)) PROVE from + i - 1 \in 1..Len(s) /\ Later(m)[i] = s[from + i - 1]
    BY <1>2, <1>4, <1>5, <1>6, <1>7
  <2> QED BY <2>1 DEF AllAmong
<1>9. m.read.sequence - m.sequence - Len(Later(m)) = 0
  BY <1>1, <1>4, <1>7
<1> QED BY <1>5, <1>6, <1>8, <1>9 DEF ChangeList, s

LEMMA CaptureSourceKeeps ==
  ASSUME JournalInvariant, NEW h \in Hosts, CaptureSource(h)
  PROVE  JournalInvariant'
<1> DEFINE m == mark[h]
           named == m.known /\ content # m.content /\ ~Gapped(m)
           owners == OwnersForTransition(Later(m), m.content, content)
           judged == IF named THEN [owners |-> owners, unseen |-> m.read.sequence - m.sequence - Len(Later(m))] ELSE Unjudged
           after == [Unmarked EXCEPT !.known = TRUE, !.content = content, !.sequence = m.read.sequence,
                                     !.gap = m.known /\ Gapped(m)]
           Marks == [known : BOOLEAN, content : Contents, sequence : Nat, pc : {"idle", "read"}, read : Ledgers, gap : BOOLEAN]
<1>1. /\ verdict' = [verdict EXCEPT ![h] = judged] /\ mark' = [mark EXCEPT ![h] = after]
      /\ UNCHANGED <<content, commits, pending, ledger, ledgerLock, appender, observation, crashed>>
  BY DEF CaptureSource
<1>2. /\ LedgerTypes /\ HostTypes /\ MarkTypes /\ VerdictTypes /\ LedgerBounded /\ LockSound /\ AllReal /\ FileTypes
      /\ AttributionSound
  BY JournalFacts
<1>3. m \in Marks /\ mark \in [Hosts -> Marks] /\ content \in Contents /\ m.content \in Contents
  <2>1. mark \in [Hosts -> Marks]
    BY <1>2 DEF MarkTypes
  <2> HIDE DEF Ledgers
  <2> QED BY <1>2, <2>1 DEF FileTypes
<1>4. after \in Marks /\ after.content = content /\ after.read.records = <<>>
  <2>1. m.read.sequence \in Nat /\ (m.known /\ Gapped(m)) \in BOOLEAN
    BY <1>3 DEF Ledgers, Gapped
  <2>2. Unmarked \in Marks /\ Unmarked.read.records = <<>>
    BY RestingIs
  <2> HIDE DEF m, Ledgers
  <2> QED BY <1>3, <2>1, <2>2
<1>5. judged.unseen = 0 /\ judged.owners \subseteq Names
      /\ (\A o \in judged.owners : \E n \in 1..Len(commits) : commits[n].origin = o)
      /\ (judged.owners # {} => \E n \in 1..Len(commits) : commits[n].after = content /\ commits[n].origin \in judged.owners)
      /\ judged \in [owners : SUBSET Names, unseen : Int]
  <2>1. CASE ~named
    <3>1. judged = Unjudged
      BY <2>1
    <3> QED BY <3>1, RestingIs
  <2>2. CASE named
    <3>1. /\ Later(m) \in ChangeList /\ AllAmong(Later(m), m.read.records)
          /\ m.read.sequence - m.sequence - Len(Later(m)) = 0
      BY <1>3, <2>2, LaterIs
    <3>2. AllAmong(m.read.records, commits)
      BY <1>2 DEF AllReal
    <3>3. AllAmong(Later(m), commits)
      BY <3>1, <3>2 DEF AllAmong
    <3>4. /\ owners \in SUBSET Names
          /\ \A o \in owners : \E i \in 1..Len(Later(m)) : Later(m)[i].origin = o
          /\ owners # {} => \E i \in 1..Len(Later(m)) : Later(m)[i].after = content /\ Later(m)[i].origin \in owners
      BY <1>3, <3>1, OwnersFounded
    <3>5. judged.owners = owners /\ judged.unseen = 0 /\ judged = [owners |-> owners, unseen |-> 0]
      BY <2>2, <3>1
    <3> HIDE DEF owners, judged
    <3>6. \A i \in 1..Len(Later(m)) : \E n \in 1..Len(commits) : Later(m)[i] = commits[n]
      BY <3>3 DEF AllAmong
    <3> HIDE DEF m
    <3>7. \A o \in owners : \E n \in 1..Len(commits) : commits[n].origin = o
      BY <3>4, <3>6
    <3>8. owners # {} => \E n \in 1..Len(commits) : commits[n].after = content /\ commits[n].origin \in owners
      BY <3>4, <3>6
    <3>9. judged \in [owners : SUBSET Names, unseen : Int]
      BY <3>4, <3>5
    <3> QED BY <3>4, <3>5, <3>7, <3>8, <3>9
  <2> QED BY <2>1, <2>2
<1> HIDE DEF judged, after, Marks, m
<1>6. /\ verdict'[h] = judged /\ mark'[h] = after
      /\ \A k \in Hosts : k # h => verdict'[k] = verdict[k] /\ mark'[k] = mark[k]
      /\ mark' \in [Hosts -> Marks] /\ verdict' \in [Hosts -> [owners : SUBSET Names, unseen : Int]]
  BY <1>1, <1>2, <1>3, <1>4, <1>5 DEF VerdictTypes
<1>7. /\ LedgerTypes' /\ HostTypes' /\ FileTypes' /\ LedgerBounded' /\ LockSound'
  BY <1>1, <1>2 DEF LedgerTypes, HostTypes, FileTypes, LedgerBounded, LockSound
<1>8. MarkTypes' /\ VerdictTypes'
  BY <1>6 DEF MarkTypes, VerdictTypes, Marks
<1>9. Whereabouts'
  <2>1. ASSUME NEW k \in Hosts PROVE AllAmong(mark'[k].read.records, commits)
    <3>1. CASE k = h
      <4>1. mark'[k].read.records = <<>>
        BY <1>4, <1>6, <3>1
      <4> QED BY <4>1 DEF AllAmong
    <3>2. CASE k # h
      BY <1>2, <1>6, <3>2 DEF AllReal
    <3> QED BY <3>1, <3>2
  <2>2. \A k \in Hosts : Continues(k)
    BY <1>1 DEF Continues
  <2>3. UNCHANGED <<commits, ledger, pending, crashed>>
    BY <1>1
  <2> QED BY <2>1, <2>2, <2>3, WhereaboutsRest
<1>10. AttributionSound'
  <2> SUFFICES ASSUME NEW k \in Hosts
               PROVE  /\ verdict'[k].unseen = 0
                      /\ \A o \in verdict'[k].owners : \E n \in 1..Len(commits') : commits'[n].origin = o
                      /\ verdict'[k].owners # {} => \E n \in 1..Len(commits') :
                           commits'[n].after = mark'[k].content /\ commits'[n].origin \in verdict'[k].owners
    BY DEF AttributionSound
  <2>1. CASE k = h
    BY <1>1, <1>4, <1>5, <1>6, <2>1
  <2>2. CASE k # h
    BY <1>1, <1>2, <1>6, <2>2 DEF AttributionSound
  <2> QED BY <2>1, <2>2
<1> QED BY <1>7, <1>8, <1>9, <1>10 DEF JournalInvariant, JournalTypes, Whereabouts

LEMMA JournalStepKeeps ==
  ASSUME JournalInvariant, [JournalNext]_journalVars
  PROVE  JournalInvariant'
<1>1. ASSUME NEW h \in Hosts, NEW to \in Contents, CommitFile(h, to) PROVE JournalInvariant'
  BY <1>1, CommitFileKeeps
<1>2. ASSUME NEW to \in Contents, EditOutside(to) PROVE JournalInvariant'
  BY <1>2, EditOutsideKeeps
<1>3. ASSUME NEW h \in Hosts, LockLedger(h) \/ UnlockLedger(h) \/ CrashHost(h) PROVE JournalInvariant'
  BY <1>3, LockLedgerKeeps, UnlockLedgerKeeps, CrashHostKeeps
<1>4. ASSUME NEW h \in Hosts, NEW published \in BOOLEAN, NEW error \in BOOLEAN, RenameLedger(h, published, error)
      PROVE  JournalInvariant'
  BY <1>4, RenameLedgerKeeps
<1>5. ASSUME NEW h \in Hosts, NEW childLost \in BOOLEAN, ReleaseLease(h, childLost) PROVE JournalInvariant'
  BY <1>5, ReleaseLeaseKeeps
<1>6. ASSUME NEW h \in Hosts, BindLease(h) \/ ResetObservation(h) \/ CaptureSource(h) PROVE JournalInvariant'
  BY <1>6, BindLeaseKeeps, ResetObservationKeeps, CaptureSourceKeeps
<1>7. ASSUME NEW h \in Hosts, NEW failed \in BOOLEAN, ReadLedger(h, failed) PROVE JournalInvariant'
  BY <1>7, ReadLedgerKeeps
<1>8. CASE UNCHANGED journalVars
  <2>1. UNCHANGED <<content, commits, pending, ledger, ledgerLock, appender, observation, mark, verdict, crashed>>
    BY <1>8 DEF journalVars
  <2>2. JournalTypes'
    BY <2>1 DEF JournalInvariant, JournalTypes, FileTypes, LedgerTypes, HostTypes, MarkTypes, VerdictTypes
  <2>3. LedgerBounded' /\ LockSound'
    BY <2>1 DEF JournalInvariant, LedgerBounded, LockSound
  <2>4. AttributionSound'
    BY <2>1, VerdictsRest
  <2>5. Whereabouts'
    BY <2>1, JournalFacts, WhereaboutsRest DEF Continues, AllReal
  <2> QED BY <2>2, <2>3, <2>4, <2>5 DEF JournalInvariant, Whereabouts
<1> QED BY <1>1, <1>2, <1>3, <1>4, <1>5, <1>6, <1>7, <1>8 DEF JournalNext

LEMMA JournalInvariantTells ==
  ASSUME JournalInvariant
  PROVE  JournalTrue
<1>1. FileTypes /\ LedgerBounded /\ LockSound /\ AllOrdered /\ AllPlaced /\ AttributionSound
  BY JournalFacts
<1>2. ASSUME NEW h \in Hosts, NEW n \in 1..Len(commits), Alive(h), ~observation[h].gap,
             commits[n].origin = h, Ours(h, commits[n])
      PROVE  \/ Among(commits[n], ledger.records) \/ Among(commits[n], pending[h])
             \/ /\ ledger.sequence > Len(ledger.records)
                /\ \A i \in 1..Len(ledger.records) : ledger.records[i].origin = h => ledger.records[i].at > n
  <2>1. Placed(h, commits[n], ledger.records, pending[h], ledger.sequence > Len(ledger.records))
    BY <1>1, <1>2 DEF AllPlaced, PlacedOf
  <2>2. commits[n].at = n
    BY <1>1 DEF FileTypes
  <2> QED BY <2>1, <2>2 DEF Placed, Outlived
<1>3. CommitsAccounted
  BY <1>1, <1>2 DEF CommitsAccounted, LedgerBounded, LockSound, AllOrdered, Earlier
<1> QED BY <1>1, <1>3 DEF JournalTrue

\* What host.ts, provenance-journal.ts and core/provenance.ts promise of
\* authorship. Whatever crashes, fails, is trimmed, released, reset or edited
\* outside: the journal holds each host's changes once and in the order they were
\* made; every change a live host committed under its present observation is in
\* the journal, waits for it, was lost to the journal's bound with all of its own
\* before it, or is told as a gap of that observation; and a sync names nobody
\* who did not write. What a released or reset observation still owed is not told.
THEOREM JournalIsTrue == JournalSpec => []JournalTrue
<1>1. JournalInit => JournalInvariant
  BY JournalBegins
<1>2. JournalInvariant /\ [JournalNext]_journalVars => JournalInvariant'
  BY JournalStepKeeps
<1>3. JournalInvariant => JournalTrue
  BY JournalInvariantTells
<1> QED BY <1>1, <1>2, <1>3, PTL DEF JournalSpec
=============================================================================
