---------------------------- MODULE MCStateStore ----------------------------
(* Small instances of StateStore: three processes with one call each, or    *)
(* two processes of which p1 runs two calls.                                *)
EXTENDS StateStore, TLC

CONSTANTS p1, p2, p3, c1, c2, c3, k1, k2

ThreeCalls == {c1, c2, c3}

ThreeProcs == {p1, p2, p3}
ThreeHomes == (c1 :> p1) @@ (c2 :> p2) @@ (c3 :> p3)

TwoProcs == {p1, p2}
TwoCalls == {c1, c3}
ApartHomes == (c1 :> p1) @@ (c3 :> p2)
TwoHomes == (c1 :> p1) @@ (c2 :> p1) @@ (c3 :> p2)

Request(kind, k, e) == [kind |-> kind, key |-> k, expected |-> e]

OneSet == {Request("set", k1, None)}
SetOrGet == {Request("set", k1, None), Request("get", k1, None)}
Mixed ==
  {Request("set", k1, None), Request("set", k2, 0), Request("delete", k1, 1),
   Request("delete", k1, None), Request("get", k1, None)}

\* Renaming a process together with its call, and inode numbers.
PairSwap(f) ==
  [p \in ThreeProcs |-> f[p]] @@ (c1 :> CHOOSE c \in ThreeCalls : ThreeHomes[c] = f[p1])
    @@ (c2 :> CHOOSE c \in ThreeCalls : ThreeHomes[c] = f[p2])
    @@ (c3 :> CHOOSE c \in ThreeCalls : ThreeHomes[c] = f[p3])
PairSymmetry ==
  {PairSwap(f) @@ g : f \in Permutations(ThreeProcs), g \in Permutations(Inodes)}
CallSymmetry ==
  {f @@ g : f \in Permutations({c1, c2}), g \in Permutations(Inodes)}
=============================================================================
