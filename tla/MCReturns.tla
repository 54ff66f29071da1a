----------------------------- MODULE MCReturns -----------------------------
(* Instances of Returns for TLC: two items, the second one given away for    *)
(* nothing, so that a line can be saved with no change of money.             *)
EXTENDS Returns, TLC

CONSTANTS w1, w2, r1, r2, r3, i1, i2

TwoWorkers == {w1, w2}
OneWorker == {w1}
TwoReturns == {r1, r2}
ThreeReturns == {r1, r2, r3}
BothItems == {i1, i2}
OneItem == {i1}
MCQuantity == i1 :> 2 @@ i2 :> 1
MCPrice == i1 :> 3 @@ i2 :> 0
SmallQuantity == i1 :> 1
SmallPrice == i1 :> 3
FirstIsLegacy == {r1}
NoLegacy == {}

Symmetry == Permutations(Workers) \cup Permutations(ReturnIds)
============================================================================
