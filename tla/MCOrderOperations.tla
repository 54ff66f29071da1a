------------------------- MODULE MCOrderOperations -------------------------
(***************************************************************************)
(* OrderOperations for TLC: two requests at a time on an order of one item.*)
(***************************************************************************)
EXTENDS OrderOperations, TLC

Symmetry == Permutations(Workers)
============================================================================
