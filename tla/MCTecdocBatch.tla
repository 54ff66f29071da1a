---------------------------- MODULE MCTecdocBatch ----------------------------
(***************************************************************************)
(* TecdocBatch for TLC: two requests, two runs, two ids of tasks, one      *)
(* mishap.                                                                 *)
(***************************************************************************)
EXTENDS TecdocBatch
==============================================================================
