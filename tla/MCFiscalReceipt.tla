-------------------------- MODULE MCFiscalReceipt --------------------------
(***************************************************************************)
(* FiscalReceipt for TLC: an operator and a task, and two values that      *)
(* external_order_id could take.                                           *)
(***************************************************************************)
EXTENDS FiscalReceipt
============================================================================
