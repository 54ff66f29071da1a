-------------------------- MODULE MCSupplierImport --------------------------
(***************************************************************************)
(* SupplierImport for TLC: two processes, a queue of one, two lists.       *)
(***************************************************************************)
EXTENDS SupplierImport
=============================================================================
