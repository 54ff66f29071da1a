-------------------------- MODULE MCMonobankPayment --------------------------
(* Instances of MonobankPayment for TLC: one order, two invoices, of which a  *)
(* lost answer or a second creation leaves one without a payment.             *)
EXTENDS MonobankPayment, TLC

CONSTANTS w1, w2, i1, i2

TwoWorkers == {w1, w2}
OneWorker == {w1}
TwoInvoices == {i1, i2}

Symmetry == Permutations(Workers) \cup Permutations(Invoices)
==============================================================================
