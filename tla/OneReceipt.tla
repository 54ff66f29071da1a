----------------------------- MODULE OneReceipt -----------------------------
(***************************************************************************)
(* What the fiscal receipt of an order promises, whoever asks for it and   *)
(* however often: at most one document is registered for the order, its    *)
(* outcome is final, and the shop shows only what the document has been.   *)
(* FiscalReceipt implements it.                                            *)
(***************************************************************************)

VARIABLES
    doc,     \* the document at the fiscal service
    known    \* the state of it that the shop shows

States == {"none", "created", "fiscalized", "failed"}

\* The states a document that is now in state s has been in.
Past(s) == {"none", s} \cup (IF s = "none" THEN {} ELSE {"created"})

Init == doc = "none" /\ known = "none"

Register == doc = "none" /\ doc' = "created" /\ UNCHANGED known

Conclude == doc = "created" /\ doc' \in {"fiscalized", "failed"} /\ UNCHANGED known

Learn == known' \in Past(doc) /\ UNCHANGED doc

Next == Register \/ Conclude \/ Learn

Spec == Init /\ [][Next]_<<doc, known>>
=============================================================================
