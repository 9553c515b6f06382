----------------------------- MODULE MCWorkflow -----------------------------
(* A small instance of Workflow: two transfers from different donors, a      *)
(* purchase order date change between them and a booking that cannot be      *)
(* undone, executed and rolled back by a few invocations that may all run at *)
(* once.                                                                     *)
EXTENDS Workflow, TLC

CONSTANTS e1, e2, e3, e4, d1, d2

MCKind == <<"sto", "sto", "change", "irreversible">>
MCDonor == <<d1, d2, d2, d2>>
MCQty == <<1, 2, 1, 1>>

MCSymmetry == Permutations(Executors)
=============================================================================
