------------------------------ MODULE MCLedger ------------------------------
(* Small instance of Ledger: one donor stock that three invocations and two  *)
(* parts compete for. Two units of stock carry both parts at one unit each    *)
(* or one part at two, so admission, refusal and races all happen.           *)
EXTENDS Ledger, TLC

CONSTANTS s1, p1, p2, c1, c2, c3

MCCapacity == [s \in Stocks |-> 2]

MCSymmetry == Permutations({c1, c2, c3})
=============================================================================
