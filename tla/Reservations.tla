---------------------------- MODULE Reservations ----------------------------
(***************************************************************************)
(* What the resource ledger promises the execution workflow (BR-08), with  *)
(* reserve and release as single steps: a part's claim on a donor stock    *)
(* goes from unclaimed to held and from held to released, never back, and  *)
(* the units held on a stock never exceed what the stock can give.         *)
(* Ledger implements this specification with optimistic transactions.      *)
(***************************************************************************)
EXTENDS Naturals, FiniteSets

CONSTANTS
  Stocks,     \* donor stocks: one per (material, plant) pair
  Parts,      \* plan parts; a part's id is its reservation id on every stock
  Capacity,   \* [Stocks -> Nat]: units above the donor's minimum cover
  MaxQty      \* largest quantity of one transfer

VARIABLES
  held,       \* [Stocks -> [Parts -> 0..MaxQty]]: units each part holds
  spent       \* [Stocks -> SUBSET Parts]: claims released for good

rvars == <<held, spent>>

UnitsHeld(s) == {x \in Parts \X (1..MaxQty) : x[2] <= held[s][x[1]]}

RInit ==
  /\ held = [s \in Stocks |-> [p \in Parts |-> 0]]
  /\ spent = [s \in Stocks |-> {}]

Hold(s, p, q) ==
  /\ held[s][p] = 0
  /\ p \notin spent[s]
  /\ Cardinality(UnitsHeld(s)) + q <= Capacity[s]
  /\ held' = [held EXCEPT ![s] = [@ EXCEPT ![p] = q]]
  /\ UNCHANGED spent

GiveBack(s, p) ==
  /\ held[s][p] > 0
  /\ held' = [held EXCEPT ![s] = [@ EXCEPT ![p] = 0]]
  /\ spent' = [spent EXCEPT ![s] = @ \cup {p}]

RNext ==
  \E s \in Stocks, p \in Parts :
    \/ \E q \in 1..MaxQty : Hold(s, p, q)
    \/ GiveBack(s, p)

RSpec == RInit /\ [][RNext]_rvars
=============================================================================
