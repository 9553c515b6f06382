----------------------------- MODULE MCPlanning -----------------------------
(***************************************************************************)
(* Portfolio and Decision for model checking, one at a time: `scene` names *)
(* the one whose steps are taken. Portfolio leaves the checks and the tier *)
(* of one plan open, Decision computes them.                               *)
(*                                                                         *)
(* Portfolio: two cases that compete for two units of one donor.           *)
(* Decision: plans of one or two options over a small world, a transfer    *)
(* and a second transfer, an air freight or an alternate order.            *)
(***************************************************************************)
EXTENDS Portfolio, Decision

VARIABLE scene

CONSTANTS Stocks, OnHands

\* When the case's order comes and how much of it: late, later, and in time and
\* enough for the whole horizon where there is some stock.
Orders == {<<4, 3>>, <<7, 3>>, <<2, 6>>}

\* How well the plan is supported: fully; by one sender; ungrounded; with an
\* unavailable grounding check; on a quantity from a signal; by a supplier that
\* is not approved.
Supports ==
  {<<10, 7, FALSE, TRUE>>, <<7, 7, FALSE, TRUE>>, <<10, 6, FALSE, TRUE>>,
   <<10, 0, FALSE, TRUE>>, <<10, 7, TRUE, TRUE>>, <<10, 7, FALSE, FALSE>>}

\* What others hold or are promised of the donor; only a fully supported plan meets
\* a donor that is claimed.
Claims == ({<<0, 0>>} \X Supports) \cup (({0, 1} \X {0, 3}) \X {<<10, 7, FALSE, TRUE>>})

MCWorlds ==
  {[stock |-> s, recovery |-> r[1], ordered |-> r[2], onHand |-> n, held |-> d[1][1],
    committed |-> d[1][2], protected |-> 6, agreement |-> d[2][1], grounding |-> d[2][2],
    confirmed |-> TRUE, signalled |-> d[2][3], compliant |-> d[2][4],
    repriced |-> FALSE, blocked |-> FALSE, priceOld |-> FALSE] :
     s \in Stocks, r \in Orders, n \in OnHands, d \in Claims}

Transfer(q, c) == [kind |-> "STO", qty |-> q, cost |-> c, lead |-> 2]

MCProposals ==
  [option : {<<Transfer(q, c), o>> : q \in {1, 2}, c \in {1, 2},
               o \in [kind : {"STO", "AIR", "ALT"}, qty : {2}, cost : {2}, lead : {1, 5}]},
   chosen : {{1}, {2}, {1, 2}}]

AWorld == CHOOSE w \in MCWorlds : w.held = 0
AProposal == CHOOSE p \in MCProposals : p.chosen = {1}

MCPolicies ==
  [kill : {FALSE}, slow : {FALSE}, limit : [Approvers -> {1, 5}]]
    \cup [kill : {TRUE}, slow : {FALSE}, limit : {[a \in Approvers |-> 5]}]
    \cup [kill : {FALSE}, slow : {TRUE}, limit : {[a \in Approvers |-> 5]}]

planningVars == <<scene, vars, decisionVars>>

\* Where Decision is not played nothing is priced.
Unplayed ==
  /\ stage = "unplayed"
  /\ world = AWorld /\ proposal = AProposal /\ quoted = 0
  /\ verified = Unverified /\ route = Unrouted

PlanningInit ==
  /\ Init
  /\ \/ scene = "portfolio" /\ Unplayed
     \/ scene = "decision" /\ DecisionInit

PlanningNext ==
  /\ UNCHANGED scene
  /\ \/ scene = "portfolio" /\ Next /\ UNCHANGED decisionVars
     \/ scene = "decision" /\ DecisionNext /\ UNCHANGED vars

PlanningSpec == PlanningInit /\ [][PlanningNext]_planningVars /\ Fairness
=============================================================================
