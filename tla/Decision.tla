------------------------------ MODULE Decision ------------------------------
(***************************************************************************)
(* How one plan is decided: its options are priced (tools/calc.py), the    *)
(* world moves, the verifier re-reads every fact and runs its checks       *)
(* (verifier/evidence.py, verifier/logic.py), and routing splits the plan  *)
(* into parts and picks a tier, an approver and a deadline                 *)
(* (routing/logic.py).                                                     *)
(*                                                                         *)
(* Quantities are whole units, hours count from now (minutes pass while a  *)
(* plan is decided, hours do not), the donor and the plant consume one     *)
(* unit an hour. Money is in units of the auto limit's scale. V-02, V-03,  *)
(* V-04 and V-11 cannot fail for an option the calculator priced and are   *)
(* left out; V-15 is in module Portfolio.                                  *)
(***************************************************************************)
EXTENDS Projection, FiniteSets, Functions

CONSTANTS
  Cover,        \* DONOR_MIN_COVER_DAYS, as hours of the donor's consumption
  AutoLimit,    \* TIER1_MAX_USD
  MinConfidence, \* TIER1_MIN_CONFIDENCE in hundredths
  Window,       \* APPROVAL_MAX_HOURS
  Approvers,    \* numbered as their user ids sort
  Worlds,       \* what SAP, the ledger and the case may say when the plan is priced
  Proposals,        \* the plans proposed: <<option, option>>, and which are chosen
  Policies      \* limits and switches when the plan is routed

\* The projection's 30 days reach past the cover window.
ASSUME WorldsAreTyped ==
  /\ Horizon \in Nat /\ Cover \in 0..Horizon + 1 /\ Window \in Nat
  /\ Worlds \subseteq [stock : Nat, recovery : Int, ordered : Nat, onHand : Nat, held : Nat,
                       committed : Nat, protected : Nat, agreement : 0..10, grounding : 0..10,
                       confirmed : BOOLEAN, signalled : BOOLEAN, compliant : BOOLEAN,
                       repriced : BOOLEAN, blocked : BOOLEAN, priceOld : BOOLEAN]

ASSUME ProposalsAreTyped ==
  Proposals \subseteq
    [option : [1..2 -> [kind : {"STO", "AIR", "ALT"}, qty : Nat \ {0}, cost : Nat, lead : Nat]],
     chosen : (SUBSET (1..2)) \ {{}}]

VARIABLES
  stage, world, proposal,
  quoted,    \* the figure donorFree of the plan's transfers, as priced
  verified, route

decisionVars == <<stage, world, proposal, quoted, verified, route>>

Options == {1, 2}

Transfers(ids) == {i \in ids : proposal.option[i].kind = "STO"}

Quantity(ids) == MapThenSumSet(LAMBDA i : proposal.option[i].qty, ids)
CostOf(ids) == MapThenSumSet(LAMBDA i : proposal.option[i].cost, ids)

-----------------------------------------------------------------------------
(* Places that say how much a donor may give *)

\* compute_option: free above minimum cover after what the ledger holds.
donorFree(w) == w.onHand - Cover - w.held
CalcAccepts(w, q) == q <= donorFree(w)

\* find_sources shows the agent a donor with something free, and how much.
Offered(w) == Positive(donorFree(w))

\* EvidenceReader.donor: what the ledger does not hold.
unreserved(w) == w.onHand - w.held

\* donor_capacity of the portfolio optimizer: the stricter of cover and
\* commitments is kept.
Capacity(w) == Positive(unreserved(w) - Max({Cover, w.committed}))

\* Ledger.reserve on the stock _transfer read at execution.
LedgerGrants(w, q) == w.held + q <= Positive(w.onHand - Cover)

\* Mutant: cover is measured on the stock on hand, held units included.
MDonorKept(w, q) == w.onHand - q >= Cover /\ unreserved(w) - q >= w.committed

\* _donor_ok: what is left keeps the cover and the commitments.
DonorKept(w, q) == LET left == unreserved(w) - q IN left >= Cover /\ left >= w.committed

\* FR-SIM-04: the donor's projection with this transfer lasts the cover window.
DonorLasts(w, q) ==
  LET out == FirstStockout(Project(w.onHand, 1, <<Move(0, -q)>>)) IN out = Never \/ out >= Cover

-----------------------------------------------------------------------------
(* verify *)

IsTransfer(o) == o.kind = "STO"

\* EvidenceReader.option recalculates the option; what the calculator refuses
\* now has no evidence.
HasEvidence(i) ==
  LET o == proposal.option[i] IN
  /\ IsTransfer(o) => CalcAccepts(world, o.qty)
  /\ o.kind = "AIR" => world.confirmed

\* V-01: every figure equals its re-read value; a transfer quotes donorFree.
MatchesSources(o) == ~world.repriced /\ (IsTransfer(o) => donorFree(world) = quoted)
\* V-05, V-06: a supplier is known, not blocked, and an alternate one approved.
MasterData(o) == IsTransfer(o) \/ ~world.blocked
Compliant(o) == o.kind = "ALT" => world.compliant
\* V-07, V-08
DonorSafe(q) == DonorKept(world, q) /\ DonorLasts(world, q)
Unreserved(w, q) == unreserved(w) >= q
\* V-09, V-10
ProtectsMore(cost) == cost < world.protected
PriceIsFresh == ~world.priceOld

fails(id, bad) == IF bad THEN {id} ELSE {}

\* Blocking checks one option fails.
FailedChecks(i) ==
  LET o == proposal.option[i] IN
  IF ~HasEvidence(i) THEN {"EVIDENCE"} ELSE
    fails("V-01", ~MatchesSources(o)) \cup fails("V-05", ~MasterData(o))
      \cup fails("V-06", ~Compliant(o))
      \cup fails("V-07", IsTransfer(o) /\ ~DonorSafe(o.qty))
      \cup fails("V-08", IsTransfer(o) /\ ~Unreserved(world, o.qty))
      \cup fails("V-09", ~ProtectsMore(o.cost)) \cup fails("V-10", ~PriceIsFresh)

\* Blocking checks of the chosen options together; each donor's projection is
\* the one made for its option alone.
FailedTogether(ids) ==
  LET sent == Transfers(ids) IN
  fails("V-09", ~ProtectsMore(CostOf(ids)))
    \cup fails("V-07", sent # {} /\ ~(/\ DonorKept(world, Quantity(sent))
                                     /\ \A i \in sent : DonorLasts(world, proposal.option[i].qty)))
    \cup fails("V-08", sent # {} /\ ~Unreserved(world, Quantity(sent)))

\* figures of an option, and those whose source the confidence accepts: a
\* quantity read from a signal is not one.
Figures(i) == IF proposal.option[i].kind = "ALT" THEN 2 ELSE 3
Supported(i) == IF proposal.option[i].kind = "AIR" /\ world.signalled THEN 2 ELSE Figures(i)

\* 0.5 share of supported figures + 0.3 corroboration + 0.2 grounding >= the
\* minimum, in hundredths and without the division.
Confident(ids, min) ==
  LET figures == MapThenSumSet(Figures, ids)
      supported == MapThenSumSet(Supported, ids)
  IN  figures > 0 /\ 50 * supported + figures * (3 * world.agreement + 2 * world.grounding)
                        >= min * figures

\* V-13: not blocking; it only keeps a part from being automatic.
Grounded == world.grounding >= 7

-----------------------------------------------------------------------------
(* route *)

\* What the plant receives: each option at its arrival, and the case's own
\* order at its recovery date without what was flown out of it.
Receipts(arrivals) ==
  LET flown == MapThenSumSet(LAMBDA i : proposal.option[i].qty,
                             {i \in DOMAIN arrivals : proposal.option[i].kind = "AIR"})
      order == <<Move(world.recovery, Positive(world.ordered - flown))>>
      ids == SetToSeq(DOMAIN arrivals)
  IN  [k \in DOMAIN ids |-> Move(arrivals[ids[k]], proposal.option[ids[k]].qty)] \o order

OnTime(ids) == [i \in ids |-> proposal.option[i].lead]

Stockout(arrivals) == FirstStockout(Project(world.stock, 1, Receipts(arrivals)))

\* The stock-out projected without the plan
Foreseen == FirstStockout(Project(world.stock, 1, <<Move(world.recovery, world.ordered)>>))

\* Facts.stockout, the impact's where none is foreseen, and Facts.stockout_without
NeedAt == IF Foreseen = Never THEN world.stock ELSE Foreseen
StockoutWithout(i) ==
  IF proposal.chosen = {i} THEN NeedAt ELSE Stockout(OnTime(proposal.chosen \ {i}))

Reversible(i) == proposal.option[i].kind = "STO"

\* Mutant: reversibility is not asked for.
MAuto(ids, grounded) ==
  /\ ids # {}
  /\ CostOf(ids) <= AutoLimit
  /\ Confident(ids, MinConfidence)
  /\ grounded

Automatic(ids, grounded) ==
  /\ ids # {}
  /\ CostOf(ids) <= AutoLimit
  /\ \A i \in ids : Reversible(i)
  /\ Confident(ids, MinConfidence)
  /\ grounded

\* Lexical order of max() on (coverage, ids).
Better(s, t) ==
  \/ Quantity(s) > Quantity(t)
  \/ Quantity(s) = Quantity(t) /\ Min(s) > Min(t)

\* Mutant: the urgent part is decided before the need for one is.
MImmediate(grounded) ==
  LET able == {s \in SUBSET proposal.chosen : s # proposal.chosen /\ Automatic(s, grounded)}
  IN  IF able = {} THEN {} ELSE CHOOSE s \in able : \A t \in able \ {s} : Better(s, t)

\* BR-22: when the stock runs out before an approval and the fastest action.
Immediate(grounded) ==
  LET able == {s \in SUBSET proposal.chosen : s # proposal.chosen /\ Automatic(s, grounded)}
      fastest == Min({proposal.option[i].lead : i \in proposal.chosen})
  IN  IF NeedAt >= Window + fastest \/ able = {} THEN {}
      ELSE CHOOSE s \in able : \A t \in able \ {s} : Better(s, t)

\* eligible: by limit, then by user id.
Eligible(limit, cost) == {a \in Approvers : limit[a] >= cost}
Asked(limit, cost) ==
  CHOOSE a \in Eligible(limit, cost) : \A b \in Eligible(limit, cost) :
    limit[a] < limit[b] \/ (limit[a] = limit[b] /\ a <= b)

\* Mutant: the deadline is measured against the plan's own stock-out.
MDeadline(ids) ==
  Min({Window} \cup {NeedAt + 1 - proposal.option[i].lead : i \in ids})

\* BR-23: the last moment each action can still arrive before the plant runs
\* out with the rest of the plan in place. It may lie in the past.
Deadline(ids) ==
  Min({Window} \cup {StockoutWithout(i) - proposal.option[i].lead :
                       i \in {j \in ids : StockoutWithout(j) # Never}})

Unrouted == [tier |-> 0, auto |-> {}, asked |-> {}, approver |-> 0, deadline |-> 0]

Blocked(policy) ==
  \/ policy.kill
  \/ policy.slow                    \* STALE_VERIFICATION: more than 60 s
  \/ world.grounding = 0            \* INCOMPLETE_VERIFICATION: grounding unavailable
  \/ \E i \in proposal.chosen : verified.failed[i] # {}
  \/ verified.together # {}
  \/ ~Confident(proposal.chosen, MinConfidence)

RouteOf(policy) ==
  LET chosen == proposal.chosen
      urgent == Immediate(Grounded)
      rest == chosen \ urgent
  IN  IF Blocked(policy) THEN [Unrouted EXCEPT !.tier = 3]
      ELSE IF Automatic(chosen, Grounded) THEN [Unrouted EXCEPT !.tier = 1, !.auto = chosen]
      ELSE IF Eligible(policy.limit, CostOf(rest)) = {} THEN [Unrouted EXCEPT !.tier = 3]
      ELSE [tier |-> 2, auto |-> urgent, asked |-> rest,
            approver |-> Asked(policy.limit, CostOf(rest)), deadline |-> Deadline(rest)]

-----------------------------------------------------------------------------
Unverified == [failed |-> [i \in Options |-> {}], together |-> {}]

\* The options were priced in this world.
DecisionInit ==
  /\ stage = "priced"
  /\ world \in Worlds
  /\ proposal \in Proposals
  /\ \A i \in Options : HasEvidence(i)
  /\ quoted = donorFree(world)
  /\ verified = Unverified /\ route = Unrouted

\* Between the pricing and the check: the donor issues or reserves, the rate
\* card changes, a supplier is blocked, 15 minutes pass.
Moves == {[world EXCEPT !.onHand = @ - 1], [world EXCEPT !.held = @ + 1],
          [world EXCEPT !.repriced = TRUE], [world EXCEPT !.blocked = TRUE],
          [world EXCEPT !.priceOld = TRUE]}

WorldMoves ==
  /\ stage = "priced"
  /\ stage' = "moved"
  /\ world' \in Moves
  /\ UNCHANGED <<proposal, quoted, verified, route>>

VerifyPlan ==
  /\ stage \in {"priced", "moved"}
  /\ stage' = "verified"
  /\ verified' = [failed |-> [i \in Options |-> FailedChecks(i)],
                  together |-> FailedTogether(proposal.chosen)]
  /\ UNCHANGED <<world, proposal, quoted, route>>

Route ==
  /\ stage = "verified"
  /\ stage' = "routed"
  /\ \E policy \in Policies : route' = RouteOf(policy)
  /\ UNCHANGED <<world, proposal, quoted, verified>>

DecisionNext == WorldMoves \/ VerifyPlan \/ Route

DecisionSpec == DecisionInit /\ [][DecisionNext]_decisionVars

-----------------------------------------------------------------------------
(* Properties *)

\* The gates a transfer passes agree: what the agent is shown is what the calculator
\* accepts; what the optimizer offers is exactly what V-07 and V-08 accept; they accept
\* nothing the calculator refused or the ledger will; the projection never refuses
\* what the cover allows.
GatesAgree ==
  stage \in {"priced", "moved"} => \A q \in 1..world.onHand :
    LET checked == DonorKept(world, q) /\ Unreserved(world, q) IN
    /\ CalcAccepts(world, q) = (q <= Offered(world))
    /\ checked = (q <= Capacity(world))
    /\ checked => CalcAccepts(world, q) /\ LedgerGrants(world, q) /\ DonorLasts(world, q)
    /\ CalcAccepts(world, q) /\ world.committed <= Cover => checked

\* What runs without a person is reversible, inside the limit, and leaves the
\* donor in stock, hour by hour, for the whole cover window after all transfers
\* of the plan and all the ledger holds have left it.
AutoIsSafe ==
  route.auto # {} =>
    LET sent == Quantity(Transfers(proposal.chosen))
        donor == Hourly(world.onHand, 1, <<Move(0, -(sent + world.held))>>)
    IN  /\ \A i \in route.auto : proposal.option[i].kind = "STO"
        /\ CostOf(route.auto) <= AutoLimit
        /\ sent > 0 /\ (Cover > 0 => \A h \in 0..Cover - 1 : donor[h].after > 0)
        /\ ~world.repriced /\ ~world.priceOld

\* A plan is split only when the line would stand before an approver and the
\* fastest action could help, and its parts are the whole plan. (Where no
\* stock-out is foreseen the code takes the one without any receipt instead, and
\* may split a plan nothing waits for.)
SplitIsNeeded ==
  route.tier = 2 =>
    /\ route.auto \cap route.asked = {} /\ route.auto \cup route.asked = proposal.chosen
    /\ route.asked # {}
    /\ route.auto # {} /\ Foreseen # Never =>
         \E h \in Hours : /\ h < Window + Min({proposal.option[i].lead : i \in proposal.chosen})
                          /\ Hourly(world.stock, 1, <<Move(world.recovery, world.ordered)>>)[h].before = 0

\* BR-23: an action approved as late as its deadline keeps the plant running as
\* long as one approved at once. (Of two actions in one part each is measured
\* against the other in place, though both are late then; and an air freight is
\* measured against the whole order, from which it takes what it flies.)
DeadlineProtects ==
  (/\ route.tier = 2 /\ route.deadline >= 0
   /\ \E i \in Options : route.asked = {i} /\ proposal.option[i].kind # "AIR") =>
    LET late == [i \in proposal.chosen |->
                   IF i \in route.asked THEN proposal.option[i].lead + route.deadline
                                        ELSE proposal.option[i].lead]
        stands(arrivals) == {h \in Hours : Hourly(world.stock, 1, Receipts(arrivals))[h].after = 0}
    IN  stands(late) = {} \/ Min(stands(late)) >= Min(stands(OnTime(proposal.chosen)) \cup {Never})

\* The projections routing and verification rest on.
ProjectionIsStepwise ==
  stage = "priced" =>
  /\ AgreesHourly(world.stock, 1, Receipts(OnTime(proposal.chosen)))
  /\ AgreesHourly(world.onHand, 1,
       <<Move(world.recovery, world.held + 1), Move(0, -Quantity(Transfers(proposal.chosen)))>>)

\* What routing decides is safe however it is split, and rests on a sound projection.
RouteIsSound == AutoIsSafe /\ SplitIsNeeded /\ DeadlineProtects /\ ProjectionIsStepwise
=============================================================================
