----------------------------- MODULE Portfolio -----------------------------
(***************************************************************************)
(* Cases that compete for one donor's stock: the portfolio solve a         *)
(* verification starts with (optimizer/runtime.py, optimizer/solver.py),   *)
(* what the verifier makes of it for its own case and for the others       *)
(* (verifier/service.py, ControlStore.reallocate in routing/store.py), and *)
(* the two gates an execution still has to pass, its latest share and the  *)
(* ledger (execution/service.py, execution/ledger.py).                     *)
(*                                                                         *)
(* Each plan is one transfer from the donor; its size is what competes.    *)
(* Which feasible allocation the solver finds best is a choice. The other  *)
(* checks of the verifier and the tier of a plan that passes them are a    *)
(* choice too; the steps inside one approval and one write are those of    *)
(* modules Approval and Workflow.                                          *)
(***************************************************************************)
EXTENDS Naturals, FiniteSets, Functions

CONSTANTS
  Cases,        \* numbered as the case ids sort
  Supply,       \* units free above the donor's minimum cover at first
  MaxVersion,   \* bound: plan versions of one case
  MaxPlanned,   \* bound: the last of them the agent may propose
  SolverFails,  \* may a solve end without an allocation (5 s limit, Lambda error)?
  MaxDrop       \* bound: units the donor consumes meanwhile

ASSUME CasesAreNumbered == Cases \subseteq Nat /\ IsFiniteSet(Cases)
ASSUME BoundsAreNumbers ==
  /\ {Supply, MaxVersion, MaxPlanned, MaxDrop} \subseteq Nat /\ MaxPlanned <= MaxVersion
  /\ SolverFails \in BOOLEAN

Sizes == 1..Supply

VARIABLES
  status,       \* META.status
  version,      \* META.planVersion; 0: no plan yet
  plan,         \* PLAN# items: size and who sized it
  record,       \* PORTFOLIO item of each case
  held,         \* units the ledger holds for each case
  stock,        \* donor stock above its cover, as SAP answers now
  seen,         \* that stock as the case's execution loaded it
  cleared,      \* cases whose execution passed revalidation
  call,         \* the verification in progress for each case
  apart,        \* history: cases whose last verification overlapped no other
  overlooked    \* history: cases that were not in every solve since their own, it included

vars == <<status, version, plan, record, held, stock, seen, cleared, call, apart, overlooked>>
donor == <<held, stock, seen, cleared>>

NoPlan == [size |-> 0, by |-> "none"]

\* given[d]: units allocated to d's option; 0 when the solver did not choose it.
NoRecord == [members |-> {}, solved |-> FALSE, given |-> [d \in Cases |-> 0]]

Idle == [pc |-> "idle", found |-> NoRecord, left |-> {}, tier |-> 0]

Total(f) == FoldFunction(+, 0, f)

First(S, d) == d \in S /\ \A e \in S : d <= e

Current(c) == plan[c][version[c]]

\* donor_capacity: the stock above cover that the ledger does not hold.
Free == IF Total(held) <= stock THEN stock - Total(held) ELSE 0

\* PLANNING is INVESTIGATING with a run of the agent; REALLOCATED is INVESTIGATING
\* as ControlStore.reallocate leaves it; STALE is INVESTIGATING after StalePlan;
\* the other statuses are the code's own.
Moved(c, s) == status' = [status EXCEPT ![c] = s]

Goto(c, pc) == call' = [call EXCEPT ![c].pc = pc]

-----------------------------------------------------------------------------
(* The agent's run: a plan of one transfer that calc_option accepts *)

Plan(c, q) ==
  /\ status[c] \in {"PLANNING", "ESCALATED", "REJECTED"}
  /\ call[c].pc = "idle"
  /\ version[c] < MaxPlanned
  /\ q <= Free
  /\ version' = [version EXCEPT ![c] = @ + 1]
  /\ plan' = [plan EXCEPT ![c][version[c] + 1] = [size |-> q, by |-> "planner"]]
  /\ Moved(c, "PLAN_PROPOSED")
  /\ UNCHANGED <<record, donor, call, apart, overlooked>>

-----------------------------------------------------------------------------
(* VerifierService.handle *)

\* Mutant: a reallocated case is not the verifier's business.
MStart(c) ==
  LET others == {d \in Cases : call[d].pc # "idle"} IN
  /\ call[c].pc = "idle"
  /\ status[c] = "PLAN_PROPOSED"
  /\ Goto(c, "solve")
  /\ apart' = IF others = {} THEN apart \cup {c} ELSE apart \ (others \cup {c})
  /\ UNCHANGED <<status, version, plan, record, donor, overlooked>>

\* The event of the current version: a reallocated case is moved on first.
Start(c) ==
  LET others == {d \in Cases : call[d].pc # "idle"} IN
  /\ call[c].pc = "idle"
  /\ \/ status[c] = "PLAN_PROPOSED" /\ UNCHANGED status
     \/ status[c] = "REALLOCATED" /\ Moved(c, "PLAN_PROPOSED")
  /\ Goto(c, "solve")
  /\ apart' = IF others = {} THEN apart \cup {c} ELSE apart \ (others \cup {c})
  /\ UNCHANGED <<version, plan, record, donor, overlooked>>

\* committed: the option of a part that is approved is no candidate.
Committed(d) ==
  status[d] \in {"AUTO_APPROVED", "APPROVED", "EXECUTING", "MONITORING", "STALE"}

\* What the solver may answer: sizes within each plan and within the donor.
Allocations(members) ==
  {g \in [Cases -> 0..Supply] :
     /\ \A d \in Cases : g[d] <= IF d \in members /\ ~Committed(d) THEN Current(d).size ELSE 0
     /\ Total(g) <= Free}

\* open_cases: the index says which cases to read, and it may lag. It may leave out
\* any case, the one that asks too, and list one that competes no longer.
Listings == SUBSET {d \in Cases : version[d] > 0 /\ status[d] # "FAILED_ROLLED_BACK"}

\* solve_for: a case without a competitor has no portfolio.
Solve(c) ==
  /\ call[c].pc = "solve"
  /\ \E members \in Listings :
       IF c \notin members \/ members = {c}
         THEN /\ call' = [call EXCEPT ![c].pc = "check", ![c].found = NoRecord]
              /\ overlooked' = Cases
         ELSE \E g \in Allocations(members), solved \in {TRUE, ~SolverFails} :
                /\ ~solved => Total(g) = 0
                /\ call' = [call EXCEPT
                     ![c] = [@ EXCEPT !.pc = "store", !.left = members,
                               !.found = [members |-> members, solved |-> solved, given |-> g]]]
                /\ overlooked' = (overlooked \cup (Cases \ members)) \ {c}
  /\ UNCHANGED <<status, version, plan, record, donor, apart>>

\* The result is put on the member cases one by one.
StorePortfolio(c, d) ==
  /\ call[c].pc = "store"
  /\ First(call[c].left, d)
  /\ record' = [record EXCEPT ![d] = call[c].found]
  /\ call' = [call EXCEPT ![c].left = @ \ {d},
                          ![c].pc = IF call[c].left = {d} THEN "size" ELSE "store"]
  /\ UNCHANGED <<status, version, plan, donor, apart, overlooked>>

Conforms(d, g) == Current(d).size = g[d]

\* Mutants: the loop guard (resizedBy) is missing.
MMayResize(c) == TRUE

MayResize(c) == Current(c).by # "optimizer"

Resizes(c) == /\ call[c].found.solved
              /\ call[c].found.given[c] > 0
              /\ MayResize(c)
              /\ ~Conforms(c, call[c].found.given)

\* The next version of d is what the solve gave it.
Sized(d, q) == /\ version' = [version EXCEPT ![d] = @ + 1]
               /\ plan' = [plan EXCEPT ![d][version[d] + 1] = [size |-> q, by |-> "optimizer"]]

\* _propose_resized: the invocation ends, the event of the new version comes
\* back to handle. calc_option raises when the donor no longer has the size.
ProposeResized(c) ==
  /\ call[c].pc = "size" /\ Resizes(c)
  /\ call' = [call EXCEPT ![c] = Idle]
  /\ IF call[c].found.given[c] <= Free
       THEN version[c] < MaxVersion /\ Sized(c, call[c].found.given[c])
       ELSE UNCHANGED <<version, plan>>
  /\ UNCHANGED <<status, record, donor, apart, overlooked>>

\* Mutant: the other members keep the plans they have (before ADR-0044).
MKeepSize(c) ==
  /\ call[c].pc = "size" /\ ~Resizes(c)
  /\ call' = [call EXCEPT ![c].pc = "members", ![c].left = {}]
  /\ UNCHANGED <<status, version, plan, record, donor, apart, overlooked>>

KeepSize(c) ==
  /\ call[c].pc = "size" /\ ~Resizes(c)
  /\ call' = [call EXCEPT ![c].pc = "members",
                ![c].left = IF call[c].found.solved THEN call[c].found.members \ {c} ELSE {}]
  /\ UNCHANGED <<status, version, plan, record, donor, apart, overlooked>>

\* ControlStore.reallocate: the transaction's conditions, an undecided approval
\* of the version that was read.
Undecided(d) == status[d] = "AWAITING_APPROVAL"

\* _repropose_members, one member: its plan follows the allocation or escalates.
Repropose(c, d) ==
  LET given == call[c].found.given[d] IN
  /\ call[c].pc = "members"
  /\ First(call[c].left, d)
  /\ IF Undecided(d) /\ MayResize(d) /\ ~Conforms(d, call[c].found.given)
       THEN IF given = 0
              THEN Moved(d, "ESCALATED") /\ UNCHANGED <<version, plan>>
              ELSE \* calc_option raises when the donor no longer has the size
                   IF given > Free
                     THEN UNCHANGED <<status, version, plan>>
                     ELSE version[d] < MaxVersion /\ Moved(d, "REALLOCATED") /\ Sized(d, given)
       ELSE UNCHANGED <<status, version, plan>>
  /\ call' = [call EXCEPT ![c] = IF /\ Undecided(d) /\ MayResize(d)
                                    /\ ~Conforms(d, call[c].found.given) /\ given > Free
                                   THEN Idle ELSE [call[c] EXCEPT !.left = @ \ {d}]]
  /\ UNCHANGED <<record, donor, apart, overlooked>>

\* V-07 and V-08 on the donor as it is read now.
DonorSuffices(c) == Current(c).size <= Free

\* V-15: at most what this solve allocated; without a portfolio it passes.
WithinShare(c) == \/ call[c].found.members = {}
                  \/ Current(c).size <= call[c].found.given[c]

\* verify and route: a blocking check that fails is Tier 3, so may be another.
Check(c) ==
  /\ \/ call[c].pc = "members" /\ call[c].left = {}
     \/ call[c].pc = "check"
  /\ status[c] = "PLAN_PROPOSED"
  /\ \E tier \in IF DonorSuffices(c) /\ WithinShare(c) THEN {1, 2, 3} ELSE {3} :
       call' = [call EXCEPT ![c].pc = "settle", ![c].tier = tier]
  /\ Moved(c, "VERIFIED")
  /\ UNCHANGED <<version, plan, record, donor, apart, overlooked>>

\* ControlStore.save and _settle: NEXT_STATUS.
Settle(c) ==
  /\ call[c].pc = "settle"
  /\ Moved(c, <<"AUTO_APPROVED", "AWAITING_APPROVAL", "ESCALATED">>[call[c].tier])
  /\ call' = [call EXCEPT ![c] = Idle]
  /\ UNCHANGED <<version, plan, record, donor, apart, overlooked>>

-----------------------------------------------------------------------------
(* The approver, the execution, the donor *)

Decide(c) ==
  /\ status[c] = "AWAITING_APPROVAL"
  /\ \E s \in {"APPROVED", "REJECTED"} : Moved(c, s)
  /\ UNCHANGED <<version, plan, record, donor, call, apart, overlooked>>

\* load and _enter_execution: the transfer carries the stock it read.
Enter(c) ==
  /\ status[c] \in {"APPROVED", "AUTO_APPROVED"}
  /\ Moved(c, "EXECUTING")
  /\ seen' = [seen EXCEPT ![c] = stock]
  /\ UNCHANGED <<version, plan, record, held, stock, cleared, call, apart, overlooked>>

\* donor_allocation of the PORTFOLIO item as it is now.
ShareStands(c) == record[c].members = {} \/ Current(c).size <= record[c].given[c]

\* _revalidate: StalePlan returns the case to INVESTIGATING.
Revalidate(c) ==
  /\ status[c] = "EXECUTING" /\ c \notin cleared
  /\ IF Current(c).size <= stock /\ ShareStands(c)
       THEN cleared' = cleared \cup {c} /\ UNCHANGED status
       ELSE Moved(c, "STALE") /\ UNCHANGED cleared
  /\ UNCHANGED <<version, plan, record, held, stock, seen, call, apart, overlooked>>

\* Ledger.reserve against the stock that was loaded; the writes follow.
Reserve(c) ==
  /\ status[c] = "EXECUTING" /\ c \in cleared
  /\ IF Total(held) + Current(c).size <= seen[c]
       THEN Moved(c, "MONITORING") /\ held' = [held EXCEPT ![c] = Current(c).size]
       ELSE Moved(c, "FAILED_ROLLED_BACK") /\ UNCHANGED held
  /\ UNCHANGED <<version, plan, record, stock, seen, cleared, call, apart, overlooked>>

\* The donor's own consumption, as SAP shows it.
Consume ==
  /\ stock > 0 /\ Supply - stock < MaxDrop
  /\ stock' = stock - 1
  /\ UNCHANGED <<status, version, plan, record, held, seen, cleared, call, apart, overlooked>>

-----------------------------------------------------------------------------
Init ==
  /\ status = [c \in Cases |-> "PLANNING"]
  /\ version = [c \in Cases |-> 0]
  /\ plan = [c \in Cases |-> [v \in 0..MaxVersion |-> NoPlan]]
  /\ record = [c \in Cases |-> NoRecord]
  /\ held = [c \in Cases |-> 0]
  /\ stock = Supply
  /\ seen = [c \in Cases |-> 0]
  /\ cleared = {}
  /\ call = [c \in Cases |-> Idle]
  /\ apart = Cases
  /\ overlooked = Cases

Verify(c) == \/ Solve(c) \/ ProposeResized(c) \/ KeepSize(c) \/ Check(c) \/ Settle(c)
             \/ \E d \in Cases : StorePortfolio(c, d) \/ Repropose(c, d)

Execute(c) == Enter(c) \/ Revalidate(c) \/ Reserve(c)

Next == \/ Consume
        \/ \E c \in Cases : \/ \E q \in Sizes : Plan(c, q)
                            \/ Start(c) \/ Verify(c) \/ Decide(c) \/ Execute(c)

Spec == Init /\ [][Next]_vars

\* EventBridge redelivers PlanProposed until handle returns; a Lambda goes on.
Fairness == \A c \in Cases : WF_vars(Start(c)) /\ WF_vars(Verify(c))

FairSpec == Spec /\ Fairness

-----------------------------------------------------------------------------
(* Properties *)

\* Loop guard: between two plans of the agent a case gets at most one size from
\* the optimizer, however many solves of however many cases include it.
SizedOnce ==
  \A c \in Cases : \A v \in 2..MaxVersion :
    plan[c][v].by = "optimizer" => plan[c][v - 1].by = "planner"

\* No verification is running or still to come.
Quiet == \A c \in Cases : /\ call[c].pc = "idle"
                          /\ status[c] \notin {"PLAN_PROPOSED", "REALLOCATED"}

\* When all verifications have settled: a plan of the agent that waits for approval
\* has the size of its latest share, where the case's own verification found the
\* portfolio and met no other, and no solve since has missed the case.
AwaitsItsShare ==
  Quiet => \A c \in apart \ overlooked :
    (status[c] = "AWAITING_APPROVAL" /\ Current(c).by = "planner" /\ record[c].solved)
      => Current(c).size = record[c].given[c]

\* A share is given once, and kept until somebody decides.
SharesAreKept == SizedOnce /\ AwaitsItsShare

\* Every proposed or reallocated plan is settled or replaced.
EveryPlanSettles ==
  \A c \in Cases : status[c] \in {"PLAN_PROPOSED", "REALLOCATED", "VERIFIED"}
    ~> status[c] \notin {"PLAN_PROPOSED", "REALLOCATED", "VERIFIED"}

\* committed() of optimizer/runtime.py: "Options of parts already auto-approved
\* (Tier 1) or approved: their stock is held in the ledger and so already left
\* out of donor capacity". Then approved plans never need more than there is.
ApprovedStockIsHeld ==
  LET waiting == {c \in Cases : status[c] \in {"AUTO_APPROVED", "APPROVED", "EXECUTING"}} IN
  Total(held) + Total([c \in waiting |-> Current(c).size]) <= Supply
=============================================================================
