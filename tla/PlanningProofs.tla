--------------------------- MODULE PlanningProofs ---------------------------
(***************************************************************************)
(* Proofs about module Portfolio, for any number of cases, any stock and   *)
(* any number of versions: what a case is given of the donor is given      *)
(* once, and a plan that waits for approval has the size of the latest     *)
(* share of its case where its verification met no other and no solve has  *)
(* missed the case in the index, however those of the other cases overlap  *)
(* among themselves.                                                       *)
(* How much is free (Free) and what an allocation sums to (Total) are      *)
(* opaque: nothing about Portfolio depends on them.                        *)
(*                                                                         *)
(* About module Decision, for any horizon, any cover, any world and any    *)
(* plan of two options: the gates a transfer passes agree, what runs       *)
(* without a person is safe, and a plan is split only where it must be.    *)
(* Of one movement the projection is unfolded, and the hourly account has  *)
(* a closed form, by the least hour at which it would not.                 *)
(***************************************************************************)
EXTENDS Portfolio, Decision, FiniteSetTheorems, WellFoundedInduction, TLAPS

-----------------------------------------------------------------------------
(* Portfolio: the inductive invariant *)

Sizers == {"none", "planner", "optimizer"}
Statuses == {"PLANNING", "PLAN_PROPOSED", "VERIFIED", "AUTO_APPROVED", "AWAITING_APPROVAL",
             "ESCALATED", "REALLOCATED", "APPROVED", "REJECTED", "EXECUTING", "STALE",
             "MONITORING", "FAILED_ROLLED_BACK"}
Steps == {"idle", "solve", "store", "size", "members", "check", "settle"}
Plans == [size : Nat, by : Sizers]
Records == [members : SUBSET Cases, solved : BOOLEAN, given : [Cases -> Nat]]
Calls == [pc : Steps, found : Records, left : SUBSET Cases, tier : 0..3]

PortfolioTypes ==
  /\ status \in [Cases -> Statuses]
  /\ version \in [Cases -> 0..MaxVersion]
  /\ plan \in [Cases -> [0..MaxVersion -> Plans]]
  /\ record \in [Cases -> Records]
  /\ call \in [Cases -> Calls]
  /\ apart \subseteq Cases /\ overlooked \subseteq Cases

\* The versions up to the current one have been sized by somebody, the others by
\* nobody, and the optimizer never followed itself.
VersionsAreSized ==
  \A c \in Cases : \A v \in 1..MaxVersion :
    /\ v <= version[c] => plan[c][v].by # "none"
    /\ v > version[c] => plan[c][v].by = "none"
    /\ v > 1 /\ plan[c][v].by = "optimizer" => plan[c][v - 1].by = "planner"

\* A verification in progress holds its case in the status it found it in, and
\* a solve that gets as far as the members is about its own case too.
CallHoldsItsCase ==
  \A c \in Cases :
    /\ call[c].pc \in {"solve", "store", "size", "members", "check"} => status[c] = "PLAN_PROPOSED"
    /\ call[c].pc = "settle" => status[c] = "VERIFIED" /\ call[c].tier # 0
    /\ call[c].pc \in {"store", "size", "members"} => c \in call[c].found.members
    /\ call[c].pc = "store" => call[c].left \subseteq call[c].found.members
    /\ call[c].pc = "check" => c \in overlooked

\* While a verification that met no other is in progress there is no other.
ApartMeansNoOther ==
  \A c \in apart, d \in Cases : call[c].pc # "idle" /\ d # c => call[d].pc = "idle"

Fits(c, given) == Current(c).by = "planner" => Current(c).size = given[c]

\* What such a verification stored on its own case is what it goes by.
OwnShare(c) ==
  /\ call[c].pc = "store" => c \in call[c].left \/ record[c] = call[c].found
  /\ call[c].pc \in {"size", "members"} => record[c] = call[c].found
  /\ call[c].pc = "members" => ~Resizes(c)
  /\ call[c].pc = "settle" /\ call[c].tier = 2 /\ record[c].solved => Fits(c, record[c].given)

OwnShareIsKept == \A c \in apart \ overlooked : OwnShare(c)

\* Verification x has still to come to c, with the share that c has on record or
\* with one that replaces it.
StillToCome(x, c) ==
  \/ call[x].pc = "solve"
  \/ call[x].pc = "idle" /\ status[x] = "PLAN_PROPOSED"
  \/ call[x].pc = "store" /\ c \in call[x].left
  \/ /\ call[x].pc \in {"store", "size"} /\ c \in call[x].found.members
     /\ call[x].found = record[c]
  \/ call[x].pc = "members" /\ c \in call[x].left /\ call[x].found = record[c]

Mismatched(c) ==
  status[c] = "AWAITING_APPROVAL" /\ record[c].solved /\ ~Fits(c, record[c].given)

\* A plan that waits with another size than its case has on record is waited for
\* by a verification that will put it right.
MismatchIsPassing ==
  \A c \in apart \ overlooked : Mismatched(c) => \E x \in Cases : x # c /\ StillToCome(x, c)

PInv == /\ PortfolioTypes
        /\ VersionsAreSized
        /\ CallHoldsItsCase
        /\ ApartMeansNoOther
        /\ OwnShareIsKept
        /\ MismatchIsPassing

-----------------------------------------------------------------------------
(* Lemmas *)

LEMMA InitTypes == Init => PortfolioTypes
<1> SUFFICES ASSUME Init PROVE PortfolioTypes
  OBVIOUS
<1>1. NoPlan \in Plans
  BY DEF NoPlan, Plans, Sizers
<1>2. NoRecord \in Records
  BY DEF NoRecord, Records
<1>3. Idle \in Calls
  BY <1>2 DEF Idle, Calls, Steps
<1>4. status \in [Cases -> Statuses]
  BY DEF Init, Statuses
<1>5. version \in [Cases -> 0..MaxVersion]
  BY BoundsAreNumbers DEF Init
<1> QED
  BY <1>1, <1>2, <1>3, <1>4, <1>5 DEF Init, PortfolioTypes

\* Versions are numbers, and there is always one more to write below the bound.
LEMMA Bounds == MaxVersion \in Nat /\ MaxPlanned \in Nat /\ MaxPlanned <= MaxVersion /\ Supply \in Nat
BY BoundsAreNumbers

\* Sizing a case keeps the types, adds the next version and leaves the others alone.
LEMMA SizedTypes ==
  ASSUME PortfolioTypes, NEW d \in Cases, NEW q \in Nat, version[d] < MaxVersion, Sized(d, q)
  PROVE  /\ version' \in [Cases -> 0..MaxVersion]
         /\ plan' \in [Cases -> [0..MaxVersion -> Plans]]
         /\ version'[d] = version[d] + 1
         /\ plan'[d][version[d] + 1] = [size |-> q, by |-> "optimizer"]
         /\ Current(d)'.by = "optimizer"
         /\ \A v \in 0..MaxVersion : v # version[d] + 1 => plan'[d][v] = plan[d][v]
         /\ \A c \in Cases : c # d => version'[c] = version[c] /\ plan'[c] = plan[c]
<1>1. version[d] + 1 \in 0..MaxVersion
  BY Bounds DEF PortfolioTypes
<1>2. [size |-> q, by |-> "optimizer"] \in Plans
  BY DEF Plans, Sizers
<1>3. plan[d] \in [0..MaxVersion -> Plans]
  BY DEF PortfolioTypes
<1>4. [plan[d] EXCEPT ![version[d] + 1] = [size |-> q, by |-> "optimizer"]]
        \in [0..MaxVersion -> Plans]
  BY <1>1, <1>2, <1>3
<1>5. plan' = [plan EXCEPT ![d] = [plan[d] EXCEPT ![version[d] + 1] =
                                     [size |-> q, by |-> "optimizer"]]]
  BY DEF Sized
<1>6. version' = [version EXCEPT ![d] = version[d] + 1]
  BY DEF Sized
<1>7. version' \in [Cases -> 0..MaxVersion] /\ version'[d] = version[d] + 1
  BY <1>1, <1>6 DEF PortfolioTypes
<1>8. plan' \in [Cases -> [0..MaxVersion -> Plans]]
  BY <1>4, <1>5 DEF PortfolioTypes
<1>9. plan'[d] = [plan[d] EXCEPT ![version[d] + 1] = [size |-> q, by |-> "optimizer"]]
  BY <1>5 DEF PortfolioTypes
<1>10. plan'[d][version[d] + 1] = [size |-> q, by |-> "optimizer"]
  BY <1>9, <1>1, <1>3
<1>11. \A v \in 0..MaxVersion : v # version[d] + 1 => plan'[d][v] = plan[d][v]
  BY <1>9, <1>1, <1>3
<1>12. \A c \in Cases : c # d => version'[c] = version[c] /\ plan'[c] = plan[c]
  BY <1>5, <1>6 DEF PortfolioTypes
<1>13. Current(d)'.by = "optimizer"
  BY <1>7, <1>10 DEF Current
<1> QED
  BY <1>7, <1>8, <1>10, <1>11, <1>12, <1>13

\* A version the optimizer may write follows one of the agent, or is the first.
LEMMA SizedVersions ==
  ASSUME PortfolioTypes, VersionsAreSized, NEW d \in Cases, NEW q \in Nat,
         version[d] < MaxVersion, MayResize(d), Sized(d, q)
  PROVE  VersionsAreSized'
<1> DEFINE n == version[d] + 1
<1>0. /\ version'[d] = version[d] + 1
      /\ plan'[d][version[d] + 1] = [size |-> q, by |-> "optimizer"]
      /\ \A v \in 0..MaxVersion : v # version[d] + 1 => plan'[d][v] = plan[d][v]
      /\ \A c \in Cases : c # d => version'[c] = version[c] /\ plan'[c] = plan[c]
  BY SizedTypes
<1>1. n \in 1..MaxVersion /\ version[d] \in 0..MaxVersion
  BY Bounds DEF PortfolioTypes
<1>2. plan[d][version[d]] \in Plans /\ plan[d][version[d]].by # "optimizer"
  BY <1>1 DEF MayResize, Current, PortfolioTypes
<1>3. n > 1 => plan[d][n - 1].by = "planner"
  BY <1>1, <1>2, Bounds DEF VersionsAreSized, Plans, Sizers
<1> SUFFICES ASSUME NEW c \in Cases, NEW v \in 1..MaxVersion
             PROVE  /\ v <= version'[c] => plan'[c][v].by # "none"
                    /\ v > version'[c] => plan'[c][v].by = "none"
                    /\ v > 1 /\ plan'[c][v].by = "optimizer" => plan'[c][v - 1].by = "planner"
  BY DEF VersionsAreSized
<1>4. CASE c # d
  BY <1>4, <1>0 DEF VersionsAreSized
<1>5. CASE c = d
  <2>1. /\ version'[d] = n /\ plan'[d][n].by = "optimizer"
        /\ \A w \in 0..MaxVersion : w # n => plan'[d][w] = plan[d][w]
    BY <1>0
  <2>2. v <= n => plan'[d][v].by # "none"
    <3>1. CASE v = n
      BY <2>1, <3>1
    <3>2. CASE v # n
      BY <2>1, <3>2, <1>1, Bounds DEF VersionsAreSized
    <3> QED
      BY <3>1, <3>2
  <2>3. v > n => plan'[d][v].by = "none"
    BY <2>1, <1>1, Bounds DEF VersionsAreSized
  <2>4. v > 1 /\ plan'[d][v].by = "optimizer" => plan'[d][v - 1].by = "planner"
    <3>1. CASE v = n
      BY <2>1, <3>1, <1>1, <1>3, Bounds
    <3>2. CASE v < n
      BY <2>1, <3>2, <1>1, Bounds DEF VersionsAreSized
    <3>3. CASE v > n
      BY <2>1, <2>3, <3>3
    <3> QED
      BY <3>1, <3>2, <3>3, <1>1, Bounds
  <2> QED
    BY <1>5, <2>1, <2>2, <2>3, <2>4
<1> QED
  BY <1>4, <1>5

\* Goto moves one call to another step and keeps what it found.
LEMMA GotoCall ==
  ASSUME PortfolioTypes, NEW c \in Cases, NEW pc \in Steps, Goto(c, pc)
  PROVE  /\ call' \in [Cases -> Calls]
         /\ call'[c].pc = pc /\ call'[c].found = call[c].found /\ call'[c].left = call[c].left
         /\ \A d \in Cases : d # c => call'[d] = call[d]
<1>1. call \in [Cases -> Calls] /\ call[c] \in Calls
  BY DEF PortfolioTypes
<1>2. call' = [call EXCEPT ![c] = [call[c] EXCEPT !.pc = pc]]
  BY DEF Goto
<1>3. [call[c] EXCEPT !.pc = pc] \in Calls
  BY <1>1 DEF Calls
<1>4. call'[c] = [call[c] EXCEPT !.pc = pc] /\ \A d \in Cases : d # c => call'[d] = call[d]
  BY <1>1, <1>2
<1>5. call'[c].pc = pc /\ call'[c].found = call[c].found /\ call'[c].left = call[c].left
  BY <1>1, <1>4 DEF Calls
<1> QED
  BY <1>1, <1>2, <1>3, <1>4, <1>5

\* Moved puts one case into another status.
LEMMA MovedStatus ==
  ASSUME PortfolioTypes, NEW c \in Cases, NEW s \in Statuses, Moved(c, s)
  PROVE  /\ status' \in [Cases -> Statuses] /\ status'[c] = s
         /\ \A d \in Cases : d # c => status'[d] = status[d]
BY DEF PortfolioTypes, Moved

\* Where plans and versions stay, current plans and what depends on them stay.
LEMMA PlansStay ==
  ASSUME UNCHANGED <<version, plan>>
  PROVE  /\ VersionsAreSized => VersionsAreSized'
         /\ \A c \in Cases : Current(c)' = Current(c)
BY DEF VersionsAreSized, Current

\* A verification that is still to come to a case is so until one of the two moves.
LEMMA StillComes ==
  ASSUME NEW x \in Cases, NEW c \in Cases, StillToCome(x, c), call'[x] = call[x],
         record'[c] = record[c], status'[x] = status[x]
  PROVE  StillToCome(x, c)'
BY DEF StillToCome

\* What a verification goes by stays while nothing of its case moves; a case
\* without one has nothing to go by.
LEMMA OwnShareStays ==
  ASSUME NEW c \in Cases, OwnShare(c), call'[c] = call[c], record'[c] = record[c],
         Current(c)' = Current(c)
  PROVE  OwnShare(c)'
BY DEF OwnShare, Resizes, MayResize, Conforms, Fits

LEMMA IdleOwnsNothing ==
  ASSUME NEW c \in Cases, call'[c].pc = "idle" PROVE OwnShare(c)'
BY DEF OwnShare

\* A mismatch that a step does not cause was there before it.
LEMMA MismatchWas ==
  ASSUME NEW c \in Cases, Mismatched(c)', status'[c] = status[c], record'[c] = record[c],
         Current(c)' = Current(c)
  PROVE  Mismatched(c)
BY DEF Mismatched, Fits

\* Steps of the approver, the execution and the donor, and any other that moves only
\* cases that no verification is about, and none of them to the approver.
LEMMA OthersMove ==
  ASSUME PInv, status' \in [Cases -> Statuses],
         UNCHANGED <<version, plan, record, call, apart, overlooked>>,
         \A d \in Cases : status'[d] # status[d] =>
           status[d] \notin {"PLAN_PROPOSED", "VERIFIED"} /\ status'[d] # "AWAITING_APPROVAL"
  PROVE  PInv'
<1>1. PortfolioTypes'
  BY DEF PInv, PortfolioTypes
<1>2. VersionsAreSized'
  BY PlansStay DEF PInv
<1>3. CallHoldsItsCase'
  BY DEF PInv, CallHoldsItsCase
<1>4. ApartMeansNoOther'
  BY DEF PInv, ApartMeansNoOther
<1>5. \A c \in Cases : Current(c)' = Current(c)
  BY PlansStay
<1>6. OwnShareIsKept'
  BY <1>5, OwnShareStays DEF PInv, PortfolioTypes, OwnShareIsKept
<1>7. MismatchIsPassing'
  <2> SUFFICES ASSUME NEW c \in apart \ overlooked, Mismatched(c)'
               PROVE  \E x \in Cases : x # c /\ StillToCome(x, c)'
    BY DEF MismatchIsPassing
  <2>1. c \in Cases /\ status'[c] = status[c]
    BY DEF PInv, PortfolioTypes, Mismatched
  <2>2. Mismatched(c)
    BY <1>5, <2>1, MismatchWas
  <2>3. PICK x \in Cases : x # c /\ StillToCome(x, c)
    BY <2>2 DEF PInv, MismatchIsPassing
  <2>4. StillToCome(x, c)'
    BY <2>3 DEF StillToCome
  <2> QED
    BY <2>3, <2>4
<1> QED
  BY <1>1, <1>2, <1>3, <1>4, <1>6, <1>7 DEF PInv

-----------------------------------------------------------------------------
(* One lemma per step *)

LEMMA DecideKeeps == ASSUME PInv, NEW c \in Cases, Decide(c) PROVE PInv'
<1>1. PICK s \in {"APPROVED", "REJECTED"} : Moved(c, s)
  BY DEF Decide
<1>2. s \in Statuses /\ s # "AWAITING_APPROVAL" /\ status[c] = "AWAITING_APPROVAL"
  BY DEF Statuses, Decide
<1>3. /\ status' \in [Cases -> Statuses] /\ status'[c] = s
      /\ \A d \in Cases : d # c => status'[d] = status[d]
  BY <1>1, <1>2, MovedStatus DEF PInv
<1>4. UNCHANGED <<version, plan, record, call, apart, overlooked>>
  BY DEF Decide
<1> QED
  BY <1>2, <1>3, <1>4, OthersMove

LEMMA EnterKeeps == ASSUME PInv, NEW c \in Cases, Enter(c) PROVE PInv'
<1>1. /\ "EXECUTING" \in Statuses /\ status[c] \in {"APPROVED", "AUTO_APPROVED"}
      /\ Moved(c, "EXECUTING") /\ UNCHANGED <<version, plan, record, call, apart, overlooked>>
  BY DEF Statuses, Enter
<1>2. /\ status' \in [Cases -> Statuses] /\ status'[c] = "EXECUTING"
      /\ \A d \in Cases : d # c => status'[d] = status[d]
  BY <1>1, MovedStatus DEF PInv
<1> QED
  BY <1>1, <1>2, OthersMove

LEMMA RevalidateKeeps == ASSUME PInv, NEW c \in Cases, Revalidate(c) PROVE PInv'
<1>1. /\ "STALE" \in Statuses /\ status[c] = "EXECUTING"
      /\ UNCHANGED <<version, plan, record, call, apart, overlooked>>
      /\ UNCHANGED status \/ Moved(c, "STALE")
  BY DEF Statuses, Revalidate
<1>2. CASE UNCHANGED status
  BY <1>1, <1>2, OthersMove DEF PInv, PortfolioTypes
<1>3. CASE Moved(c, "STALE")
  <2>1. /\ status' \in [Cases -> Statuses] /\ status'[c] = "STALE"
        /\ \A d \in Cases : d # c => status'[d] = status[d]
    BY <1>1, <1>3, MovedStatus DEF PInv
  <2> QED
    BY <1>1, <2>1, OthersMove
<1> QED
  BY <1>1, <1>2, <1>3

LEMMA ReserveKeeps == ASSUME PInv, NEW c \in Cases, Reserve(c) PROVE PInv'
<1>1. /\ status[c] = "EXECUTING" /\ UNCHANGED <<version, plan, record, call, apart, overlooked>>
      /\ \E s \in {"MONITORING", "FAILED_ROLLED_BACK"} : Moved(c, s)
  BY DEF Reserve
<1>2. PICK s \in {"MONITORING", "FAILED_ROLLED_BACK"} : Moved(c, s)
  BY <1>1
<1>3. s \in Statuses /\ s # "AWAITING_APPROVAL"
  BY DEF Statuses
<1>4. /\ status' \in [Cases -> Statuses] /\ status'[c] = s
      /\ \A d \in Cases : d # c => status'[d] = status[d]
  BY <1>2, <1>3, MovedStatus DEF PInv
<1> QED
  BY <1>1, <1>3, <1>4, OthersMove

LEMMA ConsumeKeeps == ASSUME PInv, Consume PROVE PInv'
<1>1. UNCHANGED <<status, version, plan, record, call, apart, overlooked>>
  BY DEF Consume
<1> QED
  BY <1>1, OthersMove DEF PInv, PortfolioTypes

LEMMA PlanKeeps == ASSUME PInv, NEW c \in Cases, NEW q \in Sizes, Plan(c, q) PROVE PInv'
<1> DEFINE n == version[c] + 1
           p == [size |-> q, by |-> "planner"]
<1>1. /\ status[c] \in {"PLANNING", "ESCALATED", "REJECTED"} /\ call[c].pc = "idle"
      /\ version[c] < MaxPlanned
      /\ version' = [version EXCEPT ![c] = n]
      /\ plan' = [plan EXCEPT ![c] = [plan[c] EXCEPT ![n] = p]]
      /\ Moved(c, "PLAN_PROPOSED") /\ UNCHANGED <<record, call, apart, overlooked>>
  BY DEF Plan
<1>2. n \in 1..MaxVersion /\ version[c] \in 0..MaxVersion /\ q \in Nat
  BY <1>1, Bounds DEF PInv, PortfolioTypes, Sizes
<1>3. p \in Plans
  BY <1>2 DEF Plans, Sizers
<1>4. plan[c] \in [0..MaxVersion -> Plans] /\ plan \in [Cases -> [0..MaxVersion -> Plans]]
  BY DEF PInv, PortfolioTypes
<1>5. /\ [plan[c] EXCEPT ![n] = p] \in [0..MaxVersion -> Plans]
      /\ [plan[c] EXCEPT ![n] = p][n] = p
      /\ \A v \in 0..MaxVersion : v # n => [plan[c] EXCEPT ![n] = p][v] = plan[c][v]
  BY <1>2, <1>3, <1>4, Bounds
<1>6. /\ version' \in [Cases -> 0..MaxVersion] /\ version'[c] = n
      /\ plan' \in [Cases -> [0..MaxVersion -> Plans]] /\ plan'[c] = [plan[c] EXCEPT ![n] = p]
      /\ \A d \in Cases : d # c => version'[d] = version[d] /\ plan'[d] = plan[d]
  <2>1. version' \in [Cases -> 0..MaxVersion] /\ version'[c] = n
    BY <1>1, <1>2, Bounds DEF PInv, PortfolioTypes
  <2>2. plan' \in [Cases -> [0..MaxVersion -> Plans]] /\ plan'[c] = [plan[c] EXCEPT ![n] = p]
    BY <1>1, <1>4, <1>5
  <2>3. \A d \in Cases : d # c => version'[d] = version[d] /\ plan'[d] = plan[d]
    BY <1>1, <1>4 DEF PInv, PortfolioTypes
  <2> QED
    BY <2>1, <2>2, <2>3
<1>7. /\ status' \in [Cases -> Statuses] /\ status'[c] = "PLAN_PROPOSED"
      /\ \A d \in Cases : d # c => status'[d] = status[d]
  BY <1>1, MovedStatus DEF PInv, Statuses
<1>8. PortfolioTypes'
  BY <1>1, <1>6, <1>7 DEF PInv, PortfolioTypes
<1>9. VersionsAreSized'
  <2> SUFFICES ASSUME NEW d \in Cases, NEW v \in 1..MaxVersion
               PROVE  /\ v <= version'[d] => plan'[d][v].by # "none"
                      /\ v > version'[d] => plan'[d][v].by = "none"
                      /\ v > 1 /\ plan'[d][v].by = "optimizer" => plan'[d][v - 1].by = "planner"
    BY DEF VersionsAreSized
  <2>1. CASE d # c
    BY <2>1, <1>6 DEF PInv, VersionsAreSized
  <2>2. CASE d = c
    <3>1. /\ version'[c] = n /\ plan'[c][n].by = "planner"
          /\ \A w \in 0..MaxVersion : w # n => plan'[c][w] = plan[c][w]
      BY <1>5, <1>6
    <3>2. v <= n => plan'[c][v].by # "none"
      <4>1. CASE v = n
        BY <3>1, <4>1
      <4>2. CASE v # n
        BY <3>1, <4>2, <1>2, Bounds DEF PInv, VersionsAreSized
      <4> QED
        BY <4>1, <4>2
    <3>3. v > n => plan'[c][v].by = "none"
      BY <3>1, <1>2, Bounds DEF PInv, VersionsAreSized
    <3>4. v > 1 /\ plan'[c][v].by = "optimizer" => plan'[c][v - 1].by = "planner"
      <4>1. CASE v = n
        BY <3>1, <4>1
      <4>2. CASE v < n
        BY <3>1, <4>2, <1>2, Bounds DEF PInv, VersionsAreSized
      <4>3. CASE v > n
        BY <3>3, <4>3
      <4> QED
        BY <4>1, <4>2, <4>3, <1>2, Bounds
    <3> QED
      BY <2>2, <3>1, <3>2, <3>3, <3>4
  <2> QED
    BY <2>1, <2>2
<1>10. CallHoldsItsCase'
  BY <1>1, <1>7 DEF PInv, CallHoldsItsCase
<1>11. ApartMeansNoOther'
  BY <1>1 DEF PInv, ApartMeansNoOther
<1>12. \A d \in Cases : d # c => Current(d)' = Current(d)
  BY <1>6 DEF Current
<1>13. OwnShareIsKept'
  <2> SUFFICES ASSUME NEW d \in apart \ overlooked PROVE OwnShare(d)'
    BY <1>1 DEF OwnShareIsKept
  <2>1. d \in Cases /\ OwnShare(d)
    BY DEF PInv, PortfolioTypes, OwnShareIsKept
  <2>2. CASE d = c
    BY <2>1, <2>2, <1>1, IdleOwnsNothing
  <2>3. CASE d # c
    BY <2>1, <2>3, <1>1, <1>12, OwnShareStays
  <2> QED
    BY <2>2, <2>3
<1>14. MismatchIsPassing'
  <2> SUFFICES ASSUME NEW d \in apart \ overlooked, Mismatched(d)'
               PROVE  \E x \in Cases : x # d /\ StillToCome(x, d)'
    BY <1>1 DEF MismatchIsPassing
  <2>1. d \in Cases /\ d # c
    BY <1>7 DEF PInv, PortfolioTypes, Mismatched
  <2>2. Mismatched(d)
    BY <1>1, <1>7, <1>12, <2>1, MismatchWas
  <2>3. PICK x \in Cases : x # d /\ StillToCome(x, d)
    BY <2>2 DEF PInv, MismatchIsPassing
  <2>4. x # c
    BY <2>3, <1>1 DEF StillToCome
  <2>5. StillToCome(x, d)'
    BY <1>1, <1>7, <2>1, <2>3, <2>4, StillComes
  <2> QED
    BY <2>3, <2>5
<1> QED
  BY <1>8, <1>9, <1>10, <1>11, <1>13, <1>14 DEF PInv

LEMMA StartKeeps == ASSUME PInv, NEW c \in Cases, Start(c) PROVE PInv'
<1> DEFINE others == {d \in Cases : call[d].pc # "idle"}
<1>1. /\ call[c].pc = "idle" /\ Goto(c, "solve")
      /\ apart' = IF others = {} THEN apart \cup {c} ELSE apart \ (others \cup {c})
      /\ UNCHANGED <<version, plan, record, overlooked>>
      /\ \/ status[c] = "PLAN_PROPOSED" /\ UNCHANGED status
         \/ status[c] = "REALLOCATED" /\ Moved(c, "PLAN_PROPOSED")
  BY DEF Start
<1>2. /\ call' \in [Cases -> Calls] /\ call'[c].pc = "solve"
      /\ \A d \in Cases : d # c => call'[d] = call[d]
  BY <1>1, GotoCall DEF PInv, Steps
<1>3. /\ status' \in [Cases -> Statuses] /\ status'[c] = "PLAN_PROPOSED"
      /\ \A d \in Cases : d # c => status'[d] = status[d]
  <2>1. CASE UNCHANGED status /\ status[c] = "PLAN_PROPOSED"
    BY <2>1 DEF PInv, PortfolioTypes
  <2>2. CASE Moved(c, "PLAN_PROPOSED")
    BY <2>2, MovedStatus DEF PInv, Statuses
  <2> QED
    BY <1>1, <2>1, <2>2
<1>4. apart' \subseteq Cases /\ \A d \in apart' : d # c => d \in apart
  <2>1. CASE others = {}
    BY <1>1, <2>1 DEF PInv, PortfolioTypes
  <2>2. CASE others # {}
    BY <1>1, <2>2 DEF PInv, PortfolioTypes
  <2> QED
    BY <2>1, <2>2
<1>5. PortfolioTypes'
  BY <1>1, <1>2, <1>3, <1>4 DEF PInv, PortfolioTypes
<1>6. VersionsAreSized' /\ \A d \in Cases : Current(d)' = Current(d)
  BY <1>1, PlansStay DEF PInv
<1>7. CallHoldsItsCase'
  BY <1>1, <1>2, <1>3 DEF PInv, CallHoldsItsCase
<1>8. ApartMeansNoOther'
  <2> SUFFICES ASSUME NEW d \in apart', NEW e \in Cases, call'[d].pc # "idle", e # d
               PROVE  call'[e].pc = "idle"
    BY DEF ApartMeansNoOther
  <2>1. CASE others = {}
    BY <2>1, <1>2, <1>4 DEF ApartMeansNoOther
  <2>2. CASE others # {}
    BY <2>2, <1>1, <1>2, <1>4
  <2> QED
    BY <2>1, <2>2
<1>9. OwnShareIsKept'
  <2> SUFFICES ASSUME NEW d \in apart' \ overlooked PROVE OwnShare(d)'
    BY <1>1 DEF OwnShareIsKept
  <2>1. CASE d = c
    BY <2>1, <1>2 DEF OwnShare
  <2>2. CASE d # c
    BY <2>2, <1>1, <1>2, <1>4, <1>6, OwnShareStays DEF PInv, OwnShareIsKept
  <2> QED
    BY <2>1, <2>2
<1>10. MismatchIsPassing'
  <2> SUFFICES ASSUME NEW d \in apart' \ overlooked, Mismatched(d)'
               PROVE  \E x \in Cases : x # d /\ StillToCome(x, d)'
    BY <1>1 DEF MismatchIsPassing
  <2>1. d \in Cases /\ d # c /\ d \in apart
    BY <1>3, <1>4 DEF Mismatched
  <2>2. Mismatched(d)
    BY <1>1, <1>3, <1>6, <2>1, MismatchWas
  <2>3. PICK x \in Cases : x # d /\ StillToCome(x, d)
    BY <2>1, <2>2 DEF PInv, MismatchIsPassing
  <2>4. CASE x = c
    BY <2>1, <2>3, <2>4, <1>1, <1>2 DEF StillToCome
  <2>5. CASE x # c
    BY <1>1, <1>2, <1>3, <2>1, <2>3, <2>5, StillComes
  <2> QED
    BY <2>3, <2>4, <2>5
<1> QED
  BY <1>5, <1>6, <1>7, <1>8, <1>9, <1>10 DEF PInv

\* The solve finds no portfolio, or one that its own case is a member of; every case
\* it leaves out it has overlooked.
LEMMA SolveFinds ==
  ASSUME PInv, NEW c \in Cases, Solve(c)
  PROVE  /\ call[c].pc = "solve" /\ status[c] = "PLAN_PROPOSED"
         /\ UNCHANGED <<status, version, plan, record, apart>>
         /\ call' \in [Cases -> Calls] /\ overlooked' \subseteq Cases
         /\ \A d \in Cases : d # c => call'[d] = call[d]
         /\ \A d \in overlooked : d # c => d \in overlooked'
         /\ \/ overlooked' = Cases /\ call'[c].pc = "check"
            \/ /\ call'[c].pc = "store"
               /\ c \in call'[c].found.members
               /\ call'[c].left = call'[c].found.members
               /\ \A d \in Cases \ overlooked' : d # c => d \in call'[c].found.members
<1>1. call[c].pc = "solve" /\ UNCHANGED <<status, version, plan, record, apart>>
  BY DEF Solve
<1>2. status[c] = "PLAN_PROPOSED"
  BY <1>1 DEF PInv, CallHoldsItsCase
<1>3. /\ call \in [Cases -> Calls] /\ call[c] \in Calls /\ overlooked \subseteq Cases
      /\ NoRecord \in Records
  BY DEF PInv, PortfolioTypes, NoRecord, Records
<1>4. PICK members \in Listings :
        IF c \notin members \/ members = {c}
          THEN /\ call' = [call EXCEPT ![c].pc = "check", ![c].found = NoRecord]
               /\ overlooked' = Cases
          ELSE \E g \in Allocations(members), solved \in {TRUE, ~SolverFails} :
                 /\ call' = [call EXCEPT
                      ![c] = [@ EXCEPT !.pc = "store", !.left = members,
                                !.found = [members |-> members, solved |-> solved, given |-> g]]]
                 /\ overlooked' = (overlooked \cup (Cases \ members)) \ {c}
  BY DEF Solve
<1>5. members \subseteq Cases
  BY DEF Listings
<1>6. CASE c \notin members \/ members = {c}
  <2>1. /\ call' = [call EXCEPT ![c].pc = "check", ![c].found = NoRecord]
        /\ overlooked' = Cases
    BY <1>4, <1>6
  <2> DEFINE new == [call[c] EXCEPT !.pc = "check", !.found = NoRecord]
  <2>2. new \in Calls /\ new.pc = "check"
    BY <1>3 DEF Calls, Steps
  <2>3. call' \in [Cases -> Calls] /\ call'[c] = new /\ \A d \in Cases : d # c => call'[d] = call[d]
    BY <2>1, <2>2, <1>3
  <2>4. call'[c].pc = "check"
    BY <2>2, <2>3
  <2> QED
    BY <1>1, <1>2, <1>3, <2>1, <2>3, <2>4
<1>7. CASE c \in members /\ members # {c}
  <2>1. PICK g \in Allocations(members), solved \in {TRUE, ~SolverFails} :
          /\ call' = [call EXCEPT
               ![c] = [@ EXCEPT !.pc = "store", !.left = members,
                         !.found = [members |-> members, solved |-> solved, given |-> g]]]
          /\ overlooked' = (overlooked \cup (Cases \ members)) \ {c}
    BY <1>4, <1>7
  <2> DEFINE found == [members |-> members, solved |-> solved, given |-> g]
             new == [call[c] EXCEPT !.pc = "store", !.left = members, !.found = found]
  <2>2. g \in [Cases -> Nat]
    BY Bounds DEF Allocations
  <2>3. solved \in BOOLEAN
    BY BoundsAreNumbers
  <2>4. found \in Records /\ found.members = members
    BY <1>5, <2>2, <2>3 DEF Records
  <2>5. new \in Calls /\ new.pc = "store" /\ new.left = members /\ new.found = found
    BY <1>5, <2>4, <1>3 DEF Calls, Steps
  <2>6. call' \in [Cases -> Calls] /\ call'[c] = new /\ \A d \in Cases : d # c => call'[d] = call[d]
    BY <2>1, <2>5, <1>3
  <2>7. /\ call'[c].pc = "store" /\ call'[c].left = members
        /\ call'[c].found.members = members
    BY <2>4, <2>5, <2>6
  <2>8. /\ overlooked' \subseteq Cases
        /\ \A d \in overlooked : d # c => d \in overlooked'
        /\ \A d \in Cases \ overlooked' : d # c => d \in members
    BY <2>1, <1>3
  <2> QED
    BY <1>1, <1>2, <1>7, <2>6, <2>7, <2>8
<1> QED
  BY <1>6, <1>7

LEMMA SolveKeeps == ASSUME PInv, NEW c \in Cases, Solve(c) PROVE PInv'
<1>1. /\ call[c].pc = "solve" /\ status[c] = "PLAN_PROPOSED"
      /\ UNCHANGED <<status, version, plan, record, apart>>
      /\ call' \in [Cases -> Calls] /\ overlooked' \subseteq Cases
      /\ \A d \in Cases : d # c => call'[d] = call[d]
  BY SolveFinds
<1>2. \A d \in overlooked : d # c => d \in overlooked'
  BY SolveFinds
<1>3. \/ overlooked' = Cases /\ call'[c].pc = "check"
      \/ /\ call'[c].pc = "store"
         /\ c \in call'[c].found.members
         /\ call'[c].left = call'[c].found.members
         /\ \A d \in Cases \ overlooked' : d # c => d \in call'[c].found.members
  BY SolveFinds
<1>4. PortfolioTypes'
  BY <1>1 DEF PInv, PortfolioTypes
<1>5. VersionsAreSized' /\ \A d \in Cases : Current(d)' = Current(d)
  BY <1>1, PlansStay DEF PInv
<1>6. CallHoldsItsCase'
  <2> SUFFICES ASSUME NEW d \in Cases
               PROVE  /\ call'[d].pc \in {"solve", "store", "size", "members", "check"}
                           => status[d] = "PLAN_PROPOSED"
                      /\ call'[d].pc = "settle" => status[d] = "VERIFIED" /\ call'[d].tier # 0
                      /\ call'[d].pc \in {"store", "size", "members"}
                           => d \in call'[d].found.members
                      /\ call'[d].pc = "store" => call'[d].left \subseteq call'[d].found.members
                      /\ call'[d].pc = "check" => d \in overlooked'
    BY <1>1 DEF CallHoldsItsCase
  <2>1. CASE d = c
    BY <2>1, <1>1, <1>3
  <2>2. CASE d # c
    BY <2>2, <1>1, <1>2 DEF PInv, CallHoldsItsCase
  <2> QED
    BY <2>1, <2>2
<1>7. ApartMeansNoOther'
  BY <1>1 DEF PInv, PortfolioTypes, ApartMeansNoOther
<1>8. OwnShareIsKept'
  <2> SUFFICES ASSUME NEW d \in apart \ overlooked' PROVE OwnShare(d)'
    BY <1>1 DEF OwnShareIsKept
  <2>1. d \in Cases
    BY DEF PInv, PortfolioTypes
  <2>2. CASE d = c
    BY <2>1, <2>2, <1>3 DEF OwnShare
  <2>3. CASE d # c
    BY <2>1, <2>3, <1>1, <1>2, <1>5, OwnShareStays DEF PInv, OwnShareIsKept
  <2> QED
    BY <2>2, <2>3
<1>9. MismatchIsPassing'
  <2> SUFFICES ASSUME NEW d \in apart \ overlooked', Mismatched(d)'
               PROVE  \E x \in Cases : x # d /\ StillToCome(x, d)'
    BY <1>1 DEF MismatchIsPassing
  <2>1. d \in Cases /\ d # c /\ d \notin overlooked /\ status[d] = "AWAITING_APPROVAL"
    BY <1>1, <1>2 DEF PInv, PortfolioTypes, Mismatched
  <2>2. Mismatched(d)
    BY <1>1, <1>5, <2>1, MismatchWas
  <2>3. PICK x \in Cases : x # d /\ StillToCome(x, d)
    BY <2>1, <2>2 DEF PInv, MismatchIsPassing
  <2>4. CASE x = c
    <3>1. call'[c].pc = "store" /\ d \in call'[c].left
      BY <2>1, <1>3
    <3> QED
      BY <2>4, <2>1, <3>1 DEF StillToCome
  <2>5. CASE x # c
    BY <1>1, <2>1, <2>3, <2>5, StillComes
  <2> QED
    BY <2>3, <2>4, <2>5
<1> QED
  BY <1>4, <1>5, <1>6, <1>7, <1>8, <1>9 DEF PInv

LEMMA StorePortfolioKeeps ==
  ASSUME PInv, NEW c \in Cases, NEW d \in Cases, StorePortfolio(c, d) PROVE PInv'
<1> DEFINE next == IF call[c].left = {d} THEN "size" ELSE "store"
           new == [call[c] EXCEPT !.left = call[c].left \ {d}, !.pc = next]
<1>1. /\ call[c].pc = "store" /\ d \in call[c].left
      /\ record' = [record EXCEPT ![d] = call[c].found]
      /\ call' = [call EXCEPT ![c].left = @ \ {d}, ![c].pc = next]
      /\ UNCHANGED <<status, version, plan, apart, overlooked>>
  BY DEF StorePortfolio, First
<1>2. call \in [Cases -> Calls] /\ call[c] \in Calls /\ record \in [Cases -> Records]
  BY DEF PInv, PortfolioTypes
<1>3. new \in Calls /\ new.pc = next /\ new.left = call[c].left \ {d} /\ new.found = call[c].found
  BY <1>2 DEF Calls, Steps
<1>4. call' \in [Cases -> Calls] /\ call'[c] = new /\ \A e \in Cases : e # c => call'[e] = call[e]
  BY <1>1, <1>2, <1>3
<1>5. /\ call'[c].pc = next /\ call'[c].left = call[c].left \ {d}
      /\ call'[c].found = call[c].found
  BY <1>3, <1>4
<1>6. /\ record' \in [Cases -> Records] /\ record'[d] = call[c].found
      /\ \A e \in Cases : e # d => record'[e] = record[e]
  BY <1>1, <1>2 DEF Calls
<1>7. /\ status[c] = "PLAN_PROPOSED" /\ c \in call[c].found.members
      /\ call[c].left \subseteq call[c].found.members
  BY <1>1 DEF PInv, CallHoldsItsCase
<1>8. PortfolioTypes'
  BY <1>1, <1>4, <1>6 DEF PInv, PortfolioTypes
<1>9. VersionsAreSized' /\ \A e \in Cases : Current(e)' = Current(e)
  BY <1>1, PlansStay DEF PInv
<1>10. CallHoldsItsCase'
  <2> SUFFICES ASSUME NEW e \in Cases
               PROVE  /\ call'[e].pc \in {"solve", "store", "size", "members", "check"}
                           => status[e] = "PLAN_PROPOSED"
                      /\ call'[e].pc = "settle" => status[e] = "VERIFIED" /\ call'[e].tier # 0
                      /\ call'[e].pc \in {"store", "size", "members"}
                           => e \in call'[e].found.members
                      /\ call'[e].pc = "store" => call'[e].left \subseteq call'[e].found.members
                      /\ call'[e].pc = "check" => e \in overlooked
    BY <1>1 DEF CallHoldsItsCase
  <2>1. CASE e = c
    BY <2>1, <1>5, <1>7
  <2>2. CASE e # c
    BY <2>2, <1>4 DEF PInv, CallHoldsItsCase
  <2> QED
    BY <2>1, <2>2
<1>11. ApartMeansNoOther'
  BY <1>1, <1>4, <1>5 DEF PInv, PortfolioTypes, ApartMeansNoOther
<1>12. OwnShareIsKept'
  <2> SUFFICES ASSUME NEW e \in apart \ overlooked PROVE OwnShare(e)'
    BY <1>1 DEF OwnShareIsKept
  <2>1. e \in Cases
    BY DEF PInv, PortfolioTypes
  <2>2. CASE e = c
    <3>1. c \in call[c].left \/ record[c] = call[c].found
      BY <2>2, <1>1 DEF PInv, OwnShareIsKept, OwnShare
    <3>2. c \in call'[c].left \/ record'[c] = call'[c].found
      BY <3>1, <1>5, <1>6
    <3>3. next = "size" => record'[c] = call'[c].found
      BY <3>2, <1>5
    <3> QED
      BY <2>2, <3>2, <3>3, <1>5 DEF OwnShare
  <2>3. CASE e # c
    <3>1. call[e].pc = "idle"
      BY <2>1, <2>3, <1>1 DEF PInv, ApartMeansNoOther
    <3> QED
      BY <2>1, <2>3, <3>1, <1>4, IdleOwnsNothing
  <2> QED
    BY <2>2, <2>3
<1>13. MismatchIsPassing'
  <2> SUFFICES ASSUME NEW e \in apart \ overlooked, Mismatched(e)'
               PROVE  \E x \in Cases : x # e /\ StillToCome(x, e)'
    BY <1>1 DEF MismatchIsPassing
  <2>1. e \in Cases /\ e # c
    BY <1>1, <1>7 DEF PInv, PortfolioTypes, Mismatched
  <2>2. CASE e = d
    <3>1. call'[c].pc \in {"store", "size"} /\ e \in call'[c].found.members
      BY <2>2, <1>1, <1>5, <1>7
    <3>2. call'[c].found = record'[e]
      BY <2>2, <1>5, <1>6
    <3> QED
      BY <2>1, <3>1, <3>2 DEF StillToCome
  <2>3. CASE e # d
    <3>1. Mismatched(e)
      BY <1>1, <1>6, <1>9, <2>1, <2>3, MismatchWas
    <3>2. PICK x \in Cases : x # e /\ StillToCome(x, e)
      BY <3>1 DEF PInv, MismatchIsPassing
    <3>3. CASE x # c
      BY <1>1, <1>4, <1>6, <2>1, <2>3, <3>2, <3>3, StillComes
    <3>4. CASE x = c
      <4>1. \/ e \in call[c].left
            \/ e \in call[c].found.members /\ call[c].found = record[e]
        BY <3>2, <3>4, <1>1 DEF StillToCome
      <4>2. CASE e \in call[c].left
        <5>1. next = "store" /\ e \in call'[c].left
          BY <4>2, <2>3, <1>5
        <5> QED
          BY <5>1, <1>5, <3>4, <3>2 DEF StillToCome
      <4>3. CASE e \in call[c].found.members /\ call[c].found = record[e]
        BY <4>3, <1>5, <1>6, <2>1, <2>3, <3>4, <3>2 DEF StillToCome
      <4> QED
        BY <4>1, <4>2, <4>3
    <3> QED
      BY <3>3, <3>4
  <2> QED
    BY <2>2, <2>3
<1> QED
  BY <1>8, <1>9, <1>10, <1>11, <1>12, <1>13 DEF PInv

\* The call of a verification that ends: the case waits for the next event.
LEMMA EndedCall ==
  ASSUME PortfolioTypes, NEW c \in Cases, call' = [call EXCEPT ![c] = Idle]
  PROVE  /\ call' \in [Cases -> Calls] /\ call'[c].pc = "idle"
         /\ \A d \in Cases : d # c => call'[d] = call[d]
<1>1. Idle \in Calls /\ Idle.pc = "idle"
  BY DEF Idle, Calls, Steps, NoRecord, Records
<1> QED
  BY <1>1 DEF PortfolioTypes

\* When a call ends, the others hold their cases as before.
LEMMA EndedCallHolds ==
  ASSUME PInv, NEW c \in Cases, call'[c].pc = "idle", UNCHANGED <<status, overlooked>>,
         \A d \in Cases : d # c => call'[d] = call[d]
  PROVE  CallHoldsItsCase'
<1> SUFFICES ASSUME NEW d \in Cases
             PROVE  /\ call'[d].pc \in {"solve", "store", "size", "members", "check"}
                         => status[d] = "PLAN_PROPOSED"
                    /\ call'[d].pc = "settle" => status[d] = "VERIFIED" /\ call'[d].tier # 0
                    /\ call'[d].pc \in {"store", "size", "members"}
                         => d \in call'[d].found.members
                    /\ call'[d].pc = "store" => call'[d].left \subseteq call'[d].found.members
                    /\ call'[d].pc = "check" => d \in overlooked
  BY DEF CallHoldsItsCase
<1>1. CASE d = c
  BY <1>1
<1>2. CASE d # c
  BY <1>2 DEF PInv, CallHoldsItsCase
<1> QED
  BY <1>1, <1>2

LEMMA ProposeResizedKeeps == ASSUME PInv, NEW c \in Cases, ProposeResized(c) PROVE PInv'
<1> DEFINE q == call[c].found.given[c]
<1>1. /\ call[c].pc = "size" /\ Resizes(c) /\ call' = [call EXCEPT ![c] = Idle]
      /\ UNCHANGED <<status, record, apart, overlooked>>
      /\ \/ version[c] < MaxVersion /\ Sized(c, q)
         \/ UNCHANGED <<version, plan>>
  BY DEF ProposeResized
<1>2. /\ call' \in [Cases -> Calls] /\ call'[c].pc = "idle"
      /\ \A d \in Cases : d # c => call'[d] = call[d]
  BY <1>1, EndedCall DEF PInv
<1>3. status[c] = "PLAN_PROPOSED" /\ q \in Nat /\ MayResize(c)
  BY <1>1 DEF PInv, CallHoldsItsCase, PortfolioTypes, Calls, Records, Resizes
<1>4. /\ version' \in [Cases -> 0..MaxVersion] /\ plan' \in [Cases -> [0..MaxVersion -> Plans]]
      /\ VersionsAreSized' /\ \A d \in Cases : d # c => Current(d)' = Current(d)
  <2>1. CASE version[c] < MaxVersion /\ Sized(c, q)
    <3>1. /\ version' \in [Cases -> 0..MaxVersion]
          /\ plan' \in [Cases -> [0..MaxVersion -> Plans]]
          /\ \A d \in Cases : d # c => version'[d] = version[d] /\ plan'[d] = plan[d]
      BY <2>1, <1>3, SizedTypes DEF PInv
    <3>2. VersionsAreSized'
      BY <2>1, <1>3, SizedVersions DEF PInv
    <3> QED
      BY <3>1, <3>2 DEF Current
  <2>2. CASE UNCHANGED <<version, plan>>
    BY <2>2, PlansStay DEF PInv, PortfolioTypes
  <2> QED
    BY <1>1, <2>1, <2>2
<1>5. PortfolioTypes'
  BY <1>1, <1>2, <1>4 DEF PInv, PortfolioTypes
<1>6. CallHoldsItsCase'
  BY <1>1, <1>2, EndedCallHolds
<1>7. ApartMeansNoOther'
  BY <1>1, <1>2 DEF PInv, PortfolioTypes, ApartMeansNoOther
<1>8. OwnShareIsKept'
  <2> SUFFICES ASSUME NEW d \in apart \ overlooked PROVE OwnShare(d)'
    BY <1>1 DEF OwnShareIsKept
  <2>1. d \in Cases
    BY DEF PInv, PortfolioTypes
  <2>2. CASE d = c
    BY <2>2, <1>2, IdleOwnsNothing
  <2>3. CASE d # c
    BY <2>1, <2>3, <1>1, <1>2, <1>4, OwnShareStays DEF PInv, OwnShareIsKept
  <2> QED
    BY <2>2, <2>3
<1>9. MismatchIsPassing'
  <2> SUFFICES ASSUME NEW d \in apart \ overlooked, Mismatched(d)'
               PROVE  \E x \in Cases : x # d /\ StillToCome(x, d)'
    BY <1>1 DEF MismatchIsPassing
  <2>1. d \in Cases /\ d # c
    BY <1>1, <1>3 DEF PInv, PortfolioTypes, Mismatched
  <2>2. Mismatched(d)
    BY <1>1, <1>4, <2>1, MismatchWas
  <2>3. PICK x \in Cases : x # d /\ StillToCome(x, d)
    BY <2>2 DEF PInv, MismatchIsPassing
  <2>4. CASE x = c
    BY <2>1, <2>4, <1>1, <1>2, <1>3 DEF StillToCome
  <2>5. CASE x # c
    BY <1>1, <1>2, <2>1, <2>3, <2>5, StillComes
  <2> QED
    BY <2>3, <2>4, <2>5
<1> QED
  BY <1>4, <1>5, <1>6, <1>7, <1>8, <1>9 DEF PInv

LEMMA KeepSizeKeeps == ASSUME PInv, NEW c \in Cases, KeepSize(c) PROVE PInv'
<1> DEFINE rest == IF call[c].found.solved THEN call[c].found.members \ {c} ELSE {}
           new == [call[c] EXCEPT !.pc = "members", !.left = rest]
<1>1. /\ call[c].pc = "size" /\ ~Resizes(c)
      /\ call' = [call EXCEPT ![c].pc = "members", ![c].left = rest]
      /\ UNCHANGED <<status, version, plan, record, apart, overlooked>>
  BY DEF KeepSize
<1>2. call \in [Cases -> Calls] /\ call[c] \in Calls
  BY DEF PInv, PortfolioTypes
<1>3. new \in Calls /\ new.pc = "members" /\ new.left = rest /\ new.found = call[c].found
  BY <1>2 DEF Calls, Steps, Records
<1>4. call' \in [Cases -> Calls] /\ call'[c] = new /\ \A d \in Cases : d # c => call'[d] = call[d]
  BY <1>1, <1>2, <1>3
<1>5. call'[c].pc = "members" /\ call'[c].left = rest /\ call'[c].found = call[c].found
  BY <1>3, <1>4
<1>6. status[c] = "PLAN_PROPOSED" /\ c \in call[c].found.members
  BY <1>1 DEF PInv, CallHoldsItsCase
<1>7. PortfolioTypes'
  BY <1>1, <1>4 DEF PInv, PortfolioTypes
<1>8. VersionsAreSized' /\ \A d \in Cases : Current(d)' = Current(d)
  BY <1>1, PlansStay DEF PInv
<1>9. CallHoldsItsCase'
  <2> SUFFICES ASSUME NEW d \in Cases
               PROVE  /\ call'[d].pc \in {"solve", "store", "size", "members", "check"}
                           => status[d] = "PLAN_PROPOSED"
                      /\ call'[d].pc = "settle" => status[d] = "VERIFIED" /\ call'[d].tier # 0
                      /\ call'[d].pc \in {"store", "size", "members"}
                           => d \in call'[d].found.members
                      /\ call'[d].pc = "store" => call'[d].left \subseteq call'[d].found.members
                      /\ call'[d].pc = "check" => d \in overlooked
    BY <1>1 DEF CallHoldsItsCase
  <2>1. CASE d = c
    BY <2>1, <1>5, <1>6
  <2>2. CASE d # c
    BY <2>2, <1>4 DEF PInv, CallHoldsItsCase
  <2> QED
    BY <2>1, <2>2
<1>10. ApartMeansNoOther'
  BY <1>1, <1>4, <1>5 DEF PInv, PortfolioTypes, ApartMeansNoOther
<1>11. OwnShareIsKept'
  <2> SUFFICES ASSUME NEW d \in apart \ overlooked PROVE OwnShare(d)'
    BY <1>1 DEF OwnShareIsKept
  <2>1. d \in Cases /\ OwnShare(d)
    BY DEF PInv, PortfolioTypes, OwnShareIsKept
  <2>2. CASE d = c
    <3>1. record[c] = call[c].found
      BY <2>1, <2>2, <1>1 DEF OwnShare
    <3>2. Resizes(c)' = Resizes(c)
      BY <1>5, <1>8 DEF Resizes, MayResize, Conforms
    <3> QED
      BY <2>2, <3>1, <3>2, <1>1, <1>5 DEF OwnShare
  <2>3. CASE d # c
    BY <2>1, <2>3, <1>1, <1>4, <1>8, OwnShareStays
  <2> QED
    BY <2>2, <2>3
<1>12. MismatchIsPassing'
  <2> SUFFICES ASSUME NEW d \in apart \ overlooked, Mismatched(d)'
               PROVE  \E x \in Cases : x # d /\ StillToCome(x, d)'
    BY <1>1 DEF MismatchIsPassing
  <2>1. d \in Cases /\ d # c
    BY <1>1, <1>6 DEF PInv, PortfolioTypes, Mismatched
  <2>2. Mismatched(d)
    BY <1>1, <1>8, <2>1, MismatchWas
  <2>3. PICK x \in Cases : x # d /\ StillToCome(x, d)
    BY <2>2 DEF PInv, MismatchIsPassing
  <2>4. CASE x = c
    <3>1. d \in call[c].found.members /\ call[c].found = record[d]
      BY <2>3, <2>4, <1>1 DEF StillToCome
    <3>2. record[d].solved
      BY <2>2 DEF Mismatched
    <3>3. d \in rest
      BY <2>1, <3>1, <3>2
    <3> QED
      BY <2>3, <2>4, <3>1, <3>3, <1>1, <1>5 DEF StillToCome
  <2>5. CASE x # c
    BY <1>1, <1>4, <2>1, <2>3, <2>5, StillComes
  <2> QED
    BY <2>3, <2>4, <2>5
<1> QED
  BY <1>7, <1>8, <1>9, <1>10, <1>11, <1>12 DEF PInv

\* What a verification may do to one other member of its portfolio: nothing,
\* escalate it, give it up with the rest, or size it anew.
LEMMA ReproposeCases ==
  ASSUME PInv, NEW c \in Cases, NEW d \in Cases, Repropose(c, d)
  PROVE  /\ call[c].pc = "members" /\ d \in call[c].left
         /\ UNCHANGED <<record, apart, overlooked>>
         /\ call' \in [Cases -> Calls]
         /\ \A e \in Cases : e # c => call'[e] = call[e]
         /\ \/ call'[c].pc = "idle"
            \/ /\ call'[c].pc = "members" /\ call'[c].found = call[c].found
               /\ call'[c].left = call[c].left \ {d}
         /\ \/ /\ UNCHANGED <<status, version, plan>>
               /\ \/ ~Undecided(d) \/ ~MayResize(d) \/ Conforms(d, call[c].found.given)
                  \/ call'[c].pc = "idle"
            \/ Undecided(d) /\ Moved(d, "ESCALATED") /\ UNCHANGED <<version, plan>>
            \/ /\ Undecided(d) /\ MayResize(d) /\ version[d] < MaxVersion
               /\ Moved(d, "REALLOCATED") /\ Sized(d, call[c].found.given[d])
<1> DEFINE given == call[c].found.given[d]
           differs == Undecided(d) /\ MayResize(d) /\ ~Conforms(d, call[c].found.given)
           minus == [call[c] EXCEPT !.left = call[c].left \ {d}]
<1>1. /\ call[c].pc = "members" /\ d \in call[c].left /\ UNCHANGED <<record, apart, overlooked>>
      /\ call' = [call EXCEPT ![c] = IF differs /\ given > Free THEN Idle ELSE minus]
  <2>1. call[c].pc = "members" /\ d \in call[c].left /\ UNCHANGED <<record, apart, overlooked>>
    BY DEF Repropose, First
  <2>2. CASE differs /\ given > Free
    <3>1. call' = [call EXCEPT ![c] = Idle]
      BY <2>2 DEF Repropose
    <3> QED
      BY <2>1, <2>2, <3>1
  <2>3. CASE ~(differs /\ given > Free)
    <3>1. call' = [call EXCEPT ![c] = minus]
      BY <2>3 DEF Repropose
    <3> QED
      BY <2>1, <2>3, <3>1
  <2> QED
    BY <2>2, <2>3
<1>2. call \in [Cases -> Calls] /\ call[c] \in Calls
  BY DEF PInv, PortfolioTypes
<1>3. /\ minus \in Calls /\ minus.pc = "members" /\ minus.found = call[c].found
      /\ minus.left = call[c].left \ {d}
  BY <1>1, <1>2 DEF Calls
<1>4. Idle \in Calls /\ Idle.pc = "idle"
  BY DEF Idle, Calls, Steps, NoRecord, Records
<1>5. /\ call' \in [Cases -> Calls] /\ call'[c] = IF differs /\ given > Free THEN Idle ELSE minus
      /\ \A e \in Cases : e # c => call'[e] = call[e]
  BY <1>1, <1>2, <1>3, <1>4
<1>6. \/ call'[c].pc = "idle"
      \/ /\ call'[c].pc = "members" /\ call'[c].found = call[c].found
         /\ call'[c].left = call[c].left \ {d}
  BY <1>3, <1>4, <1>5
<1>7. CASE ~differs
  <2>1. UNCHANGED <<status, version, plan>>
    BY <1>7 DEF Repropose
  <2> QED
    BY <1>1, <1>5, <1>6, <1>7, <2>1
<1>8. CASE differs /\ given = 0
  <2>1. Moved(d, "ESCALATED") /\ UNCHANGED <<version, plan>>
    BY <1>8 DEF Repropose
  <2> QED
    BY <1>1, <1>5, <1>6, <1>8, <2>1
<1>9. CASE differs /\ given # 0 /\ given > Free
  <2>1. UNCHANGED <<status, version, plan>>
    BY <1>9 DEF Repropose
  <2>2. call'[c].pc = "idle"
    BY <1>9, <1>4, <1>5
  <2> QED
    BY <1>1, <1>5, <1>6, <2>1, <2>2
<1>10. CASE differs /\ given # 0 /\ ~(given > Free)
  <2>1. version[d] < MaxVersion /\ Moved(d, "REALLOCATED") /\ Sized(d, given)
    BY <1>10 DEF Repropose
  <2> QED
    BY <1>1, <1>5, <1>6, <1>10, <2>1
<1> QED
  BY <1>7, <1>8, <1>9, <1>10

LEMMA ReproposeKeeps ==
  ASSUME PInv, NEW c \in Cases, NEW d \in Cases, Repropose(c, d) PROVE PInv'
<1>1. /\ call[c].pc = "members" /\ d \in call[c].left
      /\ UNCHANGED <<record, apart, overlooked>>
      /\ call' \in [Cases -> Calls]
      /\ \A e \in Cases : e # c => call'[e] = call[e]
  BY ReproposeCases
<1>2. \/ call'[c].pc = "idle"
      \/ /\ call'[c].pc = "members" /\ call'[c].found = call[c].found
         /\ call'[c].left = call[c].left \ {d}
  BY ReproposeCases
<1>3. \/ /\ UNCHANGED <<status, version, plan>>
         /\ \/ ~Undecided(d) \/ ~MayResize(d) \/ Conforms(d, call[c].found.given)
            \/ call'[c].pc = "idle"
      \/ Undecided(d) /\ Moved(d, "ESCALATED") /\ UNCHANGED <<version, plan>>
      \/ /\ Undecided(d) /\ MayResize(d) /\ version[d] < MaxVersion
         /\ Moved(d, "REALLOCATED") /\ Sized(d, call[c].found.given[d])
  BY ReproposeCases
<1>4. /\ status[c] = "PLAN_PROPOSED" /\ c \in call[c].found.members
  BY <1>1 DEF PInv, CallHoldsItsCase
<1>5. status' \in [Cases -> Statuses] /\ \A e \in Cases : e # d => status'[e] = status[e]
  <2>1. "ESCALATED" \in Statuses /\ "REALLOCATED" \in Statuses
    BY DEF Statuses
  <2> QED
    BY <1>3, <2>1, MovedStatus DEF PInv, PortfolioTypes
<1>6. status'[d] # status[d] => /\ status[d] = "AWAITING_APPROVAL" /\ call[d].pc = "idle" /\ d # c
                                /\ status'[d] # "AWAITING_APPROVAL"
  <2> SUFFICES ASSUME status'[d] # status[d]
               PROVE  /\ status[d] = "AWAITING_APPROVAL" /\ call[d].pc = "idle" /\ d # c
                      /\ status'[d] # "AWAITING_APPROVAL"
    OBVIOUS
  <2>1. /\ status[d] = "AWAITING_APPROVAL"
        /\ status'[d] \in {"ESCALATED", "REALLOCATED"}
    BY <1>3, MovedStatus DEF PInv, Undecided, Statuses
  <2>2. call[d].pc \in Steps
    BY DEF PInv, PortfolioTypes, Calls
  <2>3. call[d].pc = "idle"
    BY <2>1, <2>2 DEF PInv, CallHoldsItsCase, Steps
  <2> QED
    BY <2>1, <2>3, <1>1
<1>7. /\ version' \in [Cases -> 0..MaxVersion] /\ plan' \in [Cases -> [0..MaxVersion -> Plans]]
      /\ VersionsAreSized' /\ \A e \in Cases : e # d => Current(e)' = Current(e)
  <2>1. CASE UNCHANGED <<version, plan>>
    BY <2>1, PlansStay DEF PInv, PortfolioTypes
  <2>2. CASE MayResize(d) /\ version[d] < MaxVersion /\ Sized(d, call[c].found.given[d])
    <3>1. call[c].found.given[d] \in Nat
      BY DEF PInv, PortfolioTypes, Calls, Records
    <3>2. /\ version' \in [Cases -> 0..MaxVersion]
          /\ plan' \in [Cases -> [0..MaxVersion -> Plans]]
          /\ \A e \in Cases : e # d => version'[e] = version[e] /\ plan'[e] = plan[e]
      BY <2>2, <3>1, SizedTypes DEF PInv
    <3>3. VersionsAreSized'
      BY <2>2, <3>1, SizedVersions DEF PInv
    <3> QED
      BY <3>2, <3>3 DEF Current
  <2> QED
    BY <1>3, <2>1, <2>2
<1>8. \A e \in Cases : Current(e)' = Current(e) \/ status'[e] # status[e]
  <2>1. CASE UNCHANGED <<version, plan>>
    BY <2>1, PlansStay
  <2>2. CASE Undecided(d) /\ Moved(d, "REALLOCATED")
    <3>1. status'[d] # status[d]
      BY <2>2, MovedStatus DEF PInv, Statuses, Undecided
    <3> QED
      BY <3>1, <1>7
  <2> QED
    BY <1>3, <2>1, <2>2
<1>9. PortfolioTypes'
  BY <1>1, <1>5, <1>7 DEF PInv, PortfolioTypes
<1>10. CallHoldsItsCase'
  <2> SUFFICES ASSUME NEW e \in Cases
               PROVE  /\ call'[e].pc \in {"solve", "store", "size", "members", "check"}
                           => status'[e] = "PLAN_PROPOSED"
                      /\ call'[e].pc = "settle" => status'[e] = "VERIFIED" /\ call'[e].tier # 0
                      /\ call'[e].pc \in {"store", "size", "members"}
                           => e \in call'[e].found.members
                      /\ call'[e].pc = "store" => call'[e].left \subseteq call'[e].found.members
                      /\ call'[e].pc = "check" => e \in overlooked
    BY <1>1 DEF CallHoldsItsCase
  <2>1. CASE e = c
    BY <2>1, <1>2, <1>4, <1>5, <1>6
  <2>2. CASE e # c /\ status'[e] = status[e]
    BY <2>2, <1>1 DEF PInv, CallHoldsItsCase
  <2>3. CASE e # c /\ status'[e] # status[e]
    BY <2>3, <1>1, <1>5, <1>6
  <2> QED
    BY <2>1, <2>2, <2>3
<1>11. ApartMeansNoOther'
  BY <1>1, <1>2 DEF PInv, PortfolioTypes, ApartMeansNoOther
<1>12. OwnShareIsKept'
  <2> SUFFICES ASSUME NEW e \in apart \ overlooked PROVE OwnShare(e)'
    BY <1>1 DEF OwnShareIsKept
  <2>1. e \in Cases /\ OwnShare(e)
    BY DEF PInv, PortfolioTypes, OwnShareIsKept
  <2>2. CASE e = c /\ call'[c].pc = "idle"
    BY <2>1, <2>2, IdleOwnsNothing
  <2>3. CASE e = c /\ call'[c].pc # "idle"
    <3>1. /\ call'[c].pc = "members" /\ call'[c].found = call[c].found
          /\ Current(c)' = Current(c)
      BY <2>3, <1>2, <1>5, <1>6, <1>8
    <3>2. record[c] = call[c].found /\ ~Resizes(c)
      BY <2>1, <2>3, <1>1 DEF OwnShare
    <3>3. Resizes(c)' = Resizes(c)
      BY <3>1 DEF Resizes, MayResize, Conforms
    <3> QED
      BY <2>3, <3>1, <3>2, <3>3, <1>1 DEF OwnShare
  <2>4. CASE e # c
    <3>1. call[e].pc = "idle"
      BY <2>1, <2>4, <1>1 DEF PInv, ApartMeansNoOther
    <3> QED
      BY <2>1, <2>4, <3>1, <1>1, IdleOwnsNothing
  <2> QED
    BY <2>2, <2>3, <2>4
<1>13. MismatchIsPassing'
  <2> SUFFICES ASSUME NEW e \in apart \ overlooked, Mismatched(e)'
               PROVE  \E x \in Cases : x # e /\ StillToCome(x, e)'
    BY <1>1 DEF MismatchIsPassing
  <2>1. e \in Cases /\ e # c /\ status'[e] = status[e] /\ status[e] = "AWAITING_APPROVAL"
    <3>1. e \in Cases /\ status'[e] = "AWAITING_APPROVAL"
      BY DEF PInv, PortfolioTypes, Mismatched
    <3> QED
      BY <3>1, <1>4, <1>5, <1>6
  <2>2. Current(e)' = Current(e)
    BY <2>1, <1>8
  <2>3. Mismatched(e)
    BY <1>1, <2>1, <2>2, MismatchWas
  <2>4. PICK x \in Cases : x # e /\ StillToCome(x, e)
    BY <2>3 DEF PInv, MismatchIsPassing
  <2>5. CASE x # c
    <3>1. status'[x] = status[x]
      BY <2>4, <2>5, <1>5, <1>6 DEF StillToCome
    <3> QED
      BY <1>1, <2>1, <2>4, <2>5, <3>1, StillComes
  <2>6. CASE x = c
    <3>1. e \in call[c].left /\ call[c].found = record[e]
      BY <2>4, <2>6, <1>1 DEF StillToCome
    <3>2. status'[c] = "PLAN_PROPOSED"
      BY <1>4, <1>5, <1>6
    <3>3. CASE call'[c].pc = "idle"
      BY <2>4, <2>6, <3>2, <3>3 DEF StillToCome
    <3>4. CASE call'[c].pc # "idle" /\ e # d
      BY <2>4, <2>6, <3>1, <3>4, <1>1, <1>2 DEF StillToCome
    <3>5. CASE call'[c].pc # "idle" /\ e = d
      <4>1. Undecided(d) /\ MayResize(d) /\ ~Conforms(d, call[c].found.given)
        BY <2>1, <2>3, <3>1, <3>5 DEF Undecided, MayResize, Conforms, Mismatched, Fits
      <4>2. UNCHANGED <<status, version, plan>>
        BY <2>1, <3>5, <1>3, MovedStatus DEF PInv, Statuses
      <4>3. FALSE
        BY <4>1, <3>5, <2>1, <1>3, MovedStatus DEF PInv, Statuses
      <4> QED
        BY <4>3
    <3> QED
      BY <3>3, <3>4, <3>5
  <2> QED
    BY <2>5, <2>6
<1> QED
  BY <1>7, <1>9, <1>10, <1>11, <1>12, <1>13 DEF PInv

LEMMA CheckKeeps == ASSUME PInv, NEW c \in Cases, Check(c) PROVE PInv'
<1>1. /\ call[c].pc \in {"members", "check"} /\ status[c] = "PLAN_PROPOSED"
      /\ call[c].pc = "members" => call[c].left = {}
      /\ Moved(c, "VERIFIED")
      /\ UNCHANGED <<version, plan, record, apart, overlooked>>
  BY DEF Check
<1>2. PICK tier \in IF DonorSuffices(c) /\ WithinShare(c) THEN {1, 2, 3} ELSE {3} :
        call' = [call EXCEPT ![c].pc = "settle", ![c].tier = tier]
  BY DEF Check
<1> DEFINE new == [call[c] EXCEPT !.pc = "settle", !.tier = tier]
<1>3. tier \in 1..3 /\ (tier = 2 => WithinShare(c))
  <2>1. CASE DonorSuffices(c) /\ WithinShare(c)
    BY <2>1
  <2>2. CASE ~(DonorSuffices(c) /\ WithinShare(c))
    BY <2>2
  <2> QED
    BY <2>1, <2>2
<1>4. call \in [Cases -> Calls] /\ call[c] \in Calls
  BY DEF PInv, PortfolioTypes
<1>5. new \in Calls /\ new.pc = "settle" /\ new.tier = tier
  <2>1. tier \in 0..3 /\ "settle" \in Steps
    BY <1>3 DEF Steps
  <2>2. new \in Calls
    BY <1>4, <2>1 DEF Calls
  <2> QED
    BY <1>4, <2>2 DEF Calls
<1>6. call' \in [Cases -> Calls] /\ call'[c] = new /\ \A d \in Cases : d # c => call'[d] = call[d]
  BY <1>2, <1>4, <1>5
<1>7. call'[c].pc = "settle" /\ call'[c].tier = tier
  BY <1>5, <1>6
<1>8. /\ status' \in [Cases -> Statuses] /\ status'[c] = "VERIFIED"
      /\ \A d \in Cases : d # c => status'[d] = status[d]
  BY <1>1, MovedStatus DEF PInv, Statuses
<1>9. PortfolioTypes'
  BY <1>1, <1>6, <1>8 DEF PInv, PortfolioTypes
<1>10. VersionsAreSized' /\ \A d \in Cases : Current(d)' = Current(d)
  BY <1>1, PlansStay DEF PInv
<1>11. CallHoldsItsCase'
  <2> SUFFICES ASSUME NEW d \in Cases
               PROVE  /\ call'[d].pc \in {"solve", "store", "size", "members", "check"}
                           => status'[d] = "PLAN_PROPOSED"
                      /\ call'[d].pc = "settle" => status'[d] = "VERIFIED" /\ call'[d].tier # 0
                      /\ call'[d].pc \in {"store", "size", "members"}
                           => d \in call'[d].found.members
                      /\ call'[d].pc = "store" => call'[d].left \subseteq call'[d].found.members
                      /\ call'[d].pc = "check" => d \in overlooked
    BY <1>1 DEF CallHoldsItsCase
  <2>1. CASE d = c
    BY <2>1, <1>3, <1>7, <1>8
  <2>2. CASE d # c
    BY <2>2, <1>6, <1>8 DEF PInv, CallHoldsItsCase
  <2> QED
    BY <2>1, <2>2
<1>12. ApartMeansNoOther'
  <2>1. call[c].pc # "idle" /\ \A d \in Cases : d # c => call'[d] = call[d]
    BY <1>1, <1>6
  <2> QED
    BY <2>1, <1>1 DEF PInv, PortfolioTypes, ApartMeansNoOther
<1>13. OwnShareIsKept'
  <2> SUFFICES ASSUME NEW d \in apart \ overlooked PROVE OwnShare(d)'
    BY <1>1 DEF OwnShareIsKept
  <2>1. d \in Cases /\ OwnShare(d)
    BY DEF PInv, PortfolioTypes, OwnShareIsKept
  <2>2. CASE d = c
    <3> SUFFICES ASSUME tier = 2, record[c].solved, Current(c).by = "planner"
                 PROVE  Current(c).size = record[c].given[c]
      BY <2>2, <1>1, <1>7, <1>10 DEF OwnShare, Fits
    <3>1. call[c].pc = "members" /\ record[c] = call[c].found /\ ~Resizes(c)
      BY <2>1, <2>2, <1>1 DEF PInv, CallHoldsItsCase, OwnShare
    <3>2. c \in call[c].found.members
      BY <3>1 DEF PInv, CallHoldsItsCase
    <3>3. Current(c).size <= record[c].given[c]
      BY <3>1, <3>2, <1>3 DEF WithinShare
    <3>4. record[c].given[c] > 0 => Current(c).size = record[c].given[c]
      BY <3>1 DEF Resizes, MayResize, Conforms
    <3>5. record[c].given[c] \in Nat /\ Current(c).size \in Nat
      <4>1. record[c] \in Records /\ version[c] \in 0..MaxVersion /\ plan[c] \in [0..MaxVersion -> Plans]
        BY DEF PInv, PortfolioTypes
      <4> QED
        BY <4>1 DEF Records, Plans, Current
    <3> QED
      BY <3>3, <3>4, <3>5
  <2>3. CASE d # c
    BY <2>1, <2>3, <1>1, <1>6, <1>10, OwnShareStays
  <2> QED
    BY <2>2, <2>3
<1>14. MismatchIsPassing'
  <2> SUFFICES ASSUME NEW d \in apart \ overlooked, Mismatched(d)'
               PROVE  \E x \in Cases : x # d /\ StillToCome(x, d)'
    BY <1>1 DEF MismatchIsPassing
  <2>1. d \in Cases /\ d # c
    BY <1>8 DEF PInv, PortfolioTypes, Mismatched
  <2>2. Mismatched(d)
    BY <1>1, <1>8, <1>10, <2>1, MismatchWas
  <2>3. PICK x \in Cases : x # d /\ StillToCome(x, d)
    BY <2>2 DEF PInv, MismatchIsPassing
  <2>4. x # c
    BY <2>3, <1>1 DEF StillToCome
  <2>5. StillToCome(x, d)'
    BY <1>1, <1>6, <1>8, <2>1, <2>3, <2>4, StillComes
  <2> QED
    BY <2>3, <2>5
<1> QED
  BY <1>9, <1>10, <1>11, <1>12, <1>13, <1>14 DEF PInv

LEMMA SettleKeeps == ASSUME PInv, NEW c \in Cases, Settle(c) PROVE PInv'
<1> DEFINE s == <<"AUTO_APPROVED", "AWAITING_APPROVAL", "ESCALATED">>[call[c].tier]
<1>1. /\ call[c].pc = "settle" /\ Moved(c, s) /\ call' = [call EXCEPT ![c] = Idle]
      /\ UNCHANGED <<version, plan, record, apart, overlooked>>
  BY DEF Settle
<1>2. call[c].tier \in 1..3 /\ status[c] = "VERIFIED"
  BY <1>1 DEF PInv, CallHoldsItsCase, PortfolioTypes, Calls
<1>3. s \in Statuses /\ (s = "AWAITING_APPROVAL" => call[c].tier = 2) /\ s # "PLAN_PROPOSED"
  BY <1>2 DEF Statuses
<1> HIDE DEF s
<1>4. /\ call' \in [Cases -> Calls] /\ call'[c].pc = "idle"
      /\ \A d \in Cases : d # c => call'[d] = call[d]
  BY <1>1, EndedCall DEF PInv
<1>5. /\ status' \in [Cases -> Statuses] /\ status'[c] = s
      /\ \A d \in Cases : d # c => status'[d] = status[d]
  BY <1>1, <1>3, MovedStatus DEF PInv
<1>6. PortfolioTypes'
  BY <1>1, <1>4, <1>5 DEF PInv, PortfolioTypes
<1>7. VersionsAreSized' /\ \A d \in Cases : Current(d)' = Current(d)
  BY <1>1, PlansStay DEF PInv
<1>8. CallHoldsItsCase'
  <2> SUFFICES ASSUME NEW d \in Cases
               PROVE  /\ call'[d].pc \in {"solve", "store", "size", "members", "check"}
                           => status'[d] = "PLAN_PROPOSED"
                      /\ call'[d].pc = "settle" => status'[d] = "VERIFIED" /\ call'[d].tier # 0
                      /\ call'[d].pc \in {"store", "size", "members"}
                           => d \in call'[d].found.members
                      /\ call'[d].pc = "store" => call'[d].left \subseteq call'[d].found.members
                      /\ call'[d].pc = "check" => d \in overlooked
    BY <1>1 DEF CallHoldsItsCase
  <2>1. CASE d = c
    BY <2>1, <1>4
  <2>2. CASE d # c
    BY <2>2, <1>4, <1>5 DEF PInv, CallHoldsItsCase
  <2> QED
    BY <2>1, <2>2
<1>9. ApartMeansNoOther'
  BY <1>1, <1>4 DEF PInv, PortfolioTypes, ApartMeansNoOther
<1>10. OwnShareIsKept'
  <2> SUFFICES ASSUME NEW d \in apart \ overlooked PROVE OwnShare(d)'
    BY <1>1 DEF OwnShareIsKept
  <2>1. d \in Cases
    BY DEF PInv, PortfolioTypes
  <2>2. CASE d = c
    BY <2>1, <2>2, <1>4, IdleOwnsNothing
  <2>3. CASE d # c
    BY <2>1, <2>3, <1>1, <1>4, <1>7, OwnShareStays DEF PInv, OwnShareIsKept
  <2> QED
    BY <2>2, <2>3
<1>11. MismatchIsPassing'
  <2> SUFFICES ASSUME NEW d \in apart \ overlooked, Mismatched(d)'
               PROVE  \E x \in Cases : x # d /\ StillToCome(x, d)'
    BY <1>1 DEF MismatchIsPassing
  <2>1. d \in Cases /\ d # c
    <3>1. ASSUME d = c PROVE FALSE
      <4>1. s = "AWAITING_APPROVAL" /\ record[c].solved /\ ~Fits(c, record[c].given)
        BY <3>1, <1>1, <1>5, <1>7 DEF Mismatched, Fits
      <4>2. Fits(c, record[c].given)
        BY <3>1, <4>1, <1>1, <1>3 DEF PInv, OwnShareIsKept, OwnShare
      <4> QED
        BY <4>1, <4>2
    <3> QED
      BY <3>1 DEF PInv, PortfolioTypes
  <2>2. Mismatched(d)
    BY <1>1, <1>5, <1>7, <2>1, MismatchWas
  <2>3. PICK x \in Cases : x # d /\ StillToCome(x, d)
    BY <2>2 DEF PInv, MismatchIsPassing
  <2>4. x # c
    BY <2>3, <1>1 DEF StillToCome
  <2>5. StillToCome(x, d)'
    BY <1>1, <1>4, <1>5, <2>1, <2>3, <2>4, StillComes
  <2> QED
    BY <2>3, <2>5
<1> QED
  BY <1>6, <1>7, <1>8, <1>9, <1>10, <1>11 DEF PInv

-----------------------------------------------------------------------------
(* The theorems *)

LEMMA InitKeeps == Init => PInv
<1> SUFFICES ASSUME Init PROVE PInv
  OBVIOUS
<1>1. PortfolioTypes
  BY InitTypes
<1>2. VersionsAreSized
  BY Bounds DEF Init, VersionsAreSized, NoPlan
<1>3. \A c \in Cases : call[c].pc = "idle" /\ status[c] = "PLANNING"
  BY DEF Init, Idle
<1> QED
  BY <1>1, <1>2, <1>3
  DEF Init, PInv, CallHoldsItsCase, ApartMeansNoOther, OwnShareIsKept, OwnShare,
      MismatchIsPassing, Mismatched

LEMMA NextKeeps == ASSUME PInv, Next PROVE PInv'
<1>1. CASE Consume
  BY <1>1, ConsumeKeeps
<1>2. CASE \E c \in Cases : \/ \E q \in Sizes : Plan(c, q)
                            \/ Start(c) \/ Verify(c) \/ Decide(c) \/ Execute(c)
  <2>1. PICK c \in Cases : \/ \E q \in Sizes : Plan(c, q)
                           \/ Start(c) \/ Verify(c) \/ Decide(c) \/ Execute(c)
    BY <1>2
  <2>2. CASE \E q \in Sizes : Plan(c, q)
    BY <2>2, PlanKeeps
  <2>3. CASE Start(c)
    BY <2>3, StartKeeps
  <2>4. CASE Verify(c)
    <3>1. CASE Solve(c) \/ ProposeResized(c) \/ KeepSize(c) \/ Check(c) \/ Settle(c)
      BY <3>1, SolveKeeps, ProposeResizedKeeps, KeepSizeKeeps, CheckKeeps, SettleKeeps
    <3>2. CASE \E d \in Cases : StorePortfolio(c, d) \/ Repropose(c, d)
      BY <3>2, StorePortfolioKeeps, ReproposeKeeps
    <3> QED
      BY <2>4, <3>1, <3>2 DEF Verify
  <2>5. CASE Decide(c)
    BY <2>5, DecideKeeps
  <2>6. CASE Execute(c)
    BY <2>6, EnterKeeps, RevalidateKeeps, ReserveKeeps DEF Execute
  <2> QED
    BY <2>1, <2>2, <2>3, <2>4, <2>5, <2>6
<1> QED
  BY <1>1, <1>2 DEF Next

\* The inductive invariant: from the types of the records to who is still to put
\* right a plan that does not fit its share, it holds in every state.
THEOREM PortfolioInvariance == Spec => []PInv
<1>1. Init => PInv
  BY InitKeeps
<1>2. PInv /\ UNCHANGED vars => PInv'
  BY OthersMove DEF vars, PInv, PortfolioTypes
<1>3. PInv /\ [Next]_vars => PInv'
  BY <1>2, NextKeeps
<1> QED
  BY <1>1, <1>3, PTL DEF Spec

\* The loop guard (resizedBy): between two plans of the agent the optimizer sizes
\* a case at most once, however many solves of however many cases include it; and
\* once all verifications have settled, a plan of the agent that waits for approval
\* has the size of the latest share of its case, whichever solve gave it, provided
\* its own verification met no other and the index hid it from no solve since.
THEOREM SharesKept == Spec => []SharesAreKept
<1>1. PInv => SizedOnce
  BY Bounds DEF PInv, VersionsAreSized, SizedOnce
<1>2. PInv => AwaitsItsShare
  <2> SUFFICES ASSUME PInv, Quiet, NEW c \in apart \ overlooked, status[c] = "AWAITING_APPROVAL",
                      Current(c).by = "planner", record[c].solved,
                      Current(c).size # record[c].given[c]
               PROVE  FALSE
    BY DEF AwaitsItsShare
  <2>1. Mismatched(c)
    BY DEF Mismatched, Fits
  <2>2. PICK x \in Cases : StillToCome(x, c)
    BY <2>1 DEF PInv, MismatchIsPassing
  <2> QED
    BY <2>2 DEF StillToCome, Quiet
<1>3. PInv => SharesAreKept
  BY <1>1, <1>2 DEF SharesAreKept
<1> QED
  BY <1>3, PortfolioInvariance, PTL

-----------------------------------------------------------------------------
(* Sums over two options, and the least of a set of numbers *)

\* A set of numbers with a member has a least one: induction over the hours, the
\* movements or the options of a plan goes by the least counterexample.
LEMMA Least ==
  ASSUME NEW T, T \subseteq Nat, T # {}
  PROVE  \E m \in T : \A n \in T : m <= n
<1>1. PICK R : R = OpToRel(<, Nat) /\ IsWellFoundedOn(R, Nat)
  BY NatLessThanWellFounded
<1>2. \A x, y \in Nat : x < y => <<x, y>> \in R
  BY <1>1 DEF OpToRel
<1>3. PICK m \in T : \A n \in T : ~(<<n, m>> \in R)
  <2>1. IsWellFoundedOn(R, Nat)
    BY <1>1
  <2> QED
    BY <2>1, WFMin
<1>4. \A n \in T : ~(n < m)
  BY <1>2, <1>3
<1>5. \A n \in T : m <= n
  BY <1>4
<1> QED
  BY <1>5

\* What the quantities of up to two options, or movements, add up to.
Summing(o, S, g) ==
  g = [s \in SUBSET S |-> IF s = {} THEN 0
         ELSE o[CHOOSE x \in s : TRUE].qty + g[s \ {CHOOSE x \in s : TRUE}]]

Summed(o, S) == (CHOOSE g : Summing(o, S, g))[S]

\* MapThenSumSet of quantities.
LEMMA SumIsRecursive ==
  ASSUME NEW o, NEW S
  PROVE  MapThenSumSet(LAMBDA i : o[i].qty, S) = Summed(o, S)
BY DEF Summed, MapThenSumSet, MapThenFoldSet, Summing

\* Nothing adds up to nothing.
LEMMA SumOfNone ==
  ASSUME NEW o
  PROVE  Summed(o, {}) = 0
<1> DEFINE w == [s \in SUBSET {} |-> 0]
<1>1. SUBSET {} = {{}}
  OBVIOUS
<1>2. Summing(o, {}, w)
  BY <1>1 DEF Summing
<1>3. Summing(o, {}, CHOOSE g : Summing(o, {}, g))
  BY <1>2
<1>4. \A g : Summing(o, {}, g) => g[{}] = 0
  BY <1>1 DEF Summing
<1> QED
  BY <1>3, <1>4 DEF Summed

\* One option adds up to its quantity.
LEMMA SumOfOne ==
  ASSUME NEW o, NEW a, o[a].qty \in Int
  PROVE  Summed(o, {a}) = o[a].qty
<1> DEFINE w == [s \in SUBSET {a} |-> IF s = {} THEN 0 ELSE o[a].qty]
<1>1. SUBSET {a} = {{}, {a}} /\ {a} # {} /\ {a} \ {a} = {} /\ (CHOOSE x \in {a} : TRUE) = a
  OBVIOUS
<1>2. Summing(o, {a}, w)
  <2>1. w[{}] = 0
    BY <1>1
  <2>2. \A s \in SUBSET {a} :
          (IF s = {} THEN 0 ELSE o[a].qty)
            = (IF s = {} THEN 0
               ELSE o[CHOOSE x \in s : TRUE].qty + w[s \ {CHOOSE x \in s : TRUE}])
    BY <1>1, <2>1
  <2> QED
    BY <2>2 DEF Summing
<1>3. Summing(o, {a}, CHOOSE g : Summing(o, {a}, g))
  BY <1>2
<1>4. \A g : Summing(o, {a}, g) => g[{}] = 0 /\ g[{a}] = o[a].qty + g[{}]
  BY <1>1 DEF Summing
<1>5. (CHOOSE g : Summing(o, {a}, g))[{a}] = o[a].qty + 0
  BY <1>3, <1>4
<1> QED
  BY <1>5 DEF Summed

\* Two options add up to both, whichever is taken first.
LEMMA SumOfTwo ==
  ASSUME NEW o, NEW a, NEW b, a # b, o[a].qty \in Int, o[b].qty \in Int
  PROVE  Summed(o, {a, b}) = o[a].qty + o[b].qty
<1> DEFINE S == {a, b}
           c(s) == CHOOSE x \in s : TRUE
           w == [s \in SUBSET S |-> IF s = {} THEN 0 ELSE IF s = {a} THEN o[a].qty
                                    ELSE IF s = {b} THEN o[b].qty ELSE o[a].qty + o[b].qty]
<1>1. /\ SUBSET S = {{}, {a}, {b}, S}
      /\ {a} # {} /\ {b} # {} /\ S # {} /\ {a} # {b} /\ S # {a} /\ S # {b}
      /\ {a} \ {a} = {} /\ {b} \ {b} = {} /\ S \ {a} = {b} /\ S \ {b} = {a}
  OBVIOUS
<1>2. c({a}) = a /\ c({b}) = b /\ c(S) \in S
  OBVIOUS
<1>2a. c(S) = a \/ c(S) = b
  BY <1>2
<1>3. w[{}] = 0 /\ w[{a}] = o[a].qty /\ w[{b}] = o[b].qty /\ w[S] = o[a].qty + o[b].qty
  BY <1>1
<1>4. \A s \in SUBSET S : w[s] = IF s = {} THEN 0 ELSE o[c(s)].qty + w[s \ {c(s)}]
  <2> SUFFICES ASSUME NEW s \in SUBSET S
               PROVE  w[s] = IF s = {} THEN 0 ELSE o[c(s)].qty + w[s \ {c(s)}]
    OBVIOUS
  <2> HIDE DEF w
  <2>1. CASE s = {}
    BY <2>1, <1>3
  <2>2. CASE s = {a}
    <3>1. c(s) = a /\ s \ {c(s)} = {}
      BY <2>2, <1>1, <1>2
    <3> HIDE DEF c, S
    <3>2. o[c(s)].qty + w[s \ {c(s)}] = o[a].qty + w[{}]
      BY <3>1
    <3>3. o[a].qty + w[{}] = o[a].qty
      BY <1>3
    <3>4. s # {} /\ w[s] = o[a].qty
      BY <2>2, <1>1, <1>3
    <3> QED
      BY <3>2, <3>3, <3>4
  <2>3. CASE s = {b}
    <3>1. c(s) = b /\ s \ {c(s)} = {}
      BY <2>3, <1>1, <1>2
    <3> HIDE DEF c, S
    <3>2. o[c(s)].qty + w[s \ {c(s)}] = o[b].qty + w[{}]
      BY <3>1
    <3>3. o[b].qty + w[{}] = o[b].qty
      BY <1>3
    <3>4. s # {} /\ w[s] = o[b].qty
      BY <2>3, <1>1, <1>3
    <3> QED
      BY <3>2, <3>3, <3>4
  <2>4. CASE s = S
    <3>1. \/ c(s) = a /\ s \ {c(s)} = {b}
          \/ c(s) = b /\ s \ {c(s)} = {a}
      <4> HIDE DEF c
      <4> QED
        BY <2>4, <1>1, <1>2a
    <3> HIDE DEF c
    <3>2. s # {}
      BY <2>4, <1>1
    <3>3. w[s] = o[a].qty + o[b].qty
      BY <2>4, <1>3
    <3> HIDE DEF S
    <3>4. CASE c(s) = a /\ s \ {c(s)} = {b}
      <4>1. o[c(s)].qty + w[s \ {c(s)}] = o[a].qty + w[{b}]
        BY <3>4
      <4> QED
        BY <4>1, <3>2, <3>3, <1>3
    <3>5. CASE c(s) = b /\ s \ {c(s)} = {a}
      <4>1. o[c(s)].qty + w[s \ {c(s)}] = o[b].qty + w[{a}]
        BY <3>5
      <4>2. o[b].qty + o[a].qty = o[a].qty + o[b].qty
        OBVIOUS
      <4> QED
        BY <4>1, <4>2, <3>2, <3>3, <1>3
    <3> QED
      BY <3>1, <3>4, <3>5
  <2> QED
    BY <1>1, <2>1, <2>2, <2>3, <2>4
<1>5. Summing(o, S, w)
  <2>1. [s \in SUBSET S |-> w[s]] = [s \in SUBSET S |-> IF s = {} THEN 0 ELSE o[c(s)].qty + w[s \ {c(s)}]]
    <3> HIDE DEF w, c
    <3> QED
      BY <1>4
  <2>2. w = [s \in SUBSET S |-> w[s]]
    OBVIOUS
  <2> QED
    BY <2>1, <2>2 DEF Summing
<1>6. PICK g : g = (CHOOSE h : Summing(o, S, h)) /\ Summing(o, S, g)
  <2> HIDE DEF w, S
  <2> QED
    BY <1>5
<1>7. \A s \in SUBSET S : g[s] = IF s = {} THEN 0 ELSE o[c(s)].qty + g[s \ {c(s)}]
  <2>1. g = [s \in SUBSET S |-> IF s = {} THEN 0 ELSE o[c(s)].qty + g[s \ {c(s)}]]
    BY <1>6 DEF Summing
  <2> HIDE DEF c, S
  <2>2. PICK d : d = [s \in SUBSET S |-> IF s = {} THEN 0 ELSE o[c(s)].qty + g[s \ {c(s)}]]
    OBVIOUS
  <2>3. \A s \in SUBSET S : d[s] = IF s = {} THEN 0 ELSE o[c(s)].qty + g[s \ {c(s)}]
    BY <2>2
  <2> QED
    BY <2>1, <2>2, <2>3
<1>8. g[{}] = 0
  BY <1>1, <1>7
<1>9. g[{a}] = o[a].qty /\ g[{b}] = o[b].qty
  <2>1. g[{a}] = o[c({a})].qty + g[{a} \ {c({a})}] /\ g[{b}] = o[c({b})].qty + g[{b} \ {c({b})}]
    BY <1>1, <1>7
  <2>2. {a} \ {c({a})} = {} /\ {b} \ {c({b})} = {}
    BY <1>1, <1>2
  <2> HIDE DEF c
  <2> QED
    BY <1>2, <1>8, <2>1, <2>2
<1>10. g[S] = o[a].qty + o[b].qty
  <2>1. g[S] = o[c(S)].qty + g[S \ {c(S)}]
    BY <1>1, <1>7
  <2>2. CASE c(S) = a
    <3> HIDE DEF c
    <3>1. S \ {c(S)} = {b}
      BY <2>2, <1>1
    <3> HIDE DEF S
    <3>2. g[S] = o[a].qty + g[{b}]
      BY <2>1, <2>2, <3>1
    <3> QED
      BY <3>2, <1>9
  <2>3. CASE c(S) = b
    <3> HIDE DEF c
    <3>1. S \ {c(S)} = {a}
      BY <2>3, <1>1
    <3> HIDE DEF S
    <3>2. g[S] = o[b].qty + g[{a}]
      BY <2>1, <2>3, <3>1
    <3> QED
      BY <3>2, <1>9
  <2> QED
    BY <1>2a, <2>2, <2>3
<1> QED
  BY <1>6, <1>10 DEF Summed

-----------------------------------------------------------------------------
(* One movement: the hourly account in closed form, and its first stock-out *)

\* The account of a plant with one movement in closed form: until the movement,
\* and from it on.
Before(n, r) == Positive(n - r)
Rest(n, r, q) == Positive(Before(n, r) + q)
Account(n, r, q) ==
  [h \in Hours |->
     [before |-> IF h <= r THEN Positive(n - h) ELSE Positive(Rest(n, r, q) - (h - r)),
      after |-> IF h < r THEN Positive(n - h) ELSE Positive(Rest(n, r, q) - (h - r))]]

ByHour(n, moves, f) ==
  f = [h \in Hours |->
         LET before == IF h = 0 THEN Positive(n) ELSE Positive(f[h - 1].after - 1)
         IN  [before |-> before, after |-> Positive(before + Received(moves, h))]]

\* The hourly account at a rate of one unit an hour.
LEMMA HourlyIsRecursive ==
  ASSUME NEW n, NEW moves
  PROVE  Hourly(n, 1, moves) = CHOOSE f : ByHour(n, moves, f)
BY DEF Hourly, ByHour

\* What one movement brings in an hour.
LEMMA ReceivedOfOne ==
  ASSUME NEW at \in Int, NEW q \in Int, NEW h \in Nat
  PROVE  Received(<<Move(at, q)>>, h) = IF h = Positive(at) THEN q ELSE 0
<1>1. PICK moves : moves = <<Move(at, q)>>
  OBVIOUS
<1>2. DOMAIN moves = {1} /\ moves[1].at = at /\ moves[1].qty = q
  BY <1>1 DEF Move
<1> DEFINE now == {i \in DOMAIN moves : moves[i].at = h \/ (h = 0 /\ moves[i].at < 0)}
<1>3. now = IF h = Positive(at) THEN {1} ELSE {}
  BY <1>2 DEF Positive
<1>4. Received(moves, h) = Summed(moves, now)
  BY DEF Received, Summed, MapThenSumSet, MapThenFoldSet, Summing
<1>5. CASE h = Positive(at)
  <2>1. now = {1}
    BY <1>3, <1>5
  <2> HIDE DEF now
  <2>2. Summed(moves, {1}) = moves[1].qty
    BY <1>2, SumOfOne
  <2> QED
    BY <2>1, <2>2, <1>1, <1>2, <1>4, <1>5
<1>6. CASE h # Positive(at)
  <2>1. now = {}
    BY <1>3, <1>6
  <2> HIDE DEF now
  <2>2. Summed(moves, {}) = 0
    BY SumOfNone
  <2> QED
    BY <2>1, <2>2, <1>1, <1>4, <1>6
<1> QED
  BY <1>5, <1>6

\* Hour by hour, a plant with one movement has the stock of the closed form.
LEMMA HourlyOfOne ==
  ASSUME NEW n \in Int, NEW at \in Int, NEW q \in Int, Horizon \in Nat,
         NEW h \in Hours
  PROVE  /\ Hourly(n, 1, <<Move(at, q)>>)[h].before = Account(n, Positive(at), q)[h].before
         /\ Hourly(n, 1, <<Move(at, q)>>)[h].after = Account(n, Positive(at), q)[h].after
<1> DEFINE r == Positive(at)
           moves == <<Move(at, q)>>
           w == Account(n, r, q)
<1>1. r \in Nat
  BY DEF Positive
<1>2. \A k \in Hours : k \in Nat /\ Received(moves, k) = IF k = r THEN q ELSE 0
  BY ReceivedOfOne DEF Hours
<1>3. PICK b : b = [k \in Hours |-> w[k].before]
  OBVIOUS
<1>4. PICK a : a = [k \in Hours |-> w[k].after]
  OBVIOUS
<1>5. \A k \in Hours :
        /\ k <= r => b[k] = Positive(n - k)
        /\ ~(k <= r) => b[k] = Positive(Rest(n, r, q) - (k - r))
        /\ k < r => a[k] = Positive(n - k)
        /\ ~(k < r) => a[k] = Positive(Rest(n, r, q) - (k - r))
  BY <1>3, <1>4 DEF Account
<1>5a. \A k \in Hours : w[k] = [before |-> b[k], after |-> a[k]]
  BY <1>3, <1>4 DEF Account
<1>6. b[0] = Positive(n) /\ \A k \in Hours : k # 0 => k - 1 \in Hours /\ b[k] = Positive(a[k - 1] - 1)
  <2>1. 0 \in Hours /\ \A k \in Hours : k \in Nat /\ (k # 0 => k - 1 \in Hours)
    BY DEF Hours
  <2>2. b[0] = Positive(n)
    <3>1. n - 0 = n /\ 0 <= r
      BY <1>1
    <3> HIDE DEF r
    <3> QED
      BY <1>5, <2>1, <3>1
  <2>3. ASSUME NEW k \in Hours, k # 0 PROVE b[k] = Positive(a[k - 1] - 1)
    <3> HIDE DEF r
    <3>1. k \in Nat /\ k - 1 \in Hours /\ k - 1 >= 0
      BY <2>1, <2>3
    <3>2. CASE k <= r
      BY <1>1, <1>5, <3>1, <3>2 DEF Positive
    <3>3. CASE k > r
      <4>1. a[k - 1] = Positive(Rest(n, r, q) - (k - 1 - r)) /\ b[k] = Positive(Rest(n, r, q) - (k - r))
        BY <1>1, <1>5, <3>1, <3>3
      <4>2. Rest(n, r, q) \in Int
        BY <1>1 DEF Rest, Before, Positive
      <4> QED
        BY <1>1, <3>1, <3>3, <4>1, <4>2 DEF Positive
    <3> QED
      BY <1>1, <3>1, <3>2, <3>3
  <2> QED
    BY <2>1, <2>2, <2>3
<1>7. \A k \in Hours : a[k] = Positive(b[k] + Received(moves, k))
  <2> SUFFICES ASSUME NEW k \in Hours PROVE a[k] = Positive(b[k] + IF k = r THEN q ELSE 0)
    BY <1>2
  <2> HIDE DEF r, moves
  <2>1. k \in Nat
    BY <1>2
  <2>2. Rest(n, r, q) \in Int
    BY <1>1 DEF Rest, Before, Positive
  <2>3. CASE k = r
    BY <1>1, <1>5, <2>1, <2>3 DEF Rest, Before, Positive
  <2>4. CASE k < r
    BY <1>1, <1>5, <2>1, <2>4 DEF Positive
  <2>5. CASE k > r
    BY <1>1, <1>5, <2>1, <2>2, <2>5 DEF Positive
  <2> QED
    BY <1>1, <2>1, <2>3, <2>4, <2>5
<1>8. ByHour(n, moves, w)
  <2> DEFINE step(k) == LET before == IF k = 0 THEN Positive(n) ELSE Positive(w[k - 1].after - 1)
                        IN  [before |-> before, after |-> Positive(before + Received(moves, k))]
  <2>1. ASSUME NEW k \in Hours PROVE w[k] = step(k)
    <3> HIDE DEF w, r, moves
    <3>0. k # 0 => k - 1 \in Hours /\ w[k - 1].after = a[k - 1]
      <4>1. k # 0 => w[k - 1] = [before |-> b[k - 1], after |-> a[k - 1]]
        BY <1>5a, <1>6
      <4> QED
        BY <4>1, <1>6
    <3>1. b[k] = IF k = 0 THEN Positive(n) ELSE Positive(w[k - 1].after - 1)
      <4>1. CASE k = 0
        BY <4>1, <1>6
      <4>2. CASE k # 0
        BY <4>2, <3>0, <1>6
      <4> QED
        BY <4>1, <4>2
    <3> QED
      BY <1>5a, <1>7, <3>1
  <2>2. w = [k \in Hours |-> w[k]]
    BY DEF Account
  <2>3. [k \in Hours |-> w[k]] = [k \in Hours |-> step(k)]
    <3> HIDE DEF w, step
    <3> QED
      BY <2>1
  <2> QED
    BY <2>2, <2>3 DEF ByHour
<1>9. PICK f : f = Hourly(n, 1, moves) /\ ByHour(n, moves, f)
  <2> HIDE DEF w, moves
  <2> QED
    BY <1>8, HourlyIsRecursive
<1>10. \A k \in Hours :
         /\ f[k].before = IF k = 0 THEN Positive(n) ELSE Positive(f[k - 1].after - 1)
         /\ f[k].after = Positive(f[k].before + Received(moves, k))
  <2> HIDE DEF moves
  <2>1. PICK g : g = [k \in Hours |->
             [before |-> IF k = 0 THEN Positive(n) ELSE Positive(f[k - 1].after - 1),
              after |-> Positive((IF k = 0 THEN Positive(n) ELSE Positive(f[k - 1].after - 1))
                                   + Received(moves, k))]]
    OBVIOUS
  <2>2. f = g
    BY <1>9, <2>1 DEF ByHour
  <2>3. \A k \in Hours :
         /\ g[k].before = IF k = 0 THEN Positive(n) ELSE Positive(f[k - 1].after - 1)
         /\ g[k].after = Positive(g[k].before + Received(moves, k))
    BY <2>1
  <2> QED
    BY <2>2, <2>3
<1>11. \A k \in Hours : f[k].before = b[k] /\ f[k].after = a[k]
  <2> HIDE DEF moves, w, r
  <2> DEFINE T == {k \in Hours : ~(f[k].before = b[k] /\ f[k].after = a[k])}
  <2> SUFFICES ASSUME T # {} PROVE FALSE
    OBVIOUS
  <2>1. T \subseteq Nat
    BY DEF Hours
  <2>2. PICK m \in T : \A k \in T : m <= k
    <3> HIDE DEF T
    <3> QED
      BY <2>1, Least
  <2>3. m \in Hours /\ m \in Nat /\ (m # 0 => m - 1 \in Hours /\ m - 1 \notin T)
    <3>1. m \in Hours /\ m \in Nat
      BY <2>1, <2>2
    <3>2. m # 0 => m - 1 \in Hours
      BY <1>6, <3>1
    <3>3. m # 0 => m - 1 \notin T
      <4> HIDE DEF T
      <4> QED
        BY <3>1, <2>1, <2>2
    <3> QED
      BY <3>1, <3>2, <3>3
  <2>4. m # 0 => f[m - 1].after = a[m - 1]
    BY <2>3
  <2>5. f[m].before = b[m]
    BY <1>6, <1>10, <2>3, <2>4
  <2>6. f[m].after = a[m]
    BY <1>7, <1>10, <2>3, <2>5
  <2> QED
    BY <2>2, <2>5, <2>6
<1>12. w[h].before = b[h] /\ w[h].after = a[h]
  BY <1>3, <1>4
<1> QED
  BY <1>9, <1>11, <1>12

\* FoldLeft over a single movement applies it once.
LEMMA FoldOfOne ==
  ASSUME NEW base, NEW ev, DOMAIN ev = {1}
  PROVE  FoldLeft(LAMBDA s, m : Applied(Until(s, 1, m.at), 1, m.qty), base, ev)
           = Applied(Until(base, 1, ev[1].at), 1, ev[1].qty)
<1> DEFINE step(s, i) == Applied(Until(s, 1, ev[i].at), 1, ev[i].qty)
           G(g) == g = [s \in SUBSET {1} |-> IF s = {} THEN base
                          ELSE step(g[s \ {Max(s)}], Max(s))]
           w == [s \in SUBSET {1} |-> IF s = {} THEN base ELSE step(base, 1)]
<1>1. FoldLeft(LAMBDA s, m : Applied(Until(s, 1, m.at), 1, m.qty), base, ev) = (CHOOSE g : G(g))[{1}]
  BY DEF FoldLeft, MapThenFoldSet
<1>2. Max({1}) = 1
  BY DEF Max
<1>3. SUBSET {1} = {{}, {1}} /\ {1} \ {1} = {} /\ {1} # {}
  OBVIOUS
<1> HIDE DEF step
<1>4. G(w)
  <2>1. w[{}] = base
    BY <1>3
  <2> DEFINE h == [s \in SUBSET {1} |-> IF s = {} THEN base ELSE step(w[s \ {Max(s)}], Max(s))]
  <2>2. \A s \in SUBSET {1} : (IF s = {} THEN base ELSE step(w[s \ {Max(s)}], Max(s)))
                               = (IF s = {} THEN base ELSE step(base, 1))
    BY <1>2, <1>3, <2>1
  <2> QED
    BY <2>2
<1>5. G(CHOOSE g : G(g))
  <2> HIDE DEF G
  <2> QED
    BY <1>4
<1>6. \A g : G(g) => g[{}] = base /\ g[{1}] = step(g[{}], 1)
  BY <1>2, <1>3
<1>7. (CHOOSE g : G(g))[{1}] = step(base, 1)
  BY <1>5, <1>6
<1> QED
  BY <1>1, <1>7 DEF step

\* FoldLeft over no movement leaves its base.
LEMMA FoldOfNone ==
  ASSUME NEW base, NEW ev, DOMAIN ev = {}
  PROVE  FoldLeft(LAMBDA s, m : Applied(Until(s, 1, m.at), 1, m.qty), base, ev) = base
<1> DEFINE step(s, i) == Applied(Until(s, 1, ev[i].at), 1, ev[i].qty)
           G(g) == g = [s \in SUBSET {} |-> IF s = {} THEN base
                          ELSE step(g[s \ {Max(s)}], Max(s))]
           w == [s \in SUBSET {} |-> base]
<1>1. FoldLeft(LAMBDA s, m : Applied(Until(s, 1, m.at), 1, m.qty), base, ev) = (CHOOSE g : G(g))[{}]
  BY DEF FoldLeft, MapThenFoldSet
<1> HIDE DEF step
<1>2. SUBSET {} = {{}}
  OBVIOUS
<1>3. G(w)
  BY <1>2
<1>4. G(CHOOSE g : G(g))
  <2> HIDE DEF G
  <2> QED
    BY <1>3
<1>5. \A g : G(g) => g[{}] = base
  BY <1>2
<1> QED
  BY <1>1, <1>4, <1>5

\* The events of a single movement: none beyond the horizon, else that movement,
\* now if it is overdue.
LEMMA EventsOfOne ==
  ASSUME Horizon \in Nat, NEW at \in Int, NEW q \in Int
  PROVE  /\ at > Horizon => DOMAIN Events(<<Move(at, q)>>) = {}
         /\ at <= Horizon => /\ DOMAIN Events(<<Move(at, q)>>) = {1}
                             /\ Events(<<Move(at, q)>>)[1] = Move(Positive(at), q)
<1>1. PICK moves : moves = <<Move(at, q)>>
  OBVIOUS
<1>2. DOMAIN moves = {1} /\ moves[1] = Move(at, q) /\ moves[1].at = at /\ moves[1].qty = q
  BY <1>1 DEF Move
<1> DEFINE when(i) == Positive(moves[i].at)
           due == {i \in DOMAIN moves : moves[i].at <= Horizon}
           before(i) == {j \in due : when(j) < when(i) \/ (when(j) = when(i) /\ j < i)}
           order == [k \in 1..Cardinality(due) |-> CHOOSE i \in due : Cardinality(before(i)) = k - 1]
<1>3. Events(moves) = [k \in DOMAIN order |-> Move(when(order[k]), moves[order[k]].qty)]
  BY DEF Events
<1>4. Cardinality({1}) = 1 /\ Cardinality({}) = 0
  BY FS_Singleton, FS_EmptySet
<1>5. DOMAIN order = 1..Cardinality(due)
  OBVIOUS
<1>6. CASE at > Horizon
  <2>1. due = {}
    BY <1>2, <1>6
  <2>2. DOMAIN order = 1..0
    <3> HIDE DEF due
    <3> QED
      BY <1>4, <1>5, <2>1
  <2>3. DOMAIN Events(moves) = 1..0
    <3> HIDE DEF order, when
    <3> QED
      BY <1>3, <2>2
  <2>4. 1..0 = {}
    OBVIOUS
  <2> QED
    BY <1>1, <1>2, <1>6, <2>3, <2>4
<1>7. CASE at <= Horizon
  <2>1. due = {1}
    BY <1>2, <1>7
  <2>2. before(1) = {}
    <3>1. \A j \in due : j = 1
      BY <2>1
    <3>2. when(1) \in Int
      BY <1>2 DEF Positive
    <3> HIDE DEF due, when
    <3> QED
      BY <3>1, <3>2
  <2>3. Cardinality(before(1)) = 0 /\ Cardinality(due) = 1
    <3> HIDE DEF before, due
    <3> QED
      BY <1>4, <2>1, <2>2
  <2>4. (CHOOSE i \in due : Cardinality(before(i)) = 1 - 1) = 1
    <3> HIDE DEF before, due
    <3>1. \A i \in due : i = 1
      BY <2>1
    <3>2. \E i \in due : Cardinality(before(i)) = 1 - 1
      BY <2>1, <2>3
    <3>3. (CHOOSE i \in due : Cardinality(before(i)) = 1 - 1) \in due
      BY <3>2
    <3> QED
      BY <3>1, <3>3
  <2>5. DOMAIN order = {1} /\ order[1] = 1
    <3> HIDE DEF before, due
    <3>1. 1..Cardinality(due) = {1}
      BY <2>3
    <3>2. order[1] = CHOOSE i \in due : Cardinality(before(i)) = 1 - 1
      BY <3>1
    <3> QED
      BY <2>4, <3>1, <3>2
  <2>6. DOMAIN Events(moves) = {1} /\ Events(moves)[1] = Move(Positive(at), q)
    <3> HIDE DEF order
    <3> QED
      BY <1>2, <1>3, <2>5
  <2> QED
    BY <1>1, <1>7, <2>6
<1> QED
  BY <1>6, <1>7

ProjectionFields == {"t", "stock", "since", "outs", "stops", "breaks"}

\* Where the projection stands: numbers, and the hours the stock ran out.
IsProjection(s) ==
  /\ DOMAIN s = ProjectionFields
  /\ s.t \in Nat /\ s.stock \in Nat /\ s.since \in Int /\ s.outs \in Seq(Nat)

\* What consumption up to an hour changes.
LEMMA UntilByField ==
  ASSUME NEW s, IsProjection(s), NEW until \in Nat, s.t <= until
  PROVE  LET u == Until(s, 1, until)
             runsOut == s.stock # 0 /\ s.t + s.stock <= until
         IN  /\ IsProjection(u) /\ u.t = until
             /\ runsOut => /\ u.stock = 0 /\ u.since = s.t + s.stock
                           /\ u.outs = Append(s.outs, s.t + s.stock)
             /\ ~runsOut => /\ u.stock = IF s.stock = 0 THEN 0 ELSE s.stock - (until - s.t)
                            /\ u.since = s.since /\ u.outs = s.outs
<1>1. PICK u : u = Until(s, 1, until)
  OBVIOUS
<1>2. CASE s.stock = 0
  <2>1. u = [s EXCEPT !.t = until]
    BY <1>1, <1>2 DEF Until
  <2> QED
    BY <1>1, <1>2, <2>1 DEF IsProjection, ProjectionFields
<1>3. CASE s.stock # 0 /\ s.t + s.stock <= until
  <2>1. u = [s EXCEPT !.t = until, !.stock = 0, !.since = s.t + s.stock,
                      !.outs = Append(@, s.t + s.stock), !.breaks = Append(@, <<s.t + s.stock, 0>>)]
    BY <1>1, <1>3 DEF Until
  <2>2. /\ DOMAIN u = ProjectionFields /\ u.t = until /\ u.stock = 0 /\ u.since = s.t + s.stock
        /\ u.outs = Append(s.outs, s.t + s.stock)
    BY <2>1 DEF IsProjection, ProjectionFields
  <2>3. s.t + s.stock \in Nat /\ Append(s.outs, s.t + s.stock) \in Seq(Nat)
    BY DEF IsProjection
  <2>4. IsProjection(u)
    BY <2>2, <2>3 DEF IsProjection
  <2> QED
    BY <1>1, <1>3, <2>2, <2>4
<1>4. CASE s.stock # 0 /\ ~(s.t + s.stock <= until)
  <2>1. u = [s EXCEPT !.t = until, !.stock = @ - (until - s.t)]
    BY <1>1, <1>4 DEF Until
  <2>2. /\ DOMAIN u = ProjectionFields /\ u.t = until /\ u.stock = s.stock - (until - s.t)
        /\ u.since = s.since /\ u.outs = s.outs
    BY <2>1 DEF IsProjection, ProjectionFields
  <2>3. s.stock - (until - s.t) \in Nat
    BY <1>4 DEF IsProjection
  <2> QED
    BY <1>1, <1>4, <2>2, <2>3 DEF IsProjection
<1> QED
  BY <1>2, <1>3, <1>4

\* What a receipt changes.
LEMMA ReceiptByField ==
  ASSUME NEW s, IsProjection(s), NEW q \in Nat, s.stock = 0 => s.since # -1
  PROVE  LET a == Applied(s, 1, q)
         IN  /\ IsProjection(a) /\ a.t = s.t /\ a.stock = s.stock + q /\ a.outs = s.outs
<1>1. PICK a : a = Applied(s, 1, q)
  OBVIOUS
<1> DEFINE left == IF s.stock + q > 0 THEN s.stock + q ELSE 0
           stops == left = 0 /\ s.since = -1 /\ 1 > 0
           starts == left > 0 /\ s.since # -1
<1>2. left = s.stock + q /\ left \in Nat /\ ~stops
  BY DEF IsProjection
<1>3. a = [s EXCEPT !.stock = left,
                    !.since = IF stops THEN s.t ELSE IF starts THEN -1 ELSE @,
                    !.outs = IF stops THEN Append(@, s.t) ELSE @,
                    !.stops = IF starts THEN Append(@, <<s.since, s.t>>) ELSE @,
                    !.breaks = Append(@, <<s.t, left>>)]
  BY <1>1 DEF Applied
<1>4. /\ DOMAIN a = ProjectionFields /\ a.t = s.t /\ a.stock = left
      /\ a.since = IF stops THEN s.t ELSE IF starts THEN -1 ELSE s.since
      /\ a.outs = IF stops THEN Append(s.outs, s.t) ELSE s.outs
  <2> HIDE DEF left, stops, starts
  <2> QED
    BY <1>3 DEF IsProjection, ProjectionFields
<1> QED
  BY <1>1, <1>2, <1>4 DEF IsProjection

\* The first stock-out of a plant with one receipt.
LEMMA StockoutOfReceipt ==
  ASSUME Horizon \in Nat, NEW n \in Nat, NEW at \in Int, NEW q \in Nat
  PROVE  FirstStockout(Project(n, 1, <<Move(at, q)>>))
           = LET dry == IF at <= Horizon /\ Positive(at) < n THEN n + q ELSE n
             IN  IF dry <= Horizon THEN dry ELSE Never
<1> DEFINE r == Positive(at)
           ev == Events(<<Move(at, q)>>)
           dry == IF at <= Horizon /\ r < n THEN n + q ELSE n
<1>1. PICK base : base = Running(n, 1)
  OBVIOUS
<1>2. /\ IsProjection(base) /\ base.t = 0 /\ base.stock = n
      /\ base.since = IF n = 0 THEN 0 ELSE -1
      /\ base.outs = IF n = 0 THEN <<0>> ELSE <<>>
  BY <1>1 DEF Running, IsProjection, ProjectionFields
<1>3. PICK last : last = FoldLeft(LAMBDA s, m : Applied(Until(s, 1, m.at), 1, m.qty), base, ev)
  OBVIOUS
<1>4. PICK u : u = Until(last, 1, Horizon)
  OBVIOUS
<1>5. Project(n, 1, <<Move(at, q)>>)
        = IF u.since = -1 THEN u ELSE [u EXCEPT !.stops = Append(@, <<u.since, Horizon + 1>>)]
  <2> DEFINE start == Running(IF n > 0 THEN n ELSE 0, 1)
  <2>1. start = base
    BY <1>1
  <2>2. Project(n, 1, <<Move(at, q)>>)
          = LET s == Until(FoldLeft(LAMBDA z, m : Applied(Until(z, 1, m.at), 1, m.qty), start, ev), 1, Horizon)
            IN  IF s.since = -1 THEN s ELSE [s EXCEPT !.stops = Append(@, <<s.since, Horizon + 1>>)]
    BY DEF Project
  <2> QED
    BY <1>3, <1>4, <2>1, <2>2
<1>6. r \in Nat /\ (at <= Horizon => r <= Horizon)
  BY DEF Positive
<1>7. /\ IsProjection(last) /\ last.t <= Horizon
      /\ n = 0 => last.outs = <<0>>
      /\ n > 0 /\ at > Horizon => last.t = 0 /\ last.stock = n /\ last.outs = <<>>
      /\ n > 0 /\ at <= Horizon /\ n <= r => last.outs = <<n>>
      /\ at <= Horizon /\ r < n => last.t = r /\ last.stock = n - r + q /\ last.outs = <<>>
  <2>1. CASE at > Horizon
    <3>0. DOMAIN ev = {}
      BY <2>1, EventsOfOne
    <3>1. last = base
      <4> HIDE DEF ev
      <4> QED
        BY <1>3, <3>0, FoldOfNone
    <3> QED
      BY <1>2, <2>1, <3>1
  <2>2. CASE at <= Horizon
    <3>0. DOMAIN ev = {1} /\ ev[1] = Move(r, q)
      BY <2>2, EventsOfOne
    <3>1. DOMAIN ev = {1} /\ ev[1].at = r /\ ev[1].qty = q
      <4> HIDE DEF ev, r
      <4> QED
        BY <3>0 DEF Move
    <3>2. PICK b : b = Until(base, 1, r)
      OBVIOUS
    <3>3. last = Applied(b, 1, q)
      <4> HIDE DEF ev, r
      <4> QED
        BY <1>3, <3>1, <3>2, FoldOfOne
    <3>4. /\ IsProjection(b) /\ b.t = r
          /\ n # 0 /\ n <= r => b.stock = 0 /\ b.since = n /\ b.outs = Append(<<>>, n)
          /\ n = 0 => b.stock = 0 /\ b.since = 0 /\ b.outs = <<0>>
          /\ r < n => b.stock = n - r /\ b.outs = <<>>
      <4> HIDE DEF r
      <4> QED
        BY <1>2, <1>6, <3>2, UntilByField
    <3>5. b.stock = 0 => b.since # -1
      BY <1>6, <3>4
    <3>6. IsProjection(last) /\ last.t = r /\ last.stock = b.stock + q /\ last.outs = b.outs
      BY <3>3, <3>4, <3>5, ReceiptByField
    <3>7. Append(<<>>, n) = <<n>>
      OBVIOUS
    <3> QED
      BY <1>6, <2>2, <3>4, <3>6, <3>7
  <2> QED
    BY <2>1, <2>2
<1>8. /\ IsProjection(u)
      /\ (last.stock # 0 /\ last.t + last.stock <= Horizon) => u.outs = Append(last.outs, last.t + last.stock)
      /\ ~(last.stock # 0 /\ last.t + last.stock <= Horizon) => u.outs = last.outs
  BY <1>4, <1>7, UntilByField
<1>9. Project(n, 1, <<Move(at, q)>>).outs = u.outs
  BY <1>5, <1>8 DEF IsProjection, ProjectionFields
<1>10. \A x, y \in Nat : Append(<<x>>, y)[1] = x /\ Append(<<x>>, y) # <<>> /\ Append(<<>>, y) = <<y>>
                        /\ <<x>>[1] = x /\ <<x>> # <<>>
  OBVIOUS
<1>11. (IF u.outs = <<>> THEN Never ELSE u.outs[1]) = IF dry <= Horizon THEN dry ELSE Never
  <2> HIDE DEF r
  <2>0. last.t + last.stock \in Nat
    BY <1>7 DEF IsProjection
  <2>1. CASE n = 0
    <3>1. dry = n /\ n <= Horizon
      BY <1>6, <2>1
    <3>2. last.outs = <<n>>
      BY <1>7, <2>1
    <3>3. u.outs = <<n>> \/ u.outs = Append(<<n>>, last.t + last.stock)
      BY <1>8, <3>2
    <3>4. u.outs # <<>> /\ u.outs[1] = n
      BY <1>10, <2>0, <3>3
    <3> QED
      BY <3>1, <3>4
  <2>2. CASE n > 0 /\ at > Horizon
    BY <1>7, <1>8, <1>10, <2>2
  <2>3. CASE n > 0 /\ at <= Horizon /\ n <= r
    <3>1. dry = n /\ n <= Horizon
      BY <1>6, <2>3
    <3>2. last.outs = <<n>>
      BY <1>7, <2>3
    <3>3. u.outs = <<n>> \/ u.outs = Append(<<n>>, last.t + last.stock)
      BY <1>8, <3>2
    <3>4. u.outs # <<>> /\ u.outs[1] = n
      BY <1>10, <2>0, <3>3
    <3> QED
      BY <3>1, <3>4
  <2>4. CASE at <= Horizon /\ r < n
    <3>1. last.t + last.stock = n + q /\ last.stock # 0 /\ n + q \in Nat
      BY <1>6, <1>7, <2>4
    <3> QED
      BY <1>7, <1>8, <1>10, <2>4, <3>1
  <2> QED
    BY <1>6, <2>1, <2>2, <2>3, <2>4
<1> QED
  BY <1>9, <1>11 DEF FirstStockout

\* A stock-out the projection foresees is one of the hourly account.
LEMMA ForeseenIsReal ==
  ASSUME Horizon \in Nat, NEW n \in Nat, NEW at \in Int, NEW q \in Nat,
         FirstStockout(Project(n, 1, <<Move(at, q)>>)) # Never
  PROVE  /\ FirstStockout(Project(n, 1, <<Move(at, q)>>)) \in Hours
         /\ Hourly(n, 1, <<Move(at, q)>>)[FirstStockout(Project(n, 1, <<Move(at, q)>>))].before = 0
<1> DEFINE r == Positive(at)
           dry == IF at <= Horizon /\ r < n THEN n + q ELSE n
<1>1. PICK out : out = FirstStockout(Project(n, 1, <<Move(at, q)>>))
  OBVIOUS
<1>2. r \in Nat /\ (at > Horizon => r > Horizon) /\ dry \in Nat
  BY DEF Positive
<1>3. out = dry /\ dry <= Horizon
  BY <1>1, <1>2, StockoutOfReceipt
<1>4. out \in Hours
  BY <1>2, <1>3 DEF Hours
<1>5. Account(n, r, q)[out].before = 0
  <2>0. Account(n, r, q)[out].before = IF out <= r THEN Positive(n - out) ELSE Positive(Rest(n, r, q) - (out - r))
    BY <1>4 DEF Account
  <2> HIDE DEF r
  <2>1. CASE at <= Horizon /\ r < n
    <3>1. out = n + q /\ ~(out <= r)
      BY <1>2, <1>3, <2>1
    <3>2. Rest(n, r, q) = n - r + q
      BY <1>2, <2>1 DEF Rest, Before, Positive
    <3> QED
      BY <1>2, <2>0, <2>1, <3>1, <3>2 DEF Positive
  <2>2. CASE ~(at <= Horizon /\ r < n)
    <3>1. out = n /\ out <= r
      BY <1>2, <1>3, <2>2
    <3> QED
      BY <2>0, <3>1 DEF Positive
  <2> QED
    BY <2>1, <2>2
<1> QED
  <2> HIDE DEF dry
  <2>1. q \in Int /\ n \in Int
    OBVIOUS
  <2>2. Hourly(n, 1, <<Move(at, q)>>)[out].before = Account(n, r, q)[out].before
    BY <1>4, <2>1, HourlyOfOne
  <2> QED
    BY <1>1, <1>4, <1>5, <2>2

-----------------------------------------------------------------------------
(* Decision: the gates of a transfer *)

\* A donor whose stock after the transfer still keeps the cover lasts through it.
LEMMA KeptLasts ==
  ASSUME NEW w, w.onHand \in Int, NEW q \in Nat, q > 0,
         w.onHand - q >= Cover
  PROVE  DonorLasts(w, q)
<1> USE WorldsAreTyped
<1> DEFINE ev == Events(<<Move(0, -q)>>)
           base == Running(w.onHand, 1)
           left == w.onHand - q
<1>1. DOMAIN ev = {1} /\ ev[1] = Move(0, -q)
  <2>1. DOMAIN ev = {1} /\ ev[1] = Move(Positive(0), -q)
    BY EventsOfOne
  <2> QED
    BY <2>1 DEF Positive
<1>2. ev[1].at = 0 /\ ev[1].qty = -q
  BY <1>1 DEF Move
<1>3. w.onHand > 0 /\ left \in Nat
  OBVIOUS
<1>4. base.stock = w.onHand /\ base.t = 0 /\ base.since = -1 /\ base.outs = <<>>
  BY <1>3 DEF Running
<1>6. DOMAIN base = {"t", "stock", "since", "outs", "stops", "breaks"}
  BY DEF Running
<1>7. PICK r : r = Until(base, 1, 0)
  OBVIOUS
<1>8. /\ DOMAIN r = {"t", "stock", "since", "outs", "stops", "breaks"}
      /\ r.stock = w.onHand /\ r.t = 0 /\ r.since = -1 /\ r.outs = <<>>
  <2> HIDE DEF base
  <2>1. base.stock # 0 /\ ~(base.t + base.stock <= 0)
    BY <1>3, <1>4
  <2>2. r = [base EXCEPT !.t = 0, !.stock = @ - (0 - base.t)]
    BY <2>1, <1>7 DEF Until
  <2>3. DOMAIN r = {"t", "stock", "since", "outs", "stops", "breaks"}
    BY <1>6, <2>2
  <2>4. r.stock = base.stock - (0 - base.t) /\ r.t = 0 /\ r.since = base.since /\ r.outs = base.outs
    BY <1>6, <2>2
  <2> QED
    BY <1>3, <1>4, <2>3, <2>4
<1>9. PICK a : a = Applied(r, 1, -q)
  OBVIOUS
<1>10. a.stock = left /\ a.t = 0 /\ a.outs = IF left = 0 THEN <<0>> ELSE <<>>
  BY <1>3, <1>8, <1>9 DEF Applied
<1>11. DOMAIN a = {"t", "stock", "since", "outs", "stops", "breaks"}
  BY <1>8, <1>9 DEF Applied
<1>12. PICK u : u = Until(a, 1, Horizon)
  OBVIOUS
<1>13. u.outs = IF left <= Horizon THEN <<left>> ELSE <<>>
  BY <1>3, <1>10, <1>11, <1>12 DEF Until
<1>14. DOMAIN u = {"t", "stock", "since", "outs", "stops", "breaks"}
  BY <1>11, <1>12 DEF Until
<1>15. Project(w.onHand, 1, <<Move(0, -q)>>).outs = u.outs
  <2>1. FoldLeft(LAMBDA s, m : Applied(Until(s, 1, m.at), 1, m.qty), base, ev) = a
    <3> HIDE DEF base, ev
    <3> QED
      BY <1>1, <1>2, <1>7, <1>9, FoldOfOne
  <2> DEFINE start == Running(IF w.onHand > 0 THEN w.onHand ELSE 0, 1)
  <2>2. start = base
    BY <1>3
  <2>3. Project(w.onHand, 1, <<Move(0, -q)>>)
          = LET s == Until(FoldLeft(LAMBDA z, m : Applied(Until(z, 1, m.at), 1, m.qty), start, ev), 1, Horizon)
            IN  IF s.since = -1 THEN s ELSE [s EXCEPT !.stops = Append(@, <<s.since, Horizon + 1>>)]
    BY DEF Project
  <2>4. Project(w.onHand, 1, <<Move(0, -q)>>)
          = IF u.since = -1 THEN u ELSE [u EXCEPT !.stops = Append(@, <<u.since, Horizon + 1>>)]
    BY <2>1, <2>2, <2>3, <1>12
  <2> QED
    BY <2>4, <1>14
<1> QED
  BY <1>3, <1>13, <1>15 DEF DonorLasts, FirstStockout, Never

\* What the routing of a plan rests on: the world's figures are numbers, the plan has
\* two priced options and some are chosen.
PlanIsTyped ==
  /\ DOMAIN world = {"stock", "recovery", "ordered", "onHand", "held", "committed", "protected",
                     "agreement", "grounding", "confirmed", "signalled", "compliant",
                     "repriced", "blocked", "priceOld"}
  /\ world.stock \in Nat /\ world.recovery \in Int /\ world.ordered \in Nat
  /\ world.onHand \in Int /\ world.held \in Nat /\ world.committed \in Nat
  /\ world.repriced \in BOOLEAN /\ world.priceOld \in BOOLEAN
  /\ proposal \in Proposals

\* The larger of two numbers.
LEMMA MaxOfTwo ==
  ASSUME NEW m \in Int, NEW n \in Int
  PROVE  Max({m, n}) = IF m >= n THEN m ELSE n
<1>1. \A x \in {m, n} : (\A y \in {m, n} : x >= y) => x = IF m >= n THEN m ELSE n
  OBVIOUS
<1>2. \E x \in {m, n} : \A y \in {m, n} : x >= y
  OBVIOUS
<1> QED
  BY <1>1, <1>2 DEF Max

\* Any number of units, as long as the donor's figures are numbers.
LEMMA GatesOfDonor ==
  ASSUME PlanIsTyped
  PROVE  GatesAgree
<1> USE WorldsAreTyped
<1> SUFFICES ASSUME NEW q \in 1..world.onHand
             PROVE  LET checked == DonorKept(world, q) /\ Unreserved(world, q) IN
                    /\ CalcAccepts(world, q) = (q <= Offered(world))
                    /\ checked = (q <= Capacity(world))
                    /\ checked => CalcAccepts(world, q) /\ LedgerGrants(world, q) /\ DonorLasts(world, q)
                    /\ CalcAccepts(world, q) /\ world.committed <= Cover => checked
  BY DEF GatesAgree
<1> DEFINE checked == DonorKept(world, q) /\ Unreserved(world, q)
<1>1. world.onHand \in Int /\ world.held \in Nat /\ world.committed \in Nat /\ q \in Nat /\ q > 0
  BY DEF PlanIsTyped
<1>2. CalcAccepts(world, q) = (q <= Offered(world))
  BY <1>1 DEF CalcAccepts, Offered, donorFree, Positive
<1>3. Max({Cover, world.committed}) = IF Cover >= world.committed THEN Cover ELSE world.committed
  BY <1>1, MaxOfTwo
<1>4. checked <=> (q <= Capacity(world))
  BY <1>1, <1>3 DEF Capacity, DonorKept, Unreserved, unreserved, Positive
<1>4a. checked = (q <= Capacity(world))
  BY <1>4 DEF DonorKept
<1>5. checked => CalcAccepts(world, q)
  BY <1>1 DEF DonorKept, Unreserved, unreserved, CalcAccepts, donorFree
<1>6. checked => LedgerGrants(world, q)
  BY <1>1 DEF DonorKept, Unreserved, unreserved, LedgerGrants, Positive
<1>7. checked => DonorLasts(world, q)
  <2>1. checked => world.onHand - q >= Cover
    BY <1>1 DEF DonorKept, Unreserved, unreserved
  <2> QED
    BY <1>1, <2>1, KeptLasts
<1>8. CalcAccepts(world, q) /\ world.committed <= Cover => checked
  BY <1>1 DEF DonorKept, Unreserved, unreserved, CalcAccepts, donorFree
<1> QED
  BY <1>2, <1>4a, <1>5, <1>6, <1>7, <1>8

-----------------------------------------------------------------------------
(* Decision: what verification leaves, and what routing makes of it *)

\* What is chosen is one option or both, each of a positive quantity.
LEMMA ChosenOfTwo ==
  ASSUME proposal \in Proposals
  PROVE  /\ proposal.chosen \in {{1}, {2}, {1, 2}}
         /\ \A i \in {1, 2} : /\ proposal.option[i].qty \in Nat /\ proposal.option[i].qty > 0
                              /\ proposal.option[i].lead \in Nat
<1>1. proposal.chosen \in (SUBSET (1..2)) \ {{}}
  BY ProposalsAreTyped
<1>2. proposal.chosen \in {{1}, {2}, {1, 2}}
  BY <1>1
<1>3. \A i \in 1..2 : proposal.option[i] \in [kind : {"STO", "AIR", "ALT"}, qty : Nat \ {0}, cost : Nat, lead : Nat]
  BY ProposalsAreTyped
<1>4. \A i \in 1..2 : /\ proposal.option[i].qty \in Nat /\ proposal.option[i].qty > 0
                      /\ proposal.option[i].lead \in Nat
  BY <1>3
<1> QED
  BY <1>2, <1>4

\* The plan's quantity and cost, of this state and of the next.
LEMMA QuantityIsSummed ==
  ASSUME NEW ids
  PROVE  Quantity(ids) = Summed(proposal.option, ids)
BY DEF Quantity, Summed, MapThenSumSet, MapThenFoldSet, Summing

LEMMA NextQuantityIsSummed ==
  Quantity(Transfers(proposal.chosen))' = Summed(proposal'.option, Transfers(proposal.chosen)')
BY DEF Quantity, Summed, MapThenSumSet, MapThenFoldSet, Summing

CostSummed(o, S) ==
  (CHOOSE g : g = [s \in SUBSET S |-> IF s = {} THEN 0
         ELSE o[CHOOSE x \in s : TRUE].cost + g[s \ {CHOOSE x \in s : TRUE}]])[S]

LEMMA CostIsSummed ==
  ASSUME NEW ids
  PROVE  CostOf(ids) = CostSummed(proposal.option, ids)
BY DEF CostOf, CostSummed, MapThenSumSet, MapThenFoldSet

LEMMA NextCostIsSummed ==
  CostOf(route.auto)' = CostSummed(proposal'.option, route'.auto)
BY DEF CostOf, CostSummed, MapThenSumSet, MapThenFoldSet

\* Something chosen has a quantity.
LEMMA QuantityOfSome ==
  ASSUME proposal \in Proposals, NEW ids \in SUBSET {1, 2}
  PROVE  Quantity(ids) \in Nat /\ (ids # {} => Quantity(ids) > 0)
<1> DEFINE o == proposal.option
<1>1. \A i \in {1, 2} : o[i].qty \in Nat /\ o[i].qty > 0
  BY ChosenOfTwo
<1>2. Quantity(ids) = Summed(o, ids)
  BY QuantityIsSummed
<1>3. ids = {} \/ ids = {1} \/ ids = {2} \/ ids = {1, 2}
  OBVIOUS
<1> HIDE DEF o
<1>4. 1 # 2 /\ o[1].qty \in Int /\ o[2].qty \in Int
  BY <1>1
<1>5. Summed(o, {}) = 0
  BY SumOfNone
<1>6. Summed(o, {1}) = o[1].qty /\ Summed(o, {2}) = o[2].qty
  BY <1>4, SumOfOne
<1>7. Summed(o, {1, 2}) = o[1].qty + o[2].qty
  BY <1>4, SumOfTwo
<1>8. Summed(o, {}) \in Nat /\ \A s \in {{1}, {2}, {1, 2}} : Summed(o, s) \in Nat /\ Summed(o, s) > 0
  <2>1. PICK m, n : m = o[1].qty /\ n = o[2].qty
    OBVIOUS
  <2>2. m \in Nat /\ m > 0 /\ n \in Nat /\ n > 0
    BY <1>1, <2>1
  <2>3. m + n \in Nat /\ m + n > 0
    BY <2>2
  <2> QED
    BY <1>5, <1>6, <1>7, <2>1, <2>2, <2>3
<1> QED
  BY <1>2, <1>3, <1>8

\* The part that need not wait is a proper part of the plan, may run without a person,
\* and is decided only when the stock runs out too early.
LEMMA ImmediateIsUrgent ==
  ASSUME proposal \in Proposals, NEW grounded, Immediate(grounded) # {}
  PROVE  /\ Immediate(grounded) \subseteq proposal.chosen /\ Immediate(grounded) # proposal.chosen
         /\ Automatic(Immediate(grounded), grounded)
         /\ ~(NeedAt >= Window + Min({proposal.option[i].lead : i \in proposal.chosen}))
<1> DEFINE able == {s \in SUBSET proposal.chosen : s # proposal.chosen /\ Automatic(s, grounded)}
           late == NeedAt >= Window + Min({proposal.option[i].lead : i \in proposal.chosen})
           best == CHOOSE s \in able : \A t \in able \ {s} : Better(s, t)
<1>1. Immediate(grounded) = IF late \/ able = {} THEN {} ELSE best
  BY DEF Immediate
<1>2. ~late /\ able # {} /\ Immediate(grounded) = best
  <2> HIDE DEF late, able, best
  <2> QED
    BY <1>1
<1>3. \A s \in able : s # {}
  BY DEF Automatic
<1>4. able \subseteq {{1}, {2}}
  <2>1. proposal.chosen \in {{1}, {2}, {1, 2}}
    BY ChosenOfTwo
  <2>2. \A s \in able : s \in SUBSET proposal.chosen /\ s # proposal.chosen /\ s # {}
    BY <1>3
  <2> HIDE DEF able
  <2>3. ASSUME NEW s \in able PROVE s = {1} \/ s = {2}
    <3>1. s \subseteq proposal.chosen /\ s # proposal.chosen /\ s # {}
      BY <2>2, <2>3
    <3>2. proposal.chosen = {1} \/ proposal.chosen = {2} \/ proposal.chosen = {1, 2}
      BY <2>1
    <3> QED
      BY <3>1, <3>2
  <2> QED
    BY <2>3
<1>5. Better({1}, {2}) \/ Better({2}, {1})
  <2>1. PICK m, n : m = Quantity({1}) /\ n = Quantity({2})
    OBVIOUS
  <2>2. m \in Nat /\ n \in Nat
    BY <2>1, QuantityOfSome
  <2>3. Min({1}) = 1 /\ Min({2}) = 2
    BY DEF Min
  <2> QED
    BY <2>1, <2>2, <2>3 DEF Better
<1>6. \E s \in able : \A t \in able \ {s} : Better(s, t)
  <2> HIDE DEF able
  <2>1. CASE {1} \in able /\ {2} \in able
    <3>1. able \ {{1}} \subseteq {{2}} /\ able \ {{2}} \subseteq {{1}}
      BY <1>4
    <3>2. CASE Better({1}, {2})
      <4>1. \A t \in able \ {{1}} : t = {2}
        BY <3>1
      <4>2. \A t \in able \ {{1}} : Better({1}, t)
        BY <3>2, <4>1
      <4> QED
        BY <2>1, <4>2
    <3>3. CASE Better({2}, {1})
      <4>1. \A t \in able \ {{2}} : t = {1}
        BY <3>1
      <4>2. \A t \in able \ {{2}} : Better({2}, t)
        BY <3>3, <4>1
      <4> QED
        BY <2>1, <4>2
    <3> QED
      BY <1>5, <3>2, <3>3
  <2>2. CASE ~({1} \in able /\ {2} \in able)
    <3>1. PICK s : s \in able
      BY <1>2
    <3>2. able \ {s} = {}
      BY <1>4, <2>2, <3>1
    <3> QED
      BY <3>1, <3>2
  <2> QED
    BY <2>1, <2>2
<1>7. best \in able
  <2> HIDE DEF able
  <2> QED
    BY <1>6
<1>8. best \subseteq proposal.chosen /\ best # proposal.chosen /\ Automatic(best, grounded)
  <2> HIDE DEF best
  <2> QED
    BY <1>7
<1> HIDE DEF best
<1> QED
  BY <1>2, <1>8

\* What a verification without a failed check says of the plan.
PlanIsSound ==
  /\ ~world.repriced /\ ~world.priceOld
  /\ Transfers(proposal.chosen) # {} => DonorKept(world, Quantity(Transfers(proposal.chosen)))

\* No check of the plan failed.
Passed == (\A i \in proposal.chosen : verified.failed[i] = {}) /\ verified.together = {}

\* The inductive invariant: a verified plan without a failed check is sound, nothing
\* is routed before, and what is routed is safe and split with reason.
DecisionInv ==
  /\ PlanIsTyped
  /\ stage = "verified" => (Passed => PlanIsSound)
  /\ stage # "routed" => route = Unrouted
  /\ AutoIsSafe /\ SplitIsNeeded

\* No failed check: the figures hold, and all transfers together leave the cover.
LEMMA PassedIsSound ==
  ASSUME PlanIsTyped,
         \A i \in proposal.chosen : FailedChecks(i) = {},
         FailedTogether(proposal.chosen) = {}
  PROVE  PlanIsSound
<1>1. PICK i \in proposal.chosen : i \in {1, 2}
  BY ChosenOfTwo DEF PlanIsTyped
<1>2. ~world.repriced /\ ~world.priceOld
  <2>1. FailedChecks(i) = {}
    BY <1>1
  <2>2. HasEvidence(i)
    BY <2>1 DEF FailedChecks
  <2>3. fails("V-01", ~MatchesSources(proposal.option[i])) = {} /\ fails("V-10", ~PriceIsFresh) = {}
    BY <2>1, <2>2 DEF FailedChecks
  <2> QED
    BY <2>3 DEF fails, MatchesSources, PriceIsFresh
<1>3. ASSUME Transfers(proposal.chosen) # {}
      PROVE  DonorKept(world, Quantity(Transfers(proposal.chosen)))
  <2> DEFINE sent == Transfers(proposal.chosen)
             kept == DonorKept(world, Quantity(sent))
                       /\ \A j \in sent : DonorLasts(world, proposal.option[j].qty)
  <2>1. fails("V-07", sent # {} /\ ~kept) = {}
    BY DEF FailedTogether
  <2> HIDE DEF kept
  <2>2. kept
    BY <1>3, <2>1 DEF fails
  <2> QED
    BY <2>2 DEF kept
<1> QED
  BY <1>2, <1>3 DEF PlanIsSound

\* A part that runs without a person.
LEMMA AutomaticIsSafe ==
  ASSUME PlanIsTyped, PlanIsSound, NEW ids, ids \subseteq proposal.chosen, NEW grounded,
         Automatic(ids, grounded), NEW r, r.auto = ids
  PROVE  /\ \A i \in ids : proposal.option[i].kind = "STO"
         /\ CostOf(ids) <= AutoLimit
         /\ Quantity(Transfers(proposal.chosen)) > 0
         /\ Cover > 0 => \A h \in 0..Cover - 1 :
              Hourly(world.onHand, 1, <<Move(0, -(Quantity(Transfers(proposal.chosen)) + world.held))>>)[h].after > 0
         /\ ~world.repriced /\ ~world.priceOld
<1> USE WorldsAreTyped
<1>1. \A i \in ids : proposal.option[i].kind = "STO"
  BY DEF Automatic, Reversible
<1>2. CostOf(ids) <= AutoLimit /\ ids # {}
  BY DEF Automatic
<1>3. Transfers(proposal.chosen) # {} /\ Transfers(proposal.chosen) \in SUBSET {1, 2}
  <2>1. proposal.chosen \subseteq {1, 2}
    BY ChosenOfTwo DEF PlanIsTyped
  <2> QED
    BY <1>1, <1>2, <2>1 DEF Transfers
<1>4. PICK sent : sent = Quantity(Transfers(proposal.chosen))
  OBVIOUS
<1>5. sent \in Nat /\ sent > 0
  BY <1>3, <1>4, QuantityOfSome DEF PlanIsTyped
<1>6. world.onHand - world.held - sent >= Cover
  BY <1>3, <1>4 DEF PlanIsSound, DonorKept, unreserved
<1>7. world.onHand \in Int /\ world.held \in Nat
  BY DEF PlanIsTyped
<1>8. ASSUME Cover > 0, NEW h \in 0..Cover - 1
      PROVE  Hourly(world.onHand, 1, <<Move(0, -(sent + world.held))>>)[h].after > 0
  <2>1. PICK n, q : n = world.onHand /\ q = -(sent + world.held)
    OBVIOUS
  <2>2. n \in Int /\ q \in Int /\ n + q >= Cover /\ q <= 0
    BY <1>5, <1>6, <1>7, <2>1
  <2>3. h \in Hours /\ h \in Nat /\ h < Cover
    BY <1>8 DEF Hours
  <2>4. Hourly(n, 1, <<Move(0, q)>>)[h].after = Account(n, Positive(0), q)[h].after
    BY <2>2, <2>3, HourlyOfOne
  <2>5. Positive(0) = 0
    BY DEF Positive
  <2>6. Account(n, 0, q)[h].after = Positive(Rest(n, 0, q) - (h - 0))
    BY <2>3 DEF Account
  <2>7. Rest(n, 0, q) = n + q
    BY <2>2 DEF Rest, Before, Positive
  <2>8. Account(n, 0, q)[h].after > 0
    BY <2>2, <2>3, <2>6, <2>7 DEF Positive
  <2> QED
    BY <2>1, <2>4, <2>5, <2>8
<1> QED
  BY <1>1, <1>2, <1>4, <1>5, <1>8 DEF PlanIsSound

\* What routing decides of a plan that was verified.
LEMMA RoutedIsSafe ==
  ASSUME PlanIsTyped, Passed => PlanIsSound, NEW policy, NEW r, r = RouteOf(policy)
  PROVE  /\ r.auto # {} => \E grounded : PlanIsSound /\ r.auto \subseteq proposal.chosen /\ Automatic(r.auto, grounded)
         /\ r.tier = 2 =>
              /\ r.auto \cap r.asked = {} /\ r.auto \cup r.asked = proposal.chosen
              /\ r.asked # {}
              /\ r.auto # {} => ~(NeedAt >= Window + Min({proposal.option[i].lead : i \in proposal.chosen}))
<1> DEFINE chosen == proposal.chosen
           urgent == Immediate(Grounded)
           rest == chosen \ urgent
<1>1. CASE Blocked(policy)
  <2>1. r = [Unrouted EXCEPT !.tier = 3]
    BY <1>1 DEF RouteOf
  <2> QED
    BY <2>1 DEF Unrouted
<1>2. CASE ~Blocked(policy)
  <2>1. PlanIsSound
    BY <1>2 DEF Blocked, Passed
  <2>2. CASE Automatic(chosen, Grounded)
    <3>1. r = [Unrouted EXCEPT !.tier = 1, !.auto = chosen]
      BY <1>2, <2>2 DEF RouteOf
    <3>2. r.tier = 1 /\ r.auto = chosen
      BY <3>1 DEF Unrouted
    <3> QED
      BY <2>1, <2>2, <3>2
  <2>3. CASE ~Automatic(chosen, Grounded) /\ Eligible(policy.limit, CostOf(rest)) = {}
    <3>1. r = [Unrouted EXCEPT !.tier = 3]
      BY <1>2, <2>3 DEF RouteOf
    <3> QED
      BY <3>1 DEF Unrouted
  <2>4. CASE ~Automatic(chosen, Grounded) /\ Eligible(policy.limit, CostOf(rest)) # {}
    <3>1. r = [tier |-> 2, auto |-> urgent, asked |-> rest,
               approver |-> Asked(policy.limit, CostOf(rest)), deadline |-> Deadline(rest)]
      BY <1>2, <2>4 DEF RouteOf
    <3> HIDE DEF urgent
    <3>2. r.tier = 2 /\ r.auto = urgent /\ r.asked = chosen \ urgent
      BY <3>1
    <3>3. chosen # {}
      BY ChosenOfTwo DEF PlanIsTyped
    <3>4. CASE urgent = {}
      BY <3>2, <3>3, <3>4
    <3>5. CASE urgent # {}
      <4>1. /\ urgent \subseteq chosen /\ urgent # chosen /\ Automatic(urgent, Grounded)
            /\ ~(NeedAt >= Window + Min({proposal.option[i].lead : i \in proposal.chosen}))
        <5> USE DEF urgent
        <5> QED
          BY <3>5, ImmediateIsUrgent DEF PlanIsTyped
      <4>2. r.auto \cap r.asked = {} /\ r.auto \cup r.asked = chosen /\ r.asked # {}
        BY <3>2, <4>1
      <4>3. PlanIsSound /\ r.auto \subseteq chosen /\ Automatic(r.auto, Grounded)
        BY <2>1, <3>2, <4>1
      <4> QED
        BY <4>1, <4>2, <4>3
    <3> QED
      BY <3>4, <3>5
  <2> QED
    BY <2>2, <2>3, <2>4
<1> QED
  BY <1>1, <1>2

\* What was safe for a plan stays so while the world and the plan stay as they are.
LEMMA SoundnessLasts ==
  ASSUME UNCHANGED <<world, proposal>>
  PROVE  PlanIsSound' = PlanIsSound
<1>1. Transfers(proposal.chosen)' = Transfers(proposal.chosen)
  BY DEF Transfers
<1>2. Quantity(Transfers(proposal.chosen))' = Quantity(Transfers(proposal.chosen))
  BY <1>1, QuantityIsSummed, NextQuantityIsSummed
<1>3. PICK n : n = Quantity(Transfers(proposal.chosen))
  OBVIOUS
<1>4. PICK m : m = Quantity(Transfers(proposal.chosen))'
  OBVIOUS
<1> QED
  BY <1>1, <1>2 DEF PlanIsSound, DonorKept

\* AutoIsSafe after a step that moves neither the world nor the plan.
LEMMA SafetyLasts ==
  ASSUME UNCHANGED <<world, proposal>>,
         route'.auto # {} =>
           /\ \A i \in route'.auto : proposal.option[i].kind = "STO"
           /\ CostOf(route'.auto) <= AutoLimit
           /\ Quantity(Transfers(proposal.chosen)) > 0
           /\ Cover > 0 => \A h \in 0..Cover - 1 :
                Hourly(world.onHand, 1, <<Move(0, -(Quantity(Transfers(proposal.chosen)) + world.held))>>)[h].after > 0
           /\ ~world.repriced /\ ~world.priceOld
  PROVE  AutoIsSafe'
<1>1. Transfers(proposal.chosen)' = Transfers(proposal.chosen)
  BY DEF Transfers
<1>2. Quantity(Transfers(proposal.chosen))' = Quantity(Transfers(proposal.chosen))
  BY <1>1, QuantityIsSummed, NextQuantityIsSummed
<1>3. CostOf(route.auto)' = CostOf(route'.auto)
  BY CostIsSummed, NextCostIsSummed
<1> QED
  BY <1>1, <1>2, <1>3 DEF AutoIsSafe

\* SplitIsNeeded after such a step.
LEMMA SplitLasts ==
  ASSUME UNCHANGED <<world, proposal>>,
         route'.tier = 2 =>
           /\ route'.auto \cap route'.asked = {} /\ route'.auto \cup route'.asked = proposal.chosen
           /\ route'.asked # {}
           /\ route'.auto # {} /\ Foreseen # Never =>
                \E h \in Hours : /\ h < Window + Min({proposal.option[i].lead : i \in proposal.chosen})
                                 /\ Hourly(world.stock, 1, <<Move(world.recovery, world.ordered)>>)[h].before = 0
  PROVE  SplitIsNeeded'
BY DEF SplitIsNeeded, Foreseen

\* The smallest lead of the chosen options is a number.
LEMMA FastestIsTyped ==
  ASSUME proposal \in Proposals
  PROVE  Min({proposal.option[i].lead : i \in proposal.chosen}) \in Nat
<1> DEFINE S == {proposal.option[i].lead : i \in proposal.chosen}
<1>1. S \subseteq Nat /\ S # {}
  BY ChosenOfTwo
<1> HIDE DEF S
<1>2. \E m \in S : \A n \in S : m <= n
  BY <1>1, Least
<1>3. Min(S) \in S
  BY <1>2 DEF Min
<1> QED
  BY <1>1, <1>3 DEF S

\* Where a part cannot wait, the hour the line stops is one of the account.
LEMMA UrgentIsForeseen ==
  ASSUME PlanIsTyped, Foreseen # Never,
         ~(NeedAt >= Window + Min({proposal.option[i].lead : i \in proposal.chosen}))
  PROVE  \E h \in Hours : /\ h < Window + Min({proposal.option[i].lead : i \in proposal.chosen})
                          /\ Hourly(world.stock, 1, <<Move(world.recovery, world.ordered)>>)[h].before = 0
<1> USE WorldsAreTyped
<1>1. PICK out : out = Foreseen
  OBVIOUS
<1>2. out \in Hours /\ Hourly(world.stock, 1, <<Move(world.recovery, world.ordered)>>)[out].before = 0
  BY <1>1, ForeseenIsReal DEF Foreseen, PlanIsTyped
<1>3. PICK w : w = Window + Min({proposal.option[i].lead : i \in proposal.chosen})
  OBVIOUS
<1>4. w \in Nat
  <2>1. PICK m : m = Min({proposal.option[i].lead : i \in proposal.chosen})
    OBVIOUS
  <2>2. m \in Nat
    BY <2>1, FastestIsTyped DEF PlanIsTyped
  <2> QED
    BY <1>3, <2>1, <2>2
<1>5. ~(out >= w)
  BY <1>1, <1>3 DEF NeedAt
<1>6. out < w
  BY <1>2, <1>4, <1>5 DEF Hours
<1> QED
  BY <1>2, <1>3, <1>6

\* The invariant holds when the options are priced.
LEMMA DecisionStarts ==
  ASSUME DecisionInit
  PROVE  DecisionInv
<1>1. PlanIsTyped
  BY WorldsAreTyped DEF DecisionInit, PlanIsTyped
<1>2. stage = "priced" /\ route = Unrouted
  BY DEF DecisionInit
<1>3. AutoIsSafe /\ SplitIsNeeded
  BY <1>2 DEF AutoIsSafe, SplitIsNeeded, Unrouted
<1> QED
  BY <1>1, <1>2, <1>3 DEF DecisionInv

\* The world's moves keep its figures numbers.
LEMMA PlanStaysTyped ==
  ASSUME PlanIsTyped, [DecisionNext]_decisionVars
  PROVE  PlanIsTyped'
<1>1. proposal' = proposal
  BY DEF DecisionNext, decisionVars, WorldMoves, VerifyPlan, Route
<1>2. CASE UNCHANGED world
  BY <1>1, <1>2 DEF PlanIsTyped
<1>3. CASE world' \in Moves
  <2> USE DEF PlanIsTyped
  <2>1. CASE world' = [world EXCEPT !.onHand = @ - 1]
    BY <1>1, <2>1
  <2>2. CASE world' = [world EXCEPT !.held = @ + 1]
    BY <1>1, <2>2
  <2>3. CASE world' = [world EXCEPT !.repriced = TRUE]
    BY <1>1, <2>3
  <2>4. CASE world' = [world EXCEPT !.blocked = TRUE]
    BY <1>1, <2>4
  <2>5. CASE world' = [world EXCEPT !.priceOld = TRUE]
    BY <1>1, <2>5
  <2> QED
    BY <1>3, <2>1, <2>2, <2>3, <2>4, <2>5 DEF Moves
<1> QED
  BY <1>2, <1>3 DEF DecisionNext, decisionVars, WorldMoves, VerifyPlan, Route

\* Every step of the decision keeps the invariant.
LEMMA DecisionContinues ==
  ASSUME DecisionInv, [DecisionNext]_decisionVars
  PROVE  DecisionInv'
<1> USE DEF DecisionInv
<1>1. PlanIsTyped'
  BY PlanStaysTyped
<1>2. CASE WorldMoves
  <2>1. stage' = "moved" /\ route' = Unrouted
    BY <1>2 DEF WorldMoves
  <2>2. AutoIsSafe' /\ SplitIsNeeded'
    BY <2>1 DEF AutoIsSafe, SplitIsNeeded, Unrouted
  <2> QED
    BY <1>1, <2>1, <2>2
<1>3. CASE VerifyPlan
  <2>1. stage' = "verified" /\ route' = Unrouted /\ UNCHANGED <<world, proposal>>
    BY <1>3 DEF VerifyPlan
  <2>2. AutoIsSafe' /\ SplitIsNeeded'
    BY <2>1 DEF AutoIsSafe, SplitIsNeeded, Unrouted
  <2>3. ASSUME Passed' PROVE PlanIsSound'
    <3>1. verified' = [failed |-> [i \in Options |-> FailedChecks(i)],
                       together |-> FailedTogether(proposal.chosen)]
      BY <1>3 DEF VerifyPlan
    <3>2. proposal.chosen \subseteq Options
      BY ChosenOfTwo DEF PlanIsTyped, Options
    <3>3. \A i \in proposal.chosen : FailedChecks(i) = {}
      BY <2>1, <2>3, <3>1, <3>2 DEF Passed
    <3>4. FailedTogether(proposal.chosen) = {}
      BY <2>1, <2>3, <3>1 DEF Passed
    <3> QED
      BY <2>1, <3>3, <3>4, PassedIsSound, SoundnessLasts
  <2> QED
    BY <1>1, <2>1, <2>2, <2>3
<1>4. CASE Route
  <2>1. stage' = "routed" /\ UNCHANGED <<world, proposal>>
    BY <1>4 DEF Route
  <2>2. PICK policy : route' = RouteOf(policy)
    BY <1>4 DEF Route
  <2>3. Passed => PlanIsSound
    BY <1>4 DEF Route
  <2>4. PICK r : r = route' /\ r = RouteOf(policy)
    BY <2>2
  <2>5. AutoIsSafe'
    <3>1. r.auto # {} => \E grounded : PlanIsSound /\ r.auto \subseteq proposal.chosen /\ Automatic(r.auto, grounded)
      BY <2>3, <2>4, RoutedIsSafe
    <3>2. ASSUME r.auto # {}
          PROVE  /\ \A i \in r.auto : proposal.option[i].kind = "STO"
                 /\ CostOf(r.auto) <= AutoLimit
                 /\ Quantity(Transfers(proposal.chosen)) > 0
                 /\ Cover > 0 => \A h \in 0..Cover - 1 :
                      Hourly(world.onHand, 1, <<Move(0, -(Quantity(Transfers(proposal.chosen)) + world.held))>>)[h].after > 0
                 /\ ~world.repriced /\ ~world.priceOld
      BY <3>1, <3>2, AutomaticIsSafe
    <3> QED
      BY <2>1, <2>4, <3>2, SafetyLasts
  <2>6. SplitIsNeeded'
    <3>1. r.tier = 2 =>
            /\ r.auto \cap r.asked = {} /\ r.auto \cup r.asked = proposal.chosen
            /\ r.asked # {}
            /\ r.auto # {} => ~(NeedAt >= Window + Min({proposal.option[i].lead : i \in proposal.chosen}))
      BY <2>3, <2>4, RoutedIsSafe
    <3>2. r.tier = 2 /\ r.auto # {} /\ Foreseen # Never =>
            \E h \in Hours : /\ h < Window + Min({proposal.option[i].lead : i \in proposal.chosen})
                             /\ Hourly(world.stock, 1, <<Move(world.recovery, world.ordered)>>)[h].before = 0
      BY <3>1, UrgentIsForeseen
    <3> QED
      BY <2>1, <2>4, <3>1, <3>2, SplitLasts
  <2> QED
    BY <1>1, <2>1, <2>5, <2>6
<1>5. CASE UNCHANGED decisionVars
  <2>1. UNCHANGED <<world, proposal, route, stage, verified>>
    BY <1>5 DEF decisionVars
  <2>2. Passed' = Passed
    BY <2>1 DEF Passed
  <2>3. PlanIsSound' = PlanIsSound
    BY <2>1, SoundnessLasts
  <2>4. AutoIsSafe'
    BY <2>1, SafetyLasts DEF AutoIsSafe
  <2>5. SplitIsNeeded'
    BY <2>1, SplitLasts DEF SplitIsNeeded
  <2> QED
    BY <1>1, <2>1, <2>2, <2>3, <2>4, <2>5
<1> QED
  BY <1>2, <1>3, <1>4, <1>5 DEF DecisionNext

-----------------------------------------------------------------------------
(* Decision: theorems *)

\* For every horizon, cover and world: at the time a plan is priced and after the
\* world moved, calculator, finder, optimizer, verifier and ledger agree on what a
\* donor may give (compute_option, donor_capacity, _donor_ok, Ledger.reserve).
THEOREM GatesOfATransferAgree == DecisionSpec => []GatesAgree
<1>1. DecisionInv => GatesAgree
  BY GatesOfDonor DEF DecisionInv
<1> QED
  BY <1>1, DecisionStarts, DecisionContinues, PTL DEF DecisionSpec

\* For every world, plan and policy: what routing lets run without a person can be
\* undone, costs no more than the limit, and leaves the donor stock in every hour of the
\* cover window, whatever moved between the pricing and the check (verify, _auto, _route).
THEOREM AutomaticPartsAreSafe == DecisionSpec => []AutoIsSafe
<1>1. DecisionInv => AutoIsSafe
  BY DEF DecisionInv
<1> QED
  BY <1>1, DecisionStarts, DecisionContinues, PTL DEF DecisionSpec

\* For every world, plan and policy: a plan is split into its whole, and only when
\* the line would stand before an approver and the fastest action could help (BR-22,
\* _immediate), where the projection foresees a stock-out at all.
THEOREM PlansAreSplitWhenNeeded == DecisionSpec => []SplitIsNeeded
<1>1. DecisionInv => SplitIsNeeded
  BY DEF DecisionInv
<1> QED
  BY <1>1, DecisionStarts, DecisionContinues, PTL DEF DecisionSpec
=============================================================================
