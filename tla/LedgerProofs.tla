---------------------------- MODULE LedgerProofs ----------------------------
(***************************************************************************)
(* Proofs about Ledger for any sets of stocks and callers, any finite set  *)
(* of parts, any capacities and any largest quantity.                      *)
(***************************************************************************)
EXTENDS Ledger, FiniteSetTheorems, TLAPS

-----------------------------------------------------------------------------
(* The inductive invariant *)

\* What the version of a reservation says about it.
ReservationShape ==
  \A s \in Stocks, p \in Parts :
    /\ res[s][p].status = "NONE" => res[s][p].version = 0
    /\ res[s][p].status = "HELD" => res[s][p].version = 1 /\ res[s][p].qty \in 1..MaxQty
    /\ res[s][p].status = "RELEASED" => res[s][p].version = 2

\* What an invocation knows at each point. A version it has read is never ahead
\* of the balance, and names one value of it: that is why the condition on the
\* version alone is enough for the whole read-modify-write.
CallShape(k) ==
  /\ k.pc \in Reserving => k.qty \in 1..MaxQty /\ k.available <= Capacity[k.s]
  /\ k.pc \in {"commitReserve", "commitRelease"} =>
       /\ k.seen.version <= bal[k.s].version
       /\ k.seen.version = bal[k.s].version => k.seen = bal[k.s]
  /\ k.pc = "commitReserve" => k.qty + k.seen.allocated <= k.available
  /\ k.pc \in {"readBalance", "commitRelease"} =>
       /\ k.resVersion = 1
       /\ k.qty \in 1..MaxQty
       /\ res[k.s][k.p].status # "NONE"
       /\ k.qty = res[k.s][k.p].qty
  /\ k.pc = "commitRelease" => k.qty <= k.seen.allocated

IInv ==
  /\ TypeOK
  /\ ReservationShape
  /\ \A c \in Callers : CallShape(call[c])
  /\ BalanceMatches
  /\ NoOverbooking

-----------------------------------------------------------------------------
(* Counting units *)

\* The units of one reservation of q units.
UnitsOf(p, q) == {p} \X (1..q)

LEMMA UnitsOfCount ==
  ASSUME NEW p, NEW q \in Nat
  PROVE  IsFiniteSet(UnitsOf(p, q)) /\ Cardinality(UnitsOf(p, q)) = q
<1>1. IsFiniteSet({p}) /\ Cardinality({p}) = 1
  BY FS_Singleton
<1>2. IsFiniteSet(1..q) /\ Cardinality(1..q) = q
  BY FS_Interval
<1>3. /\ IsFiniteSet({p} \X (1..q))
      /\ Cardinality({p} \X (1..q)) = Cardinality({p}) * Cardinality(1..q)
  BY <1>1, <1>2, FS_Product
<1>4. Cardinality({p}) * Cardinality(1..q) = 1 * q
  BY <1>1, <1>2
<1>5. 1 * q = q
  OBVIOUS
<1>6. QED BY <1>3, <1>4, <1>5 DEF UnitsOf

\* Adding a reservation of q units to units of other parts adds q.
LEMMA UnitsAdded ==
  ASSUME NEW S, IsFiniteSet(S), NEW p, NEW q \in Nat, \A x \in S : x[1] # p
  PROVE  Cardinality(S \cup UnitsOf(p, q)) = Cardinality(S) + q
<1>1. S \cap UnitsOf(p, q) = {}
  BY DEF UnitsOf
<1>2. Cardinality(S) \in Nat
  BY FS_CardinalityType
<1>3. QED BY <1>1, <1>2, UnitsOfCount, FS_Union, FS_EmptySet

LEMMA HeldUnitsFinite ==
  ASSUME NEW s \in Stocks
  PROVE  /\ IsFiniteSet(HeldUnits(s)) /\ Cardinality(HeldUnits(s)) \in Nat
         /\ IsFiniteSet(HeldUnits(s)') /\ Cardinality(HeldUnits(s)') \in Nat
<1>1. IsFiniteSet(Parts \X (1..MaxQty))
  <2>1. IsFiniteSet(1..MaxQty)
    BY QtyIsPositive, FS_Interval
  <2>2. QED BY <2>1, StocksParts, FS_Product
<1>2. HeldUnits(s) \in SUBSET (Parts \X (1..MaxQty))
  BY DEF HeldUnits
<1>3. HeldUnits(s)' \in SUBSET (Parts \X (1..MaxQty))
  BY DEF HeldUnits
<1>4. QED BY <1>1, <1>2, <1>3, FS_Subset, FS_CardinalityType

-----------------------------------------------------------------------------
(* Steps *)

LEMMA FreshIsCall ==
  ASSUME NEW s \in Stocks, NEW p \in Parts,
         NEW pc \in {"idle"} \cup Reserving \cup Releasing \cup Answers
  PROVE  Fresh(pc, s, p) \in Call
<1>1. NoBalance \in Balance
  BY DEF NoBalance, Balance
<1>2. 0 \in 0..MaxQty
  BY QtyIsPositive
<1>3. QED BY <1>1, <1>2 DEF Fresh, Call

LEMMA AskedIsCall ==
  ASSUME NEW f \in Call, NEW q \in 1..MaxQty, NEW a \in Nat
  PROVE  LET k == [f EXCEPT !.qty = q, !.available = a] IN
         /\ k \in Call
         /\ k.pc = f.pc /\ k.s = f.s /\ k.p = f.p
         /\ k.qty = q /\ k.available = a
<1> DEFINE g == [f EXCEPT !.qty = q]
           k == [g EXCEPT !.available = a]
<1>1. q \in 0..MaxQty
  BY QtyIsPositive
<1>2. g \in Call /\ g.pc = f.pc /\ g.s = f.s /\ g.p = f.p /\ g.qty = q
  BY <1>1 DEF Call
<1> HIDE DEF g
<1>3. k \in Call /\ k.pc = g.pc /\ k.s = g.s /\ k.p = g.p /\ k.qty = g.qty /\ k.available = a
  BY <1>2 DEF Call
<1>4. k = [f EXCEPT !.qty = q, !.available = a]
  BY DEF g
<1>5. QED BY <1>2, <1>3, <1>4

LEMMA AnyStockAndPart == AnyStock \in Stocks /\ AnyPart \in Parts
BY SomeStockAndPart DEF AnyStock, AnyPart

LEMMA AnsweredShape ==
  ASSUME NEW k, k.pc \in Answers \cup {"idle"}
  PROVE  CallShape(k)
BY DEF CallShape, Answers, Reserving

\* A step that only changes the local values of one invocation.
LEMMA LocalStep ==
  ASSUME IInv, NEW c \in Callers, NEW k \in Call, CallShape(k),
         call' = [call EXCEPT ![c] = k], UNCHANGED <<bal, res>>
  PROVE  IInv'
<1>1. TypeOK'
  BY DEF IInv, TypeOK
<1>2. \A d \in Callers : CallShape(call[d])'
  <2>1. ASSUME NEW d \in Callers PROVE CallShape(call[d])'
    <3>1. call'[d] = IF d = c THEN k ELSE call[d]
      BY DEF IInv, TypeOK
    <3>2. CallShape(call[d])
      BY DEF IInv
    <3>3. QED BY <3>1, <3>2 DEF CallShape
  <2>2. QED BY <2>1
<1>3. ReservationShape'
  BY DEF IInv, ReservationShape
<1>4. BalanceMatches' /\ NoOverbooking'
  BY DEF IInv, BalanceMatches, NoOverbooking, HeldUnits
<1>5. QED BY <1>1, <1>2, <1>3, <1>4 DEF IInv

LEMMA AnswerStep ==
  ASSUME IInv, NEW c \in Callers, NEW a \in Answers, Answer(c, a), UNCHANGED <<bal, res>>
  PROVE  IInv'
<1>1. Fresh(a, AnyStock, AnyPart) \in Call
  BY FreshIsCall, AnyStockAndPart
<1>2. CallShape(Fresh(a, AnyStock, AnyPart))
  BY AnsweredShape DEF Fresh
<1>3. QED BY <1>1, <1>2, LocalStep DEF Answer

LEMMA ReserveSteps ==
  ASSUME IInv, NEW c \in Callers
  PROVE  /\ \A s \in Stocks, p \in Parts, q \in 1..MaxQty :
              \A a \in 0..Capacity[s] : BeginReserve(c, s, p, q, a) => IInv'
         /\ FindReservation(c) => IInv'
         /\ CheckBalance(c) => IInv'
<1> USE CapacityIsNat, QtyIsPositive
<1>0. /\ call[c] \in Call /\ CallShape(call[c])
      /\ bal[call[c].s] \in Balance
  BY DEF IInv, TypeOK, Call
<1>1. ASSUME NEW s \in Stocks, NEW p \in Parts, NEW q \in 1..MaxQty,
             NEW a \in 0..Capacity[s], BeginReserve(c, s, p, q, a)
      PROVE  IInv'
  <2> DEFINE k == [Fresh("findReservation", s, p) EXCEPT !.qty = q, !.available = a]
  <2>1. Fresh("findReservation", s, p) \in Call
    BY FreshIsCall DEF Reserving
  <2>2. a \in Nat /\ a <= Capacity[s]
    OBVIOUS
  <2>3. k \in Call
    BY <2>1, <2>2, AskedIsCall
  <2>4. /\ k.pc = "findReservation" /\ k.s = s
        /\ k.qty \in 1..MaxQty /\ k.available <= Capacity[s]
    BY <2>1, <2>2, AskedIsCall DEF Fresh
  <2>5. CallShape(k)
    BY <2>4 DEF CallShape
  <2>6. QED BY <1>1, <2>3, <2>5, LocalStep DEF BeginReserve
<1>2. ASSUME FindReservation(c) PROVE IInv'
  <2>1. CASE res[call[c].s][call[c].p].status = "NONE"
    <3> DEFINE k == [call[c] EXCEPT !.pc = "checkBalance"]
    <3>1. k \in Call
      BY <1>0 DEF Call, Reserving
    <3>2. CallShape(k)
      BY <1>0, <1>2 DEF CallShape, Call, Reserving, FindReservation, At
    <3>3. call' = [call EXCEPT ![c] = k]
      BY <1>2, <2>1 DEF FindReservation
    <3>4. QED BY <1>2, <3>1, <3>2, <3>3, LocalStep DEF FindReservation
  <2>2. CASE res[call[c].s][call[c].p].status # "NONE"
    BY <1>2, <2>2, AnswerStep DEF FindReservation, Answers
  <2>3. QED BY <2>1, <2>2
<1>3. ASSUME CheckBalance(c) PROVE IInv'
  <2> DEFINE k == [call[c] EXCEPT !.seen = bal[call[c].s], !.pc = "commitReserve"]
  <2>1. CASE call[c].qty + bal[call[c].s].allocated > call[c].available
    BY <1>3, <2>1, AnswerStep DEF CheckBalance, Answers
  <2>2. CASE ~(call[c].qty + bal[call[c].s].allocated > call[c].available)
    <3>1. k \in Call
      BY <1>0 DEF Call, Reserving
    <3>2. CallShape(k)
      BY <1>0, <1>3, <2>2 DEF CallShape, Call, Balance, Reserving, CheckBalance, At
    <3>3. call' = [call EXCEPT ![c] = k]
      BY <1>3, <2>2 DEF CheckBalance
    <3>4. QED BY <1>3, <3>1, <3>2, <3>3, LocalStep DEF CheckBalance
  <2>3. QED BY <2>1, <2>2
<1>4. QED BY <1>1, <1>2, <1>3

LEMMA ReleaseSteps ==
  ASSUME IInv, NEW c \in Callers
  PROVE  /\ \A s \in Stocks, p \in Parts : BeginRelease(c, s, p) => IInv'
         /\ FindHold(c) => IInv'
         /\ ReadBalance(c) => IInv'
<1> USE CapacityIsNat, QtyIsPositive
<1>0. /\ call[c] \in Call /\ CallShape(call[c])
      /\ bal[call[c].s] \in Balance
      /\ res[call[c].s][call[c].p] \in Reservation
  BY DEF IInv, TypeOK, Call
<1>1. ASSUME NEW s \in Stocks, NEW p \in Parts, BeginRelease(c, s, p) PROVE IInv'
  <2>1. Fresh("findHold", s, p) \in Call
    BY FreshIsCall DEF Releasing
  <2>2. CallShape(Fresh("findHold", s, p))
    BY DEF CallShape, Fresh, Reserving
  <2>3. QED BY <1>1, <2>1, <2>2, LocalStep DEF BeginRelease
<1>2. ASSUME FindHold(c) PROVE IInv'
  <2> DEFINE r == res[call[c].s][call[c].p]
             k == [call[c] EXCEPT !.pc = "readBalance", !.qty = r.qty, !.resVersion = r.version]
  <2>1. CASE r.status \in {"NONE", "RELEASED"}
    BY <1>2, <2>1, AnswerStep DEF FindHold, Answers
  <2>2. CASE r.status \notin {"NONE", "RELEASED"}
    <3>1. r.status = "HELD" /\ r.version = 1 /\ r.qty \in 1..MaxQty
      BY <1>0, <2>2 DEF Reservation, Statuses, IInv, ReservationShape, Call
    <3>2. k \in Call
      BY <1>0, <3>1 DEF Call, Reservation, Releasing
    <3>3. CallShape(k)
      BY <1>0, <3>1 DEF CallShape, Call, Reserving
    <3>4. call' = [call EXCEPT ![c] = k]
      BY <1>2, <2>2 DEF FindHold
    <3>5. QED BY <1>2, <3>2, <3>3, <3>4, LocalStep DEF FindHold
  <2>3. QED BY <2>1, <2>2
<1>3. ASSUME ReadBalance(c) PROVE IInv'
  <2> DEFINE b == bal[call[c].s]
             k == [call[c] EXCEPT !.seen = b, !.pc = "commitRelease"]
  <2>1. CASE b.version = 0 \/ b.allocated < call[c].qty
    BY <1>3, <2>1, AnswerStep DEF ReadBalance, Answers
  <2>2. CASE ~(b.version = 0 \/ b.allocated < call[c].qty)
    <3>1. k \in Call
      BY <1>0 DEF Call, Releasing
    <3>2. CallShape(k)
      BY <1>0, <1>3, <2>2 DEF CallShape, Call, Balance, Reserving, ReadBalance, At
    <3>3. call' = [call EXCEPT ![c] = k]
      BY <1>3, <2>2 DEF ReadBalance
    <3>4. QED BY <1>3, <3>1, <3>2, <3>3, LocalStep DEF ReadBalance
  <2>3. QED BY <2>1, <2>2
<1>4. QED BY <1>1, <1>2, <1>3

\* A transaction that commits a new balance b and reservation r, b counting the
\* units held once r is in place. Every other invocation's reading is either of
\* another stock, or of a version behind the new one.
LEMMA CommitStep ==
  ASSUME IInv, NEW c \in Callers, NEW a \in Answers, Answer(c, a),
         NEW s \in Stocks, NEW p \in Parts, NEW b \in Balance, NEW r \in Reservation,
         b.version = bal[s].version + 1,
         r.status # "NONE", res[s][p].status # "NONE" => r.qty = res[s][p].qty,
         bal' = [bal EXCEPT ![s] = b],
         res' = [res EXCEPT ![s] = [@ EXCEPT ![p] = r]],
         r.status = "HELD" => r.version = 1 /\ r.qty \in 1..MaxQty,
         r.status = "RELEASED" => r.version = 2,
         b.allocated = Cardinality(HeldUnits(s)'), b.allocated <= Capacity[s]
  PROVE  IInv'
<1>1. /\ bal \in [Stocks -> Balance] /\ res \in [Stocks -> [Parts -> Reservation]]
      /\ call \in [Callers -> Call]
  BY DEF IInv, TypeOK
<1> DEFINE f == Fresh(a, AnyStock, AnyPart)
<1>2. f \in Call /\ f.pc = a
  BY FreshIsCall, AnyStockAndPart DEF Fresh
<1> HIDE DEF f
<1>3. call' = [call EXCEPT ![c] = f]
  BY DEF Answer, f
<1>4. TypeOK'
  <2>1. call' \in [Callers -> Call]
    BY <1>1, <1>2, <1>3
  <2>2. bal' \in [Stocks -> Balance]
    BY <1>1
  <2>3. res' \in [Stocks -> [Parts -> Reservation]]
    BY <1>1
  <2>4. QED BY <2>1, <2>2, <2>3 DEF TypeOK
<1>5. ASSUME NEW d \in Callers PROVE CallShape(call[d])'
  <2>1. CASE d = c
    <3>1. call'[d] = f
      BY <1>1, <1>3, <2>1
    <3>2. QED BY <1>2, <3>1 DEF CallShape, Answers, Reserving
  <2>2. CASE d # c
    <3> DEFINE k == call[d]
    <3>1. call'[d] = k /\ k \in Call /\ CallShape(k)
      BY <1>1, <1>3, <2>2 DEF IInv
    <3>2. k.s \in Stocks /\ k.p \in Parts /\ k.seen \in Balance
      BY <3>1 DEF Call
    <3> HIDE DEF k
    <3>3. CASE k.s # s
      <4>1. bal'[k.s] = bal[k.s] /\ res'[k.s] = res[k.s]
        BY <1>1, <3>2, <3>3
      <4>2. QED BY <3>1, <4>1 DEF CallShape
    <3>4. CASE k.s = s
      <4>1. bal'[k.s].version = bal[k.s].version + 1
        BY <1>1, <3>4
      <4>2. /\ bal[k.s].version \in Nat /\ k.seen.version \in Nat
        BY <1>1, <3>2 DEF Balance
      <4>3. /\ res[k.s][k.p].status # "NONE" => res'[k.s][k.p].status # "NONE"
            /\ res[k.s][k.p].status # "NONE" => res'[k.s][k.p].qty = res[k.s][k.p].qty
        <5>1. res'[k.s][k.p] = IF k.p = p THEN r ELSE res[k.s][k.p]
          BY <1>1, <3>2, <3>4
        <5>2. QED BY <3>4, <5>1
      <4>4. k.pc \in {"commitReserve", "commitRelease"} =>
               /\ k.seen.version <= bal'[k.s].version
               /\ k.seen.version # bal'[k.s].version
        BY <3>1, <4>1, <4>2 DEF CallShape
      <4>5. QED BY <3>1, <4>3, <4>4 DEF CallShape
    <3>5. QED BY <3>3, <3>4
  <2>3. QED BY <2>1, <2>2
<1>6. ReservationShape'
  <2>1. \A t \in Stocks, o \in Parts :
           res'[t][o] = IF t = s /\ o = p THEN r ELSE res[t][o]
    BY <1>1
  <2>2. QED BY <2>1 DEF ReservationShape, IInv
<1>7. \A t \in Stocks \ {s} : HeldUnits(t)' = HeldUnits(t) /\ bal'[t] = bal[t]
  <2>1. \A t \in Stocks \ {s} : res'[t] = res[t] /\ bal'[t] = bal[t]
    BY <1>1
  <2>2. QED BY <2>1 DEF HeldUnits
<1>8. bal'[s] = b
  BY <1>1
<1>9. BalanceMatches'
  <2>1. ASSUME NEW t \in Stocks
        PROVE  bal'[t].allocated = Cardinality(HeldUnits(t)')
    <3>1. CASE t = s BY <1>8, <3>1
    <3>2. CASE t # s BY <1>7, <3>2 DEF IInv, BalanceMatches
    <3>3. QED BY <3>1, <3>2
  <2>2. QED BY <2>1 DEF BalanceMatches
<1>10. NoOverbooking'
  <2>1. ASSUME NEW t \in Stocks
        PROVE  Cardinality(HeldUnits(t)') <= Capacity[t]
    <3>1. CASE t = s BY <3>1
    <3>2. CASE t # s BY <1>7, <3>2 DEF IInv, NoOverbooking
    <3>3. QED BY <3>1, <3>2
  <2>2. QED BY <2>1 DEF NoOverbooking
<1>11. QED BY <1>4, <1>5, <1>6, <1>9, <1>10 DEF IInv

LEMMA CommitReserveStep ==
  ASSUME IInv, NEW c \in Callers, CommitReserve(c)
  PROVE  IInv'
<1> USE CapacityIsNat, QtyIsPositive
<1>1. CASE ~ReserveCommits(c)
  BY <1>1, AnswerStep DEF CommitReserve, Answers
<1>2. CASE ReserveCommits(c)
  <2>1. /\ call[c].s \in Stocks /\ call[c].p \in Parts /\ call[c].seen \in Balance
        /\ bal \in [Stocks -> Balance] /\ res \in [Stocks -> [Parts -> Reservation]]
        /\ call[c].available \in Nat
    BY DEF IInv, TypeOK, Call
  <2>2. call[c].pc = "commitReserve" /\ CallShape(call[c])
    BY DEF IInv, CommitReserve, At
  <2>3. /\ call[c].qty \in 1..MaxQty
        /\ call[c].available <= Capacity[call[c].s]
        /\ call[c].qty + call[c].seen.allocated <= call[c].available
    BY <2>2 DEF CallShape, Reserving
  <2>4. PICK s \in Stocks, p \in Parts, q \in 1..MaxQty :
          s = call[c].s /\ p = call[c].p /\ q = call[c].qty
    BY <2>1, <2>3
  <2>5. /\ call[c].seen = bal[s] /\ res[s][p].status = "NONE"
        /\ bal[s].allocated \in Nat /\ bal[s].version \in Nat
        /\ q + bal[s].allocated <= Capacity[s]
    BY <1>2, <2>1, <2>2, <2>3, <2>4 DEF CallShape, ReserveCommits, Balance
  <2>6. PICK b \in Balance : /\ b.version = bal[s].version + 1
                             /\ b.allocated = bal[s].allocated + q
                             /\ bal' = [bal EXCEPT ![s] = b]
    <3>1. [version |-> bal[s].version + 1, allocated |-> bal[s].allocated + q] \in Balance
      BY <2>5 DEF Balance
    <3>2. QED BY <1>2, <2>4, <2>5, <3>1 DEF CommitReserve
  <2>7. PICK r \in Reservation : /\ r.status = "HELD" /\ r.version = 1 /\ r.qty = q
                                 /\ res' = [res EXCEPT ![s] = [@ EXCEPT ![p] = r]]
    <3>1. [status |-> "HELD", qty |-> q, version |-> 1] \in Reservation
      BY DEF Reservation, Statuses
    <3>2. QED BY <1>2, <2>4, <3>1 DEF CommitReserve
  <2>8. HeldUnits(s)' = HeldUnits(s) \cup UnitsOf(p, q)
    <3>1. \A o \in Parts : res'[s][o] = IF o = p THEN r ELSE res[s][o]
      BY <2>1, <2>7
    <3>2. \A n \in 1..MaxQty : n <= q <=> n \in 1..q
      OBVIOUS
    <3>3. 1..q \in SUBSET (1..MaxQty)
      OBVIOUS
    <3>4. ASSUME NEW x \in Parts \X (1..MaxQty)
          PROVE  x \in HeldUnits(s)' <=> x \in HeldUnits(s) \cup UnitsOf(p, q)
      <4>1. x[1] \in Parts /\ x[2] \in 1..MaxQty /\ x = <<x[1], x[2]>>
        OBVIOUS
      <4>2. x \in HeldUnits(s)' <=> res'[s][x[1]].status = "HELD" /\ x[2] <= res'[s][x[1]].qty
        BY DEF HeldUnits
      <4>3. x \in HeldUnits(s) <=> res[s][x[1]].status = "HELD" /\ x[2] <= res[s][x[1]].qty
        BY DEF HeldUnits
      <4>4. x \in UnitsOf(p, q) <=> x[1] = p /\ x[2] \in 1..q
        BY <4>1 DEF UnitsOf
      <4>5. QED BY <2>5, <2>7, <3>1, <3>2, <4>1, <4>2, <4>3, <4>4
    <3>5. HeldUnits(s)' \in SUBSET (Parts \X (1..MaxQty))
          /\ HeldUnits(s) \in SUBSET (Parts \X (1..MaxQty))
      BY DEF HeldUnits
    <3>6. UnitsOf(p, q) \in SUBSET (Parts \X (1..MaxQty))
      BY <2>1, <3>3 DEF UnitsOf
    <3>7. QED BY <3>4, <3>5, <3>6
  <2>9. Cardinality(HeldUnits(s)') = Cardinality(HeldUnits(s)) + q
    <3>1. \A x \in HeldUnits(s) : x[1] # p
      BY <2>5 DEF HeldUnits
    <3>2. IsFiniteSet(HeldUnits(s))
      BY <2>1, HeldUnitsFinite
    <3>3. q \in Nat
      OBVIOUS
    <3>4. QED BY <2>8, <3>1, <3>2, <3>3, UnitsAdded
  <2>10. b.allocated = Cardinality(HeldUnits(s)') /\ b.allocated <= Capacity[s]
    BY <2>5, <2>6, <2>9 DEF IInv, BalanceMatches
  <2>11. "reserved" \in Answers /\ Answer(c, "reserved")
    BY <1>2 DEF CommitReserve, Answers
  <2>12. QED BY <2>5, <2>6, <2>7, <2>10, <2>11, CommitStep
<1>3. QED BY <1>1, <1>2

\* Where the reservation has given its units back, the units held before are
\* those held after and the released ones.
LEMMA UnitsRemoved ==
  ASSUME NEW s \in Stocks, NEW p \in Parts, NEW q \in 1..MaxQty,
         res \in [Stocks -> [Parts -> Reservation]],
         res[s][p].status = "HELD", res[s][p].qty = q,
         NEW r \in Reservation, r.status = "RELEASED",
         res' = [res EXCEPT ![s] = [@ EXCEPT ![p] = r]]
  PROVE  Cardinality(HeldUnits(s)) = Cardinality(HeldUnits(s)') + q
<1>1. \A o \in Parts : res'[s][o] = IF o = p THEN r ELSE res[s][o]
  OBVIOUS
<1>2. 1..q \in SUBSET (1..MaxQty)
  BY QtyIsPositive
<1>3. ASSUME NEW x \in Parts \X (1..MaxQty)
      PROVE  x \in HeldUnits(s) <=> x \in HeldUnits(s)' \cup UnitsOf(p, q)
  <2>1. x[1] \in Parts /\ x[2] \in 1..MaxQty /\ x = <<x[1], x[2]>>
    OBVIOUS
  <2>2. x \in HeldUnits(s)' <=> res'[s][x[1]].status = "HELD" /\ x[2] <= res'[s][x[1]].qty
    BY DEF HeldUnits
  <2>3. x \in HeldUnits(s) <=> res[s][x[1]].status = "HELD" /\ x[2] <= res[s][x[1]].qty
    BY DEF HeldUnits
  <2>4. x \in UnitsOf(p, q) <=> x[1] = p /\ x[2] \in 1..q
    BY <2>1 DEF UnitsOf
  <2>5. x[2] <= q <=> x[2] \in 1..q
    BY <2>1, QtyIsPositive
  <2>6. QED BY <1>1, <2>1, <2>2, <2>3, <2>4, <2>5
<1>4. /\ HeldUnits(s)' \in SUBSET (Parts \X (1..MaxQty))
      /\ HeldUnits(s) \in SUBSET (Parts \X (1..MaxQty))
  BY DEF HeldUnits
<1>5. UnitsOf(p, q) \in SUBSET (Parts \X (1..MaxQty))
  BY <1>2 DEF UnitsOf
<1>6. HeldUnits(s) = HeldUnits(s)' \cup UnitsOf(p, q)
  BY <1>3, <1>4, <1>5
<1>7. \A x \in HeldUnits(s)' : x[1] # p
  BY <1>1 DEF HeldUnits
<1>8. q \in Nat
  BY QtyIsPositive
<1>9. QED BY <1>6, <1>7, <1>8, HeldUnitsFinite, UnitsAdded

LEMMA CommitReleaseStep ==
  ASSUME IInv, NEW c \in Callers, CommitRelease(c)
  PROVE  IInv'
<1> USE CapacityIsNat, QtyIsPositive
<1>1. CASE ~ReleaseCommits(c)
  BY <1>1, AnswerStep DEF CommitRelease, Answers
<1>2. CASE ReleaseCommits(c)
  <2>1. /\ call[c].s \in Stocks /\ call[c].p \in Parts /\ call[c].seen \in Balance
        /\ bal \in [Stocks -> Balance] /\ res \in [Stocks -> [Parts -> Reservation]]
    BY DEF IInv, TypeOK, Call
  <2>2. call[c].pc = "commitRelease" /\ CallShape(call[c])
    BY DEF IInv, CommitRelease, At
  <2>3. /\ call[c].qty \in 1..MaxQty /\ call[c].resVersion = 1
        /\ call[c].qty = res[call[c].s][call[c].p].qty
        /\ call[c].qty <= call[c].seen.allocated
    BY <2>2 DEF CallShape
  <2>4. PICK s \in Stocks, p \in Parts, q \in 1..MaxQty :
          s = call[c].s /\ p = call[c].p /\ q = call[c].qty
    BY <2>1, <2>3
  <2>5. /\ call[c].seen = bal[s] /\ res[s][p].status = "HELD" /\ res[s][p].qty = q
        /\ bal[s].allocated \in Nat /\ bal[s].version \in Nat
        /\ q <= bal[s].allocated
    BY <1>2, <2>1, <2>2, <2>3, <2>4 DEF CallShape, ReleaseCommits, Balance
  <2>6. PICK b \in Balance : /\ b.version = bal[s].version + 1
                             /\ b.allocated = bal[s].allocated - q
                             /\ bal' = [bal EXCEPT ![s] = b]
    <3>1. [version |-> bal[s].version + 1, allocated |-> bal[s].allocated - q] \in Balance
      BY <2>5 DEF Balance
    <3>2. QED BY <1>2, <2>4, <2>5, <3>1 DEF CommitRelease
  <2>7. PICK r \in Reservation : /\ r.status = "RELEASED" /\ r.version = 2 /\ r.qty = q
                                 /\ res' = [res EXCEPT ![s] = [@ EXCEPT ![p] = r]]
    <3>1. [status |-> "RELEASED", qty |-> q, version |-> 2] \in Reservation
      BY DEF Reservation, Statuses
    <3>2. res' = [res EXCEPT ![s] = [@ EXCEPT ![p] = [status |-> "RELEASED", qty |-> q, version |-> 2]]]
      BY <1>2, <2>1, <2>3, <2>4, <2>5 DEF CommitRelease
    <3>3. QED BY <3>1, <3>2
  <2>8. Cardinality(HeldUnits(s)) = Cardinality(HeldUnits(s)') + q
    BY <2>1, <2>5, <2>7, UnitsRemoved
  <2>9. Cardinality(HeldUnits(s)') \in Nat
    BY HeldUnitsFinite
  <2>10. b.allocated = Cardinality(HeldUnits(s)') /\ b.allocated <= Capacity[s]
    <3>1. /\ bal[s].allocated = Cardinality(HeldUnits(s))
          /\ Cardinality(HeldUnits(s)) <= Capacity[s]
      BY DEF IInv, BalanceMatches, NoOverbooking
    <3>2. QED BY <2>6, <2>8, <2>9, <3>1
  <2>11. "released" \in Answers /\ Answer(c, "released")
    BY <1>2 DEF CommitRelease, Answers
  <2>12. QED BY <2>5, <2>6, <2>7, <2>10, <2>11, CommitStep
<1>3. QED BY <1>1, <1>2

LEMMA InitIInv == Init => IInv
<1> SUFFICES ASSUME Init PROVE IInv
  OBVIOUS
<1>1. TypeOK
  <2>1. IdleCall \in Call
    BY AnyStockAndPart, FreshIsCall DEF IdleCall
  <2>2. NoBalance \in Balance
    BY DEF NoBalance, Balance
  <2>3. NoReservation \in Reservation
    BY QtyIsPositive DEF NoReservation, Reservation, Statuses
  <2>4. QED BY <2>1, <2>2, <2>3 DEF Init, TypeOK
<1>2. ReservationShape
  BY DEF Init, ReservationShape, NoReservation
<1>3. ASSUME NEW c \in Callers PROVE CallShape(call[c])
  <2>1. call[c].pc = "idle"
    BY DEF Init, IdleCall, Fresh
  <2>2. QED BY <2>1, AnsweredShape
<1>4. \A s \in Stocks : HeldUnits(s) = {}
  BY DEF Init, HeldUnits, NoReservation
<1>5. BalanceMatches /\ NoOverbooking
  BY <1>4, FS_EmptySet, CapacityIsNat DEF BalanceMatches, NoOverbooking, Init, NoBalance
<1>6. QED BY <1>1, <1>2, <1>3, <1>5 DEF IInv

LEMMA NextIInv == IInv /\ [Next]_vars => IInv'
<1> SUFFICES ASSUME IInv, [Next]_vars PROVE IInv'
  OBVIOUS
<1>1. CASE UNCHANGED vars
  <2>1. /\ UNCHANGED <<bal, res, call>>
        /\ \A s \in Stocks : HeldUnits(s)' = HeldUnits(s)
    BY <1>1 DEF vars, HeldUnits
  <2>2. QED BY <2>1 DEF IInv, TypeOK, ReservationShape, CallShape, BalanceMatches, NoOverbooking
<1>2. ASSUME NEW c \in Callers, Step(c) PROVE IInv'
  <2>1. CASE Return(c) \/ Stop(c)
    <3>1. IdleCall \in Call
      BY AnyStockAndPart, FreshIsCall DEF IdleCall
    <3>2. CallShape(IdleCall)
      BY AnsweredShape DEF IdleCall, Fresh
    <3>3. call' = [call EXCEPT ![c] = IdleCall] /\ UNCHANGED <<bal, res>>
      BY <2>1 DEF Return, Stop
    <3>4. QED BY <3>1, <3>2, <3>3, LocalStep
  <2>2. QED BY <1>2, <2>1, ReserveSteps, ReleaseSteps, CommitReserveStep, CommitReleaseStep DEF Step
<1>3. QED BY <1>1, <1>2 DEF Next

\* Every reachable state satisfies the inductive invariant.
THEOREM Invariance == Spec => []IInv
BY InitIInv, NextIInv, PTL DEF Spec

\* Every item keeps its type: in particular no release drives a balance below 0.
THEOREM TypeCorrect == Spec => []TypeOK
<1>1. IInv => TypeOK
  BY DEF IInv
<1>2. QED BY <1>1, Invariance, PTL

\* However many invocations interleave or stop, a stock's balance is the sum of
\* its live reservations.
THEOREM BalanceIsExact == Spec => []BalanceMatches
<1>1. IInv => BalanceMatches
  BY DEF IInv
<1>2. QED BY <1>1, Invariance, PTL

\* A stock is never promised beyond what SAP said it could give.
THEOREM NeverOverbooked == Spec => []NoOverbooking
<1>1. IInv => NoOverbooking
  BY DEF IInv
<1>2. QED BY <1>1, Invariance, PTL

-----------------------------------------------------------------------------
(* What a step may do *)

\* A step of one invocation leaves the local values of the others alone, and
\* answers "reserved" only from the two places reserve() returns.
LEMMA WhoReserves ==
  ASSUME IInv, [Next]_vars, NEW c \in Callers, ~At(c, "reserved"), At(c, "reserved")'
  PROVE  \/ CommitReserve(c) /\ ReserveCommits(c)
         \/ /\ FindReservation(c)
            /\ res[call[c].s][call[c].p].status = "HELD"
            /\ res[call[c].s][call[c].p].qty = call[c].qty
<1>1. call \in [Callers -> Call]
  BY DEF IInv, TypeOK
<1>2. PICK d \in Callers : Step(d)
  BY DEF Next, vars, At
<1>3. PICK k : call' = [call EXCEPT ![d] = k]
  BY <1>2 DEF Step, BeginReserve, FindReservation, CheckBalance, CommitReserve, BeginRelease,
              FindHold, ReadBalance, CommitRelease, Return, Stop, Answer
<1>4. d = c
  BY <1>1, <1>3 DEF At
<1>5. ASSUME NEW a, Answer(c, a) PROVE a = "reserved"
  BY <1>1, <1>5 DEF Answer, Fresh, At
<1>6. CASE \E s \in Stocks, p \in Parts, q \in 1..MaxQty :
             \E a \in 0..Capacity[s] : BeginReserve(c, s, p, q, a)
  <2>1. call'[c].pc = "findReservation"
    BY <1>1, <1>6 DEF BeginReserve, Fresh
  <2>2. QED BY <2>1 DEF At
<1>7. CASE FindReservation(c)
  <2>1. call'[c].pc = "checkBalance" \/
          Answer(c, IF /\ res[call[c].s][call[c].p].qty = call[c].qty
                       /\ res[call[c].s][call[c].p].status = "HELD"
                    THEN "reserved" ELSE "conflict")
    BY <1>1, <1>7 DEF FindReservation, Call
  <2>2. QED BY <2>1, <1>5, <1>7 DEF At
<1>8. CASE CheckBalance(c)
  <2>1. call'[c].pc = "commitReserve" \/ Answer(c, "conflict")
    BY <1>1, <1>8 DEF CheckBalance, Call
  <2>2. QED BY <2>1, <1>5 DEF At
<1>9. CASE CommitReserve(c)
  BY <1>5, <1>9 DEF CommitReserve
<1>10. CASE \E s \in Stocks, p \in Parts : BeginRelease(c, s, p)
  <2>1. call'[c].pc = "findHold"
    BY <1>1, <1>10 DEF BeginRelease, Fresh
  <2>2. QED BY <2>1 DEF At
<1>11. CASE FindHold(c)
  <2>1. call'[c].pc = "readBalance" \/ Answer(c, "released")
    BY <1>1, <1>11 DEF FindHold, Call
  <2>2. QED BY <2>1, <1>5 DEF At
<1>12. CASE ReadBalance(c)
  <2>1. call'[c].pc = "commitRelease" \/ Answer(c, "refused")
    BY <1>1, <1>12 DEF ReadBalance, Call
  <2>2. QED BY <2>1, <1>5 DEF At
<1>13. CASE CommitRelease(c)
  BY <1>5, <1>13 DEF CommitRelease
<1>14. CASE Return(c) \/ Stop(c)
  <2>1. call'[c].pc = "idle"
    BY <1>1, <1>14 DEF Return, Stop, IdleCall, Fresh
  <2>2. QED BY <2>1 DEF At
<1>15. QED BY <1>2, <1>4, <1>6, <1>7, <1>8, <1>9, <1>10, <1>11, <1>12, <1>13, <1>14 DEF Step

\* The stock check is sound although SAP and the balance are read one after the
\* other and the transaction comes later still: the version condition makes the
\* total written the total the caller was admitted on.
THEOREM AdmissionIsSound == Spec => AdmittedWithinReading
<1>1. ASSUME IInv, IInv', [Next]_vars
      PROVE  [\A c \in Callers : At(c, "commitReserve") /\ At(c, "reserved")'
                => \A s \in {call[c].s} : Cardinality(HeldUnits(s)') <= call[c].available]_vars
  <2>1. SUFFICES ASSUME NEW c \in Callers, At(c, "commitReserve"), At(c, "reserved")',
                        NEW s \in {call[c].s}
                 PROVE  Cardinality(HeldUnits(s)') <= call[c].available
    OBVIOUS
  <2>2. CommitReserve(c) /\ ReserveCommits(c)
    BY <1>1, <2>1, WhoReserves DEF At, FindReservation
  <2>3. s = call[c].s /\ s \in Stocks /\ bal \in [Stocks -> Balance] /\ CallShape(call[c])
    BY <1>1, <2>1 DEF IInv, TypeOK, Call
  <2>4. bal'[s].allocated = call[c].seen.allocated + call[c].qty
    BY <2>2, <2>3 DEF CommitReserve
  <2>5. bal'[s].allocated = Cardinality(HeldUnits(s)')
    BY <1>1, <2>3 DEF IInv, BalanceMatches
  <2>6. call[c].qty + call[c].seen.allocated <= call[c].available
    BY <2>1, <2>3 DEF CallShape, At
  <2>7. call[c].qty \in Nat /\ call[c].seen.allocated \in Nat
    BY <1>1, QtyIsPositive DEF IInv, TypeOK, Call, Balance
  <2>8. QED BY <2>4, <2>5, <2>6, <2>7
<1>2. QED BY <1>1, Invariance, PTL DEF Spec, AdmittedWithinReading

\* A reserve that returns has its units, whoever wrote the reservation.
THEOREM GrantIsBacked == Spec => GrantMeansHeld
<1>1. ASSUME IInv, [Next]_vars
      PROVE  [\A c \in Callers : ~At(c, "reserved") /\ At(c, "reserved")'
                => LET r == res'[call[c].s][call[c].p] IN
                     r.status = "HELD" /\ r.qty = call[c].qty]_vars
  <2>1. SUFFICES ASSUME NEW c \in Callers, ~At(c, "reserved"), At(c, "reserved")'
                 PROVE  LET r == res'[call[c].s][call[c].p] IN
                          r.status = "HELD" /\ r.qty = call[c].qty
    OBVIOUS
  <2>2. call[c].s \in Stocks /\ call[c].p \in Parts /\ res \in [Stocks -> [Parts -> Reservation]]
    BY <1>1 DEF IInv, TypeOK, Call
  <2>3. CASE CommitReserve(c) /\ ReserveCommits(c)
    <3>1. res'[call[c].s][call[c].p] = [status |-> "HELD", qty |-> call[c].qty, version |-> 1]
      BY <2>2, <2>3 DEF CommitReserve
    <3>2. QED BY <3>1
  <2>4. CASE /\ FindReservation(c)
             /\ res[call[c].s][call[c].p].status = "HELD"
             /\ res[call[c].s][call[c].p].qty = call[c].qty
    BY <2>4 DEF FindReservation
  <2>5. QED BY <1>1, <2>1, <2>3, <2>4, WhoReserves
<1>2. QED BY <1>1, Invariance, PTL DEF Spec, GrantMeansHeld

-----------------------------------------------------------------------------
(* The ledger implements Reservations *)

\* The refinement mapping of Ledger's R.
AbsHeld == [s \in Stocks |-> [p \in Parts |->
              IF res[s][p].status = "HELD" THEN res[s][p].qty ELSE 0]]

AbsSpent == [s \in Stocks |-> {p \in Parts : res[s][p].status = "RELEASED"}]

LEMMA SameCardinality ==
  ASSUME NEW S
  PROVE  R!Cardinality(S) = Cardinality(S)
BY DEF R!Cardinality, Cardinality

LEMMA AbsUnits ==
  ASSUME IInv, NEW s \in Stocks
  PROVE  R!UnitsHeld(s) = HeldUnits(s)
<1>1. ASSUME NEW x \in Parts \X (1..MaxQty)
      PROVE  x[2] <= AbsHeld[s][x[1]] <=> res[s][x[1]].status = "HELD" /\ x[2] <= res[s][x[1]].qty
  <2>1. x[1] \in Parts /\ x[2] \in 1..MaxQty
    OBVIOUS
  <2>2. AbsHeld[s][x[1]] = IF res[s][x[1]].status = "HELD" THEN res[s][x[1]].qty ELSE 0
    BY <2>1 DEF AbsHeld
  <2>3. ~(x[2] <= 0)
    BY <2>1, QtyIsPositive
  <2>4. QED BY <2>2, <2>3
<1>2. R!UnitsHeld(s) = {x \in Parts \X (1..MaxQty) : x[2] <= AbsHeld[s][x[1]]}
  BY DEF R!UnitsHeld, AbsHeld
<1>3. QED BY <1>1, <1>2 DEF HeldUnits

LEMMA ReserveIsHold ==
  ASSUME IInv, NEW c \in Callers, CommitReserve(c), ReserveCommits(c)
  PROVE  R!RNext
<1>1. /\ call[c].s \in Stocks /\ call[c].p \in Parts /\ call[c].seen \in Balance
      /\ bal \in [Stocks -> Balance] /\ res \in [Stocks -> [Parts -> Reservation]]
      /\ call[c].available \in Nat /\ call[c].pc = "commitReserve" /\ CallShape(call[c])
  BY DEF IInv, TypeOK, Call, CommitReserve, At
<1>2. PICK s \in Stocks, p \in Parts, q \in 1..MaxQty :
        s = call[c].s /\ p = call[c].p /\ q = call[c].qty
  BY <1>1 DEF CallShape, Reserving
<1>3. /\ res[s][p].status = "NONE" /\ bal[s].allocated \in Nat
      /\ q + bal[s].allocated <= Capacity[s]
  <2>1. call[c].seen = bal[s] /\ bal[s] \in Balance /\ res[s][p].status = "NONE"
    BY <1>1, <1>2 DEF CallShape, ReserveCommits
  <2>2. q + bal[s].allocated <= call[c].available /\ call[c].available <= Capacity[s]
    BY <1>1, <1>2, <2>1 DEF CallShape, Reserving
  <2>3. q \in Nat /\ Capacity[s] \in Nat /\ bal[s].allocated \in Nat
    BY <2>1, CapacityIsNat, QtyIsPositive DEF Balance
  <2>4. QED BY <1>1, <2>1, <2>2, <2>3
<1>4. PICK r : /\ r.status = "HELD" /\ r.qty = q
              /\ res' = [res EXCEPT ![s] = [@ EXCEPT ![p] = r]]
  <2>1. res' = [res EXCEPT ![s] = [@ EXCEPT ![p] =
                  [status |-> "HELD", qty |-> q, version |-> 1]]]
    BY <1>2 DEF CommitReserve
  <2>2. QED BY <2>1
<1>5. \A t \in Stocks, o \in Parts :
        res'[t][o] = IF t = s /\ o = p THEN r ELSE res[t][o]
  BY <1>1, <1>4
<1>6. AbsHeld' = [AbsHeld EXCEPT ![s] = [@ EXCEPT ![p] = q]]
  <2>1. \A t \in Stocks, o \in Parts :
          (IF res'[t][o].status = "HELD" THEN res'[t][o].qty ELSE 0)
          = IF t = s /\ o = p THEN q
            ELSE IF res[t][o].status = "HELD" THEN res[t][o].qty ELSE 0
    BY <1>4, <1>5
  <2>2. AbsHeld' = [t \in Stocks |-> [o \in Parts |->
                      IF t = s /\ o = p THEN q ELSE AbsHeld[t][o]]]
    BY <2>1 DEF AbsHeld
  <2>3. AbsHeld \in [Stocks -> [Parts -> UNION {{AbsHeld[t][o] : o \in Parts} : t \in Stocks}]]
    BY DEF AbsHeld
  <2>4. QED BY <2>2, <2>3
<1>7. AbsSpent' = AbsSpent
  <2>1. \A t \in Stocks : {o \in Parts : res'[t][o].status = "RELEASED"}
                            = {o \in Parts : res[t][o].status = "RELEASED"}
    BY <1>3, <1>4, <1>5
  <2>2. QED BY <2>1 DEF AbsSpent
<1>8. AbsHeld[s][p] = 0 /\ p \notin AbsSpent[s]
  BY <1>3 DEF AbsHeld, AbsSpent
<1>9. Cardinality(R!UnitsHeld(s)) + q <= Capacity[s]
  <2>1. Cardinality(R!UnitsHeld(s)) = bal[s].allocated
    BY AbsUnits DEF IInv, BalanceMatches
  <2>2. q \in Nat /\ Capacity[s] \in Nat
    BY CapacityIsNat, QtyIsPositive
  <2>3. QED BY <1>3, <2>1, <2>2
<1>10. R!Hold(s, p, q)
  BY <1>6, <1>7, <1>8, <1>9, SameCardinality DEF R!Hold, AbsHeld, AbsSpent
<1>11. QED BY <1>10 DEF R!RNext

LEMMA ReleaseIsGiveBack ==
  ASSUME IInv, NEW c \in Callers, CommitRelease(c), ReleaseCommits(c)
  PROVE  R!RNext
<1>1. /\ call[c].s \in Stocks /\ call[c].p \in Parts
      /\ res \in [Stocks -> [Parts -> Reservation]]
  BY DEF IInv, TypeOK, Call
<1>2. PICK s \in Stocks, p \in Parts : s = call[c].s /\ p = call[c].p
  BY <1>1
<1>3. res[s][p].status = "HELD" /\ res[s][p].qty \in 1..MaxQty
  BY <1>2 DEF ReleaseCommits, IInv, ReservationShape
<1>4. PICK r : /\ r.status = "RELEASED"
              /\ res' = [res EXCEPT ![s] = [@ EXCEPT ![p] = r]]
  <2>1. res' = [res EXCEPT ![s] = [@ EXCEPT ![p] =
                  [status |-> "RELEASED", version |-> call[c].resVersion + 1,
                   qty |-> res[s][p].qty]]]
    BY <1>2 DEF CommitRelease
  <2>2. QED BY <2>1
<1>5. \A t \in Stocks, o \in Parts :
        res'[t][o] = IF t = s /\ o = p THEN r ELSE res[t][o]
  BY <1>1, <1>4
<1>6. AbsHeld' = [AbsHeld EXCEPT ![s] = [@ EXCEPT ![p] = 0]]
  <2>1. \A t \in Stocks, o \in Parts :
          (IF res'[t][o].status = "HELD" THEN res'[t][o].qty ELSE 0)
          = IF t = s /\ o = p THEN 0
            ELSE IF res[t][o].status = "HELD" THEN res[t][o].qty ELSE 0
    BY <1>4, <1>5
  <2>2. AbsHeld' = [t \in Stocks |-> [o \in Parts |->
                      IF t = s /\ o = p THEN 0 ELSE AbsHeld[t][o]]]
    BY <2>1 DEF AbsHeld
  <2>3. AbsHeld \in [Stocks -> [Parts -> UNION {{AbsHeld[t][o] : o \in Parts} : t \in Stocks}]]
    BY DEF AbsHeld
  <2>4. QED BY <2>2, <2>3
<1>7. AbsSpent' = [AbsSpent EXCEPT ![s] = @ \cup {p}]
  <2>1. \A t \in Stocks : {o \in Parts : res'[t][o].status = "RELEASED"}
           = IF t = s THEN {o \in Parts : res[t][o].status = "RELEASED"} \cup {p}
             ELSE {o \in Parts : res[t][o].status = "RELEASED"}
    BY <1>4, <1>5
  <2>2. QED BY <2>1 DEF AbsSpent
<1>8. AbsHeld[s][p] > 0
  BY <1>3, QtyIsPositive DEF AbsHeld
<1>9. R!GiveBack(s, p)
  BY <1>6, <1>7, <1>8 DEF R!GiveBack, AbsHeld, AbsSpent
<1>10. QED BY <1>9 DEF R!RNext

\* reserve() and release(), with their separate reads and their conditional
\* transactions, are atomic: the rest of the program may treat a claim on a
\* stock as one step that holds the units, or gives them back for good.
THEOREM LedgerIsAtomic == Spec => ImplementsReservations
<1>1. Init => R!RInit
  BY DEF Init, R!RInit, NoReservation
<1>2. ASSUME IInv, [Next]_vars PROVE [R!RNext]_(R!rvars)
  <2>1. CASE UNCHANGED res
    BY <2>1 DEF R!rvars
  <2>2. CASE \E c \in Callers : CommitReserve(c) /\ ReserveCommits(c)
    BY <1>2, <2>2, ReserveIsHold
  <2>3. CASE \E c \in Callers : CommitRelease(c) /\ ReleaseCommits(c)
    BY <1>2, <2>3, ReleaseIsGiveBack
  <2>4. \/ UNCHANGED res
        \/ \E c \in Callers : CommitReserve(c) /\ ReserveCommits(c)
        \/ \E c \in Callers : CommitRelease(c) /\ ReleaseCommits(c)
    <3>1. CASE UNCHANGED vars
      BY <3>1 DEF vars
    <3>2. ASSUME NEW c \in Callers, Step(c)
          PROVE  \/ UNCHANGED res
                 \/ CommitReserve(c) /\ ReserveCommits(c)
                 \/ CommitRelease(c) /\ ReleaseCommits(c)
      <4>1. ASSUME NEW s \in Stocks, NEW p \in Parts,
                   \/ BeginRelease(c, s, p)
                   \/ \E q \in 1..MaxQty, a \in 0..Capacity[s] : BeginReserve(c, s, p, q, a)
            PROVE  UNCHANGED res
        BY <4>1 DEF BeginReserve, BeginRelease
      <4>2. CASE FindReservation(c) \/ CheckBalance(c)
        BY <4>2 DEF FindReservation, CheckBalance
      <4>3. CASE FindHold(c) \/ ReadBalance(c) \/ Return(c) \/ Stop(c)
        BY <4>3 DEF FindHold, ReadBalance, Return, Stop
      <4>4. CASE CommitReserve(c)
        BY <4>4 DEF CommitReserve
      <4>5. CASE CommitRelease(c)
        BY <4>5 DEF CommitRelease
      <4>6. QED BY <3>2, <4>1, <4>2, <4>3, <4>4, <4>5 DEF Step
    <3>3. QED BY <1>2, <3>1, <3>2 DEF Next
  <2>5. QED BY <2>1, <2>2, <2>3, <2>4
<1>3. QED BY <1>1, <1>2, Invariance, PTL DEF Spec, ImplementsReservations, R!RSpec
=============================================================================
