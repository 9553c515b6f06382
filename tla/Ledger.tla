------------------------------- MODULE Ledger -------------------------------
(***************************************************************************)
(* The resource ledger of services/execution/ledger.py: reserve() and      *)
(* release() read a reservation and a versioned balance one item at a      *)
(* time, then write both in a transaction conditioned on what they read.   *)
(* Any number of Lambda invocations call it at once, and an invocation may *)
(* stop between any two of its database calls.                             *)
(***************************************************************************)
EXTENDS Naturals, FiniteSets

CONSTANTS
  Stocks,     \* donor stocks: one per (material, plant) pair, the partition key
  Parts,      \* plan parts; a part's id is its reservation id on every stock
  Callers,    \* concurrent invocations of the execution Lambda
  Capacity,   \* [Stocks -> Nat]: the most a caller's SAP reading can offer
  MaxQty      \* largest quantity of one transfer

ASSUME StocksParts == IsFiniteSet(Parts)
ASSUME CapacityIsNat == Capacity \in [Stocks -> Nat]
ASSUME QtyIsPositive == MaxQty \in Nat \ {0}
ASSUME SomeStockAndPart == Stocks # {} /\ Parts # {}

VARIABLES
  bal,        \* BAL item of each stock; version 0: the item does not exist
  res,        \* RES#part item of each stock; status "NONE": it does not exist
  call        \* what each invocation is doing and the values it has read

vars == <<bal, res, call>>

Statuses == {"NONE", "HELD", "RELEASED"}

Reserving == {"findReservation", "checkBalance", "commitReserve"}
Releasing == {"findHold", "readBalance", "commitRelease"}
Answers   == {"reserved", "conflict", "released", "refused"}

Balance == [version : Nat, allocated : Nat]

Reservation == [status : Statuses, qty : 0..MaxQty, version : 0..2]

Call == [pc : {"idle"} \cup Reserving \cup Releasing \cup Answers,
         s : Stocks, p : Parts,
         qty : 0..MaxQty,      \* the quantity asked for, or read from RES
         available : Nat,      \* stock above cover, read from SAP beforehand
         seen : Balance,       \* BAL as this invocation read it
         resVersion : 0..2]    \* RES version as this invocation read it

NoReservation == [status |-> "NONE", qty |-> 0, version |-> 0]

NoBalance == [version |-> 0, allocated |-> 0]

AnyStock == CHOOSE s \in Stocks : TRUE

AnyPart == CHOOSE p \in Parts : TRUE

\* An invocation at pc with nothing read yet.
Fresh(pc, s, p) == [pc |-> pc, s |-> s, p |-> p, qty |-> 0, available |-> 0,
                    seen |-> NoBalance, resVersion |-> 0]

IdleCall == Fresh("idle", AnyStock, AnyPart)

At(c, pc) == call[c].pc = pc

\* The call answers; its local values are dead from here on.
Answer(c, a) == call' = [call EXCEPT ![c] = Fresh(a, AnyStock, AnyPart)]

-----------------------------------------------------------------------------
(* reserve *)

\* The caller's arguments: the quantity of a CREATE_STO and the free stock its
\* own earlier SAP query returned, which may be out of date by now.
BeginReserve(c, s, p, q, a) ==
  /\ At(c, "idle")
  /\ call' = [call EXCEPT ![c] = [Fresh("findReservation", s, p) EXCEPT
                                        !.qty = q, !.available = a]]
  /\ UNCHANGED <<bal, res>>

\* A reservation under this id answers at once: the same live claim is granted
\* again, anything else is a conflict.
FindReservation(c) ==
  LET r == res[call[c].s][call[c].p] IN
  /\ At(c, "findReservation")
  /\ \/ /\ r.status = "NONE"
        /\ call' = [call EXCEPT ![c].pc = "checkBalance"]
     \/ /\ r.status # "NONE"
        /\ Answer(c, IF r.qty = call[c].qty /\ r.status = "HELD" THEN "reserved" ELSE "conflict")
  /\ UNCHANGED <<bal, res>>

CheckBalance(c) ==
  LET b == bal[call[c].s] IN
  /\ At(c, "checkBalance")
  /\ IF call[c].qty + b.allocated > call[c].available
     THEN Answer(c, "conflict")
     ELSE call' = [call EXCEPT ![c].seen = b, ![c].pc = "commitReserve"]
  /\ UNCHANGED <<bal, res>>

\* Mutant: the balance is put without its version condition (a lost update).
MReserveCommitsUnversioned(c) ==
  res[call[c].s][call[c].p].status = "NONE"

\* Mutant: the reservation is put even when one exists.
MReserveOverwrites(c) ==
  bal[call[c].s].version = call[c].seen.version

\* The transaction's conditions: BAL still as read, RES still absent.
ReserveCommits(c) ==
  /\ bal[call[c].s].version = call[c].seen.version
  /\ res[call[c].s][call[c].p].status = "NONE"

CommitReserve(c) ==
  /\ At(c, "commitReserve")
  /\ IF ReserveCommits(c)
     THEN /\ bal' = [bal EXCEPT ![call[c].s] =
                       [version |-> call[c].seen.version + 1,
                        allocated |-> call[c].seen.allocated + call[c].qty]]
          /\ res' = [res EXCEPT ![call[c].s] = [@ EXCEPT ![call[c].p] =
                       [status |-> "HELD", qty |-> call[c].qty, version |-> 1]]]
          /\ Answer(c, "reserved")
     ELSE /\ Answer(c, "conflict")
          /\ UNCHANGED <<bal, res>>

-----------------------------------------------------------------------------
(* release *)

BeginRelease(c, s, p) ==
  /\ At(c, "idle")
  /\ call' = [call EXCEPT ![c] = Fresh("findHold", s, p)]
  /\ UNCHANGED <<bal, res>>

FindHold(c) ==
  LET r == res[call[c].s][call[c].p] IN
  /\ At(c, "findHold")
  /\ IF r.status \in {"NONE", "RELEASED"}
     THEN Answer(c, "released")
     ELSE call' = [call EXCEPT ![c].pc = "readBalance", ![c].qty = r.qty,
                               ![c].resVersion = r.version]
  /\ UNCHANGED <<bal, res>>

ReadBalance(c) ==
  LET b == bal[call[c].s] IN
  /\ At(c, "readBalance")
  /\ IF b.version = 0 \/ b.allocated < call[c].qty
     THEN Answer(c, "refused")
     ELSE call' = [call EXCEPT ![c].seen = b, ![c].pc = "commitRelease"]
  /\ UNCHANGED <<bal, res>>

\* Mutant: release does not condition on the reservation it gives back.
MReleaseCommitsBlind(c) ==
  bal[call[c].s].version = call[c].seen.version

ReleaseCommits(c) ==
  /\ bal[call[c].s].version = call[c].seen.version
  /\ res[call[c].s][call[c].p].version = call[c].resVersion
  /\ res[call[c].s][call[c].p].status = "HELD"

CommitRelease(c) ==
  /\ At(c, "commitRelease")
  /\ IF ReleaseCommits(c)
     THEN /\ bal' = [bal EXCEPT ![call[c].s] =
                       [version |-> call[c].seen.version + 1,
                        allocated |-> call[c].seen.allocated - call[c].qty]]
          /\ res' = [res EXCEPT ![call[c].s] = [@ EXCEPT ![call[c].p] =
                       [status |-> "RELEASED", version |-> call[c].resVersion + 1,
                        qty |-> res[call[c].s][call[c].p].qty]]]
          /\ Answer(c, "released")
     ELSE /\ Answer(c, "refused")
          /\ UNCHANGED <<bal, res>>

-----------------------------------------------------------------------------
\* The call returns or raises; or the invocation stops at any point of it.
Return(c) ==
  /\ call[c].pc \in Answers
  /\ call' = [call EXCEPT ![c] = IdleCall]
  /\ UNCHANGED <<bal, res>>

Stop(c) ==
  /\ call[c].pc \in Reserving \cup Releasing
  /\ call' = [call EXCEPT ![c] = IdleCall]
  /\ UNCHANGED <<bal, res>>

Init ==
  /\ bal = [s \in Stocks |-> NoBalance]
  /\ res = [s \in Stocks |-> [p \in Parts |-> NoReservation]]
  /\ call = [c \in Callers |-> IdleCall]

Step(c) ==
  \/ \E s \in Stocks, p \in Parts, q \in 1..MaxQty :
       \E a \in 0..Capacity[s] : BeginReserve(c, s, p, q, a)
  \/ FindReservation(c)
  \/ CheckBalance(c)
  \/ CommitReserve(c)
  \/ \E s \in Stocks, p \in Parts : BeginRelease(c, s, p)
  \/ FindHold(c)
  \/ ReadBalance(c)
  \/ CommitRelease(c)
  \/ Return(c)
  \/ Stop(c)

Next == \E c \in Callers : Step(c)

Spec == Init /\ [][Next]_vars
-----------------------------------------------------------------------------
(* Properties *)

\* Every item and every local value has the type the code gives it.
TypeOK ==
  /\ bal \in [Stocks -> Balance]
  /\ res \in [Stocks -> [Parts -> Reservation]]
  /\ call \in [Callers -> Call]

\* The units of live reservations on a stock, one element per unit.
HeldUnits(s) == {x \in Parts \X (1..MaxQty) : /\ res[s][x[1]].status = "HELD"
                                             /\ x[2] <= res[s][x[1]].qty}

\* The balance every reader of the ledger trusts (the verifier's dry run, the
\* optimizer, the next reserve) is exactly the sum of the live reservations, so
\* no interleaving of reserves, releases and stopped invocations loses an
\* update or counts one twice.
BalanceMatches == \A s \in Stocks : bal[s].allocated = Cardinality(HeldUnits(s))

\* Units held on a stock never exceed what any SAP reading of it offered.
NoOverbooking == \A s \in Stocks : Cardinality(HeldUnits(s)) <= Capacity[s]

\* A reserve that commits leaves the total within the very reading its caller
\* was admitted on, although balance and stock were read in separate calls.
AdmittedWithinReading ==
  [][\A c \in Callers : At(c, "commitReserve") /\ At(c, "reserved")'
       => \A s \in {call[c].s} : Cardinality(HeldUnits(s)') <= call[c].available]_vars

\* reserve() returns only when the part holds the quantity it asked for,
\* whether this call wrote the reservation or found it.
GrantMeansHeld ==
  [][\A c \in Callers : ~At(c, "reserved") /\ At(c, "reserved")'
       => LET r == res'[call[c].s][call[c].p] IN
            r.status = "HELD" /\ r.qty = call[c].qty]_vars

\* The ledger implements the atomic reservations the execution workflow relies on.
R == INSTANCE Reservations WITH
       held <- [s \in Stocks |-> [p \in Parts |->
                  IF res[s][p].status = "HELD" THEN res[s][p].qty ELSE 0]],
       spent <- [s \in Stocks |-> {p \in Parts : res[s][p].status = "RELEASED"}]

\* Each step of the optimistic transactions is one atomic hold or give-back, or
\* changes no reservation at all.
ImplementsReservations == R!RSpec
=============================================================================
