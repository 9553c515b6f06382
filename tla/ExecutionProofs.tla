--------------------------- MODULE ExecutionProofs ---------------------------
(***************************************************************************)
(* Proofs about Execution for any machines, any number of repeated         *)
(* invocations, and whatever the environment may do. What makes a part     *)
(* orderly is the claim in the journal: it is taken once, so of all        *)
(* invocations, first and repeated, of all machines announced for a part   *)
(* one at most writes or compensates, and nobody else after it. Success in *)
(* the journal is final, which is what the goods receipt check and the     *)
(* rollback rely on while they go over the parts.                          *)
(***************************************************************************)
EXTENDS Execution, FiniteSetTheorems, TLAPS

-----------------------------------------------------------------------------
(* The inductive invariant *)

Statuses == {"VERIFIED", "AUTO_APPROVED", "AWAITING_APPROVAL", "APPROVED", "REJECTED",
             "EXECUTING", "MONITORING", "INVESTIGATING", "FAILED_ROLLED_BACK",
             "REOPENED", "CLOSED", "ROLLED_BACK", "ESCALATED"}
Marks == {"NONE", "PENDING", "SUCCEEDED"}
Owning == {"revalidate", "write", "compensate"}
ExecuteSteps == {"authorize", "enter", "moveAuto", "moveApproved", "moveExecuting", "start",
                 "claim"} \cup Owning
RollbackSteps == {"find", "next", "claimUndo", "undo", "rolledBack", "markDone"}
PartStates == {"off", "CheckKillSwitch", "Execute", "Refused", "Done", "ReturnedToPlanning",
               "Escalated", "Aborted"} \cup Tasks
BackStates == {"off", "Rollback", "RolledBack", "RollbackFailed"}

Machine == [state : PartStates \cup BackStates, part : Parts, attempt : Nat]
Invocation == [pc : {"ended"} \cup ExecuteSteps \cup RollbackSteps, i : 1..3]

ETypes ==
  /\ status \in Statuses /\ route \in Routes /\ kill \in BOOLEAN
  /\ mishaps \subseteq {"stopped", "overtaken", "lost"}
  /\ decision \in [Parts -> {"NONE", "APPROVED", "REJECTED", "EXPIRED"}]
  /\ exec \in [Parts -> Marks] /\ undone \in [Parts -> Marks]
  /\ live \in [Parts -> SUBSET Parts] /\ gone \in [Parts -> SUBSET Parts]
  /\ request \in {"NONE", "REQUESTED", "DONE"}
  /\ due \in [Parts -> {"NONE", "scheduled", "checked"}]
  /\ received \subseteq Parts /\ monitor \in [Parts -> 0..3] /\ asked \subseteq Parts
  /\ machine \in [Machines \cup {Back} -> Machine]
  /\ task \in [Invoked -> Invocation]

\* Each machine does its own kind of work, of a part of the route, and has no
\* invocation it did not make.
Machinery ==
  /\ \A m \in Machines :
       /\ machine[m].state \in PartStates
       /\ machine[m].state # "off" => machine[m].part \in InRoute
  /\ machine[Back].state \in BackStates
  /\ \A m \in Machines \cup {Back} :
       /\ machine[m].state \in {"off", "CheckKillSwitch"} => machine[m].attempt = 0
       /\ machine[m].state \in {"Execute", "Rollback"} => machine[m].attempt # 0
  /\ \A x \in Invoked :
       /\ x[2] > machine[x[1]].attempt => task[x] = Ended
       /\ task[x].pc \in ExecuteSteps => x[1] \in Machines
       /\ task[x].pc \in RollbackSteps => x[1] = Back
       /\ task[x].pc # "ended" /\ x[2] = machine[x[1]].attempt =>
            machine[x[1]].state \in {"Execute", "Rollback"}

Owns(x) == task[x].pc \in Owning

\* What the journal says of a part that is so in SAP, and what the owner of its claim knows.
JournalOf(p) ==
  /\ live[p] \in {{}, {1}, Parts} /\ \A i \in live[p], j \in gone[p] : i < j
  /\ exec[p] = "NONE" => live[p] = {} /\ gone[p] = {}
  /\ exec[p] = "SUCCEEDED" /\ undone[p] = "NONE" => live[p] = Parts /\ gone[p] = {}
  /\ undone[p] # "NONE" => exec[p] = "SUCCEEDED"
  /\ undone[p] = "SUCCEEDED" => live[p] = {}
Owner(x) ==
  Owns(x) =>
    /\ exec[PartOf(x)] = "PENDING"
    /\ task[x].pc # "compensate" => gone[PartOf(x)] = {}
    /\ task[x].pc = "revalidate" => live[PartOf(x)] = {}
    /\ \A y \in Invoked : Owns(y) /\ PartOf(y) = PartOf(x) => y = x
Undoer(x) ==
  /\ task[x].pc \in {"claimUndo", "undo"} =>
       task[x].i \in InRoute /\ exec[task[x].i] = "SUCCEEDED"
  /\ task[x].pc = "undo" => undone[task[x].i] # "NONE"
JournalHolds == (\A p \in Parts : JournalOf(p)) /\ \A x \in Invoked : Owner(x) /\ Undoer(x)

\* What a check that has begun has seen of the parts before the one it is at.
Seen(p) == \A q \in InRoute : q < monitor[p] /\ route[q] = 2 => q \in received
ChecksHold ==
  \A p \in Parts :
    /\ due[p] # "NONE" => p \in InRoute
    /\ p \in received => p \in InRoute /\ exec[p] = "SUCCEEDED"
    /\ monitor[p] > 0 => p \in received /\ Seen(p)

\* How far a rollback has come with the parts it was asked for.
Withdrawn(i) == \A p \in asked : p < i => undone[p] = "SUCCEEDED"
AllWithdrawn == \A p \in asked : undone[p] = "SUCCEEDED"
RollbackHolds ==
  /\ asked \subseteq InRoute /\ \A p \in asked : exec[p] = "SUCCEEDED"
  /\ machine[Back].state = "off" => request = "NONE" /\ asked = {}
  /\ \A x \in Invoked :
       /\ task[x].pc \in RollbackSteps => Withdrawn(task[x].i)
       /\ task[x].pc \in {"rolledBack", "markDone"} => AllWithdrawn
  /\ request = "DONE" => AllWithdrawn

\* What the journal says of a part while its only machine is at a step, and where the
\* case is, as long as it followed every move.
Alone(m) ==
  /\ "stopped" \notin mishaps /\ machine[m].attempt <= 1 /\ Len(route) = 1
  /\ \A n \in Machines \ {m} : machine[n].state = "off"
Place(m) == IF machine[m].state = "Execute" THEN task[<<m, 1>>].pc ELSE machine[m].state
Early == {"VERIFIED", "AUTO_APPROVED"} \cup (IF route[1] = 2 THEN {"AWAITING_APPROVAL"} ELSE {})
Away == {"REJECTED", "ESCALATED", "INVESTIGATING"}
Late == {"MONITORING", "REOPENED", "CLOSED", "ROLLED_BACK"}
Idle == {"off", "CheckKillSwitch", "authorize"}
Entering == {"enter", "moveAuto", "moveApproved", "moveExecuting"}
Failing == {"ReturnToPlanning", "MarkFailedRolledBack"}
Ending == {"Notify", "ScheduleGoodsReceiptCheck", "MarkMonitoring"}
Recorded(m) ==
  LET at == Place(m) IN
  /\ at \in Idle \cup Entering \cup {"start", "claim"} => exec[1] = "NONE"
  /\ at \in Entering => Authorized(1)
  /\ at \in Owning \cup Failing \cup {"ReturnedToPlanning", "Escalated"} => exec[1] = "PENDING"
  /\ at \in Ending \cup {"Done"} => exec[1] = "SUCCEEDED"
  /\ at \in {"ReturnToPlanning", "ReturnedToPlanning"} => live[1] = {}
Placed(m) ==
  LET at == Place(m) IN
  /\ at \in Idle => status \in Early \cup Away
  /\ at \in Idle /\ status \in Away => route[1] = 2 /\ decision[1] \in {"REJECTED", "EXPIRED"}
  /\ at \in {"enter", "moveAuto"} => status \in Early
  /\ at = "moveApproved" => status = "AWAITING_APPROVAL" /\ route[1] = 2
  /\ at = "moveExecuting" => status \in {"AUTO_APPROVED", "APPROVED"}
  /\ at \in {"start", "claim"} \cup Owning \cup Failing \cup Ending => status = "EXECUTING"
  /\ at = "Done" => status \in Late
  /\ at = "ReturnedToPlanning" => status = "INVESTIGATING"
  /\ at = "Escalated" => status = "FAILED_ROLLED_BACK"
Stage(m) == Recorded(m) /\ (Followed => Placed(m))
StageHolds == \A m \in Machines : Alone(m) => Stage(m)

EInv == /\ ETypes /\ Machinery /\ JournalHolds /\ ChecksHold /\ RollbackHolds /\ StageHolds
        /\ ClosedIsReceived
-----------------------------------------------------------------------------
(* Values *)

\* The parts of a route.
LEMMA RouteFacts ==
  ASSUME ETypes
  PROVE  /\ InRoute \subseteq Parts /\ 1 \in InRoute /\ InRoute = 1..Len(route)
         /\ Len(route) \in {1, 2} /\ \A p \in InRoute : route[p] \in {1, 2}
         /\ Len(route) = 1 => InRoute = {1} /\ (route = <<1>> <=> route[1] = 1)
<1>1. route \in {<<1>>, <<2>>, <<1, 2>>}
  BY RoutesAreTiers DEF ETypes
<1> QED
  BY <1>1 DEF InRoute, Parts

\* What a move can do to the status.
LEMMA Moved ==
  ASSUME status \in Statuses, NEW s \in Statuses, Move(s)
  PROVE  /\ status' \in Statuses /\ status' \in {status, s}
         /\ s = "EXECUTING" /\ status \in {"AUTO_APPROVED", "APPROVED"} => status' = "EXECUTING"
         /\ s = "MONITORING" /\ status = "EXECUTING" => status' = "MONITORING"
         /\ s = "INVESTIGATING" /\ status = "EXECUTING" => status' = "INVESTIGATING"
         /\ s = "FAILED_ROLLED_BACK" /\ status = "EXECUTING" => status' = "FAILED_ROLLED_BACK"
         /\ s = "AUTO_APPROVED" => status' = status \/ status = "VERIFIED"
         /\ s = "AWAITING_APPROVAL" => status' = status \/ status = "VERIFIED"
         /\ s = "APPROVED" => status' = status \/ status = "AWAITING_APPROVAL"
         /\ s = "REJECTED" => status' = status \/ status = "AWAITING_APPROVAL"
         /\ s = "REOPENED" => status' = status \/ status = "MONITORING"
         /\ s = "CLOSED" => status' = status \/ status \in {"MONITORING", "REJECTED", "ESCALATED"}
         /\ s = "ROLLED_BACK" => status' = status \/ status = "REOPENED"
BY DEF Move, Targets, Statuses

\* The path into an execution, step by step.
LEMMA Entries ==
  /\ DOMAIN Entry = {"moveAuto", "moveApproved", "moveExecuting"}
  /\ Entry["moveAuto"] = "AUTO_APPROVED" /\ Entry["moveApproved"] = "APPROVED"
  /\ Entry["moveExecuting"] = "EXECUTING"
BY DEF Entry

\* Where a case that waits for its execution can be moved.
LEMMA EarlyTargets ==
  /\ Targets["VERIFIED"] = {"AUTO_APPROVED", "AWAITING_APPROVAL", "ESCALATED"}
  /\ Targets["AWAITING_APPROVAL"] = {"APPROVED", "REJECTED", "INVESTIGATING", "ESCALATED"}
  /\ Targets["AUTO_APPROVED"] = {"EXECUTING"} /\ Targets["APPROVED"] = {"EXECUTING"}
BY DEF Targets

\* A task that is stopped is not followed any further.
LEMMA Stopped ==
  ASSUME ETypes, Befalls("stopped")
  PROVE  /\ StageHolds' /\ mishaps' \subseteq {"stopped", "overtaken", "lost"}
         /\ mishaps \subseteq mishaps'
<1>1. "stopped" \in mishaps' /\ mishaps \subseteq mishaps'
  BY DEF Befalls
<1>2. \A m \in Machines : ~Alone(m)'
  BY <1>1 DEF Alone
<1> QED
  BY <1>1, <1>2 DEF StageHolds, Befalls, ETypes

\* A move that is tried is made, or the case is not followed any further.
LEMMA Tried ==
  ASSUME ETypes, NEW s, TryMove(s)
  PROVE  /\ mishaps' \subseteq {"stopped", "overtaken", "lost"} /\ mishaps \subseteq mishaps'
         /\ status' = status \/ Move(s)
         /\ Followed' => Followed /\ Move(s)
<1>1. mishaps' = mishaps \/ mishaps' = mishaps \cup {"lost"}
  BY DEF TryMove, Lost, Befalls
<1>2. "lost" \in mishaps' \/ Move(s)
  BY DEF TryMove, Lost, Befalls
<1>3. status' = status \/ Move(s)
  BY DEF TryMove, Lost
<1> QED
  BY <1>1, <1>2, <1>3 DEF Followed, ETypes

LEMMA AttemptsAreCounted == Attempts \in Nat /\ 1 \in 1..Attempts
BY RetriesAreCounted DEF Attempts

\* An invocation is one attempt of a machine.
LEMMA Invocations ==
  /\ \A x \in Invoked : /\ x[1] \in Machines \cup {Back} /\ x[2] \in Nat /\ x[2] >= 1
                        /\ x = <<x[1], x[2]>>
  /\ \A m \in Machines \cup {Back} : <<m, 1>> \in Invoked
BY AttemptsAreCounted DEF Invoked

LEMMA EndedIsInvocation == Ended \in Invocation /\ Ended.pc = "ended" /\ Ended.i = 1
BY DEF Ended, Invocation

\* The steps of an execution are not those of a rollback.
LEMMA StepsDiffer ==
  /\ \A s \in ExecuteSteps : s \notin RollbackSteps /\ s # "ended"
  /\ \A s \in RollbackSteps : s \notin Owning /\ s # "ended"
  /\ Owning \subseteq ExecuteSteps
BY Entries DEF ExecuteSteps, RollbackSteps, Owning

-----------------------------------------------------------------------------
(* A step of one invocation *)

\* The invocation moves; its machine goes on only when the invocation ends.
Turns(x) ==
  /\ task' \in [Invoked -> Invocation] /\ \A y \in Invoked \ {x} : task'[y] = task[y]
  /\ machine' \in [Machines \cup {Back} -> Machine]
  /\ \A n \in Machines \cup {Back} :
       /\ machine'[n].part = machine[n].part /\ machine'[n].attempt = machine[n].attempt
       /\ machine'[n] # machine[n] =>
            /\ n = x[1] /\ Awaited(x) /\ task'[x] = Ended
            /\ machine'[n].state \notin {"off", "CheckKillSwitch"}
            /\ machine'[n].state \in IF n = Back THEN BackStates ELSE PartStates
  /\ task[x].pc # "ended" /\ route' = route
ExecuteTurn(x) == /\ x \in Invoked /\ Turns(x) /\ task[x].pc \in ExecuteSteps
                  /\ task'[x].pc \in {"ended"} \cup ExecuteSteps
RollbackTurn(x) == /\ x \in Invoked /\ Turns(x) /\ task[x].pc \in RollbackSteps
                   /\ task'[x].pc \in {"ended"} \cup RollbackSteps

LEMMA GoneTo ==
  ASSUME ETypes, NEW x \in Invoked, NEW r \in Invocation, route' = route,
         task' = [task EXCEPT ![x] = r], machine' = machine, task[x].pc # "ended"
  PROVE  Turns(x) /\ task'[x] = r
BY DEF ETypes, Turns

LEMMA Going ==
  ASSUME ETypes, NEW x \in Invoked, NEW s \in {"ended"} \cup ExecuteSteps \cup RollbackSteps,
         route' = route, Goto(x, s), machine' = machine, task[x].pc # "ended"
  PROVE  Turns(x) /\ task'[x] = [task[x] EXCEPT !.pc = s] /\ task'[x].pc = s /\ task'[x].i = task[x].i
<1>1. task[x] \in Invocation /\ task' = [task EXCEPT ![x] = [task[x] EXCEPT !.pc = s]]
  BY DEF ETypes, Goto
<1>2. /\ [task[x] EXCEPT !.pc = s] \in Invocation /\ [task[x] EXCEPT !.pc = s].pc = s
      /\ [task[x] EXCEPT !.pc = s].i = task[x].i
  BY <1>1 DEF Invocation
<1> QED
  BY <1>1, <1>2, GoneTo

\* An answer ends the invocation.
LEMMA Answered ==
  ASSUME ETypes, NEW x \in Invoked, NEW s \in (IF x[1] = Back THEN BackStates ELSE PartStates),
         s \notin {"off", "CheckKillSwitch"}, route' = route, Answer(x, s), task[x].pc # "ended"
  PROVE  /\ Turns(x) /\ task'[x] = Ended
         /\ Awaited(x) => machine'[x[1]].state = s
<1>1. task' \in [Invoked -> Invocation] /\ task'[x] = Ended
      /\ \A y \in Invoked \ {x} : task'[y] = task[y]
  BY EndedIsInvocation DEF ETypes, Answer
<1>2. x[1] \in Machines \cup {Back} /\ machine[x[1]] \in Machine /\ s \in PartStates \cup BackStates
  BY Invocations DEF ETypes
<1>3. /\ [machine[x[1]] EXCEPT !.state = s] \in Machine
      /\ [machine[x[1]] EXCEPT !.state = s].state = s
      /\ [machine[x[1]] EXCEPT !.state = s].part = machine[x[1]].part
      /\ [machine[x[1]] EXCEPT !.state = s].attempt = machine[x[1]].attempt
  BY <1>2 DEF Machine
<1>4. CASE Awaited(x)
  <2>1. machine' = [machine EXCEPT ![x[1]] = [machine[x[1]] EXCEPT !.state = s]]
    BY <1>4 DEF Answer
  <2>2. /\ machine' \in [Machines \cup {Back} -> Machine]
        /\ machine'[x[1]] = [machine[x[1]] EXCEPT !.state = s]
        /\ \A n \in Machines \cup {Back} : n # x[1] => machine'[n] = machine[n]
    BY <1>2, <1>3, <2>1 DEF ETypes
  <2> QED
    BY <1>1, <1>2, <1>3, <1>4, <2>2 DEF Turns
<1>5. CASE ~Awaited(x)
  BY <1>1, <1>5 DEF Turns, Answer, ETypes
<1> QED
  BY <1>4, <1>5

\* Whoever moves, the machines and invocations stay in their kinds.
LEMMA MachineryTurns ==
  ASSUME EInv, NEW x, ExecuteTurn(x) \/ RollbackTurn(x)
  PROVE  Machinery'
<1>1. /\ x \in Invoked /\ Turns(x) /\ InRoute' = InRoute
      /\ x[1] \in Machines \cup {Back} /\ x[2] <= machine[x[1]].attempt
      /\ Machinery /\ ETypes
  BY Invocations DEF ExecuteTurn, RollbackTurn, Turns, EInv, Machinery, InRoute, ETypes, Machine, Ended
<1>2. ASSUME NEW m \in Machines \cup {Back}
      PROVE  /\ m \in Machines => /\ machine'[m].state \in PartStates
                                  /\ machine'[m].state # "off" => machine'[m].part \in InRoute'
             /\ m = Back => machine'[m].state \in BackStates
             /\ machine'[m].state \in {"off", "CheckKillSwitch"} => machine'[m].attempt = 0
             /\ machine'[m].state \in {"Execute", "Rollback"} => machine'[m].attempt # 0
  BY <1>1, BackIsApart DEF Turns, Machinery, Awaited
<1>3. ASSUME NEW y \in Invoked
      PROVE  /\ y[2] > machine'[y[1]].attempt => task'[y] = Ended
             /\ task'[y].pc \in ExecuteSteps => y[1] \in Machines
             /\ task'[y].pc \in RollbackSteps => y[1] = Back
  <2>1. y[1] \in Machines \cup {Back} /\ y[2] \in Nat /\ machine[y[1]].attempt \in Nat
        /\ machine'[y[1]].attempt = machine[y[1]].attempt
    BY <1>1, Invocations DEF Turns, ETypes, Machine
  <2>2. CASE y # x
    BY <1>1, <2>1, <2>2 DEF Turns, Machinery
  <2>3. CASE y = x
    BY <1>1, <2>1, <2>3, StepsDiffer DEF ExecuteTurn, RollbackTurn, Machinery
  <2> QED
    BY <2>2, <2>3
<1>4. ASSUME NEW y \in Invoked, task'[y].pc # "ended", y[2] = machine'[y[1]].attempt
      PROVE  machine'[y[1]].state \in {"Execute", "Rollback"}
  <2>1. y[1] \in Machines \cup {Back} /\ machine'[y[1]].attempt = machine[y[1]].attempt
    BY <1>1, Invocations DEF Turns
  <2>2. CASE y # x
    <3>1. machine[y[1]].state \in {"Execute", "Rollback"}
      BY <1>1, <1>4, <2>1, <2>2 DEF Turns, Machinery
    <3>2. ASSUME machine'[y[1]] # machine[y[1]] PROVE FALSE
      <4>1. y[1] = x[1] /\ y[2] = x[2]
        BY <1>1, <1>4, <2>1, <3>2 DEF Turns, Awaited
      <4> QED
        BY <1>1, <2>2, <4>1, Invocations
    <3> QED
      BY <3>1, <3>2
  <2>3. CASE y = x
    <3>1. machine'[x[1]] = machine[x[1]] /\ task[x].pc # "ended"
      BY <1>1, <1>4, <2>1, <2>3, EndedIsInvocation DEF Turns
    <3> QED
      BY <1>1, <1>4, <2>1, <2>3, <3>1 DEF Machinery
  <2> QED
    BY <2>2, <2>3
<1> QED
  BY <1>2, <1>3, <1>4, BackIsApart DEF Machinery

-----------------------------------------------------------------------------
(* What a step leaves alone *)

\* Success is final.
Lasts == \A p \in Parts : /\ exec[p] = "SUCCEEDED" => exec'[p] = "SUCCEEDED"
                          /\ undone[p] = "SUCCEEDED" => undone'[p] = "SUCCEEDED"

LEMMA JournalKept ==
  ASSUME EInv, NEW x, ExecuteTurn(x) \/ RollbackTurn(x), UNCHANGED <<journal, sap>>,
         Owns(x)' => /\ Owns(x) /\ (task'[x].pc = "revalidate" => task[x].pc = "revalidate")
                     /\ (task[x].pc = "compensate" => task'[x].pc = "compensate"),
         Undoer(x)'
  PROVE  JournalHolds'
<1>1. /\ x \in Invoked /\ Turns(x) /\ JournalHolds /\ InRoute' = InRoute
      /\ exec' = exec /\ undone' = undone /\ live' = live /\ gone' = gone
  BY DEF ExecuteTurn, RollbackTurn, Turns, EInv, InRoute, journal, sap
<1>2. ASSUME NEW p \in Parts PROVE JournalOf(p)'
  BY <1>1 DEF JournalHolds, JournalOf
<1>3. \A y \in Invoked : PartOf(y)' = PartOf(y)
  BY <1>1, Invocations DEF Turns, PartOf
<1>4. ASSUME NEW y \in Invoked, Owns(y)'
      PROVE  Owns(y)
  BY <1>1, <1>4 DEF Turns, Owns
<1>5. ASSUME NEW y \in Invoked PROVE Owner(y)'
  BY <1>1, <1>3, <1>4 DEF JournalHolds, Owner, Turns, Owns, Owning
<1>6. ASSUME NEW y \in Invoked PROVE Undoer(y)'
  BY <1>1 DEF JournalHolds, Undoer, Turns
<1> QED
  BY <1>2, <1>5, <1>6 DEF JournalHolds

LEMMA ChecksKept ==
  ASSUME EInv, UNCHANGED <<route, checks>>, Lasts
  PROVE  ChecksHold'
BY DEF EInv, ChecksHold, Seen, InRoute, Lasts, checks

LEMMA ClosedKept ==
  ASSUME EInv, status' = "CLOSED" => status = "CLOSED", UNCHANGED route, Lasts,
         received \subseteq received'
  PROVE  ClosedIsReceived'
<1>1. ETypes /\ ClosedIsReceived /\ InRoute' = InRoute
  BY DEF EInv, InRoute
<1> QED
  BY <1>1, RouteFacts DEF ClosedIsReceived, Lasts

\* An execution leaves a rollback as far as it was.
LEMMA RollbackKept ==
  ASSUME EInv, NEW x, ExecuteTurn(x), Lasts, UNCHANGED <<request, asked, undone>>
  PROVE  RollbackHolds'
<1>1. /\ x \in Invoked /\ Turns(x) /\ RollbackHolds /\ InRoute' = InRoute /\ asked \subseteq Parts
      /\ Machinery
  BY DEF ExecuteTurn, Turns, EInv, InRoute, ETypes
<1>2. (\A i : Withdrawn(i)' <=> Withdrawn(i)) /\ (AllWithdrawn' <=> AllWithdrawn)
  BY DEF Withdrawn, AllWithdrawn
<1>3. x[1] # Back /\ machine'[Back] = machine[Back]
  BY <1>1, BackIsApart DEF ExecuteTurn, Machinery, Turns
<1>4. asked \subseteq InRoute /\ \A p \in asked : exec'[p] = "SUCCEEDED"
  BY <1>1 DEF RollbackHolds, Lasts
<1>5. ASSUME NEW y \in Invoked
      PROVE  /\ task'[y].pc \in RollbackSteps => Withdrawn(task[y].i)'
             /\ task'[y].pc \in {"rolledBack", "markDone"} => AllWithdrawn
  <2>1. CASE y = x
    BY <2>1, StepsDiffer DEF ExecuteTurn, RollbackSteps, ExecuteSteps, Owning
  <2>2. CASE y # x
    BY <1>1, <1>2, <2>2 DEF Turns, RollbackHolds, Withdrawn
  <2> QED
    BY <2>1, <2>2
<1> QED
  BY <1>1, <1>2, <1>3, <1>4, <1>5 DEF RollbackHolds

\* What a step of the rollback owes to the parts it was asked for.
LEMMA RollbackGoesOn ==
  ASSUME EInv, NEW x, RollbackTurn(x), Lasts, UNCHANGED <<asked, exec>>,
         task'[x].pc \in RollbackSteps => \A p \in asked : p < task'[x].i => undone'[p] = "SUCCEEDED",
         task'[x].pc \in {"rolledBack", "markDone"} => \A p \in asked : undone'[p] = "SUCCEEDED",
         request' = "DONE" =>
           request = "DONE" \/ \A p \in asked : undone'[p] = "SUCCEEDED"
  PROVE  RollbackHolds'
<1>1. /\ x \in Invoked /\ Turns(x) /\ RollbackHolds /\ InRoute' = InRoute /\ asked \subseteq Parts
      /\ Machinery
  BY DEF RollbackTurn, Turns, EInv, InRoute, ETypes
<1>2. (\A i : Withdrawn(i) => Withdrawn(i)') /\ (AllWithdrawn => AllWithdrawn')
  BY <1>1 DEF Withdrawn, AllWithdrawn, Lasts
<1>3. machine[Back].state # "off" /\ machine'[Back].state # "off"
  <2>1. x[1] = Back /\ x[2] \in Nat /\ x[2] >= 1 /\ Back \in Machines \cup {Back}
    BY <1>1, Invocations DEF RollbackTurn, Machinery
  <2>2. machine[Back].state # "off"
    BY <1>1, <2>1, EndedIsInvocation DEF Machinery, Turns, Ended
  <2> QED
    BY <1>1, <2>1, <2>2 DEF Turns
<1>4. asked \subseteq InRoute /\ \A p \in asked : exec[p] = "SUCCEEDED"
  BY <1>1 DEF RollbackHolds
<1>5. ASSUME NEW y \in Invoked
      PROVE  /\ task'[y].pc \in RollbackSteps => Withdrawn(task[y].i)'
             /\ task'[y].pc \in {"rolledBack", "markDone"} => AllWithdrawn'
  <2>1. CASE y = x
    BY <2>1 DEF Withdrawn, AllWithdrawn
  <2>2. CASE y # x
    <3>1. task'[y] = task[y]
      BY <1>1, <2>2 DEF Turns
    <3>2. Withdrawn(task[y].i)' <=> \A p \in asked : p < task[y].i => undone'[p] = "SUCCEEDED"
      BY <3>1 DEF Withdrawn
    <3> QED
      BY <1>1, <1>2, <3>1, <3>2 DEF RollbackHolds, Withdrawn, Lasts
  <2> QED
    BY <2>1, <2>2
<1>6. request' = "DONE" => AllWithdrawn'
  BY <1>1, <1>2 DEF RollbackHolds, AllWithdrawn
<1> QED
  BY <1>1, <1>3, <1>4, <1>5, <1>6 DEF RollbackHolds

LEMMA StageKept ==
  ASSUME EInv, NEW m \in Machines, Alone(m), Place(m)' = Place(m), live'[1] = live[1] \/ exec[1] = "SUCCEEDED",
         UNCHANGED <<exec, status, plan>>, mishaps \subseteq mishaps'
  PROVE  Stage(m)'
BY DEF EInv, StageHolds, Stage, Recorded, Placed, Followed, Idle, Entering, Failing, Ending, Away, Early, Authorized, plan

\* An execution step where a machine is alone is a step of that machine's only invocation.
LEMMA Lone ==
  ASSUME EInv, NEW x, ExecuteTurn(x), NEW m \in Machines, Alone(m)', mishaps \subseteq mishaps'
  PROVE  /\ x = <<m, 1>> /\ Awaited(x) /\ PartOf(x) = 1 /\ InRoute = {1} /\ Len(route) = 1
         /\ Place(m) = task[x].pc /\ Stage(m) /\ m # Back
         /\ machine'[m] = machine[m] => Place(m)' = task'[x].pc
         /\ machine'[m].state # "Execute" => Place(m)' = machine'[m].state
<1>1. /\ x \in Invoked /\ Turns(x) /\ Machinery /\ StageHolds /\ ETypes
      /\ x[1] \in Machines /\ x[2] \in Nat /\ x[2] >= 1 /\ x = <<x[1], x[2]>>
  BY Invocations DEF ExecuteTurn, EInv, Machinery
<1>2. \A n \in Machines : machine'[n].attempt = machine[n].attempt /\ machine[n].attempt \in Nat
  BY <1>1 DEF Turns, ETypes, Machine
<1>3. \A n \in Machines : machine[n].state # "off" => machine'[n].state # "off"
  BY <1>1 DEF Turns
<1>4. Alone(m)
  BY <1>1, <1>2, <1>3 DEF Alone, Turns, ETypes
<1>5. x[2] <= machine[x[1]].attempt
  BY <1>1, <1>2, EndedIsInvocation DEF Machinery, Turns
<1>6. x[1] = m
  BY <1>1, <1>2, <1>4, <1>5 DEF Alone, Machinery
<1>7. x[2] = 1 /\ machine[m].attempt = 1
  BY <1>1, <1>2, <1>4, <1>5, <1>6 DEF Alone
<1>8. machine[m].state = "Execute" /\ m # Back
  BY <1>1, <1>6, <1>7, BackIsApart DEF Machinery, Turns, BackStates, PartStates, Tasks
<1>9. machine[m].part = 1 /\ InRoute = {1}
  BY <1>1, <1>4, <1>8, RouteFacts DEF Alone, Machinery
<1>10. x = <<m, 1>>
  BY <1>1, <1>6, <1>7
<1>11. machine'[m] = machine[m] => Place(m)' = task'[<<m, 1>>].pc
  BY <1>8 DEF Place
<1>12. machine'[m].state # "Execute" => Place(m)' = machine'[m].state
  BY DEF Place
<1> QED
  BY <1>1, <1>4, <1>6, <1>7, <1>8, <1>9, <1>10, <1>11, <1>12 DEF Awaited, PartOf, Place, StageHolds, Alone

\* A rollback leaves the machines of the parts where they are.
LEMMA Elsewhere ==
  ASSUME EInv, NEW x, RollbackTurn(x), NEW m \in Machines, Alone(m)', mishaps \subseteq mishaps'
  PROVE  Alone(m) /\ Stage(m) /\ Place(m)' = Place(m)
<1>1. /\ x \in Invoked /\ Turns(x) /\ Machinery /\ StageHolds /\ ETypes /\ x[1] = Back
  BY Invocations DEF RollbackTurn, EInv, Machinery
<1>2. \A n \in Machines : machine'[n] = machine[n]
  BY <1>1, BackIsApart DEF Turns
<1>3. Alone(m)
  BY <1>1, <1>2 DEF Alone, Turns, ETypes
<1>4. <<m, 1>> \in Invoked /\ <<m, 1>> # x
  BY <1>1, BackIsApart, Invocations
<1> QED
  BY <1>1, <1>2, <1>3, <1>4 DEF StageHolds, Place, Turns

-----------------------------------------------------------------------------
(* The steps of an execution *)

\* A part carries on as it was or takes a step of PartExecution.
Orderly(p) == Part(p)!PNext \/ UNCHANGED <<Phase(p), live[p], gone[p]>>

LEMMA Unmoved ==
  ASSUME NEW p \in Parts, UNCHANGED <<exec[p], undone[p], live[p], gone[p]>>
  PROVE  Orderly(p)
BY DEF Orderly, Phase

\* What an execution step that leaves the journal and SAP alone owes.
LEMMA Passes ==
  ASSUME EInv, NEW x, ExecuteTurn(x),
         ETypes', UNCHANGED <<route, journal, sap, checks, request, asked>>,
         Owns(x)' => /\ Owns(x) /\ (task'[x].pc = "revalidate" => task[x].pc = "revalidate")
                     /\ (task[x].pc = "compensate" => task'[x].pc = "compensate"),
         status' = "CLOSED" => status = "CLOSED", StageHolds'
  PROVE  EInv' /\ \A p \in Parts : Orderly(p)
<1>1. Lasts /\ UNCHANGED <<exec, undone, live, gone, received>>
  BY DEF Lasts, journal, sap, checks
<1>2. Undoer(x)'
  BY StepsDiffer DEF ExecuteTurn, Undoer, ExecuteSteps, Owning
<1>3. JournalHolds' /\ ChecksHold' /\ ClosedIsReceived' /\ RollbackHolds' /\ Machinery'
  BY <1>1, <1>2, JournalKept, ChecksKept, ClosedKept, RollbackKept, MachineryTurns
<1>4. \A p \in Parts : Orderly(p)
  BY <1>1, Unmoved
<1> QED
  BY <1>3, <1>4 DEF EInv

LEMMA AuthorizeStep ==
  ASSUME EInv, NEW x \in Invoked, Authorize(x)
  PROVE  EInv' /\ \A p \in Parts : Orderly(p)
<1>1. /\ ETypes /\ task[x].pc = "authorize" /\ x[1] \in Machines /\ x[1] # Back
      /\ UNCHANGED <<status, plan, kill, journal, sap, request, checks, mishaps, asked>>
  BY BackIsApart DEF Authorize, At, EInv, Machinery, ExecuteSteps
<1>2. UNCHANGED <<status, route, decision, kill, exec, undone, live, gone, request, due, received,
                  monitor, mishaps, asked>>
  BY <1>1 DEF plan, journal, sap, checks
<1>3. CASE Authorized(PartOf(x))
  <2>1. Goto(x, "enter") /\ machine' = machine
    BY <1>3 DEF Authorize
  <2>2. Turns(x) /\ task'[x].pc = "enter"
    BY <1>1, <1>2, <2>1, Going DEF ExecuteSteps
  <2>3. ExecuteTurn(x) /\ ETypes'
    BY <1>1, <1>2, <2>2 DEF ExecuteTurn, ExecuteSteps, Turns, ETypes
  <2>4. ASSUME NEW m \in Machines, Alone(m)' PROVE Stage(m)'
    <3>1. /\ Place(m) = "authorize" /\ Place(m)' = "enter" /\ Stage(m) /\ PartOf(x) = 1 
          /\ InRoute = {1}
      BY <1>1, <1>2, <2>1, <2>2, <2>3, <2>4, Lone
    <3> QED
      BY <1>1, <1>2, <1>3, <3>1, RouteFacts DEF Stage, Recorded, Placed, Followed, Idle, Entering, Failing, Ending, Away, Early, Authorized, Owning
  <2> QED
    BY <1>1, <1>2, <2>2, <2>3, <2>4, Passes DEF StageHolds, Owns, Owning
<1>4. CASE ~Authorized(PartOf(x))
  <2>1. Answer(x, "Refused")
    BY <1>4 DEF Authorize
  <2>2. Turns(x) /\ task'[x].pc = "ended" /\ (Awaited(x) => machine'[x[1]].state = "Refused")
    BY <1>1, <1>2, <2>1, Answered, EndedIsInvocation DEF PartStates
  <2>3. ExecuteTurn(x) /\ ETypes'
    BY <1>1, <1>2, <2>2 DEF ExecuteTurn, ExecuteSteps, Turns, ETypes
  <2>4. ASSUME NEW m \in Machines, Alone(m)' PROVE Stage(m)'
    <3>1. Place(m)' = "Refused"
      BY <1>1, <1>2, <2>1, <2>2, <2>3, <2>4, Lone
    <3> QED
      BY <3>1 DEF Stage, Recorded, Placed, Followed, Idle, Entering, Failing, Ending, Away, Owning
  <2> QED
    BY <1>1, <1>2, <2>2, <2>3, <2>4, Passes DEF StageHolds, Owns, Owning
<1> QED
  BY <1>3, <1>4

LEMMA EnterStep ==
  ASSUME EInv, NEW x \in Invoked, EnterExecution(x)
  PROVE  EInv' /\ \A p \in Parts : Orderly(p)
<1>1. /\ ETypes /\ task[x].pc = "enter" /\ machine' = machine
      /\ UNCHANGED <<status, plan, kill, journal, sap, request, checks, mishaps, asked>>
  BY DEF EnterExecution, At, EInv
<1>2. UNCHANGED <<status, route, decision, kill, exec, undone, live, gone, request, due, received,
                  monitor, mishaps, asked>>
  BY <1>1 DEF plan, journal, sap, checks
<1>3. PICK s \in {"moveAuto", "moveApproved", "moveExecuting", "start"} :
        /\ Goto(x, s)
        /\ s = "moveAuto" => status = "VERIFIED"
        /\ s = "moveApproved" => status = "AWAITING_APPROVAL" /\ route[PartOf(x)] = 2
        /\ s = "moveExecuting" => status \in {"AUTO_APPROVED", "APPROVED"}
        /\ s = "start" => /\ status \notin {"VERIFIED", "AUTO_APPROVED", "APPROVED"}
                          /\ status = "AWAITING_APPROVAL" => route[PartOf(x)] # 2
  BY DEF EnterExecution
<1>4. Turns(x) /\ task'[x].pc = s
  BY <1>1, <1>2, <1>3, Going, Entries DEF ExecuteSteps
<1>5. ExecuteTurn(x) /\ ETypes'
  BY <1>1, <1>2, <1>4, Entries DEF ExecuteTurn, ExecuteSteps, Turns, ETypes
<1>6. ASSUME NEW m \in Machines, Alone(m)' PROVE Stage(m)'
  <2>1. Place(m) = "enter" /\ Place(m)' = s /\ Stage(m) /\ PartOf(x) = 1 /\ InRoute = {1}
    BY <1>1, <1>2, <1>4, <1>5, <1>6, Lone
  <2>2. exec[1] = "NONE" /\ Authorized(1) /\ (Followed => status \in Early)
    BY <2>1 DEF Stage, Recorded, Placed, Entering, Idle, Failing, Ending
  <2>3. Recorded(m)'
    BY <1>2, <2>1, <2>2 DEF Recorded, Entering, Idle, Failing, Ending, Owning, Authorized
  <2>4. Followed => s # "start"
    BY <1>3, <2>1, <2>2 DEF Early
  <2>5. Followed' => Placed(m)'
    BY <1>2, <1>3, <2>1, <2>2, <2>4 DEF Followed, Placed, Early, Idle, Failing, Ending, Owning
  <2> QED
    BY <2>3, <2>5 DEF Stage
<1> QED
  BY <1>1, <1>2, <1>4, <1>5, <1>6, Passes DEF StageHolds, Owns, Owning

LEMMA MoveInStep ==
  ASSUME EInv, NEW x \in Invoked, MoveIn(x)
  PROVE  EInv' /\ \A p \in Parts : Orderly(p)
<1>1. /\ ETypes /\ task[x].pc \in {"moveAuto", "moveApproved", "moveExecuting"}
      /\ machine' = machine
      /\ UNCHANGED <<plan, kill, journal, sap, request, checks, asked>>
  BY Entries DEF MoveIn, EInv
<1>2. UNCHANGED <<route, decision, kill, exec, undone, live, gone, request, due, received,
                  monitor, asked>>
  BY <1>1 DEF plan, journal, sap, checks
<1>3. PICK s \in {"AUTO_APPROVED", "APPROVED", "EXECUTING"} :
        /\ s = Entry[task[x].pc]
        /\ \/ Lost(s)
           \/ /\ Move(s)
              /\ IF status = "AWAITING_APPROVAL" /\ s = "AUTO_APPROVED"
                 THEN Befalls("overtaken") ELSE UNCHANGED mishaps
        /\ Goto(x, IF s = "EXECUTING" THEN "start" ELSE "moveExecuting")
  BY <1>1, Entries DEF MoveIn
<1> DEFINE pc == IF s = "EXECUTING" THEN "start" ELSE "moveExecuting"
<1>4. Turns(x) /\ task'[x].pc = pc
  BY <1>1, <1>2, <1>3, Going, Entries DEF ExecuteSteps
<1>5. status' \in Statuses /\ (status' = "CLOSED" => status = "CLOSED")
  BY <1>1, <1>3, Moved DEF Statuses, ETypes, Lost
<1>6. mishaps \subseteq mishaps' /\ mishaps' \subseteq {"stopped", "overtaken", "lost"}
  BY <1>1, <1>3 DEF Lost, Befalls, ETypes
<1>7. ExecuteTurn(x) /\ ETypes'
  BY <1>1, <1>2, <1>4, <1>5, <1>6, Entries DEF ExecuteTurn, ExecuteSteps, Turns, ETypes
<1>8. ASSUME Followed'
      PROVE  /\ Followed /\ Move(s) /\ ~(status = "AWAITING_APPROVAL" /\ s = "AUTO_APPROVED")
  BY <1>3, <1>6, <1>8 DEF Followed, Lost, Befalls
<1>9. ASSUME NEW m \in Machines, Alone(m)' PROVE Stage(m)'
  <2>1. Place(m) = task[x].pc /\ Place(m)' = pc /\ Stage(m)
    BY <1>1, <1>2, <1>4, <1>6, <1>7, <1>9, Lone
  <2>2. exec[1] = "NONE" /\ Authorized(1)
    BY <1>1, <2>1 DEF Stage, Recorded, Entering, Idle, Failing, Ending
  <2>3. Recorded(m)'
    BY <1>2, <2>1, <2>2 DEF Recorded, Entering, Idle, Failing, Ending, Owning, Authorized
  <2>4. ASSUME Followed' PROVE Placed(m)'
    <3>1. Placed(m) /\ Move(s) /\ ~(status = "AWAITING_APPROVAL" /\ s = "AUTO_APPROVED")
      BY <1>8, <2>1, <2>4 DEF Stage
    <3>2. CASE task[x].pc = "moveExecuting"
      <4>1. s = "EXECUTING" /\ status \in {"AUTO_APPROVED", "APPROVED"}
        BY <1>3, <2>1, <3>1, <3>2, Entries DEF Placed
      <4>2. status' = "EXECUTING"
        BY <3>1, <4>1, EarlyTargets DEF Move
      <4> QED
        BY <2>1, <4>1, <4>2 DEF Placed, Idle, Failing, Ending, Owning
    <3>3. CASE task[x].pc \in {"moveAuto", "moveApproved"}
      <4>1. s \in {"AUTO_APPROVED", "APPROVED"} /\ pc = "moveExecuting"
        BY <1>3, <3>3, Entries
      <4>2. status' \in {"AUTO_APPROVED", "APPROVED"}
        BY <1>3, <2>1, <3>1, <3>3, EarlyTargets, Entries DEF Move, Placed, Early
      <4> QED
        BY <2>1, <4>1, <4>2 DEF Placed, Idle, Failing, Ending, Owning
    <3> QED
      BY <1>1, <3>2, <3>3
  <2> QED
    BY <2>3, <2>4 DEF Stage
<1> QED
  BY <1>1, <1>2, <1>4, <1>5, <1>7, <1>9, Passes DEF StageHolds, Owns, Owning

LEMMA StartStep ==
  ASSUME EInv, NEW x \in Invoked, StartWorkflow(x)
  PROVE  EInv' /\ \A p \in Parts : Orderly(p)
<1>1. /\ ETypes /\ task[x].pc = "start" /\ x[1] \in Machines /\ x[1] # Back
      /\ UNCHANGED <<status, plan, kill, journal, sap, request, checks, asked>>
  BY BackIsApart DEF StartWorkflow, At, EInv, Machinery, ExecuteSteps
<1>2. UNCHANGED <<status, route, decision, kill, exec, undone, live, gone, request, due, received,
                  monitor, asked>>
  BY <1>1 DEF plan, journal, sap, checks
<1>3. CASE Goto(x, "claim") /\ machine' = machine /\ mishaps' = mishaps
  <2>1. Turns(x) /\ task'[x].pc = "claim"
    BY <1>1, <1>2, <1>3, Going DEF ExecuteSteps
  <2>2. ExecuteTurn(x) /\ ETypes'
    BY <1>1, <1>2, <1>3, <2>1 DEF ExecuteTurn, ExecuteSteps, Turns, ETypes
  <2>3. ASSUME NEW m \in Machines, Alone(m)' PROVE Stage(m)'
    <3>1. Place(m) = "start" /\ Place(m)' = "claim" /\ Stage(m)
      BY <1>1, <1>2, <1>3, <2>1, <2>2, <2>3, Lone
    <3>2. Recorded(m)'
      BY <1>2, <3>1 DEF Stage, Recorded, Idle, Entering, Failing, Ending, Owning
    <3>3. Followed' => Placed(m)'
      BY <1>2, <1>3, <3>1 DEF Stage, Placed, Followed, Idle, Failing, Ending, Owning
    <3> QED
      BY <3>2, <3>3 DEF Stage
  <2> QED
    BY <1>1, <1>2, <2>1, <2>2, <2>3, Passes DEF StageHolds, Owns, Owning
<1>4. CASE Answer(x, "Refused") /\ Befalls("stopped")
  <2>1. Turns(x) /\ task'[x].pc = "ended"
    BY <1>1, <1>2, <1>4, Answered, EndedIsInvocation DEF PartStates
  <2>2. ExecuteTurn(x) /\ ETypes'
    BY <1>1, <1>2, <1>4, <2>1, Stopped DEF ExecuteTurn, ExecuteSteps, Turns, ETypes
  <2>3. StageHolds'
    BY <1>1, <1>4, Stopped
  <2> QED
    BY <1>1, <1>2, <2>1, <2>2, <2>3, Passes DEF StageHolds, Owns, Owning
<1> QED
  BY <1>3, <1>4 DEF StartWorkflow

LEMMA RevalidateStep ==
  ASSUME EInv, NEW x \in Invoked, Revalidate(x)
  PROVE  EInv' /\ \A p \in Parts : Orderly(p)
<1>1. /\ ETypes /\ JournalHolds /\ task[x].pc = "revalidate" /\ x[1] \in Machines /\ x[1] # Back
      /\ UNCHANGED <<status, plan, kill, journal, sap, request, checks, mishaps, asked>>
  BY BackIsApart DEF Revalidate, At, EInv, Machinery, ExecuteSteps, Owning
<1>2. UNCHANGED <<status, route, decision, kill, exec, undone, live, gone, request, due, received,
                  monitor, mishaps, asked>>
  BY <1>1 DEF plan, journal, sap, checks
<1>3. live[PartOf(x)] = {}
  BY <1>1 DEF JournalHolds, Owner, Owns, Owning
<1>4. CASE Goto(x, "write") /\ machine' = machine
  <2>1. Turns(x) /\ task'[x].pc = "write"
    BY <1>1, <1>2, <1>4, Going DEF ExecuteSteps, Owning
  <2>2. ExecuteTurn(x) /\ ETypes'
    BY <1>1, <1>2, <2>1 DEF ExecuteTurn, ExecuteSteps, Owning, Turns, ETypes
  <2>3. ASSUME NEW m \in Machines, Alone(m)' PROVE Stage(m)'
    <3>1. Place(m) = "revalidate" /\ Place(m)' = "write" /\ Stage(m)
      BY <1>1, <1>2, <1>4, <2>1, <2>2, <2>3, Lone
    <3> QED
      BY <1>2, <3>1 DEF Stage, Recorded, Placed, Followed, Idle, Entering, Failing, Ending, Away, Owning
  <2> QED
    BY <1>1, <1>2, <2>1, <2>2, <2>3, Passes DEF StageHolds, Owns, Owning
<1>5. CASE \E s \in {"ReturnToPlanning", "MarkFailedRolledBack"} : Answer(x, s)
  <2>1. PICK s \in {"ReturnToPlanning", "MarkFailedRolledBack"} : Answer(x, s)
    BY <1>5
  <2>2. Turns(x) /\ task'[x].pc = "ended" /\ (Awaited(x) => machine'[x[1]].state = s)
    BY <1>1, <1>2, <2>1, Answered, EndedIsInvocation DEF PartStates, Tasks
  <2>3. ExecuteTurn(x) /\ ETypes'
    BY <1>1, <1>2, <2>2 DEF ExecuteTurn, ExecuteSteps, Owning, Turns, ETypes
  <2>4. ASSUME NEW m \in Machines, Alone(m)' PROVE Stage(m)'
    <3>1. Place(m) = "revalidate" /\ Place(m)' = s /\ Stage(m) /\ live[1] = {}
      BY <1>1, <1>2, <1>3, <2>2, <2>3, <2>4, Lone
    <3> QED
      BY <1>2, <3>1 DEF Stage, Recorded, Placed, Followed, Idle, Entering, Failing, Ending, Away, Owning
  <2> QED
    BY <1>1, <1>2, <2>2, <2>3, <2>4, Passes DEF StageHolds, Owns, Owning
<1> QED
  BY <1>1, <1>4, <1>5 DEF Revalidate

-----------------------------------------------------------------------------
(* The steps of the owner of a part's claim *)

\* What a step owes of which the journal or SAP tells something new about its part.
LEMMA Works ==
  ASSUME EInv, NEW x, ExecuteTurn(x), NEW p \in Parts, p = PartOf(x),
         ETypes', UNCHANGED <<route, undone, checks, status, request, asked>>,
         Owns(x) \/ exec[p] = "NONE",
         \A q \in Parts \ {p} : exec'[q] = exec[q] /\ live'[q] = live[q] /\ gone'[q] = gone[q],
         JournalOf(p)',
         Owns(x)' => /\ exec'[p] = "PENDING"
                     /\ task'[x].pc # "compensate" => gone'[p] = {}
                     /\ task'[x].pc = "revalidate" => live'[p] = {},
         Orderly(p), StageHolds'
  PROVE  EInv' /\ \A q \in Parts : Orderly(q)
<1>1. /\ x \in Invoked /\ Turns(x) /\ JournalHolds /\ InRoute' = InRoute /\ UNCHANGED received
  BY DEF ExecuteTurn, Turns, EInv, InRoute, checks
<1>2. exec[p] # "SUCCEEDED"
  BY <1>1 DEF JournalHolds, Owner
<1>3. Lasts
  BY <1>2 DEF Lasts
<1>4. \A y \in Invoked : PartOf(y)' = PartOf(y) /\ PartOf(y) \in Parts
  BY <1>1, Invocations DEF Turns, PartOf, EInv, ETypes, Machine
<1>5. ASSUME NEW y \in Invoked, y # x, Owns(y) PROVE PartOf(y) # p
  BY <1>1, <1>5 DEF JournalHolds, Owner
<1>6. ASSUME NEW q \in Parts PROVE JournalOf(q)'
  <2>1. CASE q # p
    BY <1>1, <2>1 DEF JournalHolds, JournalOf
  <2> QED
    BY <2>1
<1>7. ASSUME NEW y \in Invoked PROVE Owner(y)'
  <2>1. CASE y # x
    <3> SUFFICES ASSUME Owns(y)' PROVE Owner(y)'
      BY DEF Owner
    <3>1. Owns(y) /\ task'[y] = task[y] /\ PartOf(y) # p /\ Owner(y) /\ PartOf(y)' = PartOf(y)
          /\ PartOf(y) \in Parts
      BY <1>1, <1>4, <1>5, <2>1 DEF Turns, Owns, JournalHolds
    <3>2. ASSUME NEW z \in Invoked, Owns(z)', PartOf(z)' = PartOf(y)' PROVE z = y
      <4>1. z # x /\ Owns(z) /\ PartOf(z) = PartOf(y)
        BY <1>1, <1>4, <3>1, <3>2 DEF Turns, Owns
      <4> QED
        BY <3>1, <4>1 DEF Owner
    <3> QED
      BY <3>1, <3>2 DEF Owner
  <2>2. CASE y = x
    <3>1. ASSUME NEW z \in Invoked, Owns(z)', PartOf(z)' = PartOf(x)' PROVE z = x
      BY <1>1, <1>4, <1>5, <3>1 DEF Turns, Owns
    <3>2. PartOf(x)' = p
      BY <1>1, <1>4
    <3> QED
      BY <2>2, <3>1, <3>2 DEF Owner
  <2> QED
    BY <2>1, <2>2
<1>8. ASSUME NEW y \in Invoked PROVE Undoer(y)'
  <2>1. CASE y # x
    <3>1. task'[y] = task[y] /\ Undoer(y) /\ InRoute \subseteq Parts
      BY <1>1, <2>1, RouteFacts DEF Turns, JournalHolds, EInv
    <3> QED
      BY <1>1, <1>3, <3>1 DEF Undoer, Lasts
  <2>2. CASE y = x
    BY <2>2, StepsDiffer DEF ExecuteTurn, Undoer, ExecuteSteps, Owning
  <2> QED
    BY <2>1, <2>2
<1>9. JournalHolds'
  BY <1>6, <1>7, <1>8 DEF JournalHolds
<1>10. ChecksHold' /\ ClosedIsReceived' /\ RollbackHolds' /\ Machinery'
  BY <1>1, <1>3, ChecksKept, ClosedKept, RollbackKept, MachineryTurns
<1>11. ASSUME NEW q \in Parts PROVE Orderly(q)
  <2>1. CASE q # p
    BY <2>1, Unmoved
  <2> QED
    BY <2>1
<1> QED
  BY <1>9, <1>10, <1>11 DEF EInv

\* What an invocation at its work knows about its part.
LEMMA AtWork ==
  ASSUME EInv, NEW x \in Invoked, task[x].pc \in ExecuteSteps
  PROVE  /\ x[1] \in Machines /\ x[1] # Back /\ PartOf(x) \in Parts
         /\ JournalOf(PartOf(x)) /\ Owner(x) /\ ETypes
BY Invocations, BackIsApart DEF EInv, Machinery, JournalHolds, ETypes, Machine, PartOf

LEMMA ClaimStep ==
  ASSUME EInv, NEW x \in Invoked, Claim(x)
  PROVE  EInv' /\ \A p \in Parts : Orderly(p)
<1>0. PICK p \in Parts : p = PartOf(x)
  BY AtWork DEF Claim, At, ExecuteSteps
<1>1. /\ task[x].pc = "claim" /\ x[1] \in Machines /\ x[1] # Back /\ JournalOf(p) /\ ETypes
      /\ UNCHANGED <<status, plan, kill, undone, sap, request, checks, mishaps, asked>>
  BY <1>0, AtWork DEF Claim, At, ExecuteSteps
<1>2. UNCHANGED <<status, route, decision, kill, undone, live, gone, request, due, received,
                  monitor, mishaps, asked>>
  BY <1>1 DEF plan, sap, checks
<1>3. CASE exec[p] = "NONE"
  <2>1. exec' = [exec EXCEPT ![p] = "PENDING"] /\ Goto(x, "revalidate") /\ machine' = machine
    BY <1>0, <1>3 DEF Claim
  <2>2. Turns(x) /\ task'[x].pc = "revalidate"
    BY <1>1, <1>2, <2>1, Going DEF ExecuteSteps, Owning
  <2>3. ExecuteTurn(x) /\ ETypes' /\ exec'[p] = "PENDING" /\ \A q \in Parts \ {p} : exec'[q] = exec[q]
    BY <1>1, <1>2, <2>1, <2>2 DEF ExecuteTurn, ExecuteSteps, Owning, Turns, ETypes, Marks
  <2>4. ASSUME NEW m \in Machines, Alone(m)' PROVE Stage(m)'
    <3>1. Place(m) = "claim" /\ Place(m)' = "revalidate" /\ Stage(m) /\ p = 1
      BY <1>1, <1>2, <2>1, <2>2, <2>3, <2>4, <1>0, Lone
    <3> QED
      BY <1>2, <2>3, <3>1 DEF Stage, Recorded, Placed, Followed, Idle, Entering, Failing, Ending, Away, Owning
  <2>5. JournalOf(p)' /\ live[p] = {} /\ gone[p] = {} /\ undone[p] = "NONE"
    BY <1>1, <1>2, <1>3, <2>3 DEF JournalOf, ETypes, Marks
  <2>6. Orderly(p)
    BY <1>1, <1>2, <1>3, <2>3, <2>5 DEF Orderly, Part!PNext, Part!Start, Phase
  <2> QED
    BY <1>0, <1>1, <1>2, <1>3, <2>2, <2>3, <2>4, <2>5, <2>6, Works DEF StageHolds, checks
<1>4. CASE exec[p] # "NONE"
  <2>1. PICK s \in {"MarkFailedRolledBack", "Notify"} : Answer(x, s) /\ exec' = exec
    BY <1>0, <1>1, <1>4 DEF Claim, ETypes, Marks
  <2>2. Turns(x) /\ task'[x].pc = "ended"
    BY <1>1, <1>2, <2>1, Answered, EndedIsInvocation DEF PartStates, Tasks
  <2>3. ExecuteTurn(x) /\ ETypes'
    BY <1>1, <1>2, <2>1, <2>2 DEF ExecuteTurn, ExecuteSteps, Turns, ETypes
  <2>4. ASSUME NEW m \in Machines, Alone(m)' PROVE FALSE
    <3>1. Place(m) = "claim" /\ Stage(m) /\ p = 1
      BY <1>1, <1>2, <2>2, <2>3, <2>4, <1>0, Lone
    <3> QED
      BY <1>4, <3>1 DEF Stage, Recorded, Placed, Followed, Idle, Entering, Failing, Ending, Away
  <2> QED
    BY <1>1, <1>2, <2>1, <2>2, <2>3, <2>4, Passes DEF StageHolds, Owns, Owning, journal, sap, checks
<1> QED
  BY <1>3, <1>4

\* An owner that stays where it is, or answers, with its part's claim still pending.
LEMMA StagePends ==
  ASSUME EInv, NEW x \in Invoked, ExecuteTurn(x), Owns(x), task[x].pc # "revalidate",
         UNCHANGED <<exec, status, plan>>, mishaps \subseteq mishaps',
         Owns(x)' \/ (Awaited(x) => machine'[x[1]].state \in {"MarkFailedRolledBack", "Refused"}),
         machine' # machine => ~Owns(x)'
  PROVE  StageHolds'
<1> SUFFICES ASSUME NEW m \in Machines, Alone(m)' PROVE Stage(m)'
  BY DEF StageHolds
<1>1. /\ x = <<m, 1>> /\ Awaited(x) /\ Place(m) = task[x].pc /\ Stage(m)
      /\ machine'[m] = machine[m] => Place(m)' = task'[x].pc
      /\ machine'[m].state # "Execute" => Place(m)' = machine'[m].state
  BY Lone
<1>2. exec'[1] = "PENDING" /\ (Followed' => status' = "EXECUTING")
  BY <1>1 DEF Stage, Recorded, Placed, Followed, Idle, Entering, Failing, Ending, Away, Owns
<1>3. Place(m)' \in Owning \cup {"MarkFailedRolledBack", "Refused"}
  <2>1. CASE Owns(x)'
    BY <1>1, <2>1 DEF Owns
  <2>2. CASE ~Owns(x)'
    BY <1>1, <2>2
  <2> QED
    BY <2>1, <2>2
<1> QED
  BY <1>2, <1>3 DEF Stage, Recorded, Placed, Followed, Idle, Entering, Failing, Ending, Away, Owning

\* The next write of a part is the one after those that stand.
LEMMA NextWrite ==
  ASSUME ETypes, NEW p \in Parts, JournalOf(p), live[p] # Parts
  PROVE  \E i \in Parts : /\ Cardinality(live[p]) + 1 = i /\ live[p] = 1..(i - 1)
                          /\ live[p] \cup {i} \in {{1}, Parts}
<1>1. CASE live[p] = {}
  BY <1>1, FS_EmptySet DEF Parts
<1>2. CASE live[p] = {1}
  <2>1. Cardinality({1}) = 1 /\ {1} = 1..1 /\ {1} \cup {2} = Parts
    BY FS_Singleton DEF Parts
  <2> QED
    BY <1>2, <2>1 DEF Parts
<1> QED
  BY <1>1, <1>2 DEF JournalOf

LEMMA WriteStep ==
  ASSUME EInv, NEW x \in Invoked, Write(x)
  PROVE  EInv' /\ \A p \in Parts : Orderly(p)
<1>0. PICK p \in Parts : p = PartOf(x)
  BY AtWork DEF Write, At, ExecuteSteps, Owning
<1>1. /\ task[x].pc = "write" /\ x[1] \in Machines /\ x[1] # Back /\ JournalOf(p) /\ ETypes
      /\ Owner(x) /\ Owns(x) /\ live[p] # Parts
      /\ UNCHANGED <<status, plan, kill, journal, gone, request, checks, asked>>
  BY <1>0, AtWork DEF Write, At, ExecuteSteps, Owning, Owns
<1>2. UNCHANGED <<status, route, decision, kill, exec, undone, gone, request, due, received,
                  monitor, asked>>
  BY <1>1 DEF plan, journal, checks
<1>3. exec[p] = "PENDING" /\ gone[p] = {} /\ undone[p] = "NONE"
  BY <1>0, <1>1 DEF Owner, JournalOf, ETypes, Marks
<1>4. ASSUME NEW s \in {"Refused", "MarkFailedRolledBack"}, Answer(x, s), live' = live,
             Befalls("stopped") \/ mishaps' = mishaps
      PROVE  EInv' /\ \A q \in Parts : Orderly(q)
  <2>1. mishaps' \subseteq {"stopped", "overtaken", "lost"} /\ mishaps \subseteq mishaps'
    BY <1>1, <1>4, Stopped DEF ETypes
  <2>2. Turns(x) /\ task'[x].pc = "ended" /\ (Awaited(x) => machine'[x[1]].state = s)
    BY <1>1, <1>2, <1>4, Answered, EndedIsInvocation DEF PartStates, Tasks
  <2>3. ExecuteTurn(x) /\ ETypes' /\ ~Owns(x)'
    BY <1>1, <1>2, <1>4, <2>1, <2>2 DEF ExecuteTurn, ExecuteSteps, Owning, Owns, Turns, ETypes
  <2>4. StageHolds'
    BY <1>1, <1>2, <2>1, <2>2, <2>3, StagePends
  <2> QED
    BY <1>1, <1>2, <1>4, <2>2, <2>3, <2>4, Passes DEF sap
<1>5. CASE /\ live' = [live EXCEPT ![p] = @ \cup {Cardinality(live[p]) + 1}]
           /\ UNCHANGED <<machine, task, mishaps>>
  <2>1. PICK i \in Parts : /\ Cardinality(live[p]) + 1 = i /\ live[p] = 1..(i - 1)
                           /\ live[p] \cup {i} \in {{1}, Parts}
    BY <1>1, NextWrite
  <2>2. /\ live'[p] = live[p] \cup {i} /\ \A q \in Parts \ {p} : live'[q] = live[q]
        /\ live' \in [Parts -> SUBSET Parts]
    BY <1>1, <1>5, <2>1 DEF ETypes
  <2>3. ETypes'
    BY <1>1, <1>2, <1>5, <2>2 DEF ETypes
  <2>4. ExecuteTurn(x)
    BY <1>1, <1>2, <1>5 DEF ExecuteTurn, Turns, ETypes, ExecuteSteps, Owning
  <2>5. JournalOf(p)'
    BY <1>1, <1>2, <1>3, <2>1, <2>2 DEF JournalOf
  <2>6. Orderly(p)
    <3>1. Phase(p) = "writing" /\ Phase(p)' = "writing"
      BY <1>2, <1>3 DEF Phase
    <3>2. Part(p)!Write(i)
      BY <1>2, <1>3, <2>1, <2>2, <3>1 DEF Part!Write
    <3> QED
      BY <3>2 DEF Orderly, Part!PNext, Part!Steps, Parts
  <2>7. StageHolds'
    BY <1>1, <1>2, <1>5, <2>4, StagePends DEF Owns
  <2>8. Owns(x)' => exec'[p] = "PENDING" /\ gone'[p] = {} /\ task'[x].pc # "revalidate"
    BY <1>1, <1>2, <1>3, <1>5
  <2> QED
    BY <1>0, <1>1, <1>2, <2>2, <2>3, <2>4, <2>5, <2>6, <2>7, <2>8, Works
<1>6. CASE Goto(x, "compensate") /\ UNCHANGED <<live, machine, mishaps>>
  <2>1. Turns(x) /\ task'[x].pc = "compensate"
    BY <1>1, <1>2, <1>6, Going DEF ExecuteSteps, Owning
  <2>2. ExecuteTurn(x) /\ ETypes' /\ Owns(x)'
    BY <1>1, <1>2, <1>6, <2>1 DEF ExecuteTurn, ExecuteSteps, Owning, Turns, ETypes, Owns
  <2>3. StageHolds'
    BY <1>1, <1>2, <1>6, <2>2, StagePends
  <2> QED
    BY <1>1, <1>2, <1>6, <2>1, <2>2, <2>3, Passes DEF sap
<1>7. \/ kill /\ Answer(x, "Refused") /\ Befalls("stopped") /\ UNCHANGED live
      \/ /\ live' = [live EXCEPT ![p] = @ \cup {Cardinality(live[p]) + 1}]
         /\ UNCHANGED <<machine, task, mishaps>>
      \/ Goto(x, "compensate") /\ UNCHANGED <<live, machine, mishaps>>
      \/ Answer(x, "MarkFailedRolledBack") /\ UNCHANGED <<live, mishaps>>
  BY <1>0 DEF Write
<1> QED
  BY <1>4, <1>5, <1>6, <1>7

\* Taking back the last write that stands keeps the writes in order.
LEMMA TakenBack ==
  ASSUME ETypes, NEW p \in Parts, JournalOf(p), NEW i \in live[p], TakeBack(p, i)
  PROVE  /\ live'[p] = live[p] \ {i} /\ gone'[p] = gone[p] \cup {i} /\ i \in Parts
         /\ live' \in [Parts -> SUBSET Parts] /\ gone' \in [Parts -> SUBSET Parts]
         /\ \A q \in Parts \ {p} : live'[q] = live[q] /\ gone'[q] = gone[q]
         /\ live'[p] \in {{}, {1}, Parts} /\ \A k \in live'[p], j \in gone'[p] : k < j
         /\ \A j \in gone[p] : j > i
<1>1. i \in Parts /\ i \in Nat /\ live[p] \subseteq Parts /\ gone[p] \subseteq Parts
  BY DEF ETypes, Parts
<1>2. /\ live'[p] = live[p] \ {i} /\ gone'[p] = gone[p] \cup {i}
      /\ live' \in [Parts -> SUBSET Parts] /\ gone' \in [Parts -> SUBSET Parts]
      /\ \A q \in Parts \ {p} : live'[q] = live[q] /\ gone'[q] = gone[q]
  BY <1>1 DEF TakeBack, ETypes
<1>3. \A k \in live[p] : k <= i
  BY DEF TakeBack
<1>4. live[p] \ {i} \in {{}, {1}}
  <2>1. CASE live[p] = {1}
    BY <2>1
  <2>2. CASE live[p] = Parts
    BY <1>1, <1>3, <2>2 DEF Parts
  <2> QED
    BY <2>1, <2>2 DEF JournalOf
<1>5. \A j \in gone[p] : j > i
  BY <1>1 DEF JournalOf, Parts
<1>6. \A k \in live'[p], j \in gone'[p] : k < j
  BY <1>1, <1>2, <1>3 DEF JournalOf, Parts
<1> QED
  BY <1>1, <1>2, <1>4, <1>5, <1>6

LEMMA CompensateStep ==
  ASSUME EInv, NEW x \in Invoked, Compensate(x)
  PROVE  EInv' /\ \A p \in Parts : Orderly(p)
<1>0. PICK p \in Parts : p = PartOf(x)
  BY AtWork DEF Compensate, At, ExecuteSteps, Owning
<1>1. /\ task[x].pc = "compensate" /\ x[1] \in Machines /\ x[1] # Back /\ JournalOf(p) /\ ETypes
      /\ Owner(x) /\ Owns(x)
      /\ UNCHANGED <<status, plan, kill, journal, request, checks, mishaps, asked>>
  BY <1>0, AtWork DEF Compensate, At, ExecuteSteps, Owning, Owns
<1>2. UNCHANGED <<status, route, decision, kill, exec, undone, request, due, received,
                  monitor, mishaps, asked>>
  BY <1>1 DEF plan, journal, checks
<1>3. exec[p] = "PENDING" /\ undone[p] = "NONE"
  BY <1>0, <1>1 DEF Owner, JournalOf, ETypes, Marks
<1>4. CASE (\E i \in live[p] : TakeBack(p, i)) /\ UNCHANGED <<machine, task>>
  <2>1. PICK i \in live[p] : TakeBack(p, i)
    BY <1>4
  <2>2. /\ live'[p] = live[p] \ {i} /\ gone'[p] = gone[p] \cup {i} /\ i \in Parts
        /\ live' \in [Parts -> SUBSET Parts] /\ gone' \in [Parts -> SUBSET Parts]
        /\ \A q \in Parts \ {p} : live'[q] = live[q] /\ gone'[q] = gone[q]
        /\ live'[p] \in {{}, {1}, Parts} /\ \A k \in live'[p], j \in gone'[p] : k < j
        /\ \A j \in gone[p] : j > i
    BY <1>1, <2>1, TakenBack
  <2>3. ETypes'
    BY <1>1, <1>2, <1>4, <2>2 DEF ETypes
  <2>4. ExecuteTurn(x)
    BY <1>1, <1>2, <1>4 DEF ExecuteTurn, Turns, ETypes, ExecuteSteps, Owning
  <2>5. JournalOf(p)'
    BY <1>2, <1>3, <2>2 DEF JournalOf
  <2>6. Orderly(p)
    <3>1. Phase(p) = "writing" /\ Phase(p)' = "writing"
      BY <1>2, <1>3 DEF Phase
    <3>2. Part(p)!Undo(i)
      BY <2>1, <2>2, <3>1 DEF Part!Undo, Part!Reversible, Part!Steps, Parts
    <3> QED
      BY <2>2, <3>2 DEF Orderly, Part!PNext, Part!Steps, Parts
  <2>7. StageHolds'
    BY <1>1, <1>2, <1>4, <2>4, StagePends DEF Owns
  <2>8. Owns(x)' => exec'[p] = "PENDING" /\ task'[x].pc = "compensate"
    BY <1>1, <1>2, <1>3, <1>4
  <2> QED
    BY <1>0, <1>1, <1>2, <2>2, <2>3, <2>4, <2>5, <2>6, <2>7, <2>8, Works
<1>5. CASE live[p] = {} /\ Answer(x, "MarkFailedRolledBack") /\ UNCHANGED sap
  <2>1. Turns(x) /\ task'[x].pc = "ended" /\ (Awaited(x) => machine'[x[1]].state = "MarkFailedRolledBack")
    BY <1>1, <1>2, <1>5, Answered, EndedIsInvocation DEF PartStates, Tasks
  <2>2. ExecuteTurn(x) /\ ETypes' /\ ~Owns(x)'
    BY <1>1, <1>2, <1>5, <2>1 DEF ExecuteTurn, ExecuteSteps, Owning, Owns, Turns, ETypes, sap
  <2>3. StageHolds'
    BY <1>1, <1>2, <2>1, <2>2, StagePends
  <2> QED
    BY <1>1, <1>2, <1>5, <2>1, <2>2, <2>3, Passes
<1> QED
  BY <1>0, <1>4, <1>5 DEF Compensate

LEMMA FinishStep ==
  ASSUME EInv, NEW x \in Invoked, Finish(x)
  PROVE  EInv' /\ \A p \in Parts : Orderly(p)
<1>0. PICK p \in Parts : p = PartOf(x)
  BY AtWork DEF Finish, At, ExecuteSteps, Owning
<1>1. /\ task[x].pc = "write" /\ x[1] \in Machines /\ x[1] # Back /\ JournalOf(p) /\ ETypes
      /\ Owner(x) /\ Owns(x) /\ live[p] = Parts
      /\ UNCHANGED <<status, plan, kill, undone, sap, request, checks, mishaps, asked>>
  BY <1>0, AtWork DEF Finish, At, ExecuteSteps, Owning, Owns
<1>2. UNCHANGED <<status, route, decision, kill, undone, live, gone, request, due, received,
                  monitor, mishaps, asked>>
  BY <1>1 DEF plan, sap, checks
<1>3. exec[p] = "PENDING" /\ undone[p] = "NONE" /\ gone[p] = {}
  BY <1>0, <1>1 DEF Owner, JournalOf, ETypes, Marks
<1>4. CASE exec' = [exec EXCEPT ![p] = "SUCCEEDED"] /\ Answer(x, "Notify")
  <2>1. Turns(x) /\ task'[x].pc = "ended" /\ (Awaited(x) => machine'[x[1]].state = "Notify")
    BY <1>1, <1>2, <1>4, Answered, EndedIsInvocation DEF PartStates, Tasks
  <2>2. /\ ExecuteTurn(x) /\ ETypes' /\ ~Owns(x)'
        /\ exec'[p] = "SUCCEEDED" /\ \A q \in Parts \ {p} : exec'[q] = exec[q]
    BY <1>1, <1>2, <1>4, <2>1 DEF ExecuteTurn, ExecuteSteps, Owning, Owns, Turns, ETypes, Marks
  <2>3. JournalOf(p)'
    BY <1>1, <1>2, <1>3, <2>2 DEF JournalOf
  <2>4. Orderly(p)
    <3>1. Phase(p) = "writing" /\ Phase(p)' = "completed"
      BY <1>2, <1>3, <2>2 DEF Phase
    <3> QED
      BY <1>1, <1>2, <3>1 DEF Orderly, Part!PNext, Part!Complete, Part!Steps, Parts
  <2>5. ASSUME NEW m \in Machines, Alone(m)' PROVE Stage(m)'
    <3>1. Place(m) = "write" /\ Place(m)' = "Notify" /\ Stage(m) /\ p = 1
      BY <1>0, <1>1, <1>2, <2>1, <2>2, <2>5, Lone
    <3> QED
      BY <1>2, <2>2, <3>1 DEF Stage, Recorded, Placed, Followed, Idle, Entering, Failing, Ending, Away, Owning
  <2> QED
    BY <1>0, <1>1, <1>2, <2>1, <2>2, <2>3, <2>4, <2>5, Works DEF StageHolds
<1>5. CASE Answer(x, "MarkFailedRolledBack") /\ exec' = exec
  <2>1. Turns(x) /\ task'[x].pc = "ended" /\ (Awaited(x) => machine'[x[1]].state = "MarkFailedRolledBack")
    BY <1>1, <1>2, <1>5, Answered, EndedIsInvocation DEF PartStates, Tasks
  <2>2. ExecuteTurn(x) /\ ETypes' /\ ~Owns(x)'
    BY <1>1, <1>2, <1>5, <2>1 DEF ExecuteTurn, ExecuteSteps, Owning, Owns, Turns, ETypes
  <2>3. StageHolds'
    BY <1>1, <1>2, <1>5, <2>1, <2>2, StagePends
  <2> QED
    BY <1>1, <1>2, <1>5, <2>1, <2>2, <2>3, Passes DEF journal
<1> QED
  BY <1>0, <1>4, <1>5 DEF Finish

-----------------------------------------------------------------------------
(* The steps of the rollback *)

\* What a rollback step that leaves the journal and SAP alone owes.
LEMMA RollbackPasses ==
  ASSUME EInv, NEW x, RollbackTurn(x), ETypes', UNCHANGED <<route, journal, sap, checks, asked>>,
         mishaps \subseteq mishaps', Undoer(x)',
         task'[x].pc \in RollbackSteps => \A p \in asked : p < task'[x].i => undone[p] = "SUCCEEDED",
         task'[x].pc \in {"rolledBack", "markDone"} => AllWithdrawn,
         request' = "DONE" => request = "DONE" \/ AllWithdrawn,
         UNCHANGED decision,
         status' = status \/ (status \in Late /\ status' = "ROLLED_BACK")
  PROVE  EInv' /\ \A p \in Parts : Orderly(p)
<1>1. Lasts /\ UNCHANGED <<exec, undone, live, gone, received>>
  BY DEF Lasts, journal, sap, checks
<1>2. ~Owns(x)'
  BY StepsDiffer DEF RollbackTurn, Owns, RollbackSteps, Owning
<1>3. JournalHolds' /\ ChecksHold' /\ ClosedIsReceived' /\ Machinery'
  BY <1>1, <1>2, JournalKept, ChecksKept, ClosedKept, MachineryTurns
<1>4. RollbackHolds'
  BY <1>1, RollbackGoesOn DEF AllWithdrawn
<1>5. ASSUME NEW m \in Machines, Alone(m)' PROVE Stage(m)'
  <2>1. Alone(m) /\ Stage(m) /\ Place(m)' = Place(m)
    BY <1>5, Elsewhere
  <2>2. CASE status' = status
    BY <1>1, <2>1, <2>2, StageKept DEF plan
  <2>3. CASE status \in Late /\ status' = "ROLLED_BACK"
    <3>1. Recorded(m)'
      BY <1>1, <2>1 DEF Stage, Recorded, Authorized
    <3>2. Followed' => Followed
      BY DEF Followed
    <3>3. Followed' => Placed(m)'
      BY <1>1, <2>1, <2>3, <3>2 DEF Stage, Placed, Idle, Entering, Failing, Ending, Away, Early,
         Late, Owning
    <3> QED
      BY <3>1, <3>3 DEF Stage
  <2> QED
    BY <2>2, <2>3
<1>6. \A p \in Parts : Orderly(p)
  BY <1>1, Unmoved
<1> QED
  BY <1>3, <1>4, <1>5, <1>6 DEF EInv, StageHolds

\* What an invocation of the rollback knows.
LEMMA AtRollback ==
  ASSUME EInv, NEW x \in Invoked, task[x].pc \in RollbackSteps
  PROVE  /\ x[1] = Back /\ task[x] \in Invocation /\ task[x].i \in 1..3 /\ Undoer(x) /\ ETypes
         /\ asked \subseteq InRoute /\ \A p \in asked : exec[p] = "SUCCEEDED"
         /\ \A p \in asked : p < task[x].i => undone[p] = "SUCCEEDED"
         /\ task[x].pc \in {"rolledBack", "markDone"} => AllWithdrawn
         /\ request = "DONE" => AllWithdrawn
BY DEF EInv, Machinery, JournalHolds, RollbackHolds, Withdrawn, ETypes, Invocation

LEMMA FindStep ==
  ASSUME EInv, NEW x \in Invoked, FindRequest(x)
  PROVE  EInv' /\ \A p \in Parts : Orderly(p)
<1>1. /\ task[x].pc = "find" /\ x[1] = Back /\ ETypes /\ \A p \in asked : p < task[x].i => undone[p] = "SUCCEEDED"
      /\ UNCHANGED <<status, plan, kill, journal, sap, request, checks, mishaps, asked>>
  BY AtRollback DEF FindRequest, At, RollbackSteps
<1>2. UNCHANGED <<status, route, decision, kill, exec, undone, live, gone, request, due, received,
                  monitor, mishaps, asked>>
  BY <1>1 DEF plan, journal, sap, checks
<1>3. CASE Goto(x, "next") /\ machine' = machine
  <2>1. Turns(x) /\ task'[x].pc = "next" /\ task'[x].i = task[x].i
    BY <1>1, <1>2, <1>3, Going DEF RollbackSteps
  <2>2. RollbackTurn(x) /\ ETypes'
    BY <1>1, <1>2, <2>1 DEF RollbackTurn, RollbackSteps, Turns, ETypes
  <2> QED
    BY <1>1, <1>2, <2>1, <2>2, RollbackPasses DEF Undoer
<1>4. CASE Answer(x, "RolledBack")
  <2>1. Turns(x) /\ task'[x].pc = "ended"
    BY <1>1, <1>2, <1>4, Answered, EndedIsInvocation DEF BackStates
  <2>2. RollbackTurn(x) /\ ETypes'
    BY <1>1, <1>2, <2>1 DEF RollbackTurn, RollbackSteps, Turns, ETypes
  <2> QED
    BY <1>1, <1>2, <2>1, <2>2, RollbackPasses DEF Undoer, RollbackSteps
<1> QED
  BY <1>3, <1>4 DEF FindRequest

\* The loop over the parts has its number of the part in order.
LEMMA NextPartStep ==
  ASSUME EInv, NEW x \in Invoked, NextPart(x)
  PROVE  EInv' /\ \A p \in Parts : Orderly(p)
<1>1. /\ task[x].pc = "next" /\ x[1] = Back /\ ETypes /\ task[x] \in Invocation /\ task[x].i \in 1..3
      /\ asked \subseteq InRoute /\ \A p \in asked : exec[p] = "SUCCEEDED"
      /\ \A p \in asked : p < task[x].i => undone[p] = "SUCCEEDED"
      /\ machine' = machine
      /\ UNCHANGED <<status, plan, kill, journal, sap, request, checks, mishaps, asked>>
  BY AtRollback DEF NextPart, At, RollbackSteps
<1>2. UNCHANGED <<status, route, decision, kill, exec, undone, live, gone, request, due, received,
                  monitor, mishaps, asked>>
  BY <1>1 DEF plan, journal, sap, checks
<1>3. InRoute = 1..Len(route) /\ Len(route) \in {1, 2} /\ InRoute \subseteq Parts
  BY <1>1, RouteFacts
<1>4. CASE task[x].i \notin InRoute
  <2>1. Goto(x, "rolledBack")
    BY <1>4 DEF NextPart, Goto
  <2>2. Turns(x) /\ task'[x].pc = "rolledBack" /\ task'[x].i = task[x].i
    BY <1>1, <1>2, <2>1, Going DEF RollbackSteps
  <2>3. RollbackTurn(x) /\ ETypes'
    BY <1>1, <1>2, <2>2 DEF RollbackTurn, RollbackSteps, Turns, ETypes
  <2>4. AllWithdrawn
    BY <1>1, <1>3, <1>4 DEF AllWithdrawn
  <2> QED
    BY <1>1, <1>2, <2>2, <2>3, <2>4, RollbackPasses DEF Undoer
<1>5. CASE task[x].i \in InRoute /\ exec[task[x].i] # "SUCCEEDED"
  <2>1. task' = [task EXCEPT ![x] = [task[x] EXCEPT !.i = task[x].i + 1]]
    BY <1>1, <1>5 DEF NextPart, ETypes
  <2>2. /\ [task[x] EXCEPT !.i = task[x].i + 1] \in Invocation
        /\ [task[x] EXCEPT !.i = task[x].i + 1].pc = "next"
        /\ [task[x] EXCEPT !.i = task[x].i + 1].i = task[x].i + 1
    <3>1. task[x].i + 1 \in 1..3
      BY <1>3, <1>5 DEF Parts
    <3> QED
      BY <1>1, <3>1 DEF Invocation
  <2>3. Turns(x) /\ task'[x].pc = "next" /\ task'[x].i = task[x].i + 1
    BY <1>1, <1>2, <2>1, <2>2, GoneTo
  <2>4. RollbackTurn(x) /\ ETypes'
    BY <1>1, <1>2, <2>3 DEF RollbackTurn, RollbackSteps, Turns, ETypes
  <2>5. \A p \in asked : p < task'[x].i => undone[p] = "SUCCEEDED"
    BY <1>1, <1>3, <1>5, <2>3 DEF Parts
  <2> QED
    BY <1>1, <1>2, <2>3, <2>4, <2>5, RollbackPasses DEF Undoer
<1>6. CASE task[x].i \in InRoute /\ exec[task[x].i] = "SUCCEEDED"
  <2>1. Goto(x, "claimUndo")
    BY <1>6 DEF NextPart, Goto
  <2>2. Turns(x) /\ task'[x].pc = "claimUndo" /\ task'[x].i = task[x].i
    BY <1>1, <1>2, <2>1, Going DEF RollbackSteps
  <2>3. RollbackTurn(x) /\ ETypes'
    BY <1>1, <1>2, <2>2 DEF RollbackTurn, RollbackSteps, Turns, ETypes
  <2>4. Undoer(x)'
    BY <1>2, <1>6, <2>2 DEF Undoer, InRoute
  <2> QED
    BY <1>1, <1>2, <2>2, <2>3, <2>4, RollbackPasses
<1> QED
  BY <1>4, <1>5, <1>6

LEMMA MarkRolledBackStep ==
  ASSUME EInv, NEW x \in Invoked, MarkRolledBack(x)
  PROVE  EInv' /\ \A p \in Parts : Orderly(p)
<1>1. /\ task[x].pc = "rolledBack" /\ x[1] = Back /\ ETypes /\ AllWithdrawn /\ machine' = machine
      /\ \A p \in asked : p < task[x].i => undone[p] = "SUCCEEDED"
      /\ TryMove("ROLLED_BACK") /\ UNCHANGED <<plan, kill, journal, sap, request, checks, asked>>
  BY AtRollback DEF MarkRolledBack, At, RollbackSteps
<1>2. UNCHANGED <<route, decision, kill, exec, undone, live, gone, request, due, received,
                  monitor, asked>>
  BY <1>1 DEF plan, journal, sap, checks
<1>3. status' \in Statuses /\ (status' = status \/ (status \in Late /\ status' = "ROLLED_BACK"))
  BY <1>1, Tried, Moved DEF Statuses, ETypes, Late
<1>4. Turns(x) /\ task'[x].pc = "markDone" /\ task'[x].i = task[x].i
  BY <1>1, <1>2, Going DEF MarkRolledBack, RollbackSteps
<1>5. RollbackTurn(x) /\ ETypes' /\ mishaps \subseteq mishaps'
  BY <1>1, <1>2, <1>3, <1>4, Tried DEF RollbackTurn, RollbackSteps, Turns, ETypes
<1> QED
  BY <1>1, <1>2, <1>3, <1>4, <1>5, RollbackPasses DEF Undoer

LEMMA MarkDoneStep ==
  ASSUME EInv, NEW x \in Invoked, MarkDone(x)
  PROVE  EInv' /\ \A p \in Parts : Orderly(p)
<1>1. /\ task[x].pc = "markDone" /\ x[1] = Back /\ ETypes /\ AllWithdrawn
      /\ request' = "DONE" /\ Answer(x, "RolledBack")
      /\ UNCHANGED <<status, plan, kill, journal, sap, checks, mishaps, asked>>
  BY AtRollback DEF MarkDone, At, RollbackSteps
<1>2. UNCHANGED <<status, route, decision, kill, exec, undone, live, gone, due, received,
                  monitor, mishaps, asked>>
  BY <1>1 DEF plan, journal, sap, checks
<1>3. Turns(x) /\ task'[x].pc = "ended"
  BY <1>1, <1>2, Answered, EndedIsInvocation DEF BackStates
<1>4. RollbackTurn(x) /\ ETypes'
  BY <1>1, <1>2, <1>3 DEF RollbackTurn, RollbackSteps, Turns, ETypes
<1> QED
  BY <1>1, <1>2, <1>3, <1>4, RollbackPasses DEF Undoer, RollbackSteps

\* What a step owes of which the undo journal or SAP tells something new about the part.
LEMMA Undoes ==
  ASSUME EInv, NEW x, RollbackTurn(x), NEW p \in Parts, exec[p] = "SUCCEEDED",
         ETypes', UNCHANGED <<route, exec, decision, checks, status, request, asked, mishaps>>,
         \A q \in Parts \ {p} : undone'[q] = undone[q] /\ live'[q] = live[q] /\ gone'[q] = gone[q],
         undone[p] = "SUCCEEDED" => undone'[p] = "SUCCEEDED", 
         undone[p] # "NONE" => undone'[p] # "NONE",
         JournalOf(p)', Undoer(x)', Orderly(p),
         task'[x].pc \in RollbackSteps => \A q \in asked : q < task'[x].i => undone'[q] = "SUCCEEDED",
         task'[x].pc \notin {"rolledBack", "markDone"}
  PROVE  EInv' /\ \A q \in Parts : Orderly(q)
<1>1. /\ x \in Invoked /\ Turns(x) /\ JournalHolds /\ InRoute' = InRoute /\ UNCHANGED received
  BY DEF RollbackTurn, Turns, EInv, InRoute, checks
<1>2. Lasts
  BY DEF Lasts
<1>3. \A y \in Invoked : PartOf(y)' = PartOf(y) /\ PartOf(y) \in Parts
  BY <1>1, Invocations DEF Turns, PartOf, EInv, ETypes, Machine
<1>4. ~Owns(x)'
  BY StepsDiffer DEF RollbackTurn, Owns, RollbackSteps, Owning
<1>5. ASSUME NEW q \in Parts PROVE JournalOf(q)'
  <2>1. CASE q # p
    BY <1>1, <2>1 DEF JournalHolds, JournalOf
  <2> QED
    BY <2>1
<1>6. ASSUME NEW y \in Invoked PROVE Owner(y)'
  <2> SUFFICES ASSUME Owns(y)' PROVE Owner(y)'
    BY DEF Owner
  <2>1. y # x /\ task'[y] = task[y] /\ Owns(y) /\ Owner(y) /\ PartOf(y)' = PartOf(y)
    BY <1>1, <1>3, <1>4 DEF Turns, Owns, JournalHolds
  <2>2. PartOf(y) # p /\ PartOf(y) \in Parts
    BY <1>3, <2>1 DEF Owner
  <2>3. ASSUME NEW z \in Invoked, Owns(z)', PartOf(z)' = PartOf(y)' PROVE z = y
    <3>1. z # x /\ Owns(z) /\ PartOf(z) = PartOf(y)
      BY <1>1, <1>3, <1>4, <2>1, <2>3 DEF Turns, Owns
    <3> QED
      BY <2>1, <3>1 DEF Owner
  <2> QED
    BY <2>1, <2>2, <2>3 DEF Owner
<1>7. ASSUME NEW y \in Invoked PROVE Undoer(y)'
  <2>1. CASE y # x
    <3>1. task'[y] = task[y] /\ Undoer(y) /\ InRoute \subseteq Parts
      BY <1>1, <2>1, RouteFacts DEF Turns, JournalHolds, EInv
    <3>2. \A q \in Parts : undone[q] # "NONE" => undone'[q] # "NONE"
      OBVIOUS
    <3> QED
      BY <1>1, <3>1, <3>2 DEF Undoer
  <2> QED
    BY <2>1
<1>8. JournalHolds'
  BY <1>5, <1>6, <1>7 DEF JournalHolds
<1>9. ChecksHold' /\ ClosedIsReceived' /\ RollbackHolds' /\ Machinery'
  BY <1>1, <1>2, ChecksKept, ClosedKept, RollbackGoesOn, MachineryTurns
<1>10. ASSUME NEW m \in Machines, Alone(m)' PROVE Stage(m)'
  <2>1. Alone(m) /\ Stage(m) /\ Place(m)' = Place(m)
    BY <1>10, Elsewhere
  <2>2. live'[1] = live[1] \/ exec[1] = "SUCCEEDED"
    BY DEF Parts
  <2> QED
    BY <2>1, <2>2, StageKept DEF plan
<1>11. ASSUME NEW q \in Parts PROVE Orderly(q)
  <2>1. CASE q # p
    BY <2>1, Unmoved
  <2> QED
    BY <2>1
<1> QED
  BY <1>8, <1>9, <1>10, <1>11 DEF EInv, StageHolds

LEMMA ClaimUndoStep ==
  ASSUME EInv, NEW x \in Invoked, ClaimUndo(x)
  PROVE  EInv' /\ \A p \in Parts : Orderly(p)
<1>1. /\ task[x].pc = "claimUndo" /\ x[1] = Back /\ ETypes /\ task[x] \in Invocation
      /\ task[x].i \in 1..3 /\ Undoer(x) /\ \A p \in asked : p < task[x].i => undone[p] = "SUCCEEDED"
      /\ UNCHANGED <<status, plan, kill, exec, sap, request, checks, mishaps, asked>>
  BY AtRollback DEF ClaimUndo, At, RollbackSteps
<1>2. UNCHANGED <<status, route, decision, kill, exec, live, gone, request, due, received,
                  monitor, mishaps, asked>>
  BY <1>1 DEF plan, sap, checks
<1>3. InRoute \subseteq Parts /\ asked \subseteq Parts
  BY <1>1, RouteFacts DEF ETypes
<1>4. PICK p \in Parts : p = task[x].i /\ p \in InRoute /\ exec[p] = "SUCCEEDED" /\ JournalOf(p)
  BY <1>1, <1>3 DEF Undoer, EInv, JournalHolds
<1>5. CASE undone[p] = "NONE"
  <2>1. undone' = [undone EXCEPT ![p] = "PENDING"] /\ Goto(x, "undo") /\ machine' = machine
    BY <1>4, <1>5 DEF ClaimUndo
  <2>2. Turns(x) /\ task'[x].pc = "undo" /\ task'[x].i = p
    BY <1>1, <1>2, <1>4, <2>1, Going DEF RollbackSteps
  <2>3. /\ RollbackTurn(x) /\ ETypes'
        /\ undone'[p] = "PENDING" /\ \A q \in Parts \ {p} : undone'[q] = undone[q]
    BY <1>1, <1>2, <2>1, <2>2 DEF RollbackTurn, RollbackSteps, Turns, ETypes, Marks
  <2>4. JournalOf(p)'
    BY <1>2, <1>4, <1>5, <2>3 DEF JournalOf
  <2>5. Undoer(x)'
    BY <1>2, <1>4, <2>2, <2>3 DEF Undoer, InRoute
  <2>6. Orderly(p)
    <3>1. Phase(p) = "completed" /\ Phase(p)' = "withdrawing"
      BY <1>2, <1>4, <1>5, <2>3 DEF Phase
    <3> QED
      BY <1>2, <3>1 DEF Orderly, Part!PNext, Part!Withdraw
  <2>7. \A q \in asked : q < task'[x].i => undone'[q] = "SUCCEEDED"
    BY <1>1, <1>3, <1>4, <2>2, <2>3 DEF Parts
  <2> QED
    BY <1>1, <1>2, <1>4, <1>5, <2>2, <2>3, <2>4, <2>5, <2>6, <2>7, Undoes
<1>6. CASE undone[p] = "PENDING"
  <2>1. Answer(x, "RollbackFailed") /\ undone' = undone
    BY <1>4, <1>6 DEF ClaimUndo
  <2>2. Turns(x) /\ task'[x].pc = "ended"
    BY <1>1, <1>2, <2>1, Answered, EndedIsInvocation DEF BackStates
  <2>3. RollbackTurn(x) /\ ETypes'
    BY <1>1, <1>2, <2>1, <2>2 DEF RollbackTurn, RollbackSteps, Turns, ETypes
  <2> QED
    BY <1>1, <1>2, <2>1, <2>2, <2>3, RollbackPasses DEF Undoer, RollbackSteps, journal
<1>7. CASE undone[p] = "SUCCEEDED"
  <2>1. /\ task' = [task EXCEPT ![x] = [task[x] EXCEPT !.pc = "next", !.i = p + 1]]
        /\ undone' = undone /\ machine' = machine
    BY <1>1, <1>4, <1>7 DEF ClaimUndo, ETypes
  <2>2. /\ [task[x] EXCEPT !.pc = "next", !.i = p + 1] \in Invocation
        /\ [task[x] EXCEPT !.pc = "next", !.i = p + 1].pc = "next"
        /\ [task[x] EXCEPT !.pc = "next", !.i = p + 1].i = p + 1
    <3>1. p + 1 \in 1..3
      BY DEF Parts
    <3> QED
      BY <1>1, <3>1 DEF Invocation, RollbackSteps
  <2>3. Turns(x) /\ task'[x].pc = "next" /\ task'[x].i = p + 1
    BY <1>1, <1>2, <2>1, <2>2, GoneTo
  <2>4. RollbackTurn(x) /\ ETypes'
    BY <1>1, <1>2, <2>1, <2>3 DEF RollbackTurn, RollbackSteps, Turns, ETypes
  <2>5. \A q \in asked : q < task'[x].i => undone[q] = "SUCCEEDED"
    BY <1>1, <1>3, <1>4, <1>7, <2>3 DEF Parts
  <2> QED
    BY <1>1, <1>2, <2>1, <2>3, <2>4, <2>5, RollbackPasses DEF Undoer, journal
<1> QED
  BY <1>1, <1>5, <1>6, <1>7 DEF ETypes, Marks

LEMMA UndoStep ==
  ASSUME EInv, NEW x \in Invoked, Undo(x)
  PROVE  EInv' /\ \A p \in Parts : Orderly(p)
<1>1. /\ task[x].pc = "undo" /\ x[1] = Back /\ ETypes /\ task[x] \in Invocation
      /\ task[x].i \in 1..3 /\ Undoer(x) /\ \A p \in asked : p < task[x].i => undone[p] = "SUCCEEDED"
      /\ UNCHANGED <<status, plan, kill, exec, request, checks, mishaps, asked>>
  BY AtRollback DEF Undo, At, RollbackSteps
<1>2. UNCHANGED <<status, route, decision, kill, exec, request, due, received,
                  monitor, mishaps, asked>>
  BY <1>1 DEF plan, checks
<1>3. InRoute \subseteq Parts /\ asked \subseteq Parts
  BY <1>1, RouteFacts DEF ETypes
<1>4. PICK p \in Parts : p = task[x].i /\ p \in InRoute /\ exec[p] = "SUCCEEDED" /\ JournalOf(p)
                          /\ undone[p] # "NONE"
  BY <1>1, <1>3 DEF Undoer, EInv, JournalHolds
<1>5. CASE (\E w \in live[p] : TakeBack(p, w)) /\ UNCHANGED <<undone, machine, task>>
  <2>1. PICK i \in live[p] : TakeBack(p, i)
    BY <1>5
  <2>2. /\ live'[p] = live[p] \ {i} /\ gone'[p] = gone[p] \cup {i} /\ i \in Parts
        /\ live' \in [Parts -> SUBSET Parts] /\ gone' \in [Parts -> SUBSET Parts]
        /\ \A q \in Parts \ {p} : live'[q] = live[q] /\ gone'[q] = gone[q]
        /\ live'[p] \in {{}, {1}, Parts} /\ \A k \in live'[p], j \in gone'[p] : k < j
        /\ \A j \in gone[p] : j > i
    BY <1>1, <1>4, <2>1, TakenBack
  <2>3. ETypes'
    BY <1>1, <1>2, <1>5, <2>2 DEF ETypes
  <2>4. RollbackTurn(x)
    BY <1>1, <1>2, <1>5 DEF RollbackTurn, Turns, ETypes, RollbackSteps
  <2>5. undone[p] = "PENDING"
    BY <1>1, <1>4, <2>1 DEF JournalOf, ETypes, Marks
  <2>6. JournalOf(p)'
    BY <1>2, <1>4, <1>5, <2>2, <2>5 DEF JournalOf
  <2>7. Orderly(p)
    <3>1. Phase(p) = "withdrawing" /\ Phase(p)' = "withdrawing"
      BY <1>5, <2>5 DEF Phase
    <3>2. Part(p)!Undo(i)
      BY <2>1, <2>2, <3>1 DEF Part!Undo, Part!Reversible, Part!Steps, Parts
    <3> QED
      BY <2>2, <3>2 DEF Orderly, Part!PNext, Part!Steps, Parts
  <2>8. Undoer(x)'
    BY <1>1, <1>2, <1>5 DEF Undoer, InRoute
  <2> QED
    BY <1>1, <1>2, <1>4, <1>5, <2>2, <2>3, <2>4, <2>6, <2>7, <2>8, Undoes
<1>6. CASE /\ live[p] = {} /\ undone' = [undone EXCEPT ![p] = "SUCCEEDED"]
           /\ task' = [task EXCEPT ![x].pc = "next", ![x].i = p + 1] /\ UNCHANGED <<sap, machine>>
  <2>1. task' = [task EXCEPT ![x] = [task[x] EXCEPT !.pc = "next", !.i = p + 1]]
    BY <1>1, <1>6 DEF ETypes
  <2>2. /\ [task[x] EXCEPT !.pc = "next", !.i = p + 1] \in Invocation
        /\ [task[x] EXCEPT !.pc = "next", !.i = p + 1].pc = "next"
        /\ [task[x] EXCEPT !.pc = "next", !.i = p + 1].i = p + 1
    <3>1. p + 1 \in 1..3
      BY DEF Parts
    <3> QED
      BY <1>1, <3>1 DEF Invocation, RollbackSteps
  <2>3. Turns(x) /\ task'[x].pc = "next" /\ task'[x].i = p + 1 /\ UNCHANGED <<live, gone>>
    BY <1>1, <1>2, <1>6, <2>1, <2>2, GoneTo DEF sap
  <2>4. /\ RollbackTurn(x) /\ ETypes'
        /\ undone'[p] = "SUCCEEDED" /\ \A q \in Parts \ {p} : undone'[q] = undone[q]
    BY <1>1, <1>2, <1>6, <2>3 DEF RollbackTurn, RollbackSteps, Turns, ETypes, Marks
  <2>5. JournalOf(p)'
    BY <1>2, <1>4, <1>6, <2>3, <2>4 DEF JournalOf
  <2>6. Orderly(p)
    <3>1. /\ undone[p] = "SUCCEEDED" => Phase(p) = "withdrawn"
          /\ undone[p] = "PENDING" => Phase(p) = "withdrawing"
          /\ Phase(p)' = "withdrawn"
      BY <2>4 DEF Phase
    <3>2. undone[p] \in {"PENDING", "SUCCEEDED"}
      BY <1>1, <1>4 DEF ETypes, Marks
    <3> QED
      BY <1>6, <2>3, <3>1, <3>2 DEF Orderly, Part!PNext, Part!Withdrawn, Part!Reversible, Part!Steps
  <2>7. \A q \in asked : q < task'[x].i => undone'[q] = "SUCCEEDED"
    BY <1>1, <1>3, <1>4, <2>3, <2>4 DEF Parts
  <2>8. Undoer(x)'
    BY <2>3 DEF Undoer
  <2> QED
    BY <1>1, <1>2, <1>4, <2>3, <2>4, <2>5, <2>6, <2>7, <2>8, Undoes
<1>7. CASE Answer(x, "RollbackFailed") /\ UNCHANGED <<sap, undone>>
  <2>1. Turns(x) /\ task'[x].pc = "ended"
    BY <1>1, <1>2, <1>7, Answered, EndedIsInvocation DEF BackStates
  <2>2. RollbackTurn(x) /\ ETypes'
    BY <1>1, <1>2, <1>7, <2>1 DEF RollbackTurn, RollbackSteps, Turns, ETypes, sap
  <2> QED
    BY <1>1, <1>2, <1>7, <2>1, <2>2, RollbackPasses DEF Undoer, RollbackSteps, journal
<1> QED
  BY <1>4, <1>5, <1>6, <1>7 DEF Undo

\* An invocation that dies, of either kind.
LEMMA DiesStep ==
  ASSUME EInv, NEW x \in Invoked, Dies(x)
  PROVE  EInv' /\ \A p \in Parts : Orderly(p)
<1>1. /\ ETypes /\ task[x].pc \in ExecuteSteps \cup RollbackSteps /\ Befalls("stopped") /\ task[x].pc # "ended"
      /\ x[1] \in Machines \cup {Back} /\ Machinery
      /\ UNCHANGED <<status, plan, kill, journal, sap, request, checks, asked>>
  BY Invocations DEF Dies, At, EInv, ETypes, Invocation
<1>2. UNCHANGED <<status, route, decision, kill, exec, undone, live, gone, request, due, received,
                  monitor, asked>>
  BY <1>1 DEF plan, journal, sap, checks
<1>3. StageHolds'
  BY <1>1, Stopped
<1>4. PICK s \in IF x[1] = Back THEN BackStates ELSE PartStates :
        s \notin {"off", "CheckKillSwitch"} /\ Answer(x, s)
  BY DEF Dies, BackStates, PartStates
<1>5. Turns(x) /\ task'[x].pc = "ended"
  BY <1>1, <1>2, <1>4, Answered, EndedIsInvocation
<1>6. ETypes' /\ mishaps \subseteq mishaps'
  BY <1>1, <1>2, <1>5, Stopped DEF Turns, ETypes
<1>7. CASE task[x].pc \in ExecuteSteps
  <2>1. ExecuteTurn(x)
    BY <1>1, <1>5, <1>7 DEF ExecuteTurn
  <2> QED
    BY <1>1, <1>2, <1>3, <1>5, <1>6, <2>1, Passes DEF Owns, Owning
<1>8. CASE task[x].pc \in RollbackSteps
  <2>1. RollbackTurn(x) /\ x[1] = Back
    BY <1>1, <1>5, <1>8 DEF RollbackTurn, Machinery
  <2>2. Lasts /\ ~Owns(x)' /\ Undoer(x)'
    BY <1>2, <1>5 DEF Lasts, Owns, Owning, Undoer
  <2>3. JournalHolds' /\ ChecksHold' /\ ClosedIsReceived' /\ Machinery'
    BY <1>1, <1>2, <2>1, <2>2, JournalKept, ChecksKept, ClosedKept, MachineryTurns
  <2>4. RollbackHolds'
    BY <1>1, <1>2, <1>5, <2>1, <2>2, RollbackGoesOn DEF RollbackSteps
  <2>5. \A p \in Parts : Orderly(p)
    BY <1>2, Unmoved
  <2> QED
    BY <1>3, <1>6, <2>3, <2>4, <2>5 DEF EInv
<1> QED
  BY <1>1, <1>7, <1>8

-----------------------------------------------------------------------------
(* The steps of the machines and around them *)

\* A step that writes nothing and undoes nothing; at most it invokes a task.
Calm ==
  /\ UNCHANGED <<route, journal, sap>>
  /\ \A y \in Invoked :
       task'[y] = task[y] \/ (task'[y].pc \in {"authorize", "find"} /\ task'[y].i = 1)
  /\ \A m \in Machines \cup {Back} : machine[m].state # "off" => machine'[m].part = machine[m].part

LEMMA CalmStep ==
  ASSUME EInv, Calm, ETypes', Machinery', ChecksHold', RollbackHolds', StageHolds',
         ClosedIsReceived'
  PROVE  EInv' /\ \A p \in Parts : Orderly(p)
<1>1. /\ JournalHolds /\ Machinery /\ ETypes /\ InRoute' = InRoute
      /\ UNCHANGED <<exec, undone, live, gone>>
  BY DEF Calm, EInv, journal, sap, InRoute
<1>2. \A p \in Parts : JournalOf(p)'
  BY <1>1 DEF JournalHolds, JournalOf
<1>3. ASSUME NEW y \in Invoked, Owns(y)' PROVE Owns(y) /\ task'[y] = task[y]
  BY <1>3 DEF Calm, Owns, Owning
<1>4. ASSUME NEW y \in Invoked, Owns(y) PROVE PartOf(y)' = PartOf(y)
  <2>1. machine[y[1]].state # "off" /\ y[1] \in Machines \cup {Back}
    BY <1>1, <1>4, Invocations, EndedIsInvocation DEF Machinery, Owns, Owning
  <2> QED
    BY <2>1 DEF Calm, PartOf
<1>5. ASSUME NEW y \in Invoked PROVE Owner(y)'
  <2> SUFFICES ASSUME Owns(y)' PROVE Owner(y)'
    BY DEF Owner
  <2>1. Owns(y) /\ Owner(y) /\ task'[y] = task[y] /\ PartOf(y)' = PartOf(y)
    BY <1>1, <1>3, <1>4 DEF JournalHolds
  <2>2. ASSUME NEW z \in Invoked, Owns(z)', PartOf(z)' = PartOf(y)' PROVE z = y
    BY <1>3, <1>4, <2>1, <2>2 DEF Owner
  <2> QED
    BY <1>1, <2>1, <2>2 DEF Owner
<1>6. ASSUME NEW y \in Invoked PROVE Undoer(y)'
  BY <1>1 DEF Calm, JournalHolds, Undoer
<1>7. \A p \in Parts : Orderly(p)
  BY <1>1, Unmoved
<1> QED
  BY <1>2, <1>5, <1>6, <1>7 DEF EInv, JournalHolds

LEMMA CalmRollback ==
  ASSUME EInv, Calm, UNCHANGED <<request, asked>>,
         machine'[Back].state = "off" => machine[Back].state = "off"
  PROVE  RollbackHolds'
<1>1. /\ RollbackHolds /\ ETypes /\ InRoute' = InRoute /\ UNCHANGED <<exec, undone>>
  BY DEF Calm, EInv, journal, InRoute
<1>2. \A p \in asked : ~(p < 1)
  BY <1>1 DEF ETypes, Parts
<1>3. (\A i : Withdrawn(i)' <=> Withdrawn(i)) /\ (AllWithdrawn' <=> AllWithdrawn)
  BY <1>1 DEF Withdrawn, AllWithdrawn
<1>4. ASSUME NEW y \in Invoked
      PROVE  /\ task'[y].pc \in RollbackSteps => Withdrawn(task[y].i)'
             /\ task'[y].pc \in {"rolledBack", "markDone"} => AllWithdrawn
  <2>1. CASE task'[y] = task[y]
    BY <1>1, <2>1 DEF RollbackHolds, Withdrawn
  <2>2. CASE task'[y].pc \in {"authorize", "find"} /\ task'[y].i = 1
    BY <1>2, <2>2 DEF Withdrawn
  <2> QED
    BY <2>1, <2>2 DEF Calm
<1> QED
  BY <1>1, <1>3, <1>4 DEF RollbackHolds

\* A step that leaves machines and invocations alone.
LEMMA Rests ==
  ASSUME EInv, UNCHANGED <<route, journal, sap, machine, task, request, asked>>,
         mishaps \subseteq mishaps'
  PROVE  /\ Calm /\ Machinery' /\ RollbackHolds' /\ Lasts
         /\ \A m \in Machines : (Alone(m)' => Alone(m)) /\ Place(m)' = Place(m)
<1>1. UNCHANGED <<exec, undone>> /\ InRoute' = InRoute
  BY DEF journal, InRoute
<1>2. Calm /\ Machinery' /\ Lasts
  BY <1>1 DEF Calm, EInv, Machinery, Lasts
<1>3. RollbackHolds'
  BY <1>2, CalmRollback
<1> QED
  BY <1>2, <1>3 DEF Alone, Place

LEMMA SettleStep ==
  ASSUME EInv, Settle
  PROVE  EInv' /\ \A p \in Parts : Orderly(p)
<1>1. /\ ETypes /\ ClosedIsReceived /\ status = "VERIFIED"
      /\ UNCHANGED <<plan, kill, journal, sap, request, checks, machine, task, mishaps, asked>>
  BY DEF Settle, EInv
<1>2. UNCHANGED <<route, decision, kill, exec, undone, live, gone, request, due, received,
                  monitor, machine, task, mishaps, asked>>
  BY <1>1 DEF plan, journal, sap, checks
<1>3. status' \in {"VERIFIED", IF route = <<1>> THEN "AUTO_APPROVED" ELSE "AWAITING_APPROVAL"}
  BY <1>1, Moved DEF Settle, Statuses
<1>4. ETypes' /\ status' # "CLOSED"
  BY <1>1, <1>2, <1>3 DEF ETypes, Statuses
<1>5. ASSUME NEW m \in Machines, Alone(m)' PROVE Stage(m)'
  <2>1. Alone(m) /\ Stage(m) /\ Place(m)' = Place(m)
    BY <1>1, <1>2, <1>5, Rests DEF EInv, StageHolds
  <2>2. status' \in Early
    BY <1>1, <1>3, <2>1, RouteFacts DEF Early, Alone
  <2>3. status' \notin Away
    BY <1>3 DEF Away
  <2> QED
    BY <1>1, <1>2, <2>1, <2>2, <2>3 DEF Stage, Recorded, Placed, Followed, Idle, Entering, Failing, Ending, Away, Early, Authorized, Owning, Late
<1> QED
  BY <1>1, <1>2, <1>4, <1>5, Rests, CalmStep, ChecksKept, ClosedKept DEF StageHolds

LEMMA SwitchStep ==
  ASSUME EInv, SetKillSwitch
  PROVE  EInv' /\ \A p \in Parts : Orderly(p)
<1>1. /\ ETypes /\ kill' \in BOOLEAN
      /\ UNCHANGED <<status, plan, journal, sap, request, checks, machine, task, mishaps, asked>>
  BY DEF SetKillSwitch, EInv
<1>2. UNCHANGED <<status, route, decision, exec, undone, live, gone, request, due, received,
                  monitor, machine, task, mishaps, asked>>
  BY <1>1 DEF plan, journal, sap, checks
<1>3. ETypes'
  BY <1>1, <1>2 DEF ETypes
<1>4. StageHolds'
  BY <1>1, <1>2, Rests, StageKept DEF EInv, StageHolds
<1> QED
  BY <1>1, <1>2, <1>3, <1>4, Rests, CalmStep, ChecksKept, ClosedKept

LEMMA DecideStep ==
  ASSUME EInv, NEW p \in Parts, NEW d \in {"APPROVED", "REJECTED"}, Decide(p, d)
  PROVE  EInv' /\ \A q \in Parts : Orderly(q)
<1>1. /\ ETypes /\ p \in InRoute /\ route[p] = 2 /\ decision[p] = "NONE"
      /\ decision' = [decision EXCEPT ![p] = d]
      /\ UNCHANGED <<route, kill, journal, sap, request, checks, machine, task, mishaps, asked>>
  BY DEF Decide, EInv
<1>2. UNCHANGED <<route, kill, exec, undone, live, gone, request, due, received,
                  monitor, machine, task, mishaps, asked>>
  BY <1>1 DEF journal, sap, checks
<1>3. \/ status' = status
      \/ d = "REJECTED" /\ status = "AWAITING_APPROVAL" /\ status' = "REJECTED"
  BY <1>1, Moved DEF Decide, Statuses, ETypes
<1>4. ETypes'
  BY <1>1, <1>2, <1>3 DEF ETypes, Statuses
<1>5. ASSUME NEW m \in Machines, Alone(m)' PROVE Stage(m)'
  <2>1. Alone(m) /\ Stage(m) /\ Place(m)' = Place(m) /\ p = 1
    BY <1>1, <1>2, <1>5, Rests, RouteFacts DEF EInv, StageHolds, Alone
  <2>2. decision[1] = "NONE" /\ decision'[1] = d /\ ~Authorized(1) /\ route[1] = 2
    BY <1>1, <2>1 DEF Authorized, ETypes
  <2> QED
    BY <1>2, <1>3, <2>1, <2>2 DEF Stage, Recorded, Placed, Followed, Idle, Entering, Failing, Ending, Away, Early, Owning, Late
<1> QED
  BY <1>1, <1>2, <1>3, <1>4, <1>5, Rests, CalmStep, ChecksKept, ClosedKept DEF StageHolds

LEMMA ExpireStep ==
  ASSUME EInv, NEW p \in Parts, Expire(p)
  PROVE  EInv' /\ \A q \in Parts : Orderly(q)
<1>1. /\ ETypes /\ p \in InRoute /\ route[p] = 2 /\ decision[p] = "NONE"
      /\ decision' = [decision EXCEPT ![p] = "EXPIRED"]
      /\ UNCHANGED <<status, route, kill, journal, sap, request, checks, machine, task, mishaps, asked>>
  BY DEF Expire, EInv
<1>2. UNCHANGED <<status, route, kill, exec, undone, live, gone, request, due, received,
                  monitor, machine, task, mishaps, asked>>
  BY <1>1 DEF journal, sap, checks
<1>3. ETypes'
  BY <1>1, <1>2 DEF ETypes
<1>4. ASSUME NEW m \in Machines, Alone(m)' PROVE Stage(m)'
  <2>1. Alone(m) /\ Stage(m) /\ Place(m)' = Place(m) /\ p = 1
    BY <1>1, <1>2, <1>4, Rests, RouteFacts DEF EInv, StageHolds, Alone
  <2>2. decision[1] = "NONE" /\ decision'[1] = "EXPIRED" /\ ~Authorized(1) /\ route[1] = 2
    BY <1>1, <2>1 DEF Authorized, ETypes
  <2> QED
    BY <1>2, <2>1, <2>2 DEF Stage, Recorded, Placed, Followed, Idle, Entering, Failing, Ending, Away,
       Early, Owning, Late
<1> QED
  BY <1>1, <1>2, <1>3, <1>4, Rests, CalmStep, ChecksKept, ClosedKept DEF StageHolds

\* The case leaves the approval of a part that was turned away or not decided in time: no
\* execution of that part is past its authorisation.
LEMMA ReplanStep ==
  ASSUME EInv, Replan
  PROVE  EInv' /\ \A p \in Parts : Orderly(p)
<1>1. /\ ETypes
      /\ \/ status \in {"ESCALATED", "REJECTED"} /\ status' \in {status, "INVESTIGATING"}
         \/ /\ status = "AWAITING_APPROVAL" /\ \E p \in InRoute : decision[p] = "EXPIRED"
            /\ status' \in {status, "INVESTIGATING", "ESCALATED"}
      /\ UNCHANGED <<plan, kill, journal, sap, request, checks, machine, task, mishaps, asked>>
  BY DEF Replan, EInv, Move
<1>2. UNCHANGED <<route, decision, kill, exec, undone, live, gone, request, due, received,
                  monitor, machine, task, mishaps, asked>>
  BY <1>1 DEF plan, journal, sap, checks
<1>3. ETypes' /\ status' # "CLOSED"
  BY <1>1, <1>2 DEF ETypes, Statuses
<1>4. ASSUME NEW m \in Machines, Alone(m)' PROVE Stage(m)'
  <2>1. Alone(m) /\ Stage(m) /\ Place(m)' = Place(m) /\ InRoute = {1}
    BY <1>1, <1>2, <1>4, Rests, RouteFacts DEF EInv, StageHolds, Alone
  <2>2. Recorded(m)'
    BY <1>2, <2>1 DEF Stage, Recorded, Authorized
  <2>3. ASSUME Followed' PROVE Placed(m)'
    <3>1. Placed(m)
      BY <1>2, <2>1, <2>3 DEF Stage, Followed
    <3>2. CASE status \in {"ESCALATED", "REJECTED"}
      BY <1>1, <1>2, <2>1, <3>1, <3>2 DEF Placed, Idle, Away, Early, Failing, Ending, Owning, Late
    <3>3. CASE status = "AWAITING_APPROVAL" /\ decision[1] = "EXPIRED"
      <4>1. route[1] = 2 => Place(m) \notin Entering
        BY <2>1, <3>3 DEF Stage, Recorded, Authorized
      <4>2. Place(m) \in Idle \cup Entering => route[1] = 2
        BY <3>1, <3>3 DEF Placed, Early, Away, Idle, Entering
      <4> QED
        BY <1>1, <1>2, <2>1, <3>1, <3>3, <4>1, <4>2
           DEF Placed, Idle, Entering, Away, Early, Failing, Ending, Owning, Late
    <3> QED
      BY <1>1, <2>1, <3>2, <3>3
  <2> QED
    BY <2>2, <2>3 DEF Stage
<1> QED
  BY <1>1, <1>2, <1>3, <1>4, Rests, CalmStep, ChecksKept, ClosedKept DEF StageHolds

LEMMA ScanStep ==
  ASSUME EInv, NEW p \in Parts, ScanReceipts(p)
  PROVE  EInv' /\ \A q \in Parts : Orderly(q)
<1> DEFINE i == monitor[p]
           n == IF KeepsOpen(i) THEN 0 ELSE i + 1
<1>1. /\ ETypes /\ ChecksHold /\ i \in InRoute /\ monitor' = [monitor EXCEPT ![p] = n]
      /\ UNCHANGED <<status, plan, kill, journal, sap, request, due, received, machine, task,
                     mishaps, asked>>
  BY DEF ScanReceipts, EInv
<1>2. UNCHANGED <<status, route, decision, kill, exec, undone, live, gone, request, due, received,
                  machine, task, mishaps, asked>> /\ InRoute' = InRoute
  BY <1>1 DEF plan, journal, sap, InRoute
<1>3. i \in Parts /\ InRoute \subseteq Parts
  BY <1>1, RouteFacts
<1>4. n \in 0..3 /\ ETypes' /\ monitor'[p] = n /\ \A q \in Parts \ {p} : monitor'[q] = monitor[q]
  <2>1. n \in 0..3
    BY <1>3 DEF Parts
  <2> QED
    BY <1>1, <1>2, <2>1 DEF ETypes
<1>5. p \in received /\ Seen(p)
  BY <1>1, <1>3 DEF ChecksHold, Parts
<1>6. Seen(p)'
  <2> SUFFICES ASSUME NEW q \in InRoute, q < n, route[q] = 2 PROVE q \in received
    BY <1>2, <1>4 DEF Seen
  <2>1. ~KeepsOpen(i) /\ n = i + 1
    BY <1>3 DEF Parts
  <2>2. CASE q = i
    BY <2>1, <2>2 DEF KeepsOpen
  <2>3. CASE q # i
    BY <1>3, <1>5, <2>1, <2>3 DEF Seen, Parts
  <2> QED
    BY <2>2, <2>3
<1> HIDE DEF n, i
<1>7. ChecksHold'
  BY <1>1, <1>2, <1>4, <1>5, <1>6 DEF ChecksHold, Seen
<1>8. StageHolds'
  BY <1>1, <1>2, Rests, StageKept DEF EInv, StageHolds
<1> QED
  BY <1>1, <1>2, <1>4, <1>7, <1>8, Rests, CalmStep, ClosedKept

\* What a change of a monitored case's status leaves of the stages.
LEMMA StageOfMonitored ==
  ASSUME EInv, UNCHANGED <<route, decision, exec, live, machine, task>>, mishaps \subseteq mishaps',
         status' = status \/ (status = "MONITORING" /\ status' \in Late)
  PROVE  StageHolds'
<1> SUFFICES ASSUME NEW m \in Machines, Alone(m)' PROVE Stage(m)'
  BY DEF StageHolds
<1>1. Alone(m) /\ Stage(m) /\ Place(m)' = Place(m)
  BY DEF EInv, StageHolds, Alone, Place
<1> QED
  BY <1>1 DEF Stage, Recorded, Placed, Followed, Idle, Entering, Failing, Ending, Away, Early, Late, Owning, Authorized

LEMMA GoodsReceiptStep ==
  ASSUME EInv, NEW p \in Parts, GoodsReceiptDue(p)
  PROVE  EInv' /\ \A q \in Parts : Orderly(q)
<1>1. /\ ETypes /\ ChecksHold /\ due[p] = "scheduled" /\ due' = [due EXCEPT ![p] = "checked"]
      /\ UNCHANGED <<plan, kill, journal, sap, request, machine, task, asked>>
  BY DEF GoodsReceiptDue, EInv
<1>2. UNCHANGED <<route, decision, kill, exec, undone, live, gone, request,
                  machine, task, asked>> /\ InRoute' = InRoute
  BY <1>1 DEF plan, journal, sap, InRoute
<1>3. p \in InRoute /\ \A q \in Parts : due'[q] # "NONE" => q \in InRoute
  BY <1>1 DEF ChecksHold, ETypes
<1>4. \/ UNCHANGED <<status, received, monitor, mishaps>>
      \/ /\ exec[p] = "SUCCEEDED" /\ received' = received \cup {p} /\ UNCHANGED <<status, mishaps>>
         /\ monitor' = [monitor EXCEPT ![p] = 1]
      \/ TryMove("REOPENED") /\ UNCHANGED <<received, monitor>>
  BY DEF GoodsReceiptDue, Reopen
<1>5. /\ status' \in Statuses
      /\ status' = status \/ (status = "MONITORING" /\ status' = "REOPENED")
      /\ mishaps' \subseteq {"stopped", "overtaken", "lost"} /\ mishaps \subseteq mishaps'
  <2>1. CASE UNCHANGED <<status, mishaps>>
    BY <1>1, <2>1 DEF ETypes
  <2>2. CASE TryMove("REOPENED")
    BY <1>1, <2>2, Tried, Moved DEF Statuses, ETypes
  <2> QED
    BY <1>4, <2>1, <2>2
<1>6. ETypes' /\ received \subseteq received'
  BY <1>1, <1>2, <1>4, <1>5 DEF ETypes
<1>7. ChecksHold'
  <2>1. CASE UNCHANGED <<received, monitor>>
    BY <1>1, <1>2, <1>3, <2>1 DEF ChecksHold, Seen
  <2>2. CASE /\ exec[p] = "SUCCEEDED" /\ received' = received \cup {p}
             /\ monitor' = [monitor EXCEPT ![p] = 1]
    <3>1. monitor'[p] = 1 /\ \A q \in Parts \ {p} : monitor'[q] = monitor[q]
      BY <1>1, <2>2 DEF ETypes
    <3>2. InRoute \subseteq Parts
      BY <1>1, RouteFacts
    <3>3. Seen(p)'
      BY <1>2, <3>1, <3>2 DEF Seen, Parts
    <3> QED
      BY <1>1, <1>2, <1>3, <2>2, <3>1, <3>3 DEF ChecksHold, Seen
  <2> QED
    BY <1>4, <2>1, <2>2
<1>8. StageHolds'
  BY <1>2, <1>5, StageOfMonitored DEF Late
<1> QED
  BY <1>1, <1>2, <1>5, <1>6, <1>7, <1>8, Rests, CalmStep, ClosedKept

\* The case closes when the check has gone over all parts.
LEMMA CloseStep ==
  ASSUME EInv, NEW p \in Parts, Close(p)
  PROVE  EInv' /\ \A q \in Parts : Orderly(q)
<1>1. /\ ETypes /\ ChecksHold /\ monitor[p] > Len(route) /\ monitor' = [monitor EXCEPT ![p] = 0]
      /\ UNCHANGED <<plan, kill, journal, sap, request, due, received, machine, task, asked>>
      /\ TryMove("CLOSED")
  BY DEF Close, EInv
<1>2. UNCHANGED <<route, decision, kill, exec, undone, live, gone, request, due, received,
                  machine, task, asked>> /\ InRoute' = InRoute
  BY <1>1 DEF plan, journal, sap, InRoute
<1>3. /\ status' \in Statuses /\ mishaps \subseteq mishaps'
      /\ mishaps' \subseteq {"stopped", "overtaken", "lost"}
      /\ \/ status' = status
         \/ status \in {"MONITORING", "REJECTED", "ESCALATED"} /\ status' = "CLOSED"
  BY <1>1, Tried, Moved DEF Statuses, ETypes
<1>4. ETypes' /\ monitor'[p] = 0 /\ \A q \in Parts \ {p} : monitor'[q] = monitor[q]
  BY <1>1, <1>2, <1>3 DEF ETypes
<1>5. ChecksHold'
  BY <1>1, <1>2, <1>4 DEF ChecksHold, Seen
<1>6. ASSUME NEW q \in InRoute, route[q] = 2 \/ Len(route) = 1
      PROVE  exec[q] = "SUCCEEDED" /\ q \in received
  <2>1. /\ InRoute \subseteq Parts /\ InRoute = 1..Len(route) /\ Len(route) \in {1, 2}
        /\ Len(route) = 1 => InRoute = {1}
    BY <1>1, RouteFacts
  <2>2. monitor[p] \in 0..3 /\ monitor[p] > 0 /\ q < monitor[p]
    BY <1>1, <2>1 DEF ETypes
  <2>3. p \in received /\ Seen(p) /\ \A r \in received : r \in InRoute /\ exec[r] = "SUCCEEDED"
    BY <1>1, <2>2 DEF ChecksHold, ETypes
  <2> QED
    BY <1>6, <2>1, <2>2, <2>3 DEF Seen
<1>7. ClosedIsReceived'
  BY <1>2, <1>6 DEF ClosedIsReceived
<1>8. StageHolds'
  <2>1. CASE status' = status \/ status = "MONITORING"
    BY <1>2, <1>3, <2>1, StageOfMonitored DEF Late
  <2>2. CASE status \in Away /\ status' = "CLOSED"
    <3> SUFFICES ASSUME NEW m \in Machines, Alone(m)' PROVE Stage(m)'
      BY DEF StageHolds
    <3>1. Alone(m) /\ Stage(m) /\ Place(m)' = Place(m) /\ exec[1] = "SUCCEEDED"
      BY <1>1, <1>2, <1>3, <1>6, Rests, RouteFacts DEF EInv, StageHolds, Alone
    <3>2. Place(m) \notin Idle
      BY <3>1 DEF Stage, Recorded
    <3>3. Recorded(m)'
      BY <1>2, <3>1 DEF Stage, Recorded, Authorized
    <3>4. Followed' => Followed
      BY <1>3 DEF Followed
    <3>5. Followed' => Placed(m)'
      BY <1>2, <1>3, <2>2, <3>1, <3>2, <3>4 DEF Stage, Placed, Away, Idle, Entering, Failing,
         Ending, Owning, Early, Late
    <3> QED
      BY <3>3, <3>5 DEF Stage
  <2> QED
    BY <1>3, <2>1, <2>2 DEF Away
<1> QED
  BY <1>1, <1>2, <1>3, <1>4, <1>5, <1>7, <1>8, Rests, CalmStep

-----------------------------------------------------------------------------
(* The steps of the state machines *)

\* A machine of a part moves on without a task being invoked.
Advances(m, r) ==
  /\ machine' = [machine EXCEPT ![m] = r] /\ r \in Machine /\ r.state \in PartStates \ {"off"}
  /\ r.part \in InRoute /\ (machine[m].state # "off" => r.part = machine[m].part)
  /\ (r.state = "CheckKillSwitch" => r.attempt = 0) /\ r.state # "Execute"
  /\ r.attempt = machine[m].attempt /\ machine[m].state # "Execute"

LEMMA Advanced ==
  ASSUME EInv, NEW m \in Machines, NEW r, Advances(m, r), UNCHANGED <<route, journal, sap, task>>
  PROVE  /\ Calm /\ Machinery' /\ Lasts /\ machine' \in [Machines \cup {Back} -> Machine]
         /\ machine'[m] = r /\ \A n \in (Machines \cup {Back}) \ {m} : machine'[n] = machine[n]
<1>1. /\ ETypes /\ Machinery /\ InRoute' = InRoute /\ m # Back /\ UNCHANGED <<exec, undone>>
  BY BackIsApart DEF EInv, InRoute, journal
<1>2. /\ machine' \in [Machines \cup {Back} -> Machine]
      /\ machine'[m] = r /\ \A n \in (Machines \cup {Back}) \ {m} : machine'[n] = machine[n]
  BY <1>1 DEF Advances, ETypes
<1>3. Calm /\ Lasts
  BY <1>1, <1>2 DEF Calm, Advances, Lasts
<1>4. ASSUME NEW y \in Invoked
      PROVE  /\ y[2] > machine'[y[1]].attempt => task'[y] = Ended
             /\ task'[y].pc \in ExecuteSteps => y[1] \in Machines
             /\ task'[y].pc \in RollbackSteps => y[1] = Back
             /\ task'[y].pc # "ended" /\ y[2] = machine'[y[1]].attempt =>
                  machine'[y[1]].state \in {"Execute", "Rollback"}
  <2>1. y[1] \in Machines \cup {Back}
    BY Invocations
  <2>2. CASE y[1] # m
    BY <1>1, <1>2, <2>1, <2>2 DEF Machinery
  <2>3. CASE y[1] = m
    <3>1. machine[m].state \notin {"Execute", "Rollback"}
      BY <1>1 DEF Advances, Machinery, PartStates, Tasks
    <3> QED
      BY <1>1, <1>2, <2>3, <3>1 DEF Machinery, Advances
  <2> QED
    BY <2>2, <2>3
<1>5. ASSUME NEW n \in Machines \cup {Back}
      PROVE  /\ n \in Machines => /\ machine'[n].state \in PartStates
                                  /\ machine'[n].state # "off" => machine'[n].part \in InRoute'
             /\ n = Back => machine'[n].state \in BackStates
             /\ machine'[n].state \in {"off", "CheckKillSwitch"} => machine'[n].attempt = 0
             /\ machine'[n].state \in {"Execute", "Rollback"} => machine'[n].attempt # 0
  BY <1>1, <1>2 DEF Machinery, Advances, PartStates, Tasks
<1>6. Machinery'
  BY <1>4, <1>5 DEF Machinery
<1> QED
  BY <1>2, <1>3, <1>6

\* Where a machine that is alone is after it moved on.
LEMMA LoneAdvance ==
  ASSUME EInv, NEW m \in Machines, NEW r, Advances(m, r), UNCHANGED <<route, journal, sap, task>>,
         mishaps \subseteq mishaps', NEW n \in Machines, Alone(n)'
  PROVE  /\ n = m /\ Alone(m) /\ Stage(m) /\ Place(m) = machine[m].state /\ Len(route) = 1
         /\ InRoute = {1} /\ Place(m)' = r.state
<1>1. /\ machine'[m] = r /\ \A k \in (Machines \cup {Back}) \ {m} : machine'[k] = machine[k]
      /\ ETypes
  BY Advanced DEF EInv
<1>2. n = m
  BY <1>1 DEF Alone, Advances
<1>3. Alone(m) /\ Place(m) = machine[m].state
  BY <1>1, <1>2 DEF Alone, Advances, Place
<1> QED
  BY <1>1, <1>2, <1>3, RouteFacts DEF EInv, StageHolds, Alone, Place, Advances

LEMMA PlanApprovedStep ==
  ASSUME EInv, NEW m \in Machines, NEW p \in Parts, PlanApproved(m, p)
  PROVE  EInv' /\ \A q \in Parts : Orderly(q)
<1> DEFINE r == [state |-> "CheckKillSwitch", part |-> p, attempt |-> 0]
<1>1. /\ ETypes /\ p \in InRoute /\ machine[m].state = "off" /\ machine' = [machine EXCEPT ![m] = r]
      /\ UNCHANGED <<status, plan, kill, journal, sap, request, checks, task, mishaps, asked>>
  BY DEF PlanApproved, EInv
<1>2. UNCHANGED <<status, route, decision, kill, exec, undone, live, gone, request, due, received,
                  monitor, task, mishaps, asked>>
  BY <1>1 DEF plan, journal, sap, checks
<1>3. Advances(m, r)
  BY <1>1 DEF EInv, Machinery, Advances, Machine, PartStates
<1>4. r.state = "CheckKillSwitch"
  OBVIOUS
<1> HIDE DEF r
<1>5. ETypes'
  BY <1>1, <1>2, <1>3, Advanced DEF ETypes
<1>6. RollbackHolds'
  BY <1>1, <1>2, <1>3, Advanced, CalmRollback, BackIsApart
<1>7. ASSUME NEW n \in Machines, Alone(n)' PROVE Stage(n)'
  <2>1. n = m /\ Stage(m) /\ Place(m) = "off" /\ Place(m)' = "CheckKillSwitch"
    BY <1>1, <1>2, <1>3, <1>4, <1>7, LoneAdvance
  <2> QED
    BY <1>2, <2>1 DEF Stage, Recorded, Placed, Followed, Idle, Entering, Failing, Ending, Away, Early, Owning
<1> QED
  BY <1>1, <1>2, <1>3, <1>5, <1>6, <1>7, Advanced, CalmStep, ChecksKept, ClosedKept DEF StageHolds

\* What a task of the machine makes of the status.
LEMMA Outcomes ==
  /\ DOMAIN Outcome = {"MarkMonitoring", "ReturnToPlanning", "MarkFailedRolledBack"}
  /\ Outcome["MarkMonitoring"] = "MONITORING" /\ Outcome["ReturnToPlanning"] = "INVESTIGATING"
  /\ Outcome["MarkFailedRolledBack"] = "FAILED_ROLLED_BACK"
BY DEF Outcome

LEMMA EffectMoves ==
  ASSUME EInv, NEW m \in Machines, machine[m].state \in Tasks, Effect(m)
  PROVE  /\ status' \in Statuses /\ (status' = "CLOSED" => status = "CLOSED")
         /\ due' \in [Parts -> {"NONE", "scheduled", "checked"}]
         /\ \A p \in Parts : due'[p] # "NONE" => p \in InRoute
         /\ machine[m].state \in {"Notify", "ScheduleGoodsReceiptCheck"} => status' = status
         /\ status = "EXECUTING" =>
              /\ machine[m].state = "MarkMonitoring" => status' = "MONITORING"
              /\ machine[m].state = "ReturnToPlanning" => status' = "INVESTIGATING"
              /\ machine[m].state = "MarkFailedRolledBack" => status' = "FAILED_ROLLED_BACK"
<1>1. /\ ETypes /\ ChecksHold /\ machine[m].part \in InRoute
      /\ machine[m].part \in Parts
  BY DEF EInv, Machinery, Tasks, ETypes, Machine
<1>2. /\ machine[m].state = "MarkMonitoring" => Move("MONITORING")
      /\ machine[m].state = "ReturnToPlanning" => Move("INVESTIGATING")
      /\ machine[m].state = "MarkFailedRolledBack" => Move("FAILED_ROLLED_BACK")
      /\ machine[m].state \in {"Notify", "ScheduleGoodsReceiptCheck"} => status' = status
  BY Outcomes DEF Effect
<1>3. /\ status' \in Statuses /\ (status' = "CLOSED" => status = "CLOSED")
      /\ status = "EXECUTING" =>
           /\ machine[m].state = "MarkMonitoring" => status' = "MONITORING"
           /\ machine[m].state = "ReturnToPlanning" => status' = "INVESTIGATING"
           /\ machine[m].state = "MarkFailedRolledBack" => status' = "FAILED_ROLLED_BACK"
  BY <1>1, <1>2, Moved DEF Statuses, Tasks, ETypes
<1>4. due' = due \/ due' = [due EXCEPT ![machine[m].part] = "scheduled"]
  BY DEF Effect, Schedule
<1> QED
  BY <1>1, <1>2, <1>3, <1>4 DEF ChecksHold, ETypes

\* The goods receipt checks are only scheduled by a machine.
LEMMA ChecksScheduled ==
  ASSUME EInv, UNCHANGED <<route, exec, received, monitor>>,
         \A p \in Parts : due'[p] # "NONE" => p \in InRoute
  PROVE  ChecksHold'
BY DEF EInv, ChecksHold, Seen, InRoute

LEMMA RunTaskStep ==
  ASSUME EInv, NEW m \in Machines, RunTask(m)
  PROVE  EInv' /\ \A q \in Parts : Orderly(q)
<1> DEFINE s == After(machine[m].state)
           r == [machine[m] EXCEPT !.state = s]
<1>1. /\ ETypes /\ Machinery /\ machine[m].state \in Tasks
      /\ UNCHANGED <<plan, kill, journal, sap, request, received, monitor, task, asked>>
      /\ \/ Effect(m) /\ mishaps' = mishaps
         \/ UNCHANGED <<due, status>> /\ Befalls("lost")
  BY DEF RunTask, EInv, Lost
<1>2. UNCHANGED <<route, decision, kill, exec, undone, live, gone, request, received,
                  monitor, task, asked>>
  BY <1>1 DEF plan, journal, sap
<1>3. /\ machine[m].state = "Notify" => s = "ScheduleGoodsReceiptCheck"
      /\ machine[m].state = "ScheduleGoodsReceiptCheck" => s = "MarkMonitoring"
      /\ machine[m].state = "MarkMonitoring" => s = "Done"
      /\ machine[m].state = "ReturnToPlanning" => s = "ReturnedToPlanning"
      /\ machine[m].state = "MarkFailedRolledBack" => s = "Escalated"
  BY DEF After
<1>4. s \in PartStates \ {"off", "CheckKillSwitch", "Execute"}
  BY <1>1, <1>3 DEF Tasks, PartStates
<1> HIDE DEF s
<1>5. Advances(m, r) /\ r.state = s
  <2>1. machine' = [machine EXCEPT ![m] = r]
    BY DEF RunTask, Step, s
  <2>2. machine[m].state \notin {"off", "CheckKillSwitch", "Execute"} /\ machine[m] \in Machine
    BY <1>1 DEF Tasks, ETypes
  <2>3. r \in Machine /\ r.state = s /\ r.part = machine[m].part /\ r.attempt = machine[m].attempt
    BY <1>4, <2>2 DEF Machine
  <2> QED
    BY <1>1, <1>4, <2>1, <2>2, <2>3 DEF Advances, Machinery
<1> HIDE DEF r
<1>6. /\ status' \in Statuses /\ (status' = "CLOSED" => status = "CLOSED")
      /\ due' \in [Parts -> {"NONE", "scheduled", "checked"}]
      /\ \A p \in Parts : due'[p] # "NONE" => p \in InRoute
      /\ mishaps \subseteq mishaps' /\ mishaps' \subseteq {"stopped", "overtaken", "lost"}
  <2>1. CASE Effect(m) /\ mishaps' = mishaps
    BY <1>1, <2>1, EffectMoves DEF ETypes
  <2>2. CASE UNCHANGED <<due, status>> /\ Befalls("lost")
    BY <1>1, <2>2 DEF EInv, ETypes, ChecksHold, Befalls
  <2> QED
    BY <1>1, <2>1, <2>2
<1>7. ETypes'
  BY <1>1, <1>2, <1>5, <1>6, Advanced DEF ETypes
<1>8. RollbackHolds' /\ ChecksHold'
  BY <1>1, <1>2, <1>5, <1>6, Advanced, CalmRollback, BackIsApart, ChecksScheduled
<1>9. ASSUME NEW n \in Machines, Alone(n)' PROVE Stage(n)'
  <2>1. n = m /\ Stage(m) /\ Place(m) = machine[m].state /\ Place(m)' = s
    BY <1>1, <1>2, <1>4, <1>5, <1>6, <1>9, LoneAdvance
  <2>2. Recorded(m)'
    BY <1>1, <1>2, <1>3, <2>1 DEF Stage, Recorded, Idle, Entering, Failing, Ending, Tasks, Owning
  <2>3. ASSUME Followed' PROVE Placed(m)'
    <3>1. Effect(m) /\ mishaps' = mishaps
      BY <1>1, <2>3 DEF Followed, Befalls
    <3>2. status = "EXECUTING"
      BY <1>1, <2>1, <2>3, <3>1 DEF Stage, Placed, Followed, Failing, Ending, Tasks
    <3>3. /\ machine[m].state \in {"Notify", "ScheduleGoodsReceiptCheck"} => status' = status
          /\ machine[m].state = "MarkMonitoring" => status' = "MONITORING"
          /\ machine[m].state = "ReturnToPlanning" => status' = "INVESTIGATING"
          /\ machine[m].state = "MarkFailedRolledBack" => status' = "FAILED_ROLLED_BACK"
      BY <1>1, <3>1, <3>2, EffectMoves
    <3> QED
      BY <1>1, <1>3, <2>1, <3>2, <3>3 DEF Placed, Idle, Failing, Ending, Tasks, Owning, Late
  <2> QED
    BY <2>1, <2>2, <2>3 DEF Stage
<1> QED
  BY <1>1, <1>2, <1>5, <1>6, <1>7, <1>8, <1>9, Advanced, CalmStep, ClosedKept DEF StageHolds

LEMMA TaskRaisesStep ==
  ASSUME EInv, NEW m \in Machines, TaskRaises(m)
  PROVE  EInv' /\ \A q \in Parts : Orderly(q)
<1> DEFINE r == [machine[m] EXCEPT !.state = "Aborted"]
<1>1. /\ ETypes /\ Machinery /\ machine[m].state \in Tasks /\ Befalls("stopped")
      /\ Effect(m) \/ UNCHANGED <<due, status>>
      /\ UNCHANGED <<plan, kill, journal, sap, request, received, monitor, task, asked>>
  BY DEF TaskRaises, EInv
<1>2. UNCHANGED <<route, decision, kill, exec, undone, live, gone, request, received,
                  monitor, task, asked>>
  BY <1>1 DEF plan, journal, sap
<1>3. Advances(m, r)
  BY <1>1 DEF TaskRaises, Step, Advances, Machinery, ETypes, Machine, Tasks, PartStates
<1> HIDE DEF r
<1>4. /\ status' \in Statuses /\ (status' = "CLOSED" => status = "CLOSED")
      /\ due' \in [Parts -> {"NONE", "scheduled", "checked"}]
      /\ \A p \in Parts : due'[p] # "NONE" => p \in InRoute
  <2>1. CASE Effect(m)
    BY <1>1, <2>1, EffectMoves
  <2>2. CASE UNCHANGED <<due, status>>
    BY <1>1, <2>2 DEF EInv, ETypes, ChecksHold
  <2> QED
    BY <1>1, <2>1, <2>2
<1>5. ETypes'
  BY <1>1, <1>2, <1>3, <1>4, Advanced, Stopped DEF ETypes
<1>6. RollbackHolds' /\ ChecksHold'
  BY <1>1, <1>2, <1>3, <1>4, Advanced, CalmRollback, BackIsApart, ChecksScheduled
<1>7. StageHolds'
  BY <1>1, Stopped
<1> QED
  BY <1>1, <1>2, <1>3, <1>4, <1>5, <1>6, <1>7, Advanced, CalmStep, ClosedKept

\* A machine that invokes a task anew.
Invokes(m, a, pc) ==
  /\ machine' \in [Machines \cup {Back} -> Machine]
  /\ \A n \in (Machines \cup {Back}) \ {m} : machine'[n] = machine[n]
  /\ machine'[m].attempt = a /\ a = machine[m].attempt + 1
  /\ machine'[m].part = machine[m].part
  /\ \/ m \in Machines /\ pc = "authorize" /\ machine[m].state # "off" /\ machine'[m].state = "Execute"
     \/ m = Back /\ pc = "find" /\ machine'[m].state = "Rollback"
  /\ task' = [task EXCEPT ![<<m, a>>].pc = pc]

LEMMA Invoking ==
  ASSUME EInv, NEW m \in Machines \cup {Back}, NEW a, NEW pc, Invokes(m, a, pc),
         UNCHANGED <<route, journal, sap>>
  PROVE  /\ Calm /\ Machinery' /\ task' \in [Invoked -> Invocation]
         /\ \A y \in Invoked : y # <<m, a>> => task'[y] = task[y]
         /\ <<m, a>> \in Invoked => task'[<<m, a>>].pc = pc /\ task'[<<m, a>>].i = 1
<1>1. /\ ETypes /\ Machinery /\ InRoute' = InRoute /\ machine[m].attempt \in Nat
  BY DEF EInv, InRoute, ETypes, Machine
<1>2. a \in Nat /\ a > machine[m].attempt /\ a # 0
  BY <1>1 DEF Invokes
<1>3. <<m, a>> \in Invoked => task[<<m, a>>] = Ended
  BY <1>1, <1>2 DEF Machinery
<1>4. /\ [Ended EXCEPT !.pc = pc] \in Invocation
      /\ [Ended EXCEPT !.pc = pc].pc = pc /\ [Ended EXCEPT !.pc = pc].i = 1
  BY DEF Ended, Invocation, Invokes, ExecuteSteps, RollbackSteps
<1>5. /\ task' \in [Invoked -> Invocation]
      /\ \A y \in Invoked : y # <<m, a>> => task'[y] = task[y]
      /\ <<m, a>> \in Invoked => task'[<<m, a>>] = [Ended EXCEPT !.pc = pc]
  BY <1>1, <1>3, <1>4 DEF Invokes, ETypes
<1>6. Calm
  BY <1>4, <1>5 DEF Calm, Invokes
<1>7. ASSUME NEW y \in Invoked
      PROVE  /\ y[2] > machine'[y[1]].attempt => task'[y] = Ended
             /\ task'[y].pc \in ExecuteSteps => y[1] \in Machines
             /\ task'[y].pc \in RollbackSteps => y[1] = Back
             /\ task'[y].pc # "ended" /\ y[2] = machine'[y[1]].attempt =>
                  machine'[y[1]].state \in {"Execute", "Rollback"}
  <2>1. y[1] \in Machines \cup {Back} /\ y[2] \in Nat /\ y = <<y[1], y[2]>>
    BY Invocations
  <2>2. CASE y = <<m, a>>
    BY <1>2, <1>4, <1>5, <2>1, <2>2, BackIsApart DEF Invokes, ExecuteSteps, RollbackSteps, Owning
  <2>3. CASE y[1] # m
    BY <1>1, <1>5, <2>1, <2>3 DEF Machinery, Invokes
  <2>4. CASE y[1] = m /\ y[2] # a
    <3>1. task'[y] = task[y] /\ machine'[m].attempt = a
      BY <1>5, <2>1, <2>4 DEF Invokes
    <3> QED
      BY <1>1, <1>2, <2>1, <2>4, <3>1 DEF Machinery
  <2> QED
    BY <2>1, <2>2, <2>3, <2>4
<1>8. ASSUME NEW n \in Machines \cup {Back}
      PROVE  /\ n \in Machines => /\ machine'[n].state \in PartStates
                                  /\ machine'[n].state # "off" => machine'[n].part \in InRoute'
             /\ n = Back => machine'[n].state \in BackStates
             /\ machine'[n].state \in {"off", "CheckKillSwitch"} => machine'[n].attempt = 0
             /\ machine'[n].state \in {"Execute", "Rollback"} => machine'[n].attempt # 0
  <2>1. CASE n # m
    <3>1. machine'[n] = machine[n]
      BY <2>1 DEF Invokes
    <3> QED
      BY <1>1, <2>1, <3>1, BackIsApart DEF Machinery
  <2>2. CASE n = m
    BY <1>1, <1>2, <2>2, BackIsApart DEF Machinery, Invokes, PartStates, BackStates
  <2> QED
    BY <2>1, <2>2
<1>9. Machinery'
  BY <1>7, <1>8 DEF Machinery
<1> QED
  BY <1>4, <1>5, <1>6, <1>9

LEMMA CheckKillSwitchStep ==
  ASSUME EInv, NEW m \in Machines, CheckKillSwitch(m)
  PROVE  EInv' /\ \A q \in Parts : Orderly(q)
<1>1. /\ ETypes /\ Machinery /\ machine[m].state = "CheckKillSwitch" /\ machine[m].attempt = 0
      /\ machine[m] \in Machine /\ m # Back
      /\ UNCHANGED <<status, plan, kill, journal, sap, request, checks, mishaps, asked>>
  BY BackIsApart DEF CheckKillSwitch, EInv, Machinery, ETypes
<1>2. UNCHANGED <<status, route, decision, kill, exec, undone, live, gone, request, due, received,
                  monitor, mishaps, asked>>
  BY <1>1 DEF plan, journal, sap, checks
<1>3. CASE Step(m, "Refused") /\ UNCHANGED task
  <2> DEFINE r == [machine[m] EXCEPT !.state = "Refused"]
  <2>1. Advances(m, r) /\ r.state = "Refused"
    BY <1>1, <1>3 DEF Step, Advances, Machinery, Machine, PartStates
  <2> HIDE DEF r
  <2>2. ETypes'
    BY <1>1, <1>2, <1>3, <2>1, Advanced DEF ETypes
  <2>3. RollbackHolds'
    BY <1>1, <1>2, <1>3, <2>1, Advanced, CalmRollback
  <2>4. ASSUME NEW n \in Machines, Alone(n)' PROVE Stage(n)'
    <3>1. n = m /\ Place(m)' = "Refused"
      BY <1>1, <1>2, <1>3, <2>1, <2>4, LoneAdvance
    <3> QED
      BY <3>1 DEF Stage, Recorded, Placed, Followed, Idle, Entering, Failing, Ending, Away, Owning
  <2> QED
    BY <1>1, <1>2, <1>3, <2>1, <2>2, <2>3, <2>4, Advanced, CalmStep, ChecksKept, ClosedKept DEF StageHolds
<1>4. CASE /\ machine' = [machine EXCEPT ![m].state = "Execute", ![m].attempt = 1]
           /\ task' = [task EXCEPT ![<<m, 1>>].pc = "authorize"]
  <2> DEFINE r == [machine[m] EXCEPT !.state = "Execute", !.attempt = 1]
  <2>1. machine' = [machine EXCEPT ![m] = r]
    BY <1>1, <1>4
  <2>2. r \in Machine /\ r.state = "Execute" /\ r.attempt = 1 /\ r.part = machine[m].part
    BY <1>1 DEF Machine, PartStates
  <2> HIDE DEF r
  <2>3. /\ machine'[m] = r /\ machine' \in [Machines \cup {Back} -> Machine]
        /\ \A n \in (Machines \cup {Back}) \ {m} : machine'[n] = machine[n]
    BY <1>1, <2>1, <2>2 DEF ETypes
  <2>4. Invokes(m, 1, "authorize")
    <3>1. machine'[m].state = "Execute" /\ machine'[m].attempt = 1
          /\ machine'[m].part = machine[m].part /\ 1 = machine[m].attempt + 1
      BY <1>1, <2>2, <2>3
    <3>2. task' = [task EXCEPT ![<<m, 1>>].pc = "authorize"] /\ machine[m].state # "off"
      BY <1>1, <1>4
    <3> QED
      BY <2>3, <3>1, <3>2 DEF Invokes
  <2>5. /\ Calm /\ Machinery' /\ task' \in [Invoked -> Invocation]
        /\ task'[<<m, 1>>].pc = "authorize"
    BY <1>2, <2>4, Invoking, Invocations DEF journal, sap
  <2>6. ETypes' /\ Lasts
    BY <1>1, <1>2, <2>3, <2>5 DEF ETypes, Lasts
  <2>7. RollbackHolds'
    BY <1>1, <1>2, <2>3, <2>5, CalmRollback
  <2>8. ASSUME NEW n \in Machines, Alone(n)' PROVE Stage(n)'
    <3>1. n = m
      BY <2>2, <2>3, <2>8 DEF Alone
    <3>2. Alone(m)
      BY <1>1, <1>2, <2>3, <2>8, <3>1 DEF Alone
    <3>3. Stage(m) /\ Place(m) = "CheckKillSwitch" /\ Place(m)' = "authorize"
      BY <1>1, <2>2, <2>3, <2>5, <3>2 DEF EInv, StageHolds, Place
    <3> QED
      BY <1>2, <3>1, <3>3 DEF Stage, Recorded, Placed, Followed, Idle, Entering, Failing, Ending, Away, Early, Owning
  <2> QED
    BY <1>1, <1>2, <2>5, <2>6, <2>7, <2>8, CalmStep, ChecksKept, ClosedKept DEF StageHolds
<1> QED
  BY <1>3, <1>4 DEF CheckKillSwitch

LEMMA RetryStep ==
  ASSUME EInv, NEW m \in Machines \cup {Back}, Retry(m)
  PROVE  EInv' /\ \A q \in Parts : Orderly(q)
<1> DEFINE a == machine[m].attempt + 1
           r == [machine[m] EXCEPT !.attempt = a]
           pc == IF machine[m].state = "Execute" THEN "authorize" ELSE "find"
<1>1. /\ ETypes /\ Machinery /\ machine[m].state \in {"Execute", "Rollback"}
      /\ machine[m].attempt # 0 /\ machine[m] \in Machine /\ machine[m].attempt \in Nat
      /\ machine' = [machine EXCEPT ![m] = r] /\ task' = [task EXCEPT ![<<m, a>>].pc = pc]
      /\ UNCHANGED <<status, plan, kill, journal, sap, request, checks, mishaps, asked>>
  BY DEF Retry, EInv, Machinery, ETypes, Machine
<1>2. UNCHANGED <<status, route, decision, kill, exec, undone, live, gone, request, due, received,
                  monitor, mishaps, asked>>
  BY <1>1 DEF plan, journal, sap, checks
<1>3. r \in Machine /\ r.state = machine[m].state /\ r.attempt = a /\ r.part = machine[m].part
  BY <1>1 DEF Machine
<1> HIDE DEF r
<1>4. /\ machine'[m] = r /\ machine' \in [Machines \cup {Back} -> Machine]
      /\ \A n \in (Machines \cup {Back}) \ {m} : machine'[n] = machine[n]
  BY <1>1, <1>3 DEF ETypes
<1>5. \/ m \in Machines /\ machine[m].state = "Execute"
      \/ m = Back /\ machine[m].state = "Rollback"
  BY <1>1 DEF Machinery, PartStates, BackStates, Tasks
<1>6. Invokes(m, a, pc)
  <2>1. machine'[m].state = machine[m].state /\ machine'[m].attempt = a
        /\ machine'[m].part = machine[m].part
    BY <1>3, <1>4
  <2>2. task' = [task EXCEPT ![<<m, a>>].pc = pc]
    BY <1>1
  <2> QED
    BY <1>4, <1>5, <2>1, <2>2 DEF Invokes
<1> HIDE DEF pc
<1>7. /\ Calm /\ Machinery' /\ task' \in [Invoked -> Invocation]
      /\ \A y \in Invoked : y # <<m, a>> => task'[y] = task[y]
  BY <1>2, <1>6, Invoking DEF journal, sap
<1>8. ETypes' /\ Lasts
  <2>1. Lasts
    BY <1>2 DEF Lasts
  <2>2. machine' \in [Machines \cup {Back} -> Machine] /\ task' \in [Invoked -> Invocation]
    BY <1>4, <1>7
  <2> QED
    BY <1>1, <1>2, <2>1, <2>2 DEF ETypes
<1>9. RollbackHolds'
  BY <1>1, <1>2, <1>3, <1>4, <1>7, CalmRollback
<1>10. ASSUME NEW n \in Machines, Alone(n)' PROVE Stage(n)'
  <2>1. n # m
    BY <1>1, <1>3, <1>4, <1>10 DEF Alone
  <2>2. m = Back
    BY <1>3, <1>4, <1>5, <1>10, <2>1 DEF Alone
  <2>3. \A k \in Machines : machine'[k] = machine[k]
    BY <1>4, <2>2, BackIsApart
  <2>4. Alone(n) /\ task'[<<n, 1>>] = task[<<n, 1>>]
    BY <1>2, <1>7, <1>10, <2>1, <2>3, Invocations DEF Alone
  <2>5. Place(n)' = Place(n)
    BY <2>3, <2>4 DEF Place
  <2> QED
    BY <1>1, <1>2, <2>4, <2>5, StageKept
<1> QED
  BY <1>1, <1>2, <1>7, <1>8, <1>9, <1>10, CalmStep, ChecksKept, ClosedKept DEF StageHolds

LEMMA RequestStep ==
  ASSUME EInv, RequestRollback
  PROVE  EInv' /\ \A q \in Parts : Orderly(q)
<1> DEFINE r == [machine[Back] EXCEPT !.state = "Rollback", !.attempt = 1]
<1>1. /\ ETypes /\ Machinery /\ RollbackHolds /\ machine[Back].state = "off"
      /\ machine[Back].attempt = 0 /\ machine[Back] \in Machine
      /\ request' = "REQUESTED" /\ asked' = {p \in InRoute : exec[p] = "SUCCEEDED"}
      /\ machine' = [machine EXCEPT ![Back] = r] /\ task' = [task EXCEPT ![<<Back, 1>>].pc = "find"]
      /\ UNCHANGED <<status, plan, kill, journal, sap, checks, mishaps>>
  BY DEF RequestRollback, EInv, Machinery, ETypes
<1>2. UNCHANGED <<status, route, decision, kill, exec, undone, live, gone, due, received,
                  monitor, mishaps>> /\ InRoute' = InRoute /\ InRoute \subseteq Parts
  BY <1>1, RouteFacts DEF plan, journal, sap, checks, InRoute
<1>3. r \in Machine /\ r.state = "Rollback" /\ r.attempt = 1 /\ r.part = machine[Back].part
  BY <1>1 DEF Machine, BackStates
<1> HIDE DEF r
<1>4. /\ machine'[Back] = r /\ machine' \in [Machines \cup {Back} -> Machine]
      /\ \A n \in (Machines \cup {Back}) \ {Back} : machine'[n] = machine[n]
  BY <1>1, <1>3 DEF ETypes
<1>5. Invokes(Back, 1, "find")
  <2>1. machine'[Back].state = "Rollback" /\ machine'[Back].attempt = 1
        /\ machine'[Back].part = machine[Back].part /\ 1 = machine[Back].attempt + 1
    BY <1>1, <1>3, <1>4
  <2>2. task' = [task EXCEPT ![<<Back, 1>>].pc = "find"]
    BY <1>1
  <2> QED
    BY <1>4, <2>1, <2>2 DEF Invokes
<1>6. /\ Calm /\ Machinery' /\ task' \in [Invoked -> Invocation]
      /\ \A y \in Invoked : y # <<Back, 1>> => task'[y] = task[y]
      /\ task'[<<Back, 1>>].pc = "find" /\ task'[<<Back, 1>>].i = 1
  <2>1. <<Back, 1>> \in Invoked
    BY Invocations
  <2>2. UNCHANGED <<route, journal, sap>>
    BY <1>2 DEF journal, sap
  <2> QED
    BY <1>5, <2>1, <2>2, Invoking
<1>7. ETypes' /\ Lasts
  <2>1. Lasts
    BY <1>2 DEF Lasts
  <2>2. machine' \in [Machines \cup {Back} -> Machine] /\ task' \in [Invoked -> Invocation]
    BY <1>4, <1>6
  <2>3. asked' \subseteq Parts /\ request' = "REQUESTED"
    BY <1>1, <1>2
  <2> QED
    BY <1>1, <1>2, <2>1, <2>2, <2>3 DEF ETypes
<1>8. RollbackHolds'
  <2>1. ASSUME NEW y \in Invoked, y # <<Back, 1>> PROVE task'[y].pc \notin RollbackSteps
    <3>1. y[1] = Back => y[2] > machine[Back].attempt
      BY <1>1, Invocations
    <3> QED
      BY <1>1, <1>6, <2>1, <3>1, EndedIsInvocation DEF Machinery, RollbackSteps
  <2>2. \A p \in Parts : ~(p < 1)
    BY DEF Parts
  <2>3. ASSUME NEW y \in Invoked
        PROVE  /\ task'[y].pc \in RollbackSteps => Withdrawn(task[y].i)'
               /\ task'[y].pc \in {"rolledBack", "markDone"} => AllWithdrawn'
    BY <1>1, <1>2, <1>6, <2>1, <2>2 DEF Withdrawn, RollbackSteps
  <2> QED
    BY <1>1, <1>2, <1>3, <1>4, <2>3 DEF RollbackHolds
<1>9. ASSUME NEW n \in Machines, Alone(n)' PROVE Stage(n)'
  <2>1. \A k \in Machines : machine'[k] = machine[k]
    BY <1>4, BackIsApart
  <2>2. Alone(n) /\ task'[<<n, 1>>] = task[<<n, 1>>]
    BY <1>2, <1>6, <1>9, <2>1, BackIsApart, Invocations DEF Alone
  <2>3. Place(n)' = Place(n)
    BY <2>1, <2>2 DEF Place
  <2> QED
    BY <1>1, <1>2, <2>2, <2>3, StageKept
<1> QED
  BY <1>1, <1>2, <1>6, <1>7, <1>8, <1>9, CalmStep, ChecksKept, ClosedKept DEF StageHolds

-----------------------------------------------------------------------------
(* The theorems *)

LEMMA InitHolds == Init => EInv
<1> SUFFICES ASSUME Init PROVE EInv
  OBVIOUS
<1>1. ETypes
  <2>1. Ended \in Invocation
    BY EndedIsInvocation
  <2>2. [state |-> "off", part |-> 1, attempt |-> 0] \in Machine
    BY DEF Machine, PartStates, Parts
  <2>3. machine \in [Machines \cup {Back} -> Machine] /\ task \in [Invoked -> Invocation]
    BY <2>1, <2>2 DEF Init
  <2>4. /\ exec \in [Parts -> Marks] /\ undone \in [Parts -> Marks]
        /\ live \in [Parts -> SUBSET Parts] /\ gone \in [Parts -> SUBSET Parts]
    BY DEF Init, Marks
  <2>5. /\ decision \in [Parts -> {"NONE", "APPROVED", "REJECTED", "EXPIRED"}]
        /\ due \in [Parts -> {"NONE", "scheduled", "checked"}] /\ monitor \in [Parts -> 0..3]
    BY DEF Init
  <2>6. /\ status \in Statuses /\ route \in Routes /\ kill \in BOOLEAN
        /\ mishaps \subseteq {"stopped", "overtaken", "lost"}
        /\ request \in {"NONE", "REQUESTED", "DONE"} /\ received \subseteq Parts /\ asked \subseteq Parts
    BY DEF Init, Statuses
  <2> QED
    BY <2>3, <2>4, <2>5, <2>6 DEF ETypes
<1>2. \A m \in Machines \cup {Back} : machine[m].state = "off" /\ machine[m].attempt = 0
  BY DEF Init
<1>3. \A x \in Invoked : task[x] = Ended /\ Ended.pc = "ended"
  BY EndedIsInvocation DEF Init
<1>4. Machinery
  BY <1>2, <1>3, Invocations DEF Machinery, PartStates, BackStates, ExecuteSteps, RollbackSteps, Owning
<1>5. JournalHolds
  BY <1>3 DEF Init, JournalHolds, JournalOf, Owner, Owns, Undoer, Owning
<1>6. ChecksHold /\ ClosedIsReceived
  BY DEF Init, ChecksHold, ClosedIsReceived
<1>7. RollbackHolds
  BY <1>3 DEF Init, RollbackHolds, RollbackSteps
<1>8. StageHolds
  <2> SUFFICES ASSUME NEW m \in Machines PROVE Stage(m)
    BY DEF StageHolds
  <2>1. Place(m) = "off" /\ exec[1] = "NONE" /\ status = "VERIFIED"
    BY DEF Init, Place, Parts
  <2> QED
    BY <2>1 DEF Stage, Recorded, Placed, Followed, Idle, Entering, Failing, Ending, Away, Early, Owning
<1> QED
  BY <1>1, <1>4, <1>5, <1>6, <1>7, <1>8 DEF EInv

LEMMA StutterStep ==
  ASSUME EInv, UNCHANGED vars
  PROVE  EInv' /\ \A p \in Parts : Orderly(p)
<1>1. UNCHANGED <<status, route, decision, kill, exec, undone, live, gone, request,
                  due, received, monitor, machine, task, mishaps, asked>>
  BY DEF vars
<1>2. ETypes' /\ StageHolds'
  BY <1>1, Rests, StageKept DEF EInv, ETypes, StageHolds, journal, sap, plan
<1> QED
  BY <1>1, <1>2, Rests, CalmStep, ChecksKept, ClosedKept DEF journal, sap, checks

LEMMA StepHolds ==
  ASSUME EInv, [Next]_vars
  PROVE  EInv' /\ \A p \in Parts : Orderly(p)
<1>1. CASE Settle \/ Replan \/ SetKillSwitch \/ RequestRollback
  BY <1>1, SettleStep, ReplanStep, SwitchStep, RequestStep
<1>2. CASE \E p \in Parts : (\E d \in {"APPROVED", "REJECTED"} : Decide(p, d)) \/ Expire(p)
  BY <1>2, DecideStep, ExpireStep
<1>3. CASE \E m \in Machines : (\E p \in Parts : PlanApproved(m, p)) \/ CheckKillSwitch(m)
                                 \/ RunTask(m) \/ TaskRaises(m)
  BY <1>3, PlanApprovedStep, CheckKillSwitchStep, RunTaskStep, TaskRaisesStep
<1>4. CASE \E m \in Machines \cup {Back} : Retry(m)
  BY <1>4, RetryStep
<1>5. CASE \E x \in Invoked : Executes(x)
  BY <1>5, AuthorizeStep, EnterStep, MoveInStep, StartStep, ClaimStep, RevalidateStep, WriteStep,
     CompensateStep, FinishStep DEF Executes
<1>6. CASE \E x \in Invoked : RollsBack(x) \/ Dies(x)
  BY <1>6, FindStep, NextPartStep, ClaimUndoStep, UndoStep, MarkRolledBackStep, MarkDoneStep,
     DiesStep DEF RollsBack
<1>7. CASE \E p \in Parts : GoodsReceiptDue(p) \/ Monitors(p)
  BY <1>7, GoodsReceiptStep, ScanStep, CloseStep DEF Monitors
<1> QED
  BY <1>1, <1>2, <1>3, <1>4, <1>5, <1>6, <1>7, StutterStep DEF Next

\* The invariant holds of every execution: the claim of a part has one owner, success is final,
\* and a check or a rollback knows what it has passed.
THEOREM ExecutionInvariance == Spec => []EInv
<1> QED
  BY InitHolds, StepHolds, PTL DEF Spec

\* Whatever machines, retries, duplicate announcements and rollbacks meet, every part of the
\* route is executed and withdrawn as PartExecution says: the claim in the journal makes its
\* writes one invocation's (Workflow.run, service.py).
THEOREM PartsAreOrderly == Spec => EachPartIsOrderly
<1>1. Init => \A p \in Parts : Part(p)!PInit
  BY DEF Init, Part!PInit, Phase
<1>2. EInv /\ [Next]_vars =>
        [\A p \in Parts : Part(p)!PNext \/ UNCHANGED <<Phase(p), live[p], gone[p]>>]_vars
  BY StepHolds DEF Orderly
<1> QED
  BY <1>1, <1>2, ExecutionInvariance, PTL DEF Spec, EachPartIsOrderly

\* A case that closes has had every Tier 2 part, or its only part, executed and its goods
\* received (GoodsReceiptMonitor._all_received), however the checks of the parts overlap.
THEOREM ClosedCasesAreReceived == Spec => []ClosedIsReceived
<1>1. EInv => ClosedIsReceived
  BY DEF EInv
<1> QED
  BY <1>1, ExecutionInvariance, PTL

\* A rollback that reports it is done has taken every part back that had succeeded when it
\* was asked for, whatever invocations of it ran beside each other.
THEOREM RollbacksReachAll == Spec => []RollbackReachesAll
<1>1. EInv => RollbackReachesAll
  BY DEF EInv, ETypes, RollbackHolds, JournalHolds, JournalOf, RollbackReachesAll, AllWithdrawn
<1> QED
  BY <1>1, ExecutionInvariance, PTL

\* Where the only machine of a plan of one part ends says what became of the part and, if the
\* case followed every move of it, of the case: monitored after success, planned again with
\* nothing in SAP, or failed and marked.
THEOREM OutcomesAreRecorded == Spec => []OutcomeIsRecorded
<1>1. EInv => OutcomeIsRecorded
  <2> SUFFICES ASSUME EInv, NEW m \in Machines, Undisturbed(m), Len(route) = 1
               PROVE  /\ machine[m].state = "Done" =>
                           exec[1] = "SUCCEEDED" /\ (Followed => status \in Late)
                      /\ machine[m].state = "ReturnedToPlanning" =>
                           live[1] = {} /\ (Followed => status = "INVESTIGATING")
                      /\ machine[m].state = "Escalated" =>
                           exec[1] = "PENDING" /\ (Followed => status = "FAILED_ROLLED_BACK")
    BY DEF OutcomeIsRecorded, Late
  <2>1. Stage(m)
    BY DEF EInv, StageHolds, Alone, Undisturbed
  <2> QED
    BY <2>1 DEF Stage, Recorded, Placed, Idle, Entering, Failing, Ending, Place, Late
<1> QED
  BY <1>1, ExecutionInvariance, PTL
=============================================================================
