------------------------------ MODULE Execution ------------------------------
(***************************************************************************)
(* Execution of one routed plan version of a case: the Step Functions      *)
(* machines of infra/constructs/execution_workflow.py, the tasks of        *)
(* services/execution/service.py they invoke, the rollback an approver     *)
(* asks for (api/handler.py) and the goods receipt check                   *)
(* (monitor/handler.py). A machine executes one part or rolls back the     *)
(* version; a Lambda error makes it invoke its task again although the     *)
(* first invocation may still be running. What one invocation does to a    *)
(* part in SAP is taken from PartExecution, which Workflow implements.     *)
(***************************************************************************)
EXTENDS Naturals, Sequences, FiniteSets

CONSTANTS
  Routes,       \* possible ROUTE# items: the tier of each part, urgent part first
  Machines,     \* bound: executions of the state machine for the routed parts
  Retries,      \* bound: repeated invocations of Execute or Rollback, of all machines
  Raises,       \* may a task raise after the case has been authorised?
  Kills,        \* may an administrator switch to advise-only?
  EarlyChecks,  \* may a goods receipt fall due before the case is monitored?
  Replans,      \* may a deadline pass, or a run start again, while the version is at work?
  Contention    \* may another writer be at META when a move is committed?

ASSUME RoutesAreTiers == Routes \subseteq {<<1>>, <<2>>, <<1, 2>>}
ASSUME RetriesAreCounted == Retries \in Nat
ASSUME SwitchesAreBooleans == {Raises, Kills, EarlyChecks, Replans, Contention} \subseteq BOOLEAN

Parts == 1..2

Attempts == Retries + 1

VARIABLES
  status,     \* META.status
  route,      \* the parts of the route, as tiers
  decision,   \* of each PART# item
  kill,       \* KILL_SWITCH
  exec,       \* journal status of EXEC#case#version#part
  undone,     \* journal status of ROLLBACK#EXEC#...
  live,       \* writes of each part that stand in SAP
  gone,       \* writes taken back
  request,    \* status of ROLLBACK#version
  due,        \* the goods receipt schedule of each part
  received,   \* the RECEIVED# items
  monitor,    \* where the goods receipt check of each part is
  machine,    \* each Step Functions execution
  task,       \* its invocations of Execute or Rollback
  mishaps,    \* what befell a task: "stopped" (it raised, died or was halted by the kill
              \* switch), "overtaken" or "lost" (a move of the case) (history)
  asked       \* parts that had succeeded when the rollback was requested (history)

journal == <<exec, undone>>
sap == <<live, gone>>
plan == <<route, decision>>
checks == <<due, received, monitor>>

vars == <<status, route, decision, kill, exec, undone, live, gone, request,
          due, received, monitor, machine, task, mishaps, asked>>

InRoute == DOMAIN route

\* The machine that rolls the version back; its name is the version's.
Back == 0

ASSUME BackIsApart == Back \notin Machines

\* TRANSITIONS, from the statuses a verified case can have.
Targets == [s \in {"VERIFIED", "AUTO_APPROVED", "AWAITING_APPROVAL", "APPROVED", "REJECTED",
                   "ESCALATED", "EXECUTING", "MONITORING", "INVESTIGATING",
                   "FAILED_ROLLED_BACK", "REOPENED", "CLOSED", "ROLLED_BACK"} |->
  CASE s = "VERIFIED"          -> {"AUTO_APPROVED", "AWAITING_APPROVAL", "ESCALATED"}
    [] s = "AWAITING_APPROVAL" -> {"APPROVED", "REJECTED", "INVESTIGATING", "ESCALATED"}
    [] s \in {"AUTO_APPROVED", "APPROVED"} -> {"EXECUTING"}
    [] s = "EXECUTING"         -> {"MONITORING", "FAILED_ROLLED_BACK", "INVESTIGATING"}
    [] s = "MONITORING"        -> {"CLOSED", "REOPENED"}
    [] s = "REOPENED"          -> {"INVESTIGATING", "ROLLED_BACK"}
    [] s = "INVESTIGATING"     -> {"ESCALATED"}
    [] s \in {"ESCALATED", "REJECTED"} -> {"INVESTIGATING", "CLOSED"}
    [] OTHER -> {}]

Befalls(what) == mishaps' = mishaps \cup {what}

\* To where the case can go from the status it has, or nowhere.
Move(s) == status' = IF s \in Targets[status] THEN s ELSE status

\* _move: the status read is the condition of the update, so a writer that is at META
\* meanwhile, even one that leaves a status the move could start from, makes it fail;
\* the error is swallowed.
Lost(s) == Contention /\ s \in Targets[status] /\ UNCHANGED status /\ Befalls("lost")

TryMove(s) == (Move(s) /\ UNCHANGED mishaps) \/ Lost(s)

Tasks == {"Notify", "ScheduleGoodsReceiptCheck", "MarkMonitoring", "ReturnToPlanning",
          "MarkFailedRolledBack"}

Invoked == (Machines \cup {Back}) \X (1..Attempts)

Ended == [pc |-> "ended", i |-> 1]

PartOf(x) == machine[x[1]].part

At(x, pc) == task[x].pc = pc

Goto(x, pc) == task' = [task EXCEPT ![x].pc = pc]

\* The machine is waiting for this invocation, not for a later one.
Awaited(x) == /\ machine[x[1]].state \in {"Execute", "Rollback"}
              /\ machine[x[1]].attempt = x[2]

\* The invocation returns or raises, and the machine goes on if it still waits.
Answer(x, state) ==
  /\ task' = [task EXCEPT ![x] = Ended]
  /\ machine' = IF Awaited(x) THEN [machine EXCEPT ![x[1]].state = state] ELSE machine

-----------------------------------------------------------------------------
(* The case around the execution *)

\* A part is announced when the route is saved (Tier 1) or when it is approved;
\* the event may come twice, and each delivery starts a machine.
Announced(p) == route[p] = 1 \/ decision[p] = "APPROVED"

PlanApproved(m, p) ==
  /\ p \in InRoute /\ Announced(p)
  /\ machine[m].state = "off"
  /\ machine' = [machine EXCEPT ![m] = [state |-> "CheckKillSwitch", part |-> p, attempt |-> 0]]
  /\ UNCHANGED <<status, plan, kill, journal, sap, request, checks, task, mishaps, asked>>

\* The verifier settles the case it has routed.
Settle ==
  /\ status = "VERIFIED"
  /\ Move(IF route = <<1>> THEN "AUTO_APPROVED" ELSE "AWAITING_APPROVAL")
  /\ UNCHANGED <<plan, kill, journal, sap, request, checks, machine, task, mishaps, asked>>

\* The approver decides a Tier 2 part; a rejection takes the waiting case along.
Decide(p, d) ==
  /\ p \in InRoute /\ route[p] = 2 /\ decision[p] = "NONE" /\ ~kill
  /\ decision' = [decision EXCEPT ![p] = d]
  /\ IF d = "REJECTED" /\ status = "AWAITING_APPROVAL" THEN Move("REJECTED") ELSE UNCHANGED status
  /\ UNCHANGED <<route, kill, journal, sap, request, checks, machine, task, mishaps, asked>>

\* The deadline of an undecided part passes.
Expire(p) ==
  /\ Replans
  /\ p \in InRoute /\ route[p] = 2 /\ decision[p] = "NONE"
  /\ decision' = [decision EXCEPT ![p] = "EXPIRED"]
  /\ UNCHANGED <<status, route, kill, journal, sap, request, checks, machine, task, mishaps, asked>>

\* What that comes to: the waiting case is planned again for the backup approver, or it
\* escalates; a run may start for one that escalated or was rejected. The new plan is
\* another version, and not followed here.
Replan ==
  /\ Replans
  /\ \/ status \in {"ESCALATED", "REJECTED"} /\ Move("INVESTIGATING")
     \/ /\ status = "AWAITING_APPROVAL" /\ \E p \in InRoute : decision[p] = "EXPIRED"
        /\ \E s \in {"INVESTIGATING", "ESCALATED"} : Move(s)
  /\ UNCHANGED <<plan, kill, journal, sap, request, checks, machine, task, mishaps, asked>>

SetKillSwitch ==
  /\ Kills
  /\ kill' = ~kill
  /\ UNCHANGED <<status, plan, journal, sap, request, checks, machine, task, mishaps, asked>>

-----------------------------------------------------------------------------
(* The state machine *)

Step(m, state) == machine' = [machine EXCEPT ![m].state = state]

CheckKillSwitch(m) ==
  /\ machine[m].state = "CheckKillSwitch"
  /\ IF kill
     THEN Step(m, "Refused") /\ UNCHANGED task
     ELSE /\ machine' = [machine EXCEPT ![m].state = "Execute", ![m].attempt = 1]
          /\ task' = [task EXCEPT ![<<m, 1>>].pc = "authorize"]
  /\ UNCHANGED <<status, plan, kill, journal, sap, request, checks, mishaps, asked>>

\* A Lambda error: the machine invokes the task again; the first may run on.
Retry(m) ==
  /\ machine[m].state \in {"Execute", "Rollback"}
  /\ Cardinality({x \in Invoked : x[2] \in 2..machine[x[1]].attempt}) < Retries
  /\ machine' = [machine EXCEPT ![m].attempt = @ + 1]
  /\ task' = [task EXCEPT ![<<m, machine[m].attempt + 1>>].pc =
                IF machine[m].state = "Execute" THEN "authorize" ELSE "find"]
  /\ UNCHANGED <<status, plan, kill, journal, sap, request, checks, mishaps, asked>>

Schedule(p) == due' = IF due[p] = "NONE" THEN [due EXCEPT ![p] = "scheduled"] ELSE due

After(state) ==
  CASE state = "Notify" -> "ScheduleGoodsReceiptCheck"
    [] state = "ScheduleGoodsReceiptCheck" -> "MarkMonitoring"
    [] state = "MarkMonitoring" -> "Done"
    [] state = "ReturnToPlanning" -> "ReturnedToPlanning"
    [] state = "MarkFailedRolledBack" -> "Escalated"

\* Where mark_monitoring, return_to_planning and mark_failed move the case.
Outcome == [MarkMonitoring |-> "MONITORING", ReturnToPlanning |-> "INVESTIGATING",
            MarkFailedRolledBack |-> "FAILED_ROLLED_BACK"]

\* Mutant: a failed execution is left as it is for a human to look at.
MEffect(m) ==
  LET state == machine[m].state IN
  /\ IF state = "ScheduleGoodsReceiptCheck" THEN Schedule(machine[m].part) ELSE UNCHANGED due
  /\ IF state \in DOMAIN Outcome \ {"MarkFailedRolledBack"}
     THEN Move(Outcome[state]) ELSE UNCHANGED status

\* What the tasks after Execute change; notify only announces.
Effect(m) ==
  LET state == machine[m].state IN
  /\ IF state = "ScheduleGoodsReceiptCheck" THEN Schedule(machine[m].part) ELSE UNCHANGED due
  /\ IF state \in DOMAIN Outcome THEN Move(Outcome[state]) ELSE UNCHANGED status

RunTask(m) ==
  LET state == machine[m].state IN
  /\ state \in Tasks
  /\ \/ Effect(m) /\ UNCHANGED mishaps
     \/ state \in DOMAIN Outcome /\ Lost(Outcome[state]) /\ UNCHANGED due
  /\ Step(m, After(state))
  /\ UNCHANGED <<plan, kill, journal, sap, request, received, monitor, task, asked>>

\* An exception of these tasks is no Lambda error: the machine fails there, before
\* or after the task's effect.
TaskRaises(m) ==
  /\ Raises
  /\ machine[m].state \in Tasks
  /\ Effect(m) \/ UNCHANGED <<due, status>>
  /\ Step(m, "Aborted")
  /\ Befalls("stopped")
  /\ UNCHANGED <<plan, kill, journal, sap, request, received, monitor, task, asked>>

-----------------------------------------------------------------------------
(* execute *)

\* _authorized: the exact part, of the current plan version, approved if it must be.
Authorized(p) == route[p] = 1 \/ decision[p] = "APPROVED"

Authorize(x) ==
  /\ At(x, "authorize")
  /\ IF Authorized(PartOf(x)) THEN Goto(x, "enter") /\ UNCHANGED machine
     ELSE Answer(x, "Refused")
  /\ UNCHANGED <<status, plan, kill, journal, sap, request, checks, mishaps, asked>>

\* _enter_execution: the whole path is computed from one reading of the status. The
\* urgent part leaves a waiting case where it is (BR-22).
EnterExecution(x) ==
  /\ At(x, "enter")
  /\ Goto(x, CASE status = "VERIFIED" -> "moveAuto"
               [] status = "AWAITING_APPROVAL" /\ route[PartOf(x)] = 2 -> "moveApproved"
               [] status \in {"AUTO_APPROVED", "APPROVED"} -> "moveExecuting"
               [] OTHER -> "start")
  /\ UNCHANGED <<status, plan, kill, journal, sap, request, checks, machine, mishaps, asked>>

\* Its moves, each made or not by the status the case has then, and nobody looks whether
\* it was: the case settled meanwhile overtakes the path chosen for a verified one.
Entry == [moveAuto |-> "AUTO_APPROVED", moveApproved |-> "APPROVED",
          moveExecuting |-> "EXECUTING"]

MoveIn(x) ==
  LET s == Entry[task[x].pc] IN
  /\ task[x].pc \in DOMAIN Entry
  /\ \/ Lost(s)
     \/ /\ Move(s)
        /\ IF status = "AWAITING_APPROVAL" /\ s = "AUTO_APPROVED"
           THEN Befalls("overtaken") ELSE UNCHANGED mishaps
  /\ Goto(x, IF s = "EXECUTING" THEN "start" ELSE "moveExecuting")
  /\ UNCHANGED <<plan, kill, journal, sap, request, checks, machine, asked>>

\* Workflow.run authorises again and reads the kill switch.
StartWorkflow(x) ==
  /\ At(x, "start")
  /\ IF ~Authorized(PartOf(x)) \/ kill THEN Answer(x, "Refused") /\ Befalls("stopped")
     ELSE Goto(x, "claim") /\ UNCHANGED <<machine, mishaps>>
  /\ UNCHANGED <<status, plan, kill, journal, sap, request, checks, asked>>

\* Mutant: a claimed execution may be claimed again.
MClaim(x) ==
  LET p == PartOf(x) IN
  /\ At(x, "claim")
  /\ IF exec[p] = "SUCCEEDED" THEN Answer(x, "Notify") /\ UNCHANGED exec
     ELSE exec' = [exec EXCEPT ![p] = "PENDING"] /\ Goto(x, "revalidate") /\ UNCHANGED machine
  /\ UNCHANGED <<status, plan, kill, undone, sap, request, checks, mishaps, asked>>

\* The execution's key: done before, replayed; claimed before, UncertainWrite.
Claim(x) ==
  LET p == PartOf(x) IN
  /\ At(x, "claim")
  /\ CASE exec[p] = "NONE" ->
            exec' = [exec EXCEPT ![p] = "PENDING"] /\ Goto(x, "revalidate") /\ UNCHANGED machine
       [] exec[p] = "PENDING"   -> Answer(x, "MarkFailedRolledBack") /\ UNCHANGED exec
       [] exec[p] = "SUCCEEDED" -> Answer(x, "Notify") /\ UNCHANGED exec
  /\ UNCHANGED <<status, plan, kill, undone, sap, request, checks, mishaps, asked>>

\* StalePlan; a reservation conflict or an undo plan that cannot be prepared; or on.
Revalidate(x) ==
  /\ At(x, "revalidate")
  /\ \/ Answer(x, "ReturnToPlanning")
     \/ Answer(x, "MarkFailedRolledBack")
     \/ Goto(x, "write") /\ UNCHANGED machine
  /\ UNCHANGED <<status, plan, kill, journal, sap, request, checks, mishaps, asked>>

\* The kill switch is read before each of the part's two writes; one that fails is
\* compensated, or left for reconciliation when its effect is unknown.
Write(x) ==
  LET p == PartOf(x)  next == Cardinality(live[p]) + 1 IN
  /\ At(x, "write") /\ live[p] # Parts
  /\ \/ kill /\ Answer(x, "Refused") /\ Befalls("stopped") /\ UNCHANGED live
     \/ ~kill /\ live' = [live EXCEPT ![p] = @ \cup {next}] /\ UNCHANGED <<machine, task, mishaps>>
     \/ ~kill /\ Goto(x, "compensate") /\ UNCHANGED <<live, machine, mishaps>>
     \/ ~kill /\ Answer(x, "MarkFailedRolledBack") /\ UNCHANGED <<live, mishaps>>
  /\ UNCHANGED <<status, plan, kill, journal, gone, request, checks, asked>>

TakeBack(p, i) ==
  /\ \A j \in live[p] : j <= i
  /\ live' = [live EXCEPT ![p] = @ \ {i}]
  /\ gone' = [gone EXCEPT ![p] = @ \cup {i}]

Compensate(x) ==
  LET p == PartOf(x) IN
  /\ At(x, "compensate")
  /\ \/ (\E i \in live[p] : TakeBack(p, i)) /\ UNCHANGED <<machine, task>>
     \/ live[p] = {} /\ Answer(x, "MarkFailedRolledBack") /\ UNCHANGED sap
  /\ UNCHANGED <<status, plan, kill, journal, request, checks, mishaps, asked>>

Finish(x) ==
  LET p == PartOf(x) IN
  /\ At(x, "write") /\ live[p] = Parts
  /\ \/ exec' = [exec EXCEPT ![p] = "SUCCEEDED"] /\ Answer(x, "Notify")
     \/ Raises /\ Answer(x, "MarkFailedRolledBack") /\ UNCHANGED exec
  /\ UNCHANGED <<status, plan, kill, undone, sap, request, checks, mishaps, asked>>

\* The invocation dies at the Lambda's time limit: no error the machine retries.
Dies(x) ==
  /\ Raises
  /\ ~At(x, "ended") /\ Awaited(x)
  /\ Answer(x, IF x[1] = Back THEN "RollbackFailed" ELSE "Refused")
  /\ Befalls("stopped")
  /\ UNCHANGED <<status, plan, kill, journal, sap, request, checks, asked>>

-----------------------------------------------------------------------------
(* Rollback *)

\* POST /cases/{id}/rollback: the request is stored once, and the machine's name is
\* free once.
RequestRollback ==
  /\ status = "REOPENED" /\ machine[Back].state = "off"
  /\ request' = "REQUESTED"
  /\ asked' = {p \in InRoute : exec[p] = "SUCCEEDED"}
  /\ machine' = [machine EXCEPT ![Back].state = "Rollback", ![Back].attempt = 1]
  /\ task' = [task EXCEPT ![<<Back, 1>>].pc = "find"]
  /\ UNCHANGED <<status, plan, kill, journal, sap, checks, mishaps>>

\* Reads the request, then loops over the parts of the route.
FindRequest(x) ==
  /\ At(x, "find")
  /\ IF request = "DONE" THEN Answer(x, "RolledBack")
     ELSE Goto(x, "next") /\ UNCHANGED machine
  /\ UNCHANGED <<status, plan, kill, journal, sap, request, checks, mishaps, asked>>

\* Mutant: the loop stops at the first part that has not succeeded.
MNextPart(x) ==
  LET i == task[x].i IN
  /\ At(x, "next")
  /\ task' = IF i \notin InRoute \/ exec[i] # "SUCCEEDED"
             THEN [task EXCEPT ![x].pc = "rolledBack"]
             ELSE [task EXCEPT ![x].pc = "claimUndo"]
  /\ UNCHANGED <<status, plan, kill, journal, sap, request, checks, machine, mishaps, asked>>

\* A part whose execution has not succeeded is passed over.
NextPart(x) ==
  LET i == task[x].i IN
  /\ At(x, "next")
  /\ task' = CASE i \notin InRoute       -> [task EXCEPT ![x].pc = "rolledBack"]
               [] i \in InRoute /\ exec[i] # "SUCCEEDED" -> [task EXCEPT ![x].i = i + 1]
               [] OTHER                  -> [task EXCEPT ![x].pc = "claimUndo"]
  /\ UNCHANGED <<status, plan, kill, journal, sap, request, checks, machine, mishaps, asked>>

\* Workflow.rollback: done before, nothing to do; claimed before, UncertainWrite.
ClaimUndo(x) ==
  LET i == task[x].i IN
  /\ At(x, "claimUndo")
  /\ CASE undone[i] = "NONE" ->
            undone' = [undone EXCEPT ![i] = "PENDING"] /\ Goto(x, "undo") /\ UNCHANGED machine
       [] undone[i] = "PENDING" -> Answer(x, "RollbackFailed") /\ UNCHANGED undone
       [] undone[i] = "SUCCEEDED" ->
            /\ task' = [task EXCEPT ![x].pc = "next", ![x].i = i + 1]
            /\ UNCHANGED <<undone, machine>>
  /\ UNCHANGED <<status, plan, kill, exec, sap, request, checks, mishaps, asked>>

Undo(x) ==
  LET i == task[x].i IN
  /\ At(x, "undo")
  /\ \/ (\E w \in live[i] : TakeBack(i, w)) /\ UNCHANGED <<undone, machine, task>>
     \/ /\ live[i] = {}
        /\ undone' = [undone EXCEPT ![i] = "SUCCEEDED"]
        /\ task' = [task EXCEPT ![x].pc = "next", ![x].i = i + 1]
        /\ UNCHANGED <<sap, machine>>
     \/ Raises /\ Answer(x, "RollbackFailed") /\ UNCHANGED <<sap, undone>>
  /\ UNCHANGED <<status, plan, kill, exec, request, checks, mishaps, asked>>

MarkRolledBack(x) ==
  /\ At(x, "rolledBack")
  /\ TryMove("ROLLED_BACK")
  /\ Goto(x, "markDone")
  /\ UNCHANGED <<plan, kill, journal, sap, request, checks, machine, asked>>

MarkDone(x) ==
  /\ At(x, "markDone")
  /\ request' = "DONE"
  /\ Answer(x, "RolledBack")
  /\ UNCHANGED <<status, plan, kill, journal, sap, checks, mishaps, asked>>

-----------------------------------------------------------------------------
(* Monitor *)

\* _reopen: the goods did not come, or not in full, where the case is monitored.
Reopen == TryMove("REOPENED")

\* The check at the expected arrival plus grace: the part brings no goods to wait for
\* (neither a transfer nor air freight); all of them came; or some are missing, and the
\* case reopens if it is monitored.
GoodsReceiptDue(p) ==
  /\ due[p] = "scheduled"
  /\ EarlyChecks \/ \A m \in Machines :
       machine[m].part = p => machine[m].state # "MarkMonitoring"
  /\ due' = [due EXCEPT ![p] = "checked"]
  /\ \/ UNCHANGED <<status, received, monitor, mishaps>>
     \/ /\ exec[p] = "SUCCEEDED"
        /\ \/ /\ received' = received \cup {p}
              /\ monitor' = [monitor EXCEPT ![p] = 1]
              /\ UNCHANGED <<status, mishaps>>
           \/ Reopen /\ UNCHANGED <<received, monitor>>
  /\ UNCHANGED <<plan, kill, journal, sap, request, machine, task, asked>>

\* Mutant: the receipts of the other executed parts are not looked up.
MKeepsOpen(p) == exec[p] # "SUCCEEDED" /\ route[p] = 2

\* _all_received: an executed part without its receipt, or a Tier 2 part that is not
\* executed (the decision in ROUTE# stays the None it was saved with).
KeepsOpen(p) == IF exec[p] = "SUCCEEDED" THEN p \notin received ELSE route[p] = 2

\* The parts are read one after the other; then the case closes, if it is monitored.
ScanReceipts(p) ==
  LET i == monitor[p] IN
  /\ i \in InRoute
  /\ monitor' = [monitor EXCEPT ![p] = IF KeepsOpen(i) THEN 0 ELSE i + 1]
  /\ UNCHANGED <<status, plan, kill, journal, sap, request, due, received, machine, task,
                 mishaps, asked>>

Close(p) ==
  /\ monitor[p] > Len(route)
  /\ TryMove("CLOSED")
  /\ monitor' = [monitor EXCEPT ![p] = 0]
  /\ UNCHANGED <<plan, kill, journal, sap, request, due, received, machine, task, asked>>

-----------------------------------------------------------------------------
Init ==
  /\ status = "VERIFIED"
  /\ route \in Routes
  /\ decision = [p \in Parts |-> "NONE"]
  /\ kill = FALSE
  /\ exec = [p \in Parts |-> "NONE"] /\ undone = [p \in Parts |-> "NONE"]
  /\ live = [p \in Parts |-> {}] /\ gone = [p \in Parts |-> {}]
  /\ request = "NONE"
  /\ due = [p \in Parts |-> "NONE"]
  /\ received = {}
  /\ monitor = [p \in Parts |-> 0]
  /\ machine = [m \in Machines \cup {Back} |-> [state |-> "off", part |-> 1, attempt |-> 0]]
  /\ task = [x \in Invoked |-> Ended]
  /\ mishaps = {}
  /\ asked = {}

Executes(x) ==
  \/ Authorize(x) \/ EnterExecution(x) \/ MoveIn(x) \/ StartWorkflow(x) \/ Claim(x)
  \/ Revalidate(x) \/ Write(x) \/ Compensate(x) \/ Finish(x)

RollsBack(x) ==
  \/ FindRequest(x) \/ NextPart(x) \/ ClaimUndo(x) \/ Undo(x) \/ MarkRolledBack(x) \/ MarkDone(x)

Monitors(p) == ScanReceipts(p) \/ Close(p)

Next ==
  \/ Settle \/ Replan \/ SetKillSwitch \/ RequestRollback
  \/ \E p \in Parts : \E d \in {"APPROVED", "REJECTED"} : Decide(p, d)
  \/ \E p \in Parts : Expire(p)
  \/ \E m \in Machines : (\E p \in Parts : PlanApproved(m, p)) \/ CheckKillSwitch(m)
                           \/ RunTask(m) \/ TaskRaises(m)
  \/ \E m \in Machines \cup {Back} : Retry(m)
  \/ \E x \in Invoked : Executes(x) \/ RollsBack(x) \/ Dies(x)
  \/ \E p \in Parts : GoodsReceiptDue(p) \/ Monitors(p)

Spec == Init /\ [][Next]_vars

\* An invocation runs to its end or dies, and Step Functions takes the next step.
Fairness ==
  /\ \A m \in Machines : WF_vars(CheckKillSwitch(m)) /\ WF_vars(RunTask(m))
  /\ \A x \in Invoked : WF_vars(Executes(x)) /\ WF_vars(RollsBack(x))

FairSpec == Spec /\ Fairness
-----------------------------------------------------------------------------
(* Properties *)

\* What became of a part, as PartExecution tells it.
Phase(p) ==
  CASE undone[p] = "SUCCEEDED" -> "withdrawn"
    [] undone[p] = "PENDING"   -> "withdrawing"
    [] undone[p] = "NONE" /\ exec[p] = "SUCCEEDED" -> "completed"
    [] undone[p] = "NONE" /\ exec[p] = "PENDING"   -> "writing"
    [] OTHER -> "open"

Part(p) == INSTANCE PartExecution WITH
  N <- 2, Kind <- [i \in 1..2 |-> "sto"],
  phase <- Phase(p), live <- live[p], gone <- gone[p]

\* Whatever machines, retries, duplicate announcements and rollbacks meet, each part is
\* executed and withdrawn as if one invocation had done it (service.py:239, BR-09).
EachPartIsOrderly ==
  /\ \A p \in Parts : Part(p)!PInit
  /\ [][\A p \in Parts : Part(p)!PNext \/ UNCHANGED <<Phase(p), live[p], gone[p]>>]_vars

\* One machine executed the part, its task never ran twice, and no task of it failed.
Undisturbed(m) ==
  /\ "stopped" \notin mishaps
  /\ machine[m].attempt = 1
  /\ \A n \in Machines \ {m} : machine[n].state = "off"

\* Every move of the case was made that a task tried.
Followed == mishaps \cap {"overtaken", "lost"} = {}

\* Where a finished machine leaves the part and, for a plan of one part whose case followed
\* every move, the case: completed work is monitored, a stale plan is planned again, a failure
\* is undone in SAP or marked for a human (service.py:366-393, execution_workflow.py:96).
OutcomeIsRecorded ==
  \A m \in Machines : Undisturbed(m) /\ Len(route) = 1 =>
    /\ machine[m].state = "Done" => exec[1] = "SUCCEEDED"
    /\ machine[m].state = "ReturnedToPlanning" => live[1] = {}
    /\ machine[m].state = "Escalated" => exec[1] = "PENDING"
    /\ Followed =>
         /\ machine[m].state = "Done" => status \in {"MONITORING", "REOPENED", "CLOSED", "ROLLED_BACK"}
         /\ machine[m].state = "ReturnedToPlanning" => status = "INVESTIGATING"
         /\ machine[m].state = "Escalated" => status = "FAILED_ROLLED_BACK"

\* A rollback reported done has taken back every part that had succeeded when the
\* approver asked for it (FR-EXE-08, service.py:392).
RollbackReachesAll ==
  request = "DONE" => \A p \in asked : undone[p] = "SUCCEEDED" /\ live[p] = {}

\* A case closes only when its Tier 2 parts, or its only part, were executed and their
\* goods received, however the checks of the parts overlap (monitor/handler.py:110).
ClosedIsReceived ==
  status = "CLOSED" =>
    \A p \in InRoute : route[p] = 2 \/ Len(route) = 1 => exec[p] = "SUCCEEDED" /\ p \in received

\* An execution that nobody halts, of which no task is invoked twice and no move is lost,
\* leaves EXECUTING: it is monitored, returned to planning or failed
\* (execution_workflow.py:70-130).
Repeated == \E m \in Machines : machine[m].attempt > 1
ExecutionEnds == status = "EXECUTING" ~> (status # "EXECUTING" \/ Repeated \/ mishaps \cap {"stopped", "lost"} # {})

\* "Every task is idempotent, so the retries here are safe" (execution_workflow.py:6): a
\* machine that ends Escalated, for a plan of one part, has not executed it.
RetriesAreSafe ==
  \A m \in Machines : machine[m].state = "Escalated" /\ machine[m].part = 1
                        /\ (\A n \in Machines \ {m} : machine[n].state = "off")
                      => exec[1] # "SUCCEEDED"
=============================================================================
