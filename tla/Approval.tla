------------------------------ MODULE Approval ------------------------------
(***************************************************************************)
(* One case from plan to execution: the agent proposes a plan version      *)
(* (run_starter, tools/case_tools.py), the verifier verifies and routes it *)
(* (verifier/service.py), an approver decides its Tier 2 part, a timer     *)
(* expires it, a portfolio solve of another case supersedes it             *)
(* (routing/store.py), the execution workflow starts on what was approved  *)
(* (execution/service.py). Each is a Lambda invocation that reads items of *)
(* the case one at a time and writes under conditions on what it read; an  *)
(* event may start several. The tier of a plan and the sizes a portfolio   *)
(* gives are choices here.                                                 *)
(***************************************************************************)
EXTENDS Naturals, FiniteSets

CONSTANTS
  Callers,      \* concurrent invocations
  Approvers,    \* numbered from 1 in the order eligible() sorts them: smallest limit first
  MaxVersion,   \* bound: plan versions of the case
  SlowTimers,   \* may a timer's invocation outlast the time to the deadline?
  Bounds        \* what may happen in one behaviour: [
                \*   roles: the kinds of invocation that may run; "decide" approves, or
                \*     rejects where there is "reject" too,
                \*   versions: plan versions of the case,
                \*   crashes: may an invocation stop between two of its calls?
                \*   adminsAct: may limits and the kill switch be changed meanwhile?
                \*   canStarve: may a portfolio solve leave the case nothing to run?
                \*   late: may an invocation move a waiting case on after the case got
                \*     another plan version than the one it read?]

ASSUME ApproversAreOrdered == IsFiniteSet(Approvers) /\ Approvers \subseteq Nat /\ 0 \notin Approvers
ASSUME VersionsExist == MaxVersion \in Nat \ {0}
ASSUME SlowTimersIsBoolean == SlowTimers \in BOOLEAN
ASSUME BoundsAreBounds ==
  Bounds \subseteq
    [roles : SUBSET {"plan", "verify", "decide", "reject", "expire", "reallocate", "execute"},
     versions : 1..MaxVersion, crashes : BOOLEAN, adminsAct : BOOLEAN, canStarve : BOOLEAN,
     late : BOOLEAN]

Versions == 1..MaxVersion

NoOne == 0

VARIABLES
  status,       \* META.status of the case
  version,      \* META.planVersion; 0: no plan yet
  active,       \* META.activeRunId is set
  plans,        \* versions with a PLAN# item
  resized,      \* those that are the optimizer's sizing (resizedBy)
  reallocated,  \* those a solve of another case proposed (reallocatedFor)
  proposed,     \* versions announced by a PlanProposed event
  route,        \* ROUTE# item of each version: its tier, "split", or "NONE"
  part,         \* the Tier 2 PART# item of each version
  time,         \* of each Tier 2 part: 1 past its reminder, 2 past its deadline
  timers,       \* {<<v, 1>>, <<v, 2>>}: reminder and deadline schedules that exist
  approved,     \* <<v, tier>>: PlanApproved events in the outbox
  limit,        \* APPR# item of each approver
  kill,         \* CFG#KILL_SWITCH is on
  call,         \* what each invocation is doing and the values it has read
  bound         \* the member of Bounds this behaviour keeps to; never changes

case == <<status, version, active>>
stored == <<plans, resized, reallocated, proposed>>
routed == <<route, part, approved>>
clock == <<time, timers>>
admin == <<limit, kill, bound>>

vars == <<status, version, active, plans, resized, reallocated, proposed, route,
          part, time, timers, approved, limit, kill, call, bound>>

Statuses == {"TRIAGED", "INVESTIGATING", "PLAN_PROPOSED", "VERIFIED", "AUTO_APPROVED",
             "AWAITING_APPROVAL", "APPROVED", "REJECTED", "EXECUTING", "MONITORING",
             "ESCALATED", "FAILED_ROLLED_BACK"}

\* TRANSITIONS, without the states of waiting, reopening and closing.
Targets == [s \in Statuses |->
  CASE s = "TRIAGED"            -> {"INVESTIGATING"}
    [] s = "INVESTIGATING"      -> {"PLAN_PROPOSED", "ESCALATED"}
    [] s = "PLAN_PROPOSED"      -> {"VERIFIED", "INVESTIGATING"}
    [] s = "VERIFIED"           -> {"AUTO_APPROVED", "AWAITING_APPROVAL", "ESCALATED"}
    [] s = "AWAITING_APPROVAL"  -> {"APPROVED", "REJECTED", "INVESTIGATING", "ESCALATED"}
    [] s \in {"AUTO_APPROVED", "APPROVED"} -> {"EXECUTING"}
    [] s = "EXECUTING"          -> {"MONITORING", "FAILED_ROLLED_BACK", "INVESTIGATING"}
    [] s \in {"ESCALATED", "REJECTED"} -> {"INVESTIGATING"}
    [] OTHER -> {}]

Startable == {"TRIAGED", "PLAN_PROPOSED", "REJECTED", "ESCALATED"}

Part == [rev : Nat,
         approver : Approvers \cup {NoOne},
         decision : {"NONE", "APPROVED", "REJECTED"},
         reminded : BOOLEAN,
         expired : BOOLEAN,
         missed : Approvers \cup {NoOne},   \* expiredApprover
         superseded : BOOLEAN]

NewPart(a) == [rev |-> 0, approver |-> a, decision |-> "NONE", reminded |-> FALSE,
               expired |-> FALSE, missed |-> NoOne, superseded |-> FALSE]

\* An approver limit as seeded, or as an admin edit left it: enough or too low.
Limits == {"granted", "edited", "short"}

Running == {"moveAuto", "moveApproved", "moveExecuting", "running"}
Pcs == {"idle", "claimRun", "enterRun", "plan", "bump", "propose", "endRun",
        "resume", "solve", "storeResized", "bumpResized", "emitResized", "verify", "route",
        "save", "settle", "reminderTimer", "deadlineTimer",
        "readRoute", "readPart", "checkLimit", "decide", "reject",
        "tick", "findBackup", "expire", "remind", "escalate",
        "readParts", "reallocate", "authorize", "enter"} \cup Running

Call == [pc : Pcs,
         v : 0..MaxVersion,
         who : Approvers \cup {NoOne},      \* the approver acting, assigned or next
         what : {"NONE", "APPROVED", "REJECTED", "1", "2", "3", "split"},
         when : 0..2,                       \* the clock as this invocation read it
         st : Statuses \cup {"NONE"},       \* the status it read
         rev : Nat]                         \* the part's revision it read

Idle == [pc |-> "idle", v |-> 0, who |-> NoOne, what |-> "NONE", when |-> 0,
         st |-> "NONE", rev |-> 0]

At(c, pc) == call[c].pc = pc

Goto(c, pc) == call' = [call EXCEPT ![c].pc = pc]

\* The invocation starts with these values, or ends: it returns or raises.
Begin(c, r) == At(c, "idle") /\ call' = [call EXCEPT ![c] = r]

End(c) == call' = [call EXCEPT ![c] = Idle]

HasPart(v) == v \in Versions /\ route[v] \in {"2", "split"}

Pending(v) == HasPart(v) /\ part[v].decision = "NONE" /\ ~part[v].expired
                /\ ~part[v].superseded

\* eligible(limits(case_id)): who has a sufficient limit and let no approval of
\* this case expire.
Sufficient(a) == limit[a] \in {"granted", "edited"}

\* Mutant: an approver who let an approval of this case expire is asked again.
MBackups == {a \in Approvers : Sufficient(a)}

Backups == {a \in Approvers : Sufficient(a) /\ \A v \in Versions : part[v].missed # a}

\* _escalate, start and decide leave a waiting case for another status under the
\* condition that it is waiting still, whatever plan it waits for by then.
InTime(c) == bound.late \/ status # "AWAITING_APPROVAL" \/ version = call[c].v

First(S, a) == a \in S /\ \A b \in S : a <= b

-----------------------------------------------------------------------------
(* run_starter.start, then the agent's run *)

ExpiredPending == HasPart(version) /\ part[version].expired /\ part[version].decision = "NONE"

ReadCase(c) ==
  /\ status \in Startable \/ (status = "AWAITING_APPROVAL" /\ ExpiredPending)
  /\ Begin(c, [Idle EXCEPT !.pc = "claimRun", !.st = status, !.v = version])
  /\ UNCHANGED <<case, stored, routed, clock, admin>>

ClaimRun(c) ==
  /\ At(c, "claimRun")
  /\ IF active THEN End(c) ELSE Goto(c, "enterRun")
  /\ active' = TRUE
  /\ UNCHANGED <<status, version, stored, routed, clock, admin>>

\* The case still has the status that was read, or the run is released.
EnterRun(c) ==
  /\ At(c, "enterRun")
  /\ InTime(c)
  /\ IF status = call[c].st
     THEN status' = "INVESTIGATING" /\ Goto(c, "plan") /\ UNCHANGED active
     ELSE active' = FALSE /\ End(c) /\ UNCHANGED status
  /\ UNCHANGED <<version, stored, routed, clock, admin>>

\* propose_plan stores the next version; one that exists already fails the run.
StorePlan(c) ==
  /\ At(c, "plan")
  /\ status = "INVESTIGATING" /\ version < bound.versions
  /\ IF version + 1 \in plans
     THEN Goto(c, "endRun") /\ UNCHANGED plans
     ELSE /\ plans' = plans \cup {version + 1}
          /\ call' = [call EXCEPT ![c].pc = "bump", ![c].v = version + 1]
  /\ UNCHANGED <<case, resized, reallocated, proposed, routed, clock, admin>>

BumpVersion(c) ==
  /\ At(c, "bump")
  /\ version' = call[c].v
  /\ Goto(c, "propose")
  /\ UNCHANGED <<status, active, stored, routed, clock, admin>>

\* Mutant: the event announces the version that follows the stored one.
MProposePlan(c) ==
  /\ At(c, "propose")
  /\ Goto(c, "endRun")
  /\ IF status = "INVESTIGATING"
     THEN status' = "PLAN_PROPOSED" /\ proposed' = proposed \cup {call[c].v + 1}
     ELSE UNCHANGED <<status, proposed>>
  /\ UNCHANGED <<version, active, plans, resized, reallocated, routed, clock, admin>>

ProposePlan(c) ==
  /\ At(c, "propose")
  /\ Goto(c, "endRun")
  /\ IF status = "INVESTIGATING"
     THEN status' = "PLAN_PROPOSED" /\ proposed' = proposed \cup {call[c].v}
     ELSE UNCHANGED <<status, proposed>>
  /\ UNCHANGED <<version, active, plans, resized, reallocated, routed, clock, admin>>

\* The run ends: with a plan, or escalated (or waiting, which restarts alike).
EndRun(c) ==
  /\ call[c].pc \in {"plan", "endRun"}
  /\ active' = FALSE
  /\ status' = IF status = "INVESTIGATING" THEN "ESCALATED" ELSE status
  /\ End(c)
  /\ UNCHANGED <<version, stored, routed, clock, admin>>

-----------------------------------------------------------------------------
(* verifier: handle of a PlanProposed event *)

Handle(c, v) ==
  /\ v \in proposed /\ route[v] = "NONE" /\ version = v
  /\ \/ /\ status = "PLAN_PROPOSED"
        /\ Begin(c, [Idle EXCEPT !.pc = "solve", !.v = v])
     \/ /\ status = "INVESTIGATING" /\ v \in reallocated /\ ~active
        /\ Begin(c, [Idle EXCEPT !.pc = "resume", !.v = v])
  /\ UNCHANGED <<case, stored, routed, clock, admin>>

ResumeReallocated(c) ==
  /\ At(c, "resume")
  /\ status' = IF status = "INVESTIGATING" THEN "PLAN_PROPOSED" ELSE status
  /\ IF status' = "PLAN_PROPOSED" THEN Goto(c, "solve") ELSE End(c)
  /\ UNCHANGED <<version, active, stored, routed, clock, admin>>

\* The portfolio solve re-sizes this plan, once, or it goes on to verification.
Solve(c) ==
  /\ At(c, "solve")
  /\ \/ Goto(c, "verify")
     \/ call[c].v \notin resized /\ call[c].v < bound.versions /\ Goto(c, "storeResized")
  /\ UNCHANGED <<case, stored, routed, clock, admin>>

StoreResized(c) ==
  LET next == call[c].v + 1 IN
  /\ At(c, "storeResized")
  /\ IF next \in plans THEN End(c) ELSE Goto(c, "bumpResized")
  /\ plans' = plans \cup {next}
  /\ resized' = IF next \in plans THEN resized ELSE resized \cup {next}
  /\ UNCHANGED <<case, reallocated, proposed, routed, clock, admin>>

BumpResized(c) ==
  /\ At(c, "bumpResized")
  /\ IF version = call[c].v
     THEN version' = version + 1 /\ Goto(c, "emitResized")
     ELSE End(c) /\ UNCHANGED version
  /\ UNCHANGED <<status, active, stored, routed, clock, admin>>

EmitResized(c) ==
  /\ At(c, "emitResized")
  /\ proposed' = proposed \cup {call[c].v + 1}
  /\ End(c)
  /\ UNCHANGED <<case, plans, resized, reallocated, routed, clock, admin>>

MarkVerified(c) ==
  /\ At(c, "verify")
  /\ IF status = "PLAN_PROPOSED"
     THEN status' = "VERIFIED" /\ Goto(c, "route")
     ELSE End(c) /\ UNCHANGED status
  /\ UNCHANGED <<version, active, stored, routed, clock, admin>>

\* Tier 1, Tier 2 for the first sufficient approver, both (BR-22), or Tier 3.
Route(c) ==
  /\ At(c, "route")
  /\ \/ \E tier \in {"1", "3"} :
          call' = [call EXCEPT ![c].pc = "save", ![c].what = tier]
     \/ \E tier \in {"2", "split"}, a \in Approvers :
          /\ First(Backups, a)
          /\ call' = [call EXCEPT ![c].pc = "save", ![c].what = tier, ![c].who = a]
  /\ UNCHANGED <<case, stored, routed, clock, admin>>

\* A version routed by another invocation keeps that route, and this one settles the
\* case by its own; if it was routed just now, or is not current, the transaction fails.
Save(c) ==
  LET v == call[c].v  tier == call[c].what IN
  /\ At(c, "save")
  /\ \/ /\ route[v] = "NONE" /\ version = v
        /\ route' = [route EXCEPT ![v] = tier]
        /\ part' = [part EXCEPT ![v] = NewPart(call[c].who)]
        /\ approved' = approved \cup (IF tier \in {"1", "split"} THEN {<<v, 1>>} ELSE {})
        /\ Goto(c, "settle")
     \/ route[v] # "NONE" /\ Goto(c, "settle") /\ UNCHANGED routed
     \/ (route[v] # "NONE" \/ version # v) /\ End(c) /\ UNCHANGED routed
  /\ UNCHANGED <<case, stored, clock, admin>>

NextStatus(tier) ==
  CASE tier = "1" -> "AUTO_APPROVED" [] tier = "3" -> "ESCALATED" [] OTHER -> "AWAITING_APPROVAL"

\* _settle: a case that is no longer VERIFIED raises, before the timers exist.
Settle(c) ==
  LET tier == call[c].what IN
  /\ At(c, "settle")
  /\ IF status = "VERIFIED"
     THEN /\ status' = NextStatus(tier)
          /\ IF tier \in {"2", "split"} THEN Goto(c, "reminderTimer") ELSE End(c)
     ELSE End(c) /\ UNCHANGED status
  /\ UNCHANGED <<version, active, stored, routed, clock, admin>>

SetTimer(c) ==
  /\ \/ /\ At(c, "reminderTimer")
        /\ timers' = timers \cup {<<call[c].v, 1>>}
        /\ Goto(c, "deadlineTimer")
     \/ /\ At(c, "deadlineTimer")
        /\ timers' = timers \cup {<<call[c].v, 2>>}
        /\ End(c)
  /\ UNCHANGED <<case, stored, routed, time, admin>>

-----------------------------------------------------------------------------
(* api.approve and ControlStore.decide *)

\* Approver a decides on the plan version whose hash he was shown.
Approve(c, v, a, d) ==
  /\ HasPart(v)
  /\ Begin(c, [Idle EXCEPT !.pc = "readRoute", !.v = v, !.who = a, !.what = d,
                           !.when = time[v],
                           !.st = IF d = "REJECTED" /\ status = "AWAITING_APPROVAL"
                                    THEN status ELSE "NONE"])
  /\ UNCHANGED <<case, stored, routed, clock, admin>>

ReadRoute(c) ==
  /\ At(c, "readRoute")
  /\ IF version = call[c].v THEN Goto(c, "readPart") ELSE End(c)
  /\ UNCHANGED <<case, stored, routed, clock, admin>>

\* An approval decided before or assigned to another is refused; a late one
\* runs the timer in this call.
ReadPart(c) ==
  LET p == part[call[c].v] IN
  /\ At(c, "readPart")
  /\ IF p.decision # "NONE" \/ p.approver # call[c].who THEN End(c)
     ELSE IF p.expired \/ call[c].when = 2 THEN Goto(c, "tick")
     ELSE call' = [call EXCEPT ![c].pc = "checkLimit", ![c].rev = p.rev,
                                        ![c].when = 0]
  /\ UNCHANGED <<case, stored, routed, clock, admin>>

\* The APPR# item must parse: the fields an admin edit adds are refused.
CheckLimit(c) ==
  /\ At(c, "checkLimit")
  /\ IF limit[call[c].who] = "granted" THEN Goto(c, "decide") ELSE End(c)
  /\ UNCHANGED <<case, stored, routed, clock, admin>>

\* Mutant: the transaction checks the approval's revision only.
MStillDecidable(c) == part[call[c].v].rev = call[c].rev

\* The transaction's conditions: approval, plan version, kill switch and limit
\* are as this call read them.
StillDecidable(c) ==
  /\ part[call[c].v].rev = call[c].rev
  /\ version = call[c].v
  /\ ~kill
  /\ Sufficient(call[c].who)

Decide(c) ==
  LET v == call[c].v  d == call[c].what IN
  /\ At(c, "decide")
  /\ IF StillDecidable(c)
     THEN /\ part' = [part EXCEPT ![v].decision = d, ![v].rev = @ + 1]
          /\ approved' = approved \cup (IF d = "APPROVED" THEN {<<v, 2>>} ELSE {})
          /\ IF d = "REJECTED" /\ call[c].st = "AWAITING_APPROVAL"
             THEN Goto(c, "reject") ELSE End(c)
     ELSE End(c) /\ UNCHANGED <<part, approved>>
  /\ UNCHANGED <<case, stored, route, clock, admin>>

RejectCase(c) ==
  /\ At(c, "reject") /\ InTime(c)
  /\ status' = IF status = "AWAITING_APPROVAL" THEN "REJECTED" ELSE status
  /\ End(c)
  /\ UNCHANGED <<version, active, stored, routed, clock, admin>>

-----------------------------------------------------------------------------
(* ControlStore.tick, invoked by the reminder and the deadline schedule *)

\* A schedule fires once and is deleted; an invocation that stopped is retried.
Timer(c, v) ==
  /\ \E due \in 1..time[v] :
       <<v, due>> \in timers /\ timers' = IF bound.crashes THEN timers ELSE timers \ {<<v, due>>}
  /\ Begin(c, [Idle EXCEPT !.pc = "tick", !.v = v, !.when = time[v]])
  /\ UNCHANGED <<case, stored, routed, time, admin>>

Tick(c) ==
  LET p == part[call[c].v]
      To(pc) == call' = [call EXCEPT ![c].pc = pc, ![c].rev = p.rev,
                                         ![c].who = p.approver, ![c].when = 0] IN
  /\ At(c, "tick")
  /\ IF p.superseded THEN End(c)
     ELSE IF p.expired /\ p.approver = NoOne /\ p.decision = "NONE" THEN To("escalate")
     ELSE IF p.decision # "NONE" \/ p.expired THEN End(c)
     ELSE IF call[c].when = 2 THEN To("findBackup")
     ELSE IF call[c].when = 1 /\ ~p.reminded THEN To("remind")
     ELSE End(c)
  /\ UNCHANGED <<case, stored, routed, clock, admin>>

FindBackup(c) ==
  LET left == Backups \ {call[c].who} IN
  /\ At(c, "findBackup")
  /\ \/ \E a \in Approvers : First(left, a) /\ call' = [call EXCEPT ![c].pc = "expire", ![c].who = a]
     \/ left = {} /\ call' = [call EXCEPT ![c].pc = "expire", ![c].who = NoOne]
  /\ UNCHANGED <<case, stored, routed, clock, admin>>

\* Mutant: the expiry is put whatever happened since it read the approval.
MExpire(c) ==
  LET v == call[c].v IN
  /\ At(c, "expire")
  /\ part' = [part EXCEPT ![v].expired = TRUE, ![v].missed = part[v].approver,
                          ![v].approver = call[c].who, ![v].rev = @ + 1]
  /\ IF call[c].who = NoOne THEN Goto(c, "escalate") ELSE End(c)
  /\ UNCHANGED <<case, stored, route, approved, clock, admin>>

\* To the backup approver, who gets the plan once it is verified again; with
\* none left the case escalates.
Expire(c) ==
  LET v == call[c].v IN
  /\ At(c, "expire")
  /\ IF part[v].rev = call[c].rev
     THEN /\ part' = [part EXCEPT ![v].expired = TRUE, ![v].missed = part[v].approver,
                                  ![v].approver = call[c].who, ![v].rev = @ + 1]
          /\ IF call[c].who = NoOne THEN Goto(c, "escalate") ELSE End(c)
     ELSE End(c) /\ UNCHANGED part
  /\ UNCHANGED <<case, stored, route, approved, clock, admin>>

Remind(c) ==
  LET v == call[c].v IN
  /\ At(c, "remind")
  /\ part' = IF part[v].rev = call[c].rev
             THEN [part EXCEPT ![v].reminded = TRUE, ![v].rev = @ + 1] ELSE part
  /\ End(c)
  /\ UNCHANGED <<case, stored, route, approved, clock, admin>>

\* Mutant: nobody is told that no approver is left.
MEscalate(c) == At(c, "escalate") /\ End(c) /\ UNCHANGED <<case, stored, routed, clock, admin>>

Escalate(c) ==
  /\ At(c, "escalate") /\ InTime(c)
  /\ status' = IF status = "AWAITING_APPROVAL" THEN "ESCALATED" ELSE status
  /\ End(c)
  /\ UNCHANGED <<version, active, stored, routed, clock, admin>>

-----------------------------------------------------------------------------
(* ControlStore.reallocate, called by the verifier of another case *)

\* A plan that is the optimizer's sizing already is never re-proposed.
SeeMember(c) ==
  /\ status = "AWAITING_APPROVAL" /\ version \in plans \ resized
  /\ Begin(c, [Idle EXCEPT !.pc = "readParts", !.v = version])
  /\ UNCHANGED <<case, stored, routed, clock, admin>>

\* Nothing but one undecided, unexpired approval may be superseded.
ReadParts(c) ==
  LET v == call[c].v IN
  /\ At(c, "readParts")
  /\ IF route[v] = "2" /\ Pending(v)
     THEN call' = [call EXCEPT ![c].pc = "reallocate", ![c].rev = part[v].rev]
     ELSE End(c)
  /\ UNCHANGED <<case, stored, routed, clock, admin>>

Unchanged(c) ==
  /\ status = "AWAITING_APPROVAL"
  /\ version = call[c].v
  /\ part[call[c].v].rev = call[c].rev

Supersede(v) == part' = [part EXCEPT ![v].superseded = TRUE, ![v].rev = @ + 1]

\* The optimizer's sizing becomes the next version.
Reallocate(c) ==
  LET v == call[c].v IN
  /\ At(c, "reallocate")
  /\ v < bound.versions
  /\ IF Unchanged(c) /\ v + 1 \notin plans
     THEN /\ status' = "INVESTIGATING"
          /\ version' = v + 1
          /\ plans' = plans \cup {v + 1}
          /\ resized' = resized \cup {v + 1}
          /\ reallocated' = reallocated \cup {v + 1}
          /\ proposed' = proposed \cup {v + 1}
          /\ Supersede(v)
     ELSE UNCHANGED <<status, version, stored, part>>
  /\ End(c)
  /\ UNCHANGED <<active, route, approved, clock, admin>>

\* Nothing is left for the case to run: it escalates under the same version.
Starve(c) ==
  /\ At(c, "reallocate")
  /\ bound.canStarve
  /\ IF Unchanged(c)
     THEN status' = "ESCALATED" /\ Supersede(call[c].v)
     ELSE UNCHANGED <<status, part>>
  /\ End(c)
  /\ UNCHANGED <<version, active, stored, route, approved, clock, admin>>

-----------------------------------------------------------------------------
(* ExecutionService: from an approved part to a running execution and its end *)

Start(c, v, tier) ==
  /\ <<v, tier>> \in approved
  /\ Begin(c, [Idle EXCEPT !.pc = "authorize", !.v = v, !.what = IF tier = 1 THEN "1" ELSE "2"])
  /\ UNCHANGED <<case, stored, routed, clock, admin>>

\* _authorized: a Tier 1 part, or one approved in time, of the current version.
Authorize(c) ==
  LET v == call[c].v IN
  /\ At(c, "authorize")
  /\ IF /\ version = v
        /\ call[c].what = "1" \/ (part[v].decision = "APPROVED" /\ ~part[v].expired)
     THEN Goto(c, "enter") ELSE End(c)
  /\ UNCHANGED <<case, stored, routed, clock, admin>>

\* Mutant: the path is that of an approved part, whatever the part's tier.
MEnterExecution(c) ==
  /\ At(c, "enter")
  /\ Goto(c, CASE status = "VERIFIED" -> "moveAuto"
               [] status = "AWAITING_APPROVAL" -> "moveApproved"
               [] status \in {"AUTO_APPROVED", "APPROVED"} -> "moveExecuting"
               [] OTHER -> "running")
  /\ UNCHANGED <<case, stored, routed, clock, admin>>

\* The path of moves depends on the status read here; each move reads it again.
EnterExecution(c) ==
  /\ At(c, "enter")
  /\ Goto(c, CASE status = "VERIFIED" -> "moveAuto"
               [] status = "AWAITING_APPROVAL" /\ call[c].what = "2" -> "moveApproved"
               [] status \in {"AUTO_APPROVED", "APPROVED"} -> "moveExecuting"
               [] OTHER -> "running")
  /\ UNCHANGED <<case, stored, routed, clock, admin>>

\* _move: to where the case can go from the status it has now, or nowhere.
Move(s) == status' = IF s \in Targets[status] THEN s ELSE status

MoveIn(c) ==
  /\ \/ At(c, "moveAuto") /\ Move("AUTO_APPROVED") /\ Goto(c, "moveExecuting")
     \/ At(c, "moveApproved") /\ Move("APPROVED") /\ Goto(c, "moveExecuting")
     \/ At(c, "moveExecuting") /\ Move("EXECUTING") /\ Goto(c, "running")
  /\ UNCHANGED <<version, active, stored, routed, clock, admin>>

\* MarkMonitoring, ReturnToPlanning or MarkFailedRolledBack; a halt moves nothing.
Finish(c) ==
  /\ At(c, "running")
  /\ \/ \E s \in {"MONITORING", "INVESTIGATING", "FAILED_ROLLED_BACK"} : Move(s)
     \/ UNCHANGED status
  /\ End(c)
  /\ UNCHANGED <<version, active, stored, routed, clock, admin>>

-----------------------------------------------------------------------------
(* the clock, administrators, stopped invocations *)

\* The clock matters to an approval only while it is pending.
TimePasses(v) ==
  /\ Pending(v) /\ time[v] < 2
  /\ SlowTimers \/ \A c \in Callers : ~(call[c].pc \in {"tick", "remind"} /\ call[c].v = v)
  /\ time' = [time EXCEPT ![v] = @ + 1]
  /\ UNCHANGED <<case, stored, routed, timers, admin, call>>

\* An edit adds changedBy and changedAt to the item; the limit may be too low now.
EditLimit(a) ==
  /\ bound.adminsAct
  /\ \E l \in {"edited", "short"} : limit' = [limit EXCEPT ![a] = l]
  /\ UNCHANGED <<case, stored, routed, clock, kill, call, bound>>

SwitchKill ==
  /\ bound.adminsAct
  /\ kill' = ~kill
  /\ UNCHANGED <<case, stored, routed, clock, limit, call, bound>>

Stop(c) ==
  /\ bound.crashes /\ ~At(c, "idle")
  /\ End(c)
  /\ UNCHANGED <<case, stored, routed, clock, admin>>

Init ==
  /\ status = "TRIAGED" /\ version = 0 /\ active = FALSE
  /\ plans = {} /\ resized = {} /\ reallocated = {} /\ proposed = {}
  /\ route = [v \in Versions |-> "NONE"]
  /\ part = [v \in Versions |-> NewPart(NoOne)]
  /\ time = [v \in Versions |-> 0]
  /\ timers = {} /\ approved = {}
  /\ limit \in [Approvers -> {"granted", "short"}]
  /\ kill = FALSE
  /\ bound \in Bounds
  /\ call = [c \in Callers |-> Idle]

Plans(c) ==
  \/ ReadCase(c) \/ ClaimRun(c) \/ EnterRun(c) \/ StorePlan(c) \/ BumpVersion(c)
  \/ ProposePlan(c) \/ EndRun(c)

Verifies(c) ==
  \/ \E v \in Versions : Handle(c, v)
  \/ ResumeReallocated(c) \/ Solve(c) \/ StoreResized(c) \/ BumpResized(c)
  \/ EmitResized(c) \/ MarkVerified(c) \/ Route(c) \/ Save(c) \/ Settle(c) \/ SetTimer(c)

Decides(c) ==
  \/ \E v \in Versions, a \in Approvers : Approve(c, v, a, "APPROVED")
  \/ \E v \in Versions, a \in Approvers :
       "reject" \in bound.roles /\ Approve(c, v, a, "REJECTED")
  \/ ReadRoute(c) \/ ReadPart(c) \/ CheckLimit(c) \/ Decide(c) \/ RejectCase(c)

Expires(c) ==
  \/ \E v \in Versions : Timer(c, v)
  \/ Tick(c) \/ FindBackup(c) \/ Expire(c) \/ Remind(c) \/ Escalate(c)

Reallocates(c) == SeeMember(c) \/ ReadParts(c) \/ Reallocate(c) \/ Starve(c)

Executes(c) ==
  \/ \E v \in Versions, tier \in {1, 2} : Start(c, v, tier)
  \/ Authorize(c) \/ EnterExecution(c) \/ MoveIn(c) \/ Finish(c)

Act(c) ==
  \/ "plan" \in bound.roles /\ Plans(c)
  \/ "verify" \in bound.roles /\ Verifies(c)
  \/ "decide" \in bound.roles /\ Decides(c)
  \/ "expire" \in bound.roles /\ Expires(c)
  \/ "reallocate" \in bound.roles /\ Reallocates(c)
  \/ "execute" \in bound.roles /\ Executes(c)

Next ==
  \/ \E c \in Callers : Act(c) \/ Stop(c)
  \/ \E v \in Versions : TimePasses(v)
  \/ \E a \in Approvers : EditLimit(a)
  \/ SwitchKill

Spec == Init /\ [][Next]_vars

(* Every started invocation goes on. The schedules, PlanProposed and          *)
(* CaseReadyForRun are delivered, each in an invocation of its own: strong    *)
(* fairness, because Callers bounds how many invocations there are at once.   *)
Continues(c) == ~At(c, "idle") /\ Act(c)

ReadyForRun == status = "TRIAGED" \/ (ExpiredPending /\ part[version].approver # NoOne)

Fairness ==
  /\ \A c \in Callers : WF_vars(Continues(c))
  /\ \A v \in Versions :
       /\ WF_vars(TimePasses(v))
       /\ SF_vars(\E c \in Callers : Timer(c, v))
       /\ SF_vars(\E c \in Callers : Handle(c, v))
  /\ SF_vars(ReadyForRun /\ \E c \in Callers : ReadCase(c))

FairSpec == Spec /\ Fairness

-----------------------------------------------------------------------------
(* Properties *)

\* The items, events and calls are of their types.
TypeOK ==
  /\ status \in Statuses /\ version \in 0..MaxVersion /\ active \in BOOLEAN
  /\ plans \subseteq Versions /\ resized \subseteq plans
  /\ reallocated \subseteq resized /\ proposed \subseteq plans
  /\ route \in [Versions -> {"NONE", "1", "2", "3", "split"}]
  /\ part \in [Versions -> Part]
  /\ time \in [Versions -> 0..2]
  /\ timers \subseteq Versions \X {1, 2}
  /\ approved \subseteq Versions \X {1, 2}
  /\ limit \in [Approvers -> Limits]
  /\ kill \in BOOLEAN /\ bound \in Bounds
  /\ call \in [Callers -> Call]

\* An approval is decided, or it expires, or a portfolio solve supersedes it,
\* never two of these (ControlStore.decide, tick and reallocate racing); but one
\* superseded without a new plan version can still be decided.
OneFate ==
  \A v \in Versions :
    LET p == part[v] IN
    /\ ~(p.decision # "NONE" /\ p.expired)
    /\ ~(p.decision # "NONE" /\ p.superseded /\ ~bound.canStarve)
    /\ ~(p.expired /\ p.superseded)

\* BR-23: an approver who let an approval of this case expire is not asked for
\* a later version of its plan (limits(case_id) in route and tick); provided the
\* case does not leave the state in which it waits for an approval while that one
\* is pending, through an execution that returns it to planning or an invocation
\* that is late: the deadline may pass after the later version is assigned.
NeverAskedAgain ==
  "execute" \notin bound.roles /\ ~bound.late =>
    \A v, w \in Versions :
      v < w /\ part[v].missed # NoOne => part[w].approver # part[v].missed

\* At the moment an approval is decided its plan version is the case's current
\* one, it has not expired, the kill switch is off and the approver's limit is
\* still sufficient, whatever changed since decide() read them.
DecisionIsFresh ==
  [][\A v \in Versions :
       part[v].decision # part'[v].decision =>
         /\ part[v].decision = "NONE" /\ ~part[v].expired
         /\ version = v /\ ~kill /\ Sufficient(part[v].approver)]_vars

Decided(v) == part[v].decision = "APPROVED" /\ ~part[v].expired

\* A case is approved only by an approver's decision in time, and executes only
\* what he or the policy (Tier 1) approved: an urgent Tier 1 part that runs first
\* (BR-22) does not take the case past the decision on the rest. The version is the
\* current one or, if the plan moved on after the execution was authorized, an earlier.
OnlyApprovedEnters ==
  /\ status = "APPROVED" => \E v \in 1..version : Decided(v)
  /\ status = "EXECUTING" => \E v \in 1..version : Decided(v) \/ <<v, 1>> \in approved

\* BR-23: a case does not wait for ever for an approval nobody decides: the
\* deadline passes to a backup approver through a new run, or the case escalates.
DeadlineIsKept ==
  LET Waiting == status = "AWAITING_APPROVAL" /\ part[version].decision = "NONE"
  IN  version # 0 /\ Waiting ~> ~Waiting

\* FR-EXE-02: a case returned to planning because its plan was stale gets a new run.
ReplanningStarts ==
  (status = "INVESTIGATING" /\ ~active) ~> (status # "INVESTIGATING" \/ active)
=============================================================================
