------------------------------ MODULE Workflow ------------------------------
(***************************************************************************)
(* Execution of one approved plan part: Workflow.run, _compensate and      *)
(* rollback of services/execution/workflow.py over the durable write       *)
(* journal of journal.py. An executor is one Lambda invocation; a part may *)
(* have several, because Step Functions retries and events come twice.     *)
(* Every journal, ledger and SAP call is a step of its own; an executor    *)
(* may stop between any two, and a call that raises may have had its       *)
(* effect. The ledger's calls are the atomic steps of Reservations.        *)
(***************************************************************************)
EXTENDS Naturals, FiniteSets

CONSTANTS
  Executors,    \* invocations of run() or rollback() for this part
  N,            \* number of steps, in execution order
  Kind,         \* [1..N -> Kinds]
  Donors,       \* donor stocks
  Donor,        \* [1..N -> Donors]: where a CREATE_STO takes its stock
  Qty,          \* [1..N -> Nat \ {0}]: its quantity
  LostAnswers   \* values of lossy the system may have

Steps == 1..N

Kinds == {"sto", "change", "irreversible"}

ASSUME StepsExist == N \in Nat \ {0}
ASSUME KindIsKind == Kind \in [Steps -> Kinds]
ASSUME DonorIsDonor == Donor \in [Steps -> Donors]
ASSUME QtyIsPositive == Qty \in [Steps -> Nat \ {0}]
ASSUME LostIsBoolean == LostAnswers \subseteq BOOLEAN
\* load(): reversible writes first
ASSUME ReversibleFirst ==
  \A i, j \in Steps : i < j /\ Kind[i] = "irreversible" => Kind[j] = "irreversible"

VARIABLES
  exec,         \* status of the journal key EXEC#case#version#part
  rollback,     \* status of ROLLBACK#EXEC#...
  step,         \* status of the journal key of each step
  undo,         \* status of its UNDO# key
  res,          \* this part's ledger reservation on each donor
  sap,          \* state of each step's document in SAP
  writes,       \* SAP writes of each step that took effect (history)
  undos,        \* SAP undos of each step that took effect (history)
  lossy,        \* may a journal or ledger call take effect and still raise? Never changes
  said,         \* kinds of audit events written for this part (history)
  run           \* what each executor is doing

journal == <<exec, rollback, step, undo>>

world == <<sap, writes, undos>>

vars == <<exec, rollback, step, undo, res, sap, writes, undos, lossy, said, run>>

Statuses == {"NONE", "READY", "PENDING", "SUCCEEDED", "UNDONE"}

Transfers == {i \in Steps : Kind[i] = "sto"}

\* Where an exception of run() is caught: by the handler that gives the
\* reservations back, by the one that compensates, or by the caller.
Preparing == {"reserve", "saveUndo"}
Writing == {"kill", "claimStep", "apply", "complete", "verify"}
Undoing == {"compensate", "prepareUndo", "claimUndo", "undoSap", "completeUndo", "markUndone"}
Closing == {"settle", "release", "close", "completeRollback"}
Starting == {"prepareExec", "claimExec", "commitExec", "records", "revalidate",
             "prepareRollback", "claimRollback", "commitRollback", "scan"}
Active == Starting \cup Preparing \cup {"unhold", "auditUndo"} \cup Writing
            \cup {"finish", "completeExec"} \cup Undoing \cup Closing

Outcomes == {"NONE", "COMPLETED", "STALE", "HALTED", "FAILED", "UNCERTAIN",
             "ROLLED_BACK", "REFUSED", "CRASHED"}

Run == [pc : {"new", "ended"} \cup Active,
        mode : {"run", "rollback"},
        i : 1..N,              \* the step the loop is at
        mine : SUBSET Steps,   \* transfers held: the list "held", or all of them
        done : SUBSET Steps,   \* the list "completed", undone from its end
        out : Outcomes]

Fresh(pc, out) == [pc |-> pc, mode |-> "run", i |-> 1, mine |-> {}, done |-> {}, out |-> out]

At(e, pc) == run[e].pc = pc

Goto(e, pc) == run' = [run EXCEPT ![e].pc = pc]

End(e, out) == run' = [run EXCEPT ![e] = Fresh("ended", out)]

\* An exception leaves the executor's current call.
Raised(e) ==
  IF run[e].pc \in Preparing THEN Goto(e, "unhold")
  ELSE IF run[e].pc \in Writing THEN Goto(e, "compensate")
  ELSE End(e, "FAILED")

\* A journal or ledger call took effect: its answer arrives, or is lost.
Answered(e, pc) ==
  \/ Goto(e, pc)
  \/ lossy /\ Raised(e)

\* A call raises and has changed nothing.
Raise(e) ==
  /\ run[e].pc \in Active
  /\ Raised(e)
  /\ UNCHANGED <<journal, res, world, said>>

\* The invocation stops for good, whatever it was doing.
Crash(e) ==
  /\ run[e].pc \in Active
  /\ End(e, "CRASHED")
  /\ UNCHANGED <<journal, res, world, said>>

\* Journal.complete and mark_undone are conditional updates too: their condition
\* is a guard below, and one that fails is a Raise.

\* Journal.prepare: a key that exists is kept as it is.
Prepared(status) == IF status = "NONE" THEN "READY" ELSE status

\* Mutant: an attempt that was interrupted may be made again.
MClaimable(status) == status \in {"READY", "PENDING"}

\* Journal.claim: only a key that was never attempted can be claimed.
Claimable(status) == status = "READY"

-----------------------------------------------------------------------------
(* run: claiming the execution *)

\* Authorised, expanded and allowed by the kill switch; or advise-only.
BeginRun(e) ==
  /\ At(e, "new")
  /\ \/ Goto(e, "prepareExec")
     \/ End(e, "HALTED")
  /\ UNCHANGED <<journal, res, world, said>>

PrepareExec(e) ==
  /\ At(e, "prepareExec")
  /\ exec' = Prepared(exec)
  /\ Goto(e, "claimExec")
  /\ UNCHANGED <<rollback, step, undo, res, world, said>>

\* claim() reads the key before it updates it: a finished execution is replayed
\* from the journal, a claimed one refused.
ClaimExec(e) ==
  /\ At(e, "claimExec")
  /\ IF exec = "SUCCEEDED" THEN End(e, "COMPLETED")
     ELSE IF Claimable(exec) THEN Goto(e, "commitExec")
     ELSE End(e, "UNCERTAIN")
  /\ UNCHANGED <<journal, res, world, said>>

CommitExec(e) ==
  /\ At(e, "commitExec")
  /\ IF Claimable(exec)
     THEN exec' = "PENDING" /\ Answered(e, "records")
     ELSE End(e, "UNCERTAIN") /\ UNCHANGED exec
  /\ UNCHANGED <<rollback, step, undo, res, world, said>>

\* The step keys are read one by one; only the executor that holds the claim on
\* the execution touches them, so one step reads them all.
ReadRecords(e) ==
  /\ At(e, "records")
  /\ IF \A i \in Steps : step[i] = "SUCCEEDED" THEN End(e, "COMPLETED")
     ELSE IF \E i \in Steps : step[i] \in {"PENDING", "UNDONE"} THEN End(e, "UNCERTAIN")
     ELSE Goto(e, "revalidate")
  /\ UNCHANGED <<journal, res, world, said>>

\* The dependent SAP values are as verified, or the plan is stale.
Revalidate(e) ==
  /\ At(e, "revalidate")
  /\ \/ Goto(e, "reserve")
     \/ End(e, "STALE")
  /\ UNCHANGED <<journal, res, world, said>>

-----------------------------------------------------------------------------
(* run: reservations, then the undo plan *)

Held(q) == [status |-> "HELD", qty |-> q]

NoReservation == [status |-> "NONE", qty |-> 0]

\* The next transfer is granted: new units, or the reservation this part
\* already has on that donor. A conflict raises.
Reserve(e) ==
  /\ At(e, "reserve")
  /\ \E t \in Transfers \ run[e].mine :
       /\ \A u \in Transfers \ run[e].mine : t <= u
       /\ res[Donor[t]] \in {NoReservation, Held(Qty[t])}
       /\ res' = [res EXCEPT ![Donor[t]] = Held(Qty[t])]
       /\ \/ run' = [run EXCEPT ![e].mine = @ \cup {t}]
          \/ lossy /\ Raised(e)
  /\ UNCHANGED <<journal, world, said>>

AllReserved(e) ==
  /\ At(e, "reserve")
  /\ Transfers \subseteq run[e].mine
  /\ Goto(e, "saveUndo")
  /\ UNCHANGED <<journal, res, world, said>>

\* Mutant: the undo plan of a step is saved only just before that step's write.
MSaveUndoFirstOnly(e) ==
  /\ At(e, "saveUndo")
  /\ step' = [step EXCEPT ![run[e].i] = Prepared(@)]
  /\ Goto(e, "auditUndo")
  /\ UNCHANGED <<exec, rollback, undo, res, world, said>>

\* prepare_undo() reads SAP, prepare() stores the undo plan under the step's key.
SaveUndo(e) ==
  LET i == run[e].i IN
  /\ At(e, "saveUndo")
  /\ step' = [step EXCEPT ![i] = Prepared(@)]
  /\ run' = IF i < N THEN [run EXCEPT ![e].i = i + 1]
            ELSE [run EXCEPT ![e].i = 1, ![e].pc = "auditUndo"]
  /\ UNCHANGED <<exec, rollback, undo, res, world, said>>

\* Outside any handler: an audit that fails here leaves the reservations held.
AuditUndoSaved(e) ==
  /\ At(e, "auditUndo")
  /\ Goto(e, "kill")
  /\ UNCHANGED <<journal, res, world, said>>

\* ledger.release: a hold is given back for good; anything else is left as it is.
Release(t) ==
  res' = [res EXCEPT ![Donor[t]] =
            IF @.status = "HELD" THEN [@ EXCEPT !.status = "RELEASED"] ELSE @]

\* The handler of the preparation releases what was held, last first.
Unhold(e) ==
  /\ At(e, "unhold")
  /\ \E t \in run[e].mine :
       /\ \A u \in run[e].mine : u <= t
       /\ Release(t)
       /\ run' = [run EXCEPT ![e].mine = @ \ {t}]
  /\ UNCHANGED <<journal, world, said>>

Unheld(e) ==
  /\ At(e, "unhold")
  /\ run[e].mine = {}
  /\ End(e, "FAILED")
  /\ UNCHANGED <<journal, res, world, said>>

-----------------------------------------------------------------------------
(* run: the writes *)

\* The kill switch is read before every write; a halt compensates nothing.
CheckKillSwitch(e) ==
  /\ At(e, "kill")
  /\ \/ Goto(e, "claimStep") /\ UNCHANGED said
     \/ End(e, "HALTED") /\ said' = said \cup {"EXECUTION_HALTED"}
  /\ UNCHANGED <<journal, res, world>>

\* Nobody else claims a step of this execution, so claim()'s read and its
\* conditional update are one step.
ClaimStep(e) ==
  LET i == run[e].i IN
  /\ At(e, "claimStep")
  /\ IF Claimable(step[i])
     THEN step' = [step EXCEPT ![i] = "PENDING"] /\ Answered(e, "apply")
     ELSE /\ UNCHANGED step
          /\ IF step[i] = "SUCCEEDED"
             THEN run' = [run EXCEPT ![e].pc = "verify", ![e].done = @ \cup {i}]
             ELSE Raised(e)
  /\ UNCHANGED <<exec, rollback, undo, res, world, said>>

\* SAP takes the write; its answer may be lost. A refused write is a Raise: no boundary
\* raises RejectedWrite, for which the journal entry would be marked REJECTED.
Apply(e) ==
  LET i == run[e].i IN
  /\ At(e, "apply")
  /\ sap' = [sap EXCEPT ![i] = "live"]
  /\ writes' = [writes EXCEPT ![i] = @ + 1]
  /\ \/ Goto(e, "complete")
     \/ Raised(e)
  /\ UNCHANGED <<journal, res, undos, said>>

CompleteStep(e) ==
  LET i == run[e].i IN
  /\ At(e, "complete")
  /\ step[i] = "PENDING"
  /\ step' = [step EXCEPT ![i] = "SUCCEEDED"]
  /\ \/ run' = [run EXCEPT ![e].pc = "verify", ![e].done = @ \cup {i}]
     \/ lossy /\ Raised(e)
  /\ UNCHANGED <<exec, rollback, undo, res, world, said>>

\* Mutant: the loop runs one step too far.
MVerifyStep(e) ==
  /\ At(e, "verify")
  /\ run' = [run EXCEPT ![e].pc = "kill", ![e].i = @ + 1]
  /\ UNCHANGED <<journal, res, world, said>>

\* Mutant: the loop over the steps ends one step early.
MVerifyShort(e) ==
  LET i == run[e].i IN
  /\ At(e, "verify")
  /\ run' = IF i + 1 < N THEN [run EXCEPT ![e].pc = "kill", ![e].i = i + 1]
            ELSE [run EXCEPT ![e].pc = "finish"]
  /\ UNCHANGED <<journal, res, world, said>>

\* SAP shows the written values. (Other values are a Raise.)
VerifyStep(e) ==
  LET i == run[e].i IN
  /\ At(e, "verify")
  /\ run' = IF i < N THEN [run EXCEPT ![e].pc = "kill", ![e].i = i + 1]
            ELSE [run EXCEPT ![e].pc = "finish"]
  /\ UNCHANGED <<journal, res, world, said>>

\* Outside any handler: a failure here leaves every write standing.
Finish(e) ==
  /\ At(e, "finish")
  /\ said' = said \cup {"EXECUTION_COMPLETED"}
  /\ Goto(e, "completeExec")
  /\ UNCHANGED <<journal, res, world>>

CompleteExec(e) ==
  /\ At(e, "completeExec")
  /\ exec = "PENDING"
  /\ exec' = "SUCCEEDED"
  /\ \/ End(e, "COMPLETED")
     \/ lossy /\ Raised(e)
  /\ UNCHANGED <<rollback, step, undo, res, world, said>>

-----------------------------------------------------------------------------
(* _compensate *)

IsLastDone(e, i) == i \in run[e].done /\ \A j \in run[e].done : j <= i

\* Mutant: an irreversible step ends the compensation.
MCompensate(e) ==
  /\ At(e, "compensate")
  /\ \E i \in Steps :
       /\ IsLastDone(e, i)
       /\ run' = IF step[i] = "UNDONE" \/ Kind[i] = "irreversible"
                 THEN [run EXCEPT ![e].done = {}]
                 ELSE [run EXCEPT ![e].i = i, ![e].pc = "prepareUndo"]
  /\ UNCHANGED <<journal, res, world, said>>

\* The loop takes the last completed step. What is undone already or cannot be
\* undone is left to a human; the rest still unwinds.
Compensate(e) ==
  /\ At(e, "compensate")
  /\ \E i \in Steps :
       /\ IsLastDone(e, i)
       /\ run' = IF step[i] = "UNDONE" \/ Kind[i] = "irreversible"
                 THEN [run EXCEPT ![e].done = @ \ {i}]
                 ELSE [run EXCEPT ![e].i = i, ![e].pc = "prepareUndo"]
  /\ UNCHANGED <<journal, res, world, said>>

PrepareUndo(e) ==
  /\ At(e, "prepareUndo")
  /\ undo' = [undo EXCEPT ![run[e].i] = Prepared(@)]
  /\ Goto(e, "claimUndo")
  /\ UNCHANGED <<exec, rollback, step, res, world, said>>

ClaimUndo(e) ==
  LET i == run[e].i IN
  /\ At(e, "claimUndo")
  /\ IF Claimable(undo[i])
     THEN undo' = [undo EXCEPT ![i] = "PENDING"] /\ Answered(e, "undoSap")
     ELSE /\ UNCHANGED undo
          /\ IF undo[i] = "SUCCEEDED" THEN Goto(e, "markUndone") ELSE Raised(e)
  /\ UNCHANGED <<exec, rollback, step, res, world, said>>

\* SAP restores the old values. (A refused undo is a Raise.)
UndoSap(e) ==
  LET i == run[e].i IN
  /\ At(e, "undoSap")
  /\ sap' = [sap EXCEPT ![i] = "undone"]
  /\ undos' = [undos EXCEPT ![i] = @ + 1]
  /\ \/ Goto(e, "completeUndo")
     \/ Raised(e)
  /\ UNCHANGED <<journal, res, writes, said>>

CompleteUndo(e) ==
  /\ At(e, "completeUndo")
  /\ undo[run[e].i] = "PENDING"
  /\ undo' = [undo EXCEPT ![run[e].i] = "SUCCEEDED"]
  /\ Answered(e, "markUndone")
  /\ UNCHANGED <<exec, rollback, step, res, world, said>>

\* mark_undone, then the audit of it, either of which may raise.
MarkUndone(e) ==
  LET i == run[e].i IN
  /\ At(e, "markUndone")
  /\ step[i] = "SUCCEEDED"
  /\ step' = [step EXCEPT ![i] = "UNDONE"]
  /\ \/ run' = [run EXCEPT ![e].pc = "compensate", ![e].done = @ \ {i}]
     \/ Raised(e)
  /\ UNCHANGED <<exec, rollback, undo, res, world, said>>

Compensated(e) ==
  /\ At(e, "compensate")
  /\ run[e].done = {}
  /\ Goto(e, IF run[e].mode = "run" THEN "settle" ELSE "release")
  /\ UNCHANGED <<journal, res, world, said>>

-----------------------------------------------------------------------------
(* run: after compensation; rollback: likewise *)

\* Mutant: the reservations are released whatever the journal says.
MSettleReleases(e) ==
  /\ At(e, "settle")
  /\ Goto(e, "release")
  /\ UNCHANGED <<journal, res, world, said>>

\* A step still PENDING may have reached SAP: nothing it needs is released.
Settle(e) ==
  /\ At(e, "settle")
  /\ IF \E i \in Steps : step[i] = "PENDING"
     THEN End(e, "FAILED") /\ said' = said \cup {"EXECUTION_UNCERTAIN"}
     ELSE Goto(e, "release") /\ UNCHANGED said
  /\ UNCHANGED <<journal, res, world>>

ReleaseNext(e) ==
  /\ At(e, "release")
  /\ \E t \in run[e].mine :
       /\ \A u \in run[e].mine : t <= u
       /\ Release(t)
       /\ run' = [run EXCEPT ![e].mine = @ \ {t}]
  /\ UNCHANGED <<journal, world, said>>

AllReleased(e) ==
  /\ At(e, "release")
  /\ run[e].mine = {}
  /\ IF run[e].mode = "run"
     THEN End(e, "FAILED") /\ said' = said \cup {"FAILED_ROLLED_BACK"}
     ELSE Goto(e, "completeRollback") /\ said' = said \cup {"ROLLED_BACK"}
  /\ UNCHANGED <<journal, res, world>>

-----------------------------------------------------------------------------
(* rollback *)

\* Requested by a named person, of an execution that finished.
BeginRollback(e) ==
  /\ At(e, "new")
  /\ IF exec = "SUCCEEDED"
     THEN run' = [run EXCEPT ![e].mode = "rollback", ![e].pc = "prepareRollback"]
     ELSE End(e, "REFUSED")
  /\ UNCHANGED <<journal, res, world, said>>

PrepareRollback(e) ==
  /\ At(e, "prepareRollback")
  /\ rollback' = Prepared(rollback)
  /\ Goto(e, "claimRollback")
  /\ UNCHANGED <<exec, step, undo, res, world, said>>

ClaimRollback(e) ==
  /\ At(e, "claimRollback")
  /\ IF rollback = "SUCCEEDED" THEN End(e, "ROLLED_BACK")
     ELSE IF Claimable(rollback) THEN Goto(e, "commitRollback")
     ELSE End(e, "UNCERTAIN")
  /\ UNCHANGED <<journal, res, world, said>>

CommitRollback(e) ==
  /\ At(e, "commitRollback")
  /\ IF Claimable(rollback)
     THEN rollback' = "PENDING" /\ Answered(e, "scan")
     ELSE End(e, "UNCERTAIN") /\ UNCHANGED rollback
  /\ UNCHANGED <<exec, step, undo, res, world, said>>

\* The claim makes this executor the only one left to touch the steps.
ScanSteps(e) ==
  /\ At(e, "scan")
  /\ IF \E i \in Steps : step[i] = "PENDING"
     THEN End(e, "UNCERTAIN")
     ELSE run' = [run EXCEPT ![e].pc = "compensate", ![e].mine = Transfers,
                             ![e].done = {i \in Steps : step[i] = "SUCCEEDED"}]
  /\ UNCHANGED <<journal, res, world, said>>

CompleteRollback(e) ==
  /\ At(e, "completeRollback")
  /\ rollback = "PENDING"
  /\ rollback' = "SUCCEEDED"
  /\ \/ End(e, "ROLLED_BACK")
     \/ lossy /\ Raised(e)
  /\ UNCHANGED <<exec, step, undo, res, world, said>>

-----------------------------------------------------------------------------
Init ==
  /\ exec = "NONE" /\ rollback = "NONE"
  /\ step = [i \in Steps |-> "NONE"]
  /\ undo = [i \in Steps |-> "NONE"]
  /\ res = [d \in Donors |-> NoReservation]
  /\ sap = [i \in Steps |-> "absent"]
  /\ writes = [i \in Steps |-> 0]
  /\ undos = [i \in Steps |-> 0]
  /\ lossy \in LostAnswers
  /\ said = {}
  /\ run = [e \in Executors |-> Fresh("new", "NONE")]

Claims(e) ==
  \/ BeginRun(e) \/ PrepareExec(e) \/ ClaimExec(e) \/ CommitExec(e)
  \/ ReadRecords(e) \/ Revalidate(e)

Prepares(e) ==
  \/ Reserve(e) \/ AllReserved(e) \/ SaveUndo(e) \/ AuditUndoSaved(e)
  \/ Unhold(e) \/ Unheld(e)

Writes(e) ==
  \/ CheckKillSwitch(e) \/ ClaimStep(e) \/ Apply(e) \/ CompleteStep(e)
  \/ VerifyStep(e) \/ Finish(e) \/ CompleteExec(e)

Compensates(e) ==
  \/ Compensate(e) \/ PrepareUndo(e) \/ ClaimUndo(e) \/ UndoSap(e)
  \/ CompleteUndo(e) \/ MarkUndone(e) \/ Compensated(e)
  \/ Settle(e) \/ ReleaseNext(e) \/ AllReleased(e)

RollsBack(e) ==
  \/ BeginRollback(e) \/ PrepareRollback(e) \/ ClaimRollback(e)
  \/ CommitRollback(e) \/ ScanSteps(e) \/ CompleteRollback(e)

Next ==
  /\ \E e \in Executors :
       \/ Claims(e) \/ Prepares(e) \/ Writes(e) \/ Compensates(e) \/ RollsBack(e)
       \/ Raise(e) \/ Crash(e)
  /\ UNCHANGED lossy

Spec == Init /\ [][Next]_vars
-----------------------------------------------------------------------------
(* Properties *)

TypeOK ==
  /\ exec \in Statuses /\ rollback \in Statuses
  /\ step \in [Steps -> Statuses] /\ undo \in [Steps -> Statuses]
  /\ res \in [Donors -> [status : {"NONE", "HELD", "RELEASED"}, qty : Nat]]
  /\ sap \in [Steps -> {"absent", "live", "undone"}]
  /\ writes \in [Steps -> Nat] /\ undos \in [Steps -> Nat]
  /\ lossy \in BOOLEAN
  /\ said \subseteq {"EXECUTION_COMPLETED", "EXECUTION_HALTED", "EXECUTION_UNCERTAIN",
                     "FAILED_ROLLED_BACK", "ROLLED_BACK"}
  /\ run \in [Executors -> Run]

\* BR-09: however many executors, retries and crashes, the write of a step
\* reaches SAP at most once, and so does its undo.
WrittenOnce == \A i \in Steps : writes[i] <= 1 /\ undos[i] <= 1

\* BR-10: when the first write reaches SAP, the undo plan of every step of the
\* part is in the journal.
UndoSavedFirst ==
  (\E i \in Steps : writes[i] > 0) => \A i \in Steps : step[i] # "NONE"

\* Stock stays reserved while a transfer that takes it is in SAP or may be: its
\* order stands there, or its write was claimed and its result never recorded;
\* provided a journal or ledger call that raises has changed nothing.
Exposed(d) == {i \in Transfers : /\ Donor[i] = d
                                 /\ sap[i] = "live" \/ step[i] = "PENDING"}

TakenUnits(d) == UNION {{i} \X (1..Qty[i]) : i \in Exposed(d)}

WritesAreReserved ==
  ~lossy => \A d \in Donors : Exposed(d) # {} =>
    res[d].status = "HELD" /\ Cardinality(TakenUnits(d)) <= res[d].qty

\* What the audit trail calls rolled back has no reversible write left in SAP,
\* none that may still be there, and no stock held; under the same proviso. A
\* rollback by request that is recorded done needs no proviso: one that could not
\* finish stays claimed.
RolledBackIsClean ==
  /\ ~lossy /\ said \cap {"FAILED_ROLLED_BACK", "ROLLED_BACK"} # {} =>
       /\ \A i \in Steps : Kind[i] # "irreversible" => sap[i] # "live" /\ step[i] # "PENDING"
       /\ \A d \in Donors : res[d].status # "HELD"
  /\ rollback = "SUCCEEDED" =>
       /\ \A i \in Steps : sap[i] = IF Kind[i] = "irreversible" THEN "live" ELSE "undone"
       /\ \A t \in Transfers : res[Donor[t]].status # "HELD"

P == INSTANCE PartExecution WITH
       phase <- CASE exec \in {"NONE", "READY"} -> "open"
                  [] exec = "PENDING" -> "writing"
                  [] exec = "SUCCEEDED" /\ rollback \in {"NONE", "READY"} -> "completed"
                  [] exec = "SUCCEEDED" /\ rollback = "PENDING" -> "withdrawing"
                  [] exec = "SUCCEEDED" /\ rollback = "SUCCEEDED" -> "withdrawn",
       live <- {i \in Steps : sap[i] = "live"},
       gone <- {i \in Steps : sap[i] = "undone"}

\* FR-EXE-02..08: whatever executors race, fail and stop, SAP sees the writes of
\* one orderly execution, compensation and rollback.
ImplementsPart == P!PSpec
=============================================================================
