# Verification of AERA

AERA takes a supply exception (a late purchase order, a shortage) to a plan, verifies and
routes the plan, executes it in SAP and watches the goods arrive. Every part of it is a
Lambda function; the parts share DynamoDB items, written under conditions on what was read,
and call each other through EventBridge events, which are delivered at least once and in
any order. This directory holds TLA+ models of the parts whose correctness depends on those
interleavings, the TLC runs that check them and TLAPS proofs.

Paths below are relative to `src/`; `services/` is left out where it is obvious.

## The system

| Component | State it keeps | Operations | Talks to | Module |
|---|---|---|---|---|
| Webhooks, inbound mail, intake | INTAKE#, SIGNAL# | receive a batch, store, claim, announce | gatekeeper | Channels, Intake |
| Gatekeeper, extraction | SIGNAL# | check, quarantine, read fields, set their status | case service | Intake, Evidence |
| Case service, MRP feed | KEY#, META, SIGNAL# markers | open, attach, wake, triage, announce | run starter | Intake, Figures |
| Case state machine, audit chain | META.status, AUDIT# | create, transition, append, verify | everybody | Chain |
| Run starter, run store, agent | META.activeRunId, RUN#, QUESTION# | start, claim, ask, fail, escalate, release | tools, notifier | Runs |
| Planning tools | PLAN#, META.planVersion, MSG# | price an option, propose, ask a supplier | verifier, notifier | Approval, Decision, Dialogue |
| Verifier | PLAN# checks, ROUTE#, PART#, schedules | solve, resize, verify, route, settle | optimizer, control store | Approval, Portfolio, Decision |
| Portfolio optimizer | PORTFOLIO | collect competing cases, solve, project stock | verifier | Portfolio, Projection |
| Routing and approvals | ROUTE#, PART# with a revision, OUTBOX# | save, decide, tick, reallocate, choose tier and deadline | console, schedules | Approval, Decision |
| Execution service, state machine | META.status, ROLLBACK# | execute, notify, mark, return, roll back | workflow, scheduler | Execution |
| Execution workflow, journal | one item per step, execution and undo | run, compensate, roll back | ledger, SAP | Workflow, PartExecution |
| Resource ledger | BAL and RES# per donor stock | reserve, release, allocated | workflow, verifier | Ledger, Reservations |
| SAP boundary | SAP documents, CSRF token | prepare, write, verify, undo, retry | workflow | Sap |
| Monitor | RECEIVED#, META.status | check receipts, close, reopen | execution | Execution |
| Supplier dialogue, notifier | MSG#, NOTIFY# | send, sweep, remind, time out, match replies, notify | runs | Dialogue, Channels |
| Supplier reliability | computed records | history, on-time rate | calc | Figures |
| Administration, configuration | CFG#, APPR#, rates, ADMIN chain | set, kill switch, reset, cached read | everybody | Settings, Console |
| Console API, realtime | idempotency, TICKET#, connections | every POST once, push | all of the above | Console |
| Lab | LAB# | play a scenario, poll its outcome | intake | Channels |
| Reporting, read models, chat, interop, eval, infrastructure, SAP mirror | - | read, adapt, deploy | - | not modelled |

What is hard in it: two invocations anywhere in their sequence of reads and writes; an
invocation that stops between two writes and is or is not retried; an event delivered twice
or late; a call that took effect although its answer was lost; a handler that saves a whole
item from an old copy; a deadline racing a decision; a second plan version while the first
is in flight; facts that change between the gates that read them. PROJECT.json lists each
such place at its line under `hazards`, with the properties about it.

What makes the parts correct: stock is never promised twice; a SAP document is written at
most once, undoable and undone last first; an approval has one fate and is valid when it is
written; nothing executes unapproved; one agent at a time works on a case and no case is
forgotten; a second case
beside an open one only on purpose; a supplier is asked once and never waited for for ever;
what a plan rests on came from somebody trusted; the trail is linear and complete.

## Modules

**Ledger.** `Reservations` is the abstract specification of the ledger: claims on a stock
are taken and given back in one step, never more than the stock's capacity, and a released
claim is spent for good. `Ledger` is `ledger.py`: each invocation is a record in `call` with
a program counter and the values it has read, because every `get_item` is a step:
`FindReservation`, `CheckBalance`, `CommitReserve` for `reserve()`, `FindHold`,
`ReadBalance`, `CommitRelease` for `release()`. `ReserveCommits` and `ReleaseCommits` are
the conditions of the two transactions. `BeginReserve` takes any quantity and any reading of
the free stock: the caller read SAP earlier.

**Workflow.** `PartExecution` is the abstract specification of executing one plan part, seen
from SAP: writes appear in order and once, none follows an undo, undos go last first.
`Workflow` is `Workflow.run`, `_compensate` and `rollback` with the journal: `exec`,
`rollback`, `step` and `undo` are the journal's statuses, `res` the reservation on each donor
(`Reserve` and `Release` are single steps, which is what `LedgerIsAtomic` allows), `sap` what
SAP holds, `run` each invocation's place in the code and its lists `held` and `completed`.
`Raised` says which `except` clause an exception reaches. The conditional updates of the
journal are guards. `lossy` is a world in which a call may take effect and raise.

**Execution.** The Step Functions machines (`machine`), the invocations of Execute and
Rollback they make (`task`), the tasks of `service.py` and the goods receipt check of each
part (`monitor`), over a route of one or two parts of tier 1 and 2. What an invocation does
to a part in SAP is one step of `PartExecution` per write, composed here; a retried task is a
second invocation of the same part. `EnterExecution` fixes the path of moves from one reading
of the status, as `_enter_execution` does, and `MoveIn` then makes each of these moves or
finds it illegal, whatever has become of the case; `TryMove` is `_move`, which swallows an
illegal move and one another writer at META made fail (`Lost`). `Effect` gives the outcome
every final task records. The deadline of a part and a run that starts again (`Expire`,
`Replan`) change the case under the execution. `mishaps` remembers, for the properties, that a
task was stopped or that a move was overtaken or lost.

**Approval.** One case from plan to execution: run starter and `propose_plan` (`Plans`), the
verifier (`Verifies`), the approver (`Decides`), the schedules (`Expires`), solves of other
cases (`Reallocates`), the execution service (`Executes`). The variables are the items of the
case table; `call` is what each invocation has read. The tier of a plan and whether it is
resized are choices. `bound` says which kinds of invocation, stops and edits a world has.
`Save` answers for a route that is already there as `save()` does: the invocation goes on to
settle the case. So a slow repeated verification of a superseded version can settle the case
while the new version has no route yet; the properties hold with it.

**Portfolio, Decision, Projection.** `Portfolio` is several cases that compete for a donor:
a verification collects them, solves over what it has read, resizes its own plan,
re-proposes others (reallocate), and the execution meets the two remaining gates, its latest
share and the ledger. The cases are collected from an index that follows the table later and
is asked one status after the other, so any case that ever had a plan may be found or missed
(`Listings`), the verifier's own too; `overlooked` remembers the cases a solve has missed. A
case found although it is already approved is no candidate (`Committed`) and is put a
portfolio without its share, so that its execution finds the plan stale. A case the query
meets under two statuses is not modelled twice. Which feasible allocation is best is a choice.
`Decision` is the life of one plan as computation: priced (`tools/calc.py`), the world
moves, verified (`verifier/logic.py`), split and routed (`routing/logic.py`). `Projection`
is the projection of `optimizer/projection.py` by folds, compared with an hour-by-hour
definition.

**Intake, Evidence.** `Intake` follows signals through intake, gatekeeper, extraction and
case service with every item write a step, the keys of material and order, the opening
marker, and the MRP feed; what a message says is a verdict. `Evidence` is the other half: one
message whose sender, proof, text, hidden text and picture are chosen, its readings and their
status, the planner's confirmation, the priced quantity and its verification, with every
handler saving the item from its own copy and an index that lags.

**Runs, Dialogue.** `Runs` is one case's agent runs: starters with the outbox of start events,
the runtime, loops with limits and failures, questions to the planner, confirmations of
fields, also of fields nobody asked about, which resume a waiting case all the same. A world has one
`fault`: a stop, an answer of the runtime lost, an event that comes again, a query of the store that
misses its latest writes (`lag`: the run history, `Known`, and the open questions), or another
writer at META when a move is committed (`busy`). `Dialogue` EXTENDS it
with questions to suppliers: the draft, the notifier's claim, send and save, the sweep,
reminders, the reply matcher and the relay of its outbox.

**Chain, Sap, Figures, Console, Channels, Settings.** The audit chain with the case's writes
in the same transaction; one SAP action with retries, lost answers, the CSRF token, etags and
other users; triage, impact and reliability figures; idempotent POSTs, reset, tickets and
pushes, which take the consoles of a target from an index that follows the connections later
(`indexed`; one page of it, which the code reads, holds all of the model's); webhook batches,
mails, notifications and the Lab, whose signals go to the intake or to a channel that makes a
signal of them in its own time; settings, their ranges, their trail and the caches of readers.

The `MC*` modules give the constants values. `MCPlanning` and `MCServices` hold several
modules that share no state: the variable `scene` names the one whose steps a behaviour takes.

The `*Proofs` modules hold the theorems. `LedgerProofs`, `WorkflowProofs`, `ApprovalProofs`,
`ExecutionProofs`, `IntakeProofs` and `DialogueProofs` (Runs and Dialogue) extend the module
they are about; `PlanningProofs` extends Portfolio and Decision; `ServicesProofs` extends
Chain, Console, Channels, Evidence, Settings and Sap.

Operators named `M...` are mutants of the operator that follows them: a plausible bug that
the property named in PROJECT.json catches. Some properties are conjunctions (`TrailIsWhole`,
`ActionIsExact`, `FiguresAreRight`, `ConsoleIsServed`, `ChannelsAreTrue`, `EvidenceIsSound`,
`SharesAreKept`, `RouteIsSound`); PROJECT.json names one mutant of each, and the modules keep
further ones that break the other conjuncts (`MMayResize`, `MAuto`, `MImmediate`, `MUntil`,
`MExtraHolds`, `MReply`, `MRestored`, `MAssign`, `MGoneOne`, `MDuplicate`,
`MOutcome` and others).

## What the runs show

| Run | World | Shows |
|---|---|---|
| `MCLedger` | 3 invocations, 2 parts, one donor with 2 units | balance exact, never overbooked, refines `Reservations` |
| `MCWorkflow` | 4 invocations; two transfers, a date change, an irreversible booking; calls raise, with and without effect; stops | writes at most once, undo plans first, what may stand in SAP is reserved, rolled back means clean, refines `PartExecution` |
| `MCApproval` | 2 invocations; worlds with two plan versions (under the clock, or with rejections), one version with everything under the clock, stops, administrators, a solve that leaves nothing | one fate per approval, decisions fresh when written, nobody asked again after letting one expire (worlds without executions and late invocations), only approved work executes |
| `MCApprovalLive` | 2 approvers with any limits, nobody decides | the deadline leads to a backup's run or an escalation |
| `MCExecution` | routes `<1>`, `<2>`, `<1, 2>`; 2 machines, 1 repeated invocation, early checks, kills | rollback reaches what had succeeded, every part orderly |
| `MCExecutionEnds` | the same without repetition and kills; tasks raise and die, moves are lost, an approval expires, a run starts again; fair | outcomes recorded, closed means received, a case leaves EXECUTING |
| `MCPlanning` | 2 cases, 2 units, 3 versions; 10,800 small worlds of one plan | shares given once and kept; gates agree; routes sound; every plan settles |
| `MCIntake` | 1-3 signals, 2 orders, MRP feed, 2 workers, stops, closing, 72 h | a second open case only on purpose, a signal in one case, extracted signals reach the agent |
| `MCRuns` | 2 starters, 2 loops, 2 fields to confirm, a second start, one fault | one agent, an owned investigation, failures escalate |
| `MCDialogue` | 1 starter, 1 loop, 2 notifiers, 1 question, one fault | asked once, one end, no endless wait |
| `MCServices` | ten scenes, see the modules | `TrailIsWhole`, `ActionIsExact`, `FiguresAreRight`, `ConsoleIsServed`, `ChannelsAreTrue`, `EvidenceIsSound`, `SeenInTime` |
| `MCApprovalStale` | a plan found stale when executed | **violated**: the case returns to INVESTIGATING, from which no run starts |

Deadlock is not checked where the modelled system may rightly stop: a finished part, a case
whose invocations all ended, a scene whose requests are all served. `MCLedger` checks it.

### Properties the code does not have

These properties state what a comment or a document promises. They are defined beside the
code they are about and violated by it; each is found by adding it to the named .cfg.
PROJECT.json lists them under `findings` with the quotations.

* `RetriesAreSafe` (Execution, `MCExecution.cfg`): a repeated Execute marks the case rolled
  back while the first invocation completes the part.
* `AcceptedIsEmitted` (Intake, `MCIntake.cfg`): the gatekeeper stops between save and emit.
* `ApprovedStockIsHeld` (Portfolio, `MCPlanning.cfg`): approved plans are promised the same
  units, the ledger holds stock only from the execution on.
* `QuantityIsEvidenced` (Evidence, `MCServices.cfg`): a source is accepted on its prefix.
* `TrailTellsChanges` (Settings, `MCServices.cfg` with `Admins = {c1, c2}`).

Others appear as provisos in the properties that are checked, each of which fails without
it: `~lossy` in `RolledBackIsClean` and `WritesAreReserved` (the journal's answer is lost
after a write: compensation skips the step and stock is released under a standing document);
`~bound.canStarve` in `OneFate` (an approval superseded without a new version is still
decided); one transfer per donor in `MCWorkflow` (two equal transfers share a reservation);
one plan version in `MCApprovalLive` (with two, two deliveries of PlanProposed, one routing
and one resizing, leave the case waiting under a version that has no approval); worlds
without executions and without late invocations (`bound.late`) in `NeverAskedAgain` (a stale
urgent part returns the case to planning while its other approval is pending; or the run
starter or `_escalate`, which move a case on the condition of its status alone, take a
*later* version out of its wait; either way the next version goes to the same approver, and
only then the first deadline passes: seen with three versions, two approvers and the roles
plan, verify, expire); `Overtaken` in `FailuresEscalate` (a run that had moved its case
fails and is slow with its last transition, which takes the case from a later run back to
the planner; that run, the second to fail, finds nothing to escalate: seen with four runs,
one starter, two loops); `Followed` in `OutcomeIsRecorded` (the verifier settles the case
between an execution's reading of VERIFIED and its first move, or another writer at META
makes a move fail: the part is executed and the case is left AWAITING_APPROVAL); `indexed`
in `EveryoneHears` (a console that subscribed just before the event is not told);
`overlooked` in `SharesAreKept` (a case whose own solve missed it in the index settles with
the share an earlier solve gave it unseen, or a later solve resizes another case and then
misses this one); a stock-out that is foreseen (`Foreseen`) in `SplitIsNeeded` (where none is
projected the code takes the one without any receipt, and splits a plan nothing waits for:
stock for 3 hours, an order of 6 at hour 2); a single action that is no air freight in `DeadlineProtects` (two actions approved at
the deadline are late together, each measured with the other on time; an air freight is
measured against the whole order from which it takes what it flies); `Passed`, `Hidden` and
the MRP feed's case in `OneOpenCase`; `suffered` in the properties of Runs (a stop leaves
the claim, a repeated event overwrites the run's record, a lost answer lets two agents run,
a history query that misses the failure just recorded counts one too few, a busy META leaves
a failed run's case INVESTIGATING with nobody on it).

### More that the models show

Behaviour met while modelling that no property claims otherwise: a signal's order is looked
up before its material, so a case of that order that is older than 72 h hides an open recent
case that names no order, and a third is opened (`case_service/handler.py:119`); an
execution that was authorized moves the case to APPROVED and EXECUTING although a later
version was proposed meanwhile and awaits its own approval (`execution/service.py:288`); a
failed rollback can never be requested again (`api/handler.py:544`); a part without a
transfer or an air freight never closes its case (`monitor/handler.py:79`); a `REOPENED`
case cannot be started; the answer to the last question, or a supplier's reply, that arrives
before the asking run has released is dropped (`run_starter/handler.py:92`), so nobody
resumes the case; a question without a field can never be answered; a message stored as
DRAFT whose request was not emitted is never swept; two confirmations of one signal lose one
although both are audited (`api/handler.py:742`); a change of the donor's free stock between
pricing and verification fails V-01 even when the plan still fits; undo of a split
overwrites an outsider's change made after its check (`execution/sap.py:352`); schedule
lines before the window are dropped but not their receipts, which raises the on-time rate
(`dialogue/history.py:40`); the reset clears its own idempotency claim, so a repeated reset
resets twice (`api/admin.py:31`); a WhatsApp batch whose second medium cannot be fetched is
repeated as a whole, forever (`webhooks/handler.py:101`).

### Bounds

Every bound is a constant or a member of a world, so that a guard names it.

* Concurrency: `Callers`, `Executors`, `Machines`, `Starters`, `Loops`, `Workers`, `Hands`,
  `Handlers`, `Writers`. Two invocations meet in every pair of places; a third is added
  where one more has to overtake both (Ledger), four where two executions and two rollbacks
  can all be halfway (Workflow).
* Data: `N`, `MaxQty`, `Capacity`, `MaxVersion`, `MaxPlanned` (the agent's versions; one
  less lets optimizer versions follow), `MaxDrop`, `Supply`, `MaxCases` (a third case exists
  to take a key while two are open), `MaxRuns`, `MaxMessages`, `MaxEvents`, `MaxSignals`.
* Faults: one fault per world of Runs and Dialogue, `Retries`, `Raises`, `Kills`, `Replans`,
  `Contention`, `bound.stops`, `MaxFaults = 3` (as many as the client's `attempts`, so that
  it gives up), `MaxEdits`, `MaxAttempts = 2` (attempts on the chain; the code has more,
  giving up is reached sooner).
* Inputs: the small sets in the MC modules (`Worlds`, `Scenes`, `Arrivals`, `Batches`,
  `Posts`, `Requests`, `Cases`, `Suppliers`), one for each branch of the code they reach;
  `Keyed`, `Claims`, `Used`, `MaxAsks`, `MaxActs`, `MaxPushes` bound what comes of them.
* Time: an approval's clock has three readings (before the reminder, before the deadline,
  past it), a message's phase likewise; Intake counts epochs of 72 h; Settings ticks to
  `MaxNow` with a cache of `CacheTime` ticks and a replica `Lag` behind; `Clocks` are the
  skewed readings of the chain's writers; Decision counts `Horizon` hours, a cover window
  and an approval window of 4; leads of 1, 2 and 5 hours fall on both sides of it, and the
  case's own order comes late, later, or in time and large enough. `Hour` is the hour of the
  day at which a figure is asked for, so that a date and a number of hours differ.

### Fairness

Safety needs none. Where liveness is checked:

* `MCApprovalLive`: weak fairness of every started invocation and of the clock, strong of
  delivery (schedules, PlanProposed, CaseReadyForRun): the code gives each delivery an
  invocation of its own while the model lends it one of two. Nothing is assumed of approvers
  and administrators. A schedule fires its deadline once. `SlowTimers = FALSE` assumes that
  a reminder ends before the deadline; without it the reminder can win the revision from the
  deadline's only invocation (`routing/store.py:499`) and `DeadlineIsKept` fails.
* `MCExecutionEnds`: an invocation runs to its end or dies, and Step Functions takes the next
  step. `mishaps` and `Repeated` name the executions the code leaves to a person and those
  whose move of the case was lost.
* `MCPlanning`: a proposed plan is delivered and its verification runs on; no stops.
* `MCIntake`: messages arrive, started invocations take their next step or stop, and an event
  not handled to its end is delivered again. Stops are bounded.
* `MCDialogue`: starters, loops and notifiers run on, time passes, a reply that arrived is
  matched and relayed. The supplier need not answer; a reply comes after the asking run
  has released (before, it is lost, see above).

## What is proved

The theorems hold for every value of the constants that meets the named assumptions of the
models (`ASSUME`), which TLC evaluates in the runs: finite parts and approvers, natural
bounds, records of the shape the comments give, names that differ. There are no others, but
for one hypothesis written in a theorem (`WritesStayReserved`). None bounds how many
invocations there are, and none assumes fairness. In each module one invariant is inductive,
and the properties follow from it; no property was inductive as it stood. Each was
model-checked on the runs' worlds before it was proved.

**LedgerProofs** (`TypeCorrect`, `BalanceIsExact`, `NeverOverbooked`, `AdmissionIsSound`,
`GrantIsBacked`, `LedgerIsAtomic`). A transaction's effect depends on values read several
steps before. `IInv` adds what the optimistic lock promises: a balance seen with the current
version is the current balance, a reservation seen at the current version is the current one,
and a caller about to commit has checked its quantity against what it saw. Held units are
compared with the balance by cardinality, one lemma for taking and one for giving back.
`LedgerIsAtomic`: each step is one of `Reservations` or changes nothing it sees, so `Workflow`
may take reservations in one step.

**WorkflowProofs** (`TypeCorrect`, `WrittenAtMostOnce`, `UndoPlansComeFirst`,
`RollbackIsClean`, `WritesStayReserved`, `PartIsImplemented`). `Alone`: one executor at most
is past the claim of the execution, or past that of the rollback. `World`: what the journal's
status of a step says of SAP, of the counters of writes and of the stock. `Knows(e)`: what an
executor at each point may conclude from its lists. With it every step is one of
`PartExecution` or changes nothing seen from SAP. `WritesStayReserved` has the hypothesis
`OneTransferPerDonor`, without which it is false (see the findings).

**ApprovalProofs** (`TypeCorrect`, `OneFateEach`, `DecisionsAreFresh`, `OnlyApprovedExecutes`,
`NobodyIsAskedAgain`).
A part's revision grows with every write, so a call that finds the revision it read finds the
part it read (`Pinned`); versions have no gaps and one call at most is between storing a plan
and making it current (`Numbering`). `OnlyApprovedExecutes` has a second invariant, `EInv`:
what an execution was authorized on is of a version that existed then, and `Grows` says that
neither announcements nor decisions are taken back. `NobodyIsAskedAgain` has a third, `AInv`:
while an approval is pending the case waits for it and no later version is routed, one call at
most verifies, and a call that is to route finds nothing pending (`Seen`), so every approval a
case leaves behind has already been decided, has expired under a name that later versions
leave out, or was superseded. The attempt to prove it without `InTime` gave the second
counterexample above.

**ExecutionProofs** (`PartsAreOrderly`, `ClosedCasesAreReceived`, `RollbacksReachAll`,
`OutcomesAreRecorded`). Of all invocations, first and repeated, of all machines announced
for a part, at most one owns the claim in its journal and has not finished (`Owner`);
everybody else only reads. `JournalOf` says what the journal's marks say of SAP: `SUCCEEDED`
is final and complete, an undo is only marked on success. So each step is one of
`PartExecution` or changes nothing seen. `ChecksHold`: what a goods receipt check has passed
was received. `RollbackHolds`: what a rollback has passed is undone, in every invocation of
it. `StageHolds` relates, for an undisturbed machine of a plan of one part, the machine's
state or the step of its invocation to the case's status, as long as no move was overtaken
or lost; what became of the part does not depend on the case following. The theorems cover
repeated invocations, kills, raises and other writers at once, which the two runs divide.
Two things had to be said that the model took for granted: `BackIsApart` (the rollback
machine is no executing machine) and disjoint cases in `Phase`.

**ServicesProofs**, Chain (`TrailStaysWhole`). A hash names the event it ends with
(`HeadIsLast`), ids differ (`IdsDiffer`), and what a writer drafts follows the head it read
(`Drafts`); so the condition on the head orders writers whose clocks disagree.

**DialogueProofs**, Runs (`OneAgentAtATime`, `InvestigationsAreOwned`,
`TwoFailuresEscalate`). Two arguments, depending on what the world suffered: the claim
excludes unless the runtime began a run it seemed not to reach (`Exclusive`), and names of
runs are unique unless something stops or comes again (`Unique`). An investigation is owned
by one or the other. `TwoFailuresEscalate` counts: `idleFailures` is what happened,
`Failures` what `consecutive_failures` finds in the records. Where nothing stops or comes
again a run leaves one record (`RecordedOnce`), so the count found is never below what
happened (`AllCounted`, by cardinality, one record at a time; the records read are all there
are, `Known`, because in these worlds no query lagged), and once a run has failed only a
run's own steps move the case it investigates (`OwnMoves`). The history is kept append-only,
a later item of a run replaces the earlier in what is read (`Standing`), which is what the
store's overwritten item amounts to and what makes the count provable.

**DialogueProofs**, Dialogue (`QuestionsGoOutOnce`, `QuestionsEndOnce`). A message's status may be
overwritten by a late save, its send claim is never given back: whoever is between claim and
save is alone with it, and nobody sends, reminds or times out before (`Kept`).

**IntakeProofs** (`CasesAreOpenedOnPurpose`, `SignalsAreAttachedOnce`). Cases are numbered as
they are opened, so the material's key names the newest and an order's key the newest of its
order; what was not found under keys that still stand is still not there (`Choices`); the
cases a signal is in or on its way into stay open until it is linked (`Well`). The proof
showed that the properties as first stated are false with a third signal; they now name what
they except, and a scene with three signals checks it.

**PlanningProofs**, Portfolio (`SharesKept`). How much is free and how it is divided is
opaque: what keeps a share is the protocol. A verification that found the portfolio and met
no other goes by the share it stored on its own case (`OwnShareIsKept`); where no solve has
missed the case since, a plan that waits with another size than its case has on record is
still to be visited by a verification that holds that share or will replace it
(`MismatchIsPassing`), so when all have settled nothing is mismatched. The loop guard
(`VersionsAreSized`) needs that versions are sized in order.

**PlanningProofs**, Decision (`GatesOfATransferAgree`, `AutomaticPartsAreSafe`,
`PlansAreSplitWhenNeeded`). The gates, for any horizon, cover and world, in every step before
the check: the figure the agent is shown, the calculator's, the optimizer's capacity, V-07,
V-08, the projection and the ledger's condition, each computed from its own formula, are
compared for every quantity; a donor that keeps its cover lasts through it (`KeptLasts`). The
route, for any plan of two options and any policy: the invariant (`DecisionInv`) carries what
a verification without a failed check has shown (`PlanIsSound`: unchanged figures, a price in
time, the cover left after all transfers together) from the check to the routing, whatever the
world did before the check; from it follow what may run without a person
(`AutomaticIsSafe`) and, with the choice of the urgent part (`ImmediateIsUrgent`), the split.
Three lemmas carry the data. Sums over two options are unfolded (`SumOfTwo`). The projection of
one movement is one step of its fold (`EventsOfOne`, `FoldOfOne`, `UntilByField`), which gives
its first stock-out in closed form (`StockoutOfReceipt`). The hour-by-hour account, a function
recursive in the hour, has a closed form too (`HourlyOfOne`): the least hour at which it would
not (`Least`, from the well-foundedness of < on the naturals) contradicts its own recursion.

**ServicesProofs** (`ConsoleServes`, `ChannelsStayTrue`, `EvidenceStaysSound`,
`SettingsAreSeen`, `SapActionsAreExact`), an invariant for each service: a command's claim on
its key excludes until a reset, and an event has each open console the index showed still before it
(`ConsoleInv`); a signal's id and a notice have one owner (`IntakeInv`, `NoticeInv`), a poll
reports what it read (`LabInv`); every copy of an item, saved, indexed or held, claims only
what was shown (`EvidenceInv`); a cached value was current at most a lag before it was cached
(`SettingsInv`); stamps grow, and what the client has not read is younger than the etag its
update is conditioned on (`SapInv`).

### What stays with TLC

* Liveness under fairness and ENABLED are outside what the prover does: `DeadlineIsKept`,
  `ReplanningStarts`, `ExecutionEnds`, `EveryPlanSettles`, `ExtractedIsHandled`, `NoEndlessWait`.
* Induction over data: what folds over lists of any length compute. A least counterexample
  (`Least`) replaces the library's induction where a function recurses on a number, as
  `HourlyOfOne` shows, but the folds over sorted records were not carried through. So
  `FiguresAreRight` (triage, impact and reliability over lists of records) stays with TLC, and
  of `RouteIsSound` the two conjuncts about several receipts: `DeadlineProtects` and
  `ProjectionIsStepwise`.

## Not modelled

* Reporting, read models, chat, what-if and trace: they fold records into views.
* Interop: an adapter in front of the intake.
* Evaluation, load tests, scripts, infrastructure other than the state machine and the rules
  that deliver events; the SAP mirror, a stand-in whose real counterpart `Sap` describes from
  how the client uses it.
* Wording, layout, payloads, OData encoding, signatures; what a text says and what a model
  answers are choices. The solver's objective is a choice among feasible allocations.
* V-02, V-03, V-04 and V-11: an option that was priced cannot fail them.
* The DynamoDB stream that feeds the outbox: an event recorded may be published at any time.

## Plan

What is left is outside the prover's reach or outside the models:

1. `DeadlineProtects` and `ProjectionIsStepwise` for the three receipts a plan can have, by
   the closed forms of `StockoutOfReceipt` and `HourlyOfOne` generalised to sorted receipts.
2. `SharesKept` without "met no other verification", once the code orders overlapping solves
   of one case; today the model shows that a size may then stay behind its share.
3. The provisos above become theorems without exception as the findings are settled.
