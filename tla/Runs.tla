-------------------------------- MODULE Runs --------------------------------
(***************************************************************************)
(* Agent runs of one case: the run starter (run_starter/handler.py), the   *)
(* run store (shared/runs.py), the harness and its tools, and the planner  *)
(* who starts runs and answers the agent's questions.                      *)
(*                                                                         *)
(* The tools run in invocations of their own: the loop may see an error    *)
(* although the tool took effect, and may fail at any point. An event is   *)
(* redelivered after its handler stopped.                                  *)
(***************************************************************************)
EXTENDS Naturals, Sequences, FiniteSets

CONSTANTS
  Starters,     \* run-starter invocations that may overlap
  Loops,        \* agent loops that may overlap
  Fields,       \* critical fields a question may be about
  MaxRuns,      \* bound: run ids created
  Worlds        \* initial worlds: [fault, status, asked (fields), acts (a bound)]

ASSUME RunsAreBounded == MaxRuns \in Nat

VARIABLES
  asked,        \* the fields the agent asks about
  acts,         \* what the planner may still do that nobody asks for: request runs, confirm
                \* fields
  fault,        \* what may still go wrong, once: "stop": an invocation stops; "lost": the
                \* call to the runtime raises although the run begins; "again": a handled
                \* event comes again; "lag": a query does not know the latest writes;
                \* "busy": somebody else is at META when a move is committed
  suffered,     \* the fault that happened, or "none"
  status,       \* META.status
  active,       \* META.activeRunId
  history,      \* RUN# items as they were put: [run, failed]; a run's later item replaces its earlier
  open,         \* fields of the QUESTION# items still OPEN; a question may name none
  ready,        \* CaseReadyForRun events on their way, by the run id they carry
  pending,      \* START_EVENT# items: [run, kind]
  starter,      \* what each run-starter invocation is doing, with what it has read
  loop,         \* what each agent loop is doing
  confirming,   \* the open questions each field's confirmation has read
  minted,       \* run ids created
  idleFailures  \* history: consecutive failed runs in which no tool moved the case, counted
                \* anew when the last call of one run ends the investigation of another

store == <<status, active, history, open>>
vars == <<asked, acts, fault, suffered, store, ready, pending, starter, loop, confirming, minted,
          idleFailures>>

Runs == 1..MaxRuns
None == 0
NoField == "no field"
STARTABLE == {"TRIAGED", "WAITING_PLANNER", "WAITING_SUPPLIER", "PLAN_PROPOSED", "ESCALATED"}
Statuses == STARTABLE \cup {"INVESTIGATING", "VERIFIED"}
Idle == [step |-> "idle", event |-> None, run |-> None, seen |-> "TRIAGED", held |-> None,
         todo |-> {}]
Away == [step |-> "idle", run |-> None, tool |-> "none", ended |-> FALSE,
         moved |-> FALSE]
Asks == {"ask_planner", "request_supplier_info", "propose_plan", "escalate"}

Begin(w) ==
  /\ asked = w.asked /\ acts = w.acts /\ fault = w.fault /\ suffered = "none"
  /\ status = w.status /\ status \in STARTABLE
  /\ active = None /\ history = <<>> /\ open = {} /\ ready = {None}
  /\ pending = {} /\ minted = 0 /\ idleFailures = 0
  /\ starter = [s \in Starters |-> Idle] /\ loop = [l \in Loops |-> Away]
  /\ confirming = [f \in Fields |-> "idle"]
RInit == \E w \in Worlds : Begin(w)

Suffer(f) == fault = f /\ fault' = "none" /\ suffered' = f
Sound == UNCHANGED <<fault, suffered>>

-----------------------------------------------------------------------------
\* The run store.

Recorded(run, failed) == Append(history, [run |-> run, failed |-> failed])

Count(idle) == idleFailures' = IF idle THEN idleFailures + 1 ELSE 0

\* RunStore.release: the record, then the claim if this run still holds it.
Release(run, failed) ==
  /\ history' = Recorded(run, failed)
  /\ active' = IF active = run THEN None ELSE active

\* RunStore.history, of a case of which the first n puts are known where it is read:
\* the items that no later one of their run has replaced, in the order of endedAt.
Standing(n) ==
  {i \in 1..n : \A j \in (i + 1)..n : history[j].run # history[i].run}

\* The query is no consistent read, and asks right after the last put.
Known(n) == \/ n = Len(history) /\ Sound
            \/ n < Len(history) /\ Suffer("lag")

\* Mutant: the failures are counted from the oldest record on.
MFailures(n) ==
  Cardinality({i \in Standing(n) : i < n /\ \A j \in Standing(n) : j <= i => history[j].failed})

\* RunStore.consecutive_failures
Failures(n) ==
  Cardinality({i \in Standing(n) : \A j \in Standing(n) : i <= j => history[j].failed})

-----------------------------------------------------------------------------
\* The run starter, one invocation s.

At(s, step) == starter[s].step = step
Go(s, step) == starter' = [starter EXCEPT ![s].step = step]
Return(s) ==
  /\ starter' = [starter EXCEPT ![s] = Idle]
  /\ UNCHANGED ready
Quit(s) == Return(s) /\ UNCHANGED pending

Deliver(s) ==
  /\ At(s, "idle")
  /\ \E run \in ready :
       /\ \/ ready' = ready \ {run} /\ Sound
          \/ UNCHANGED ready /\ Suffer("again")
       /\ starter' = [starter EXCEPT ![s] =
                        [step |-> "events", event |-> run, run |-> run, seen |-> status,
                         held |-> active, todo |-> pending]]
  /\ UNCHANGED <<store, pending, loop, confirming, minted, idleFailures>>

\* _publish_event for what an earlier invocation left pending; a retry of the
\* invocation that started the run ends here.
PublishPending(s) ==
  /\ At(s, "events") /\ starter[s].todo # {}
  /\ LET p == CHOOSE p \in starter[s].todo : \A q \in starter[s].todo : p.run <= q.run
     IN  /\ pending' = pending \ {p}
         /\ IF p.kind = "RunStarted"
                 /\ p.run = IF starter[s].run = None THEN starter[s].held ELSE starter[s].run
            THEN Return(s)
            ELSE starter' = [starter EXCEPT ![s].todo = @ \ {p}] /\ UNCHANGED ready
  /\ UNCHANGED <<store, loop, confirming, minted, idleFailures>>

Refuse(s) ==
  /\ At(s, "events") /\ starter[s].todo = {} /\ starter[s].seen \notin STARTABLE
  /\ Quit(s) /\ UNCHANGED <<store, loop, confirming, minted, idleFailures>>

\* Mutant: the claim trusts the status alone.
MClaim(s) ==
  /\ At(s, "events") /\ starter[s].todo = {} /\ starter[s].seen \in STARTABLE
  /\ LET run == IF starter[s].run = None THEN minted + 1 ELSE starter[s].run IN
       /\ run \in Runs /\ minted' = IF run > minted THEN run ELSE minted
       /\ active' = run
       /\ starter' = [starter EXCEPT ![s].step = "enter", ![s].run = run, ![s].held = None]
  /\ UNCHANGED <<status, history, open, ready, pending, loop, confirming, idleFailures>>

\* An event of the case service or of an answer names no run: a new id is made.
Claim(s) ==
  /\ At(s, "events") /\ starter[s].todo = {} /\ starter[s].seen \in STARTABLE
  /\ IF active # None
     THEN Quit(s) /\ UNCHANGED <<active, minted, idleFailures>>
     ELSE LET run == IF starter[s].run = None THEN minted + 1 ELSE starter[s].run IN
          /\ run \in Runs /\ minted' = IF run > minted THEN run ELSE minted
          /\ active' = run
          /\ starter' = [starter EXCEPT ![s].step = "enter", ![s].run = run, ![s].held = None]
          /\ UNCHANGED <<ready, pending>>
  /\ UNCHANGED <<status, history, open, loop, confirming, idleFailures>>

\* The move is conditional on the status the starter has read, and a busy META refuses
\* it all the same.
Enter(s) ==
  /\ At(s, "enter")
  /\ \/ /\ status = starter[s].seen /\ Sound
        /\ status' = "INVESTIGATING" /\ Go(s, "invoke")
        /\ UNCHANGED <<active, history, ready, pending>>
     \/ /\ (status # starter[s].seen /\ Sound) \/ Suffer("busy")
        /\ Release(starter[s].run, TRUE) /\ Quit(s) /\ UNCHANGED status
  /\ UNCHANGED <<open, loop, confirming, minted, idleFailures>>

Spawn(run) ==
  \E l \in Loops : /\ loop[l].step = "idle"
                   /\ loop' = [loop EXCEPT ![l] = [Away EXCEPT !.step = "begin", !.run = run]]

Invoke(s) ==
  /\ At(s, "invoke")
  /\ \/ Spawn(starter[s].run) /\ Go(s, "started") /\ Sound
     \/ UNCHANGED loop /\ Go(s, "unreached") /\ Sound
     \/ Spawn(starter[s].run) /\ Go(s, "unreached") /\ Suffer("lost")
  /\ UNCHANGED <<store, ready, pending, confirming, minted, idleFailures>>

Unreached(s) ==
  /\ At(s, "unreached") /\ Go(s, "give up")
  /\ \E n \in 0..Len(history) :
       /\ Known(n)
       /\ status' = IF status # "INVESTIGATING" THEN status
                    ELSE IF Failures(n) >= 1 THEN "ESCALATED" ELSE "WAITING_PLANNER"
  /\ UNCHANGED <<active, history, open, ready, pending, loop, confirming, minted, idleFailures>>

GiveUp(s) ==
  /\ At(s, "give up") /\ Go(s, "ended")
  /\ Release(starter[s].run, TRUE) /\ Count(TRUE)
  /\ UNCHANGED <<status, open, ready, pending, loop, confirming, minted>>

\* _event: the START_EVENT# item, then the event, then the item is deleted.
PutEvent(s) ==
  /\ \/ At(s, "started") /\ Go(s, "publish started")
     \/ At(s, "ended") /\ Go(s, "publish ended")
  /\ pending' = {p \in pending : p.run # starter[s].run}
       \cup {[run |-> starter[s].run, kind |-> IF At(s, "started") THEN "RunStarted" ELSE "RunEnded"]}
  /\ UNCHANGED <<store, ready, loop, confirming, minted, idleFailures>>

Publish(s) ==
  \E kind \in {"RunStarted", "RunEnded"} :
    /\ At(s, IF kind = "RunStarted" THEN "publish started" ELSE "publish ended")
    /\ pending' = {p \in pending : p.run # starter[s].run}
    /\ Return(s)
    /\ UNCHANGED <<store, loop, confirming, minted, idleFailures>>

\* The invocation dies, or a call raises; EventBridge delivers its event again.
Stop(s) ==
  /\ Suffer("stop") /\ ~At(s, "idle")
  /\ starter' = [starter EXCEPT ![s] = Idle] /\ ready' = ready \cup {starter[s].event}
  /\ UNCHANGED <<store, pending, loop, confirming, minted, idleFailures>>

-----------------------------------------------------------------------------
\* The agent loop l.

In(l, step) == loop[l].step = step
LoopGo(l, step) == loop' = [loop EXCEPT ![l].step = step]
Leave(l) == loop' = [loop EXCEPT ![l] = Away]

\* Harness.run: a case not under investigation fails the run.
BeginRun(l) ==
  /\ In(l, "begin")
  /\ LoopGo(l, IF status = "INVESTIGATING" THEN "work" ELSE "failed")
  /\ UNCHANGED <<store, ready, pending, starter, confirming, minted, idleFailures>>

\* A tool that ends the run writes its item while the case is investigated...
CallTool(l, tool) ==
  /\ In(l, "work") /\ ~loop[l].ended /\ status = "INVESTIGATING"
  /\ loop' = [loop EXCEPT ![l].step = "tool", ![l].tool = tool]
  /\ IF tool = "ask_planner"
     THEN \E f \in asked : open' = open \cup {f}
     ELSE UNCHANGED open
  /\ UNCHANGED <<status, active, history, ready, pending, starter, confirming, minted, idleFailures>>

Target(tool) ==
  CASE tool = "ask_planner" -> "WAITING_PLANNER"
    [] tool = "request_supplier_info" -> "WAITING_SUPPLIER"
    [] tool = "propose_plan" -> "PLAN_PROPOSED"
    [] tool = "escalate" -> "ESCALATED"

\* ... then moves the case on, if it is still INVESTIGATING and the move goes through.
\* The loop goes on after an error, be it that the tool failed or that its answer was lost.
EndTool(l) ==
  /\ In(l, "tool")
  /\ \E moved \in {FALSE, status = "INVESTIGATING"} : \E ended \in {FALSE, moved} :
       /\ status' = IF moved THEN Target(loop[l].tool) ELSE status
       /\ loop' = [loop EXCEPT ![l].step = "work", ![l].tool = "none", ![l].ended = ended,
                               ![l].moved = @ \/ moved]
  /\ UNCHANGED <<active, history, open, ready, pending, starter, confirming, minted, idleFailures>>

\* Mutant: A run over without a plan, question or escalation is only recorded.
MEndRun(l) ==
  /\ In(l, "work") /\ LoopGo(l, "ended")
  /\ UNCHANGED <<store, ready, pending, starter, confirming, minted, idleFailures>>

\* The loop is over: TerminationHook's reason stands, anything else escalates.
EndRun(l) ==
  /\ In(l, "work")
  /\ LET escalates == ~loop[l].ended /\ status = "INVESTIGATING" IN
     /\ status' = IF escalates THEN "ESCALATED" ELSE status
     /\ loop' = [loop EXCEPT ![l].step = "ended", ![l].moved = @ \/ escalates]
  /\ UNCHANGED <<active, history, open, ready, pending, starter, confirming, minted, idleFailures>>

FailRun(l) ==
  /\ \/ In(l, "work")
     \/ In(l, "ended") /\ ~loop[l].ended
  /\ LoopGo(l, "failed")
  /\ UNCHANGED <<store, ready, pending, starter, confirming, minted, idleFailures>>

ReleaseRun(l) ==
  /\ \/ In(l, "ended") /\ Leave(l)
     \/ In(l, "failed") /\ LoopGo(l, "after failure")
  /\ Release(loop[l].run, In(l, "failed")) /\ Count(In(l, "failed") /\ ~loop[l].moved)
  /\ UNCHANGED <<status, open, ready, pending, starter, confirming, minted>>

\* A later run has entered the case.
Overtaken == status = "INVESTIGATING" /\ active # None /\ \A s \in Starters : ~At(s, "enter")

\* The investigation it ends is whoever's it is; a busy META lets nobody end it.
AfterFailure(l) ==
  /\ In(l, "after failure") /\ Leave(l)
  /\ \/ \E n \in 0..Len(history) :
          /\ Known(n)
          /\ status' = IF status # "INVESTIGATING" THEN status
                       ELSE IF Failures(n) >= 2 THEN "ESCALATED" ELSE "WAITING_PLANNER"
     \/ status = "INVESTIGATING" /\ Suffer("busy") /\ UNCHANGED status
  /\ idleFailures' = IF Overtaken THEN 0 ELSE idleFailures
  /\ UNCHANGED <<active, history, open, ready, pending, starter, confirming, minted>>

\* The runtime session dies.
Die(l) ==
  /\ Suffer("stop") /\ ~In(l, "idle") /\ Leave(l)
  /\ UNCHANGED <<store, ready, pending, starter, confirming, minted, idleFailures>>

-----------------------------------------------------------------------------
\* People and the rest of the program.

\* POST /cases/{id}/runs, and a re-plan asked for in the chat
StartRun ==
  /\ status \in STARTABLE /\ active = None
  /\ minted < MaxRuns /\ acts > 0
  /\ acts' = acts - 1 /\ minted' = minted + 1 /\ ready' = ready \cup {minted + 1}
  /\ UNCHANGED <<store, pending, starter, loop, confirming, idleFailures>>

\* Api.confirm and _answer_questions: the field may be one nobody asked about. The
\* questions are read...
Confirm(f) ==
  /\ confirming[f] = "idle"
  /\ IF f \in open THEN UNCHANGED acts ELSE acts > 0 /\ acts' = acts - 1
  /\ \E read \in {"last", "one of several"} :
       /\ \/ (read = "last" <=> open \subseteq {f}) /\ Sound
          \/ Suffer("lag")
       /\ confirming' = [confirming EXCEPT ![f] = read]
  /\ UNCHANGED <<store, ready, pending, starter, loop, minted, idleFailures>>

\* ... those about the field are closed, and the case is resumed unless another
\* was open.
Resume(f) ==
  /\ confirming[f] # "idle" /\ confirming' = [confirming EXCEPT ![f] = "idle"]
  /\ open' = open \ {f}
  /\ ready' = IF confirming[f] = "last" /\ status = "WAITING_PLANNER" THEN ready \cup {None} ELSE ready
  /\ UNCHANGED <<status, active, history, pending, starter, loop, minted, idleFailures>>

\* The verifier takes the plan on (module Approval).
Verify ==
  /\ status = "PLAN_PROPOSED" /\ status' = "VERIFIED"
  /\ UNCHANGED <<active, history, open, ready, pending, starter, loop, confirming, minted, idleFailures>>

StarterNext(s) ==
  \/ Deliver(s) \/ Enter(s) \/ Invoke(s) \/ Unreached(s)
  \/ /\ \/ PublishPending(s) \/ Refuse(s) \/ Claim(s)
        \/ GiveUp(s) \/ PutEvent(s) \/ Publish(s)
     /\ Sound
LoopNext(l) ==
  \/ AfterFailure(l)
  \/ (BeginRun(l) \/ EndTool(l) \/ EndRun(l) \/ FailRun(l) \/ ReleaseRun(l)) /\ Sound
RNext ==
  \/ \E s \in Starters : (StarterNext(s) \/ Stop(s)) /\ UNCHANGED acts
  \/ \E l \in Loops : (LoopNext(l) \/ Die(l)) /\ UNCHANGED acts
  \/ \E f \in Fields : Confirm(f)
  \/ /\ \/ \E l \in Loops : \E t \in Asks : CallTool(l, t)
        \/ \E f \in Fields : Resume(f)
        \/ Verify
     /\ Sound /\ UNCHANGED acts
  \/ StartRun /\ Sound
RStep == RNext /\ UNCHANGED asked
RSpec == RInit /\ [][RStep]_vars

-----------------------------------------------------------------------------

InCharge == {l \in Loops : loop[l].step \in {"begin", "work", "tool", "ended", "failed"}}

\* While an agent works on a case it holds the case's claim, so no two agents
\* work on it at once: unless the runtime began a run it seemed not to reach.
\* (RunStore.claim and release, the order of the harness's last calls)
OneRun == suffered # "lost" => \A l \in InCharge : active = loop[l].run /\ InCharge = {l}

\* A case is never left INVESTIGATING with nobody to end the investigation, as
\* long as nothing stops and no other write is at META when a failed run makes its
\* last move. (The starter's claim before its transition, the harness's release
\* before its last transition, EndRun's escalation)
InvestigationIsOwned ==
  suffered \notin {"stop", "busy"} /\ status = "INVESTIGATING" =>
    active # None \/ \E l \in Loops : In(l, "after failure")

\* After two runs in a row that failed and moved nothing the case does not wait
\* for a planner to retry: it is escalated. (consecutive_failures as the starter
\* counts it before its own record, and the harness after. Not where its query
\* misses a failure just recorded. Nor where a run that had moved the case fails,
\* is slow to make its last call, and makes it when another run investigates: the
\* call takes that run's case back to the planner, and the run, when it fails,
\* finds nothing to escalate.)
FailuresEscalate ==
  suffered = "none" /\ idleFailures >= 2 /\ active = None
      /\ (\A l \in Loops : In(l, "idle")) =>
    status # "WAITING_PLANNER"
=============================================================================
