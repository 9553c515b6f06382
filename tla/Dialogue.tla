------------------------------ MODULE Dialogue ------------------------------
(***************************************************************************)
(* Questions to a supplier: request_supplier_info (tools/case_tools.py),   *)
(* the notifier that sends, reminds and sweeps (notifier/handler.py), the  *)
(* reply matcher (dialogue/replies.py) and the outbox relay, composed with *)
(* the runs of the case (module Runs).                                     *)
(*                                                                         *)
(* Conditional writes recheck what the sweep has read, and time only goes  *)
(* forward, so a sweep's read and its write are one step; the notifier's   *)
(* reads of the case, its claim, its send and its save are steps of their  *)
(* own.                                                                     *)
(***************************************************************************)
EXTENDS Runs

CONSTANTS
  Workers,      \* notifier invocations, of events and of the sweep, that may overlap
  MaxMessages   \* bound: questions drafted

ASSUME QuestionsAreBounded == MaxMessages \in Nat
ASSUME HandsAreWorkers == \A w \in Worlds : w.hands \subseteq Workers

VARIABLES
  hands,        \* the invocations that may be at work
  msg,          \* MSG# items: [status, claimed (sendClaim), reminded, done (escalationDone)]
  drafted,      \* how many there are
  requests,     \* SupplierInfoRequested events, by message
  stale,        \* messages whose send claim is older than five minutes
  phase,        \* of each message since it was sent: 0, 1 half the time left, 2 deadline
  worker,       \* what each notifier invocation is doing
  reply,        \* the supplier's reply: "none", "early", "late", "matching", "over"
  outbox,       \* replies whose OUTBOX# events are not marked sent
  mailed,       \* history: how often each question went out
  nudged        \* history: how often its reminder did

\* what the dialogue never writes of the runs' state
rest == <<asked, acts, active, history, open, pending, starter, loop, confirming, minted,
          idleFailures>>
dialogue == <<hands, msg, drafted, requests, stale, phase, worker, reply, outbox, mailed, nudged>>
dvars == <<vars, dialogue>>

Messages == 1..MaxMessages
Unwritten == [status |-> "NONE", claimed |-> FALSE, reminded |-> FALSE, done |-> FALSE]
Free == [step |-> "idle", m |-> 0]

\* The case's first run is at work.
DInit ==
  /\ \E w \in Worlds :
       asked = w.asked /\ acts = w.acts /\ fault = w.fault /\ hands = w.hands
  /\ suffered = "none" /\ status = "INVESTIGATING" /\ active = 1 /\ minted = 1
  /\ history = <<>> /\ open = {} /\ ready = {} /\ pending = {} /\ idleFailures = 0
  /\ starter = [s \in Starters |-> Idle] /\ confirming = [f \in Fields |-> "idle"]
  /\ \E l \in Loops :
       loop = [k \in Loops |-> IF k = l THEN [Away EXCEPT !.step = "work", !.run = 1] ELSE Away]
  /\ msg = [m \in Messages |-> Unwritten] /\ drafted = 0 /\ requests = {}
  /\ stale = {} /\ phase = [m \in Messages |-> 0] /\ reply = [m \in Messages |-> "none"]
  /\ worker = [w \in Workers |-> Free] /\ outbox = {}
  /\ mailed = [m \in Messages |-> 0] /\ nudged = [m \in Messages |-> 0]

-----------------------------------------------------------------------------
\* request_supplier_info: the draft, the case's transition, the event.

Undisturbed == Sound /\ UNCHANGED <<asked, acts>>

Asking(l) == loop[l].tool = "request_supplier_info"

Draft(l) ==
  /\ drafted < MaxMessages /\ CallTool(l, "request_supplier_info") /\ Undisturbed
  /\ drafted' = drafted + 1 /\ msg' = [msg EXCEPT ![drafted + 1].status = "DRAFT"]
  /\ UNCHANGED <<hands, requests, stale, phase, worker, reply, outbox, mailed, nudged>>

Request(l) ==
  /\ Asking(l) /\ EndTool(l) /\ Undisturbed
  /\ requests' = IF status' # status THEN requests \cup {drafted} ELSE requests
  /\ UNCHANGED <<hands, msg, drafted, stale, phase, worker, reply, outbox, mailed, nudged>>

-----------------------------------------------------------------------------
\* The notifier, one invocation w. A step leaves every other variable alone.

Doing(w, step) == worker[w].step = step
Now(w, step) == worker' = [worker EXCEPT ![w].step = step]
Over(w) == worker' = [worker EXCEPT ![w] = Free]
Of(w) == worker[w].m
Quiet == UNCHANGED <<vars, hands, drafted, requests, stale, phase, reply, outbox>>
StatusOnly == UNCHANGED <<rest, hands, ready, drafted, requests, stale, phase, reply, outbox>>
Unmailed == UNCHANGED <<mailed, nudged>>
Write(m, s) == msg' = [msg EXCEPT ![m].status = s]
Sending(m) == msg[m].status = "DRAFT" /\ msg[m].claimed

\* handle_dialogue: only a draft is worked on.
Notify(w) ==
  /\ Doing(w, "idle")
  /\ \E m \in requests :
       /\ worker' = IF msg[m].status # "DRAFT" THEN worker
                    ELSE [worker EXCEPT ![w] = [step |-> "check", m |-> m]]
       /\ \/ requests' = requests \ {m} /\ Sound
          \/ UNCHANGED requests /\ Suffer("twice")
  /\ UNCHANGED <<rest, ready, status, hands, msg, drafted, stale, phase, reply, outbox>> /\ Unmailed

\* V-14, the window left before the stock-out, the delivery stand-in; a case that
\* no longer waits for its supplier fails V-14.
CheckDraft(w) ==
  /\ Doing(w, "check")
  /\ \/ status = "WAITING_SUPPLIER" /\ Now(w, "claim")
     \/ Now(w, "block")
  /\ Quiet /\ Unmailed /\ UNCHANGED msg

\* _block_dialogue: raises on a draft another invocation has claimed or moved;
\* the retries find the same.
Block(w) ==
  /\ Doing(w, "block")
  /\ IF msg[Of(w)].status = "DRAFT" /\ ~msg[Of(w)].claimed
     THEN Write(Of(w), "BLOCKED") /\ Now(w, "escalate")
     ELSE Over(w) /\ UNCHANGED msg
  /\ Quiet /\ Unmailed

\* Mutant: the claim asks only for a draft.
MClaimSend(w) ==
  /\ Doing(w, "claim")
  /\ IF msg[Of(w)].status = "DRAFT"
     THEN msg' = [msg EXCEPT ![Of(w)].claimed = TRUE] /\ Now(w, "send")
     ELSE Over(w) /\ UNCHANGED msg
  /\ Quiet /\ Unmailed

ClaimSend(w) ==
  /\ Doing(w, "claim")
  /\ IF msg[Of(w)].status = "DRAFT" /\ ~msg[Of(w)].claimed
     THEN msg' = [msg EXCEPT ![Of(w)].claimed = TRUE] /\ Now(w, "send")
     ELSE Over(w) /\ UNCHANGED msg
  /\ Quiet /\ Unmailed

\* The channel may raise before or after the message went out.
Send(w) ==
  /\ Doing(w, "send")
  /\ \/ Now(w, "save") /\ mailed' = [mailed EXCEPT ![Of(w)] = @ + 1]
     \/ Now(w, "unsent") /\ \E n \in {0, 1} : mailed' = [mailed EXCEPT ![Of(w)] = @ + n]
  /\ Quiet /\ UNCHANGED <<msg, nudged>>

\* The save is unconditional: it overwrites a block by the sweep.
SaveSent(w) ==
  /\ Doing(w, "save") /\ Over(w)
  /\ msg' = [msg EXCEPT ![Of(w)].status = "SENT", ![Of(w)].reminded = FALSE]
  /\ Quiet /\ Unmailed

Unsent(w) ==
  /\ Doing(w, "unsent")
  /\ IF Sending(Of(w)) THEN Write(Of(w), "BLOCKED") /\ Now(w, "escalate")
     ELSE Over(w) /\ UNCHANGED msg
  /\ Quiet /\ Unmailed

\* Mutant: the sweep leaves alone what it has blocked or timed out before.
MTick(w) ==
  /\ Doing(w, "idle")
  /\ \E m \in Messages :
       /\ \/ Sending(m) /\ m \in stale /\ Write(m, "BLOCKED")
          \/ msg[m].status = "SENT" /\ phase[m] = 2 /\ Write(m, "TIMED_OUT")
       /\ worker' = [worker EXCEPT ![w] = [step |-> "escalate", m |-> m]]
  /\ Quiet /\ Unmailed

\* tick_dialogue, for one message of a sweep
Tick(w) ==
  /\ Doing(w, "idle")
  /\ \E m \in Messages :
       /\ \/ Sending(m) /\ m \in stale /\ Write(m, "BLOCKED")
          \/ msg[m].status \in {"BLOCKED", "TIMED_OUT"} /\ ~msg[m].done /\ UNCHANGED msg
          \/ msg[m].status = "SENT" /\ phase[m] = 2 /\ Write(m, "TIMED_OUT")
       /\ worker' = [worker EXCEPT ![w] = [step |-> "escalate", m |-> m]]
  /\ Quiet /\ Unmailed

\* The reminder is claimed before it is sent.
ClaimReminder(w) ==
  /\ Doing(w, "idle")
  /\ \E m \in Messages :
       /\ msg[m].status = "SENT" /\ phase[m] = 1 /\ ~msg[m].reminded
       /\ msg' = [msg EXCEPT ![m].reminded = TRUE]
       /\ worker' = [worker EXCEPT ![w] = [step |-> "remind", m |-> m]]
  /\ Quiet /\ Unmailed

\* It goes out only for a case still waiting; a failure is not tried again.
Remind(w) ==
  /\ Doing(w, "remind") /\ Over(w)
  /\ \/ status = "WAITING_SUPPLIER" /\ nudged' = [nudged EXCEPT ![Of(w)] = @ + 1]
     \/ UNCHANGED nudged
  /\ Quiet /\ UNCHANGED <<msg, mailed>>

\* _ensure_dialogue_escalated: the case is taken out of its wait...
LeaveWait(w) ==
  /\ Doing(w, "escalate")
  /\ CASE status = "WAITING_SUPPLIER" -> status' = "INVESTIGATING" /\ Now(w, "to tier 3")
       [] status = "INVESTIGATING" -> UNCHANGED status /\ Now(w, "to tier 3")
       [] status = "ESCALATED" -> UNCHANGED status /\ Now(w, "mark")
       [] OTHER -> UNCHANGED status /\ Over(w)
  /\ Sound /\ StatusOnly /\ UNCHANGED msg /\ Unmailed

\* ... and escalated, whoever investigates it...
ToTier3(w) ==
  /\ Doing(w, "to tier 3")
  /\ IF status = "INVESTIGATING" THEN status' = "ESCALATED" /\ Now(w, "mark")
     ELSE UNCHANGED status /\ Over(w)
  /\ Sound /\ StatusOnly /\ UNCHANGED msg /\ Unmailed

\* ... and the sweep stops coming back once the case is seen ESCALATED.
Mark(w) ==
  /\ Doing(w, "mark") /\ Over(w)
  /\ msg' = [msg EXCEPT ![Of(w)].done = @ \/ status = "ESCALATED"]
  /\ Quiet /\ Unmailed

Crash(w) ==
  /\ ~Doing(w, "idle") /\ Over(w) /\ Suffer("crash")
  /\ requests' = requests \cup {Of(w)}
  /\ UNCHANGED <<rest, ready, status, hands, msg, drafted, stale, phase, reply, outbox>> /\ Unmailed

-----------------------------------------------------------------------------
\* The supplier, the reply matcher, the outbox relay and the clock.

Elapse(m) ==
  /\ \/ Sending(m) /\ stale' = stale \cup {m} /\ UNCHANGED phase
     \/ msg[m].status = "SENT" /\ phase[m] < 2 /\ phase' = [phase EXCEPT ![m] = @ + 1]
          /\ UNCHANGED stale
  /\ UNCHANGED <<vars, hands, msg, drafted, requests, worker, reply, outbox, mailed, nudged>>

\* A supplier takes longer to answer than the run that asked takes to end.
Reply(m) ==
  /\ mailed[m] > 0 /\ reply[m] = "none" /\ active = None
  /\ reply' = [reply EXCEPT ![m] = IF phase[m] < 2 THEN "early" ELSE "late"]
  /\ UNCHANGED <<vars, hands, msg, drafted, requests, stale, phase, worker, outbox, mailed, nudged>>

\* ReplyMatcher.match: a case that waits, a message that is SENT, a reply
\* received in time; anything else is over without a retry.
Match(m) ==
  /\ reply[m] \in {"early", "late"}
  /\ reply' = [reply EXCEPT ![m] = IF /\ status = "WAITING_SUPPLIER"
                                      /\ msg[m].status = "SENT" /\ @ = "early"
                                   THEN "matching" ELSE "over"]
  /\ UNCHANGED <<vars, hands, msg, drafted, requests, stale, phase, worker, outbox, mailed, nudged>>

\* Mutant: the transaction trusts what the matcher read.
MAccept(m) ==
  /\ reply[m] = "matching" /\ reply' = [reply EXCEPT ![m] = "over"]
  /\ Write(m, "REPLIED") /\ outbox' = outbox \cup {m}
  /\ UNCHANGED <<vars, hands, drafted, requests, stale, phase, worker, mailed, nudged>>

\* The transaction: the message is REPLIED and its events are in the outbox.
Accept(m) ==
  /\ reply[m] = "matching" /\ reply' = [reply EXCEPT ![m] = "over"]
  /\ IF msg[m].status = "SENT" THEN Write(m, "REPLIED") /\ outbox' = outbox \cup {m}
     ELSE UNCHANGED <<msg, outbox>>
  /\ UNCHANGED <<vars, hands, drafted, requests, stale, phase, worker, mailed, nudged>>

\* OutboxRelay: publish, then mark sent; it may come again before it has marked.
Relay(m) ==
  /\ m \in outbox /\ ready' = ready \cup {None}
  /\ \/ outbox' = outbox \ {m} /\ Sound
     \/ UNCHANGED outbox /\ Suffer("twice")
  /\ UNCHANGED <<rest, hands, status, msg, drafted, requests, stale, phase, worker, reply>> /\ Unmailed

NotifierNext(w) ==
  Notify(w) \/ CheckDraft(w) \/ Block(w) \/ ClaimSend(w) \/ Send(w) \/ SaveSent(w) \/ Unsent(w)
    \/ Tick(w) \/ ClaimReminder(w) \/ Remind(w) \/ LeaveWait(w) \/ ToTier3(w) \/ Mark(w)
RunsNext ==
  /\ RStep /\ UNCHANGED dialogue
  /\ \A l \in Loops : \/ loop'[l] = loop[l]
                       \/ "request_supplier_info" \notin {loop[l].tool, loop'[l].tool}
DNext ==
  \/ RunsNext
  \/ \E l \in Loops : Draft(l) \/ Request(l)
  \/ \E w \in hands : NotifierNext(w) \/ Crash(w)
  \/ \E m \in Messages : Elapse(m) \/ Reply(m) \/ Match(m) \/ Accept(m) \/ Relay(m)
DSpec == DInit /\ [][DNext]_dvars

\* EventBridge delivers, invocations go on, the sweep comes every minute, time
\* passes and loops end. Nobody need start a run, or reply.
Fairness ==
  /\ \A s \in Starters : WF_dvars(StarterNext(s) /\ UNCHANGED <<asked, acts, dialogue>>)
  /\ \A l \in Loops : /\ WF_dvars(~Asking(l) /\ LoopNext(l) /\ Undisturbed /\ UNCHANGED dialogue)
                       /\ WF_dvars(Request(l))
  /\ \A w \in Workers : WF_dvars(w \in hands /\ NotifierNext(w))
  /\ \A m \in Messages : WF_dvars(Elapse(m)) /\ WF_dvars(Match(m)) /\ WF_dvars(Accept(m))
                         /\ WF_dvars(Relay(m))
LiveSpec == DSpec /\ Fairness

-----------------------------------------------------------------------------

\* A supplier gets a question once and its reminder at most once, whatever is
\* delivered again, raises or stops, and no reminder without the question.
\* (The send claim and the reminder's claim, each before its message)
AskedOnce == \A m \in Messages : mailed[m] \in {0, 1} /\ nudged[m] <= mailed[m]

\* An answered question never times out, and one that timed out is never
\* answered or asked again. (The conditions of the sweep's and the matcher's
\* writes; the notifier's save has none)
OneEnd == [][\A m \in Messages : msg[m].status \in {"TIMED_OUT", "REPLIED"} =>
                msg'[m].status = msg[m].status]_dvars

\* A case never waits for its supplier for ever: whatever becomes of the question,
\* it is answered, blocked or timed out, and the case resumed or escalated.
NoEndlessWait == status = "WAITING_SUPPLIER" ~> status # "WAITING_SUPPLIER"
=============================================================================
