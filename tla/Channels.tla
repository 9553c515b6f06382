------------------------------ MODULE Channels ------------------------------
(***************************************************************************)
(* What comes in and what goes out: webhook deliveries of WhatsApp batches *)
(* and emails from S3 into the intake, step by step (webhooks/handler.py,  *)
(* ses_inbound/handler.py, shared/intake.py, shared/signals.py),           *)
(* notifications by email (notifier/handler.py), and the Lab that plays    *)
(* scenarios and follows them (lab/service.py).                            *)
(*                                                                         *)
(* A provider that gets no success repeats the whole delivery, also while  *)
(* the first one still runs; EventBridge repeats a failed call.            *)
(***************************************************************************)
EXTENDS Naturals, Sequences, FiniteSets

CONSTANTS
  Batches,     \* bound: deliveries, the messages of each in order
  Keyed,       \* messages that carry an id of their own; an email may not
  Hands,       \* invocations at the same time
  MaxSignals,  \* bound: signal ids drawn
  Recipients,  \* numbered in the order _send is called
  Allowed,     \* those SAP master data knows
  Polls        \* reads of a Lab run at the same time

ASSUME BatchesAreSequences == \A b \in Batches : b \in Seq(STRING) /\ b # <<>>
ASSUME SignalsAreNumbered == MaxSignals \in Nat
ASSUME RecipientsAreNumbered ==
  /\ IsFiniteSet(Recipients) /\ Recipients = 1..Cardinality(Recipients) /\ Recipients # {}
  /\ Allowed \subseteq Recipients

VARIABLES
  batch,       \* the delivery that comes, and comes again
  drawn,       \* signal ids drawn so far
  claimed,     \* INTAKE# items: the signal id of a message, 0 before
  signal,      \* Signal items by id: [of, status]; status "none" before
  emitted,     \* ids SignalReceived was emitted for
  acked,       \* the provider got its success
  hand,        \* [step, at (index into batch), id]
  notice,      \* NOTIFY# items: "none", "PENDING", "SENT"
  mails,       \* emails each recipient got
  handled,     \* the notification's event was handled to its end
  send,        \* per invocation: [step, at]
  lab,         \* the run's record: [hostile, status, outcome]
  news,        \* the main and the hostile signal and the case as the Lab's run made them; a
               \* signal is "sent" while its channel has not made one of it
  poll         \* per read: [step, run, main, hostile, case]

intakeVars == <<batch, drawn, claimed, signal, emitted, acked, hand>>
noticeVars == <<notice, mails, handled, send>>
labVars == <<lab, news, poll>>
channelVars == <<intakeVars, noticeVars, labVars>>

Ids == 1..MaxSignals
Messages == UNION {{b[i] : i \in DOMAIN b} : b \in Batches}
ASSUME NoneIsNoMessage == "none" \notin Messages \cup Keyed
Rest == [step |-> "idle", at |-> 1, id |-> 0]
NoPoll == [step |-> "idle", run |-> "none", main |-> "none", hostile |-> "none", case |-> "none"]

ChannelsInit ==
  /\ batch \in Batches
  /\ drawn = 0 /\ claimed = [m \in Messages |-> 0]
  /\ signal = [i \in Ids |-> [of |-> "none", status |-> "none"]]
  /\ emitted = {} /\ acked = FALSE /\ hand = [h \in Hands |-> Rest]
  /\ notice = [r \in Recipients |-> "none"] /\ mails = [r \in Recipients |-> 0]
  /\ handled = FALSE /\ send = [h \in Hands |-> Rest]
  /\ lab \in [hostile : BOOLEAN, status : {"PREPARING"}, outcome : {"IN_PROGRESS"}]
  /\ news = [main |-> "none", hostile |-> "none", case |-> "none"]
  /\ poll = [p \in Polls |-> NoPoll]

-----------------------------------------------------------------------------
(* A delivery *)

Advance(h, step) == hand' = [hand EXCEPT ![h].step = step]
Message(h) == batch[hand[h].at]

Deliver(h) ==
  /\ ~acked /\ hand[h] = Rest /\ Advance(h, "fetch")
  /\ UNCHANGED <<batch, drawn, claimed, signal, emitted, acked, noticeVars, labVars>>

\* The media of the message; a download that fails fails the delivery.
Fetch(h) ==
  /\ hand[h].step = "fetch" /\ Advance(h, "claim")
  /\ UNCHANGED <<batch, drawn, claimed, signal, emitted, acked, noticeVars, labVars>>

Taken(m) == claimed[m] # 0

\* Intake._claim; without an id every delivery is another message.
Claim(h) ==
  /\ hand[h].step = "claim"
  /\ LET m == Message(h) IN
       \/ /\ m \notin Keyed \/ ~Taken(m)
          /\ drawn < MaxSignals /\ drawn' = drawn + 1
          /\ claimed' = IF m \in Keyed THEN [claimed EXCEPT ![m] = drawn + 1] ELSE claimed
          /\ hand' = [hand EXCEPT ![h].step = "look", ![h].id = drawn + 1]
       \/ /\ m \in Keyed /\ Taken(m) /\ UNCHANGED <<drawn, claimed>>
          /\ hand' = [hand EXCEPT ![h].step = "look", ![h].id = claimed[m]]
  /\ UNCHANGED <<batch, signal, emitted, acked, noticeVars, labVars>>

\* Mutant: a signal that exists needs nothing more.
MFinished(i) == signal[i].status # "none"
Finished(i) == signal[i].status \in {"ACCEPTED", "QUARANTINED"}

\* receive finds nothing, an interrupted signal, or a finished one; a batch that is
\* through is acknowledged.
NextMessage(h) ==
  IF hand[h].at < Len(batch)
    THEN /\ hand' = [hand EXCEPT ![h] = [Rest EXCEPT !.step = "fetch", !.at = hand[h].at + 1]]
         /\ UNCHANGED acked
    ELSE hand' = [hand EXCEPT ![h] = Rest] /\ acked' = TRUE

Look(h) ==
  /\ hand[h].step = "look"
  /\ LET i == hand[h].id IN
       \/ Finished(i) /\ NextMessage(h)
       \/ /\ ~Finished(i) /\ UNCHANGED acked
          /\ Advance(h, IF signal[i].status = "none" THEN "store" ELSE "emit")
  /\ UNCHANGED <<batch, drawn, claimed, signal, emitted, noticeVars, labVars>>

\* _store: the raw payload, then the signal; another delivery may have created it.
Store(h) ==
  /\ hand[h].step = "store"
  /\ LET i == hand[h].id IN
       IF signal[i].status = "none"
         THEN signal' = [signal EXCEPT ![i] = [of |-> Message(h), status |-> "RECEIVED"]]
              /\ Advance(h, "emit")
         ELSE UNCHANGED signal /\ Advance(h, "look")
  /\ UNCHANGED <<batch, drawn, claimed, emitted, acked, noticeVars, labVars>>

Emit(h) ==
  /\ hand[h].step = "emit" /\ emitted' = emitted \cup {hand[h].id}
  /\ NextMessage(h)
  /\ UNCHANGED <<batch, drawn, claimed, signal, noticeVars, labVars>>

\* A failed download, a timeout, a stop
Drop(h) ==
  /\ hand[h] # Rest /\ hand' = [hand EXCEPT ![h] = Rest]
  /\ UNCHANGED <<batch, drawn, claimed, signal, emitted, acked, noticeVars, labVars>>

\* The gatekeeper, on SignalReceived
Decide(i) ==
  /\ i \in emitted /\ signal[i].status = "RECEIVED"
  /\ \E status \in {"ACCEPTED", "QUARANTINED"} : signal' = [signal EXCEPT ![i].status = status]
  /\ UNCHANGED <<batch, drawn, claimed, emitted, acked, hand, noticeVars, labVars>>

IntakeNext ==
  \/ \E h \in Hands : Deliver(h) \/ Fetch(h) \/ Claim(h) \/ Look(h) \/ Store(h) \/ Emit(h)
                      \/ Drop(h)
  \/ \E i \in Ids : Decide(i)

\* However deliveries are repeated, overlap or break off, a message with an id becomes one
\* signal, and a delivery that got its success left each message with a signal announced.
MessagesBecomeSignals ==
  /\ \A i, j \in Ids : (signal[i].of \in Keyed /\ signal[i].of = signal[j].of) => i = j
  /\ acked => \A k \in DOMAIN batch : \E i \in emitted : signal[i].of = batch[k]

-----------------------------------------------------------------------------
(* Notifier.handle *)

Sends(h, step) == send' = [send EXCEPT ![h].step = step]
Onward(h) ==
  IF send[h].at < Cardinality(Recipients)
    THEN /\ send' = [send EXCEPT ![h] = [Rest EXCEPT !.step = "claim", !.at = send[h].at + 1]]
         /\ UNCHANGED handled
    ELSE send' = [send EXCEPT ![h] = Rest] /\ handled' = TRUE

Notify(h) ==
  /\ ~handled /\ send[h] = Rest /\ Sends(h, "claim")
  /\ UNCHANGED <<notice, mails, handled, intakeVars, labVars>>

\* Mutant: a notice that was recorded and not sent is tried again.
MDuplicate(r) == notice[r] = "SENT"
Duplicate(r) == notice[r] # "none"

\* Refused and audited, a duplicate, or recorded before it is sent
ClaimNotice(h) ==
  /\ send[h].step = "claim"
  /\ LET r == send[h].at IN
       \/ (r \notin Allowed \/ Duplicate(r)) /\ Onward(h) /\ UNCHANGED notice
       \/ /\ r \in Allowed /\ ~Duplicate(r)
          /\ notice' = [notice EXCEPT ![r] = "PENDING"] /\ Sends(h, "mail") /\ UNCHANGED handled
  /\ UNCHANGED <<mails, intakeVars, labVars>>

Mail(h) ==
  /\ send[h].step = "mail" /\ mails' = [mails EXCEPT ![send[h].at] = @ + 1] /\ Sends(h, "mark")
  /\ UNCHANGED <<notice, handled, intakeVars, labVars>>

MarkSent(h) ==
  /\ send[h].step = "mark" /\ notice' = [notice EXCEPT ![send[h].at] = "SENT"] /\ Onward(h)
  /\ UNCHANGED <<mails, intakeVars, labVars>>

\* The mail service refuses, or the invocation stops: EventBridge calls again.
DropSend(h) ==
  /\ send[h] # Rest /\ send' = [send EXCEPT ![h] = Rest]
  /\ UNCHANGED <<notice, mails, handled, intakeVars, labVars>>

NoticeNext ==
  \E h \in Hands : Notify(h) \/ ClaimNotice(h) \/ Mail(h) \/ MarkSent(h) \/ DropSend(h)

\* Nobody is mailed twice, or when SAP does not know them; one recipient's failure does
\* not keep a notification from being recorded for the others.
NotifiedOnce ==
  /\ \A r \in Recipients : mails[r] <= 1 /\ (mails[r] = 1 => r \in Allowed)
  /\ handled => \A r \in Allowed : notice[r] # "none"

-----------------------------------------------------------------------------
(* Lab *)

\* start: the signals go to the intake, or to its channels, where an email becomes a
\* signal in its own time; the second one only after the first. A failure in between
\* leaves the run FAILED with what was submitted under way.
Submit ==
  /\ lab.status = "PREPARING" /\ news.main = "none"
  /\ \E as \in {"sent", "RECEIVED"} : news' = [news EXCEPT !.main = as]
  /\ UNCHANGED <<lab, poll, intakeVars, noticeVars>>
SubmitHostile ==
  /\ lab.status = "PREPARING" /\ news.main # "none" /\ lab.hostile /\ news.hostile = "none"
  /\ \E as \in {"sent", "RECEIVED"} : news' = [news EXCEPT !.hostile = as]
  /\ UNCHANGED <<lab, poll, intakeVars, noticeVars>>
Started ==
  /\ lab.status = "PREPARING" /\ news.main # "none"
  /\ lab.hostile => news.hostile # "none"
  /\ lab' = [lab EXCEPT !.status = "SUBMITTED"]
  /\ UNCHANGED <<news, poll, intakeVars, noticeVars>>
FailedStart ==
  /\ lab.status = "PREPARING"
  /\ lab' = [lab EXCEPT !.status = "FAILED", !.outcome = "DELIVERY_FAILED"]
  /\ UNCHANGED <<news, poll, intakeVars, noticeVars>>

\* What the system makes of the signals: the gatekeeper decides each, an accepted
\* main signal has a case that comes to an end.
WorldAnswers ==
  /\ \/ news.main = "sent" /\ news' = [news EXCEPT !.main = "RECEIVED"]
     \/ news.hostile = "sent" /\ news' = [news EXCEPT !.hostile = "RECEIVED"]
     \/ \E s \in {"ACCEPTED", "QUARANTINED"} :
          \/ news.main = "RECEIVED" /\ news' = [news EXCEPT !.main = s]
          \/ news.hostile = "RECEIVED" /\ news' = [news EXCEPT !.hostile = s]
     \/ news.main = "ACCEPTED" /\ news.case = "none" /\ news' = [news EXCEPT !.case = "open"]
     \/ news.case = "open" /\ \E e \in {"CLOSED", "ESCALATED"} : news' = [news EXCEPT !.case = e]
     \/ news.case = "CLOSED" /\ news' = [news EXCEPT !.case = "open"]      \* reopened
  /\ UNCHANGED <<lab, poll, intakeVars, noticeVars>>

\* get: the run, its signals, the case are read one after the other; the main signal
\* names the case.
Reads(p, step, as) ==
  /\ poll' = [poll EXCEPT ![p] = [as EXCEPT !.step = step]]
  /\ UNCHANGED <<lab, news, intakeVars, noticeVars>>
ReadRun(p) ==
  /\ poll[p] = NoPoll /\ lab.status = "SUBMITTED"
  /\ Reads(p, "main", [NoPoll EXCEPT !.run = lab.outcome])
ReadMain(p) ==
  /\ poll[p].step = "main"
  /\ Reads(p, "hostile", [poll[p] EXCEPT !.main = news.main, !.case = news.case])
ReadHostile(p) ==
  poll[p].step = "hostile" /\ Reads(p, "case", [poll[p] EXCEPT !.hostile = news.hostile])
ReadCase(p) ==
  /\ poll[p].step = "case"
  /\ Reads(p, "save", [poll[p] EXCEPT !.case = IF @ = "none" THEN @ ELSE news.case])

Ends(case) == IF case = "CLOSED" THEN "RESOLVED" ELSE "ESCALATED"

\* Mutant: a hostile signal still to be decided does not hold the outcome back.
MOutcome(r) ==
  IF r.main = "QUARANTINED" THEN "SIGNAL_BLOCKED"
  ELSE IF r.hostile = "ACCEPTED" THEN "HOSTILE_NOT_BLOCKED"
  ELSE IF r.case \in {"CLOSED", "ESCALATED"} THEN Ends(r.case) ELSE "IN_PROGRESS"

Outcome(r) ==
  IF r.main = "QUARANTINED" THEN "SIGNAL_BLOCKED"
  ELSE IF r.hostile = "ACCEPTED" THEN "HOSTILE_NOT_BLOCKED"
  ELSE IF lab.hostile /\ r.hostile \in {"none", "sent", "RECEIVED"} THEN "IN_PROGRESS"
  ELSE IF r.case \in {"CLOSED", "ESCALATED"} THEN Ends(r.case) ELSE "IN_PROGRESS"

\* The outcome is saved, when it or anything else of the run (the ids, the times) is not
\* as it was read, over whatever another read saved meanwhile.
SavePoll(p) ==
  /\ poll[p].step = "save" /\ poll' = [poll EXCEPT ![p] = NoPoll]
  /\ \/ lab' = [lab EXCEPT !.outcome = Outcome(poll[p])]
     \/ Outcome(poll[p]) = poll[p].run /\ UNCHANGED lab
  /\ UNCHANGED <<news, intakeVars, noticeVars>>

LabNext ==
  \/ Submit \/ SubmitHostile \/ Started \/ FailedStart \/ WorldAnswers
  \/ \E p \in Polls : ReadRun(p) \/ ReadMain(p) \/ ReadHostile(p) \/ ReadCase(p) \/ SavePoll(p)

ChannelsSpec ==
  ChannelsInit /\ [][IntakeNext \/ NoticeNext \/ LabNext]_channelVars

\* A run with a hostile signal is never shown as ended well or escalated unless that
\* signal was blocked, and a run is shown blocked only when its own signal was.
LabTellsBlocked ==
  /\ lab.outcome \in {"RESOLVED", "ESCALATED"} /\ lab.hostile => news.hostile = "QUARANTINED"
  /\ lab.outcome = "SIGNAL_BLOCKED" => news.main = "QUARANTINED"

\* What comes in, what goes out and what the Lab shows of both is neither lost nor doubled.
ChannelsAreTrue == MessagesBecomeSignals /\ NotifiedOnce /\ LabTellsBlocked
=============================================================================
