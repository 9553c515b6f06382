------------------------------- MODULE Intake -------------------------------
(***************************************************************************)
(* From a channel's message to a case: intake (shared/intake.py), the      *)
(* gatekeeper, the extraction and the case service, with the keys that     *)
(* make two messages about one part meet in one case.                      *)
(*                                                                         *)
(* Every handler works on the copy of the signal it read and writes the    *)
(* whole item back; any number of deliveries of one event may overlap, and *)
(* an invocation may stop between any two of its calls. All signals name   *)
(* the same material and plant. The verdict on a signal is the same for    *)
(* every delivery. 72 hours pass, and a case closes, only once the events  *)
(* of its signals have been handled.                                       *)
(***************************************************************************)
EXTENDS Naturals, FiniteSets

CONSTANTS
  Signals,      \* messages the channels bring
  Orders,       \* purchase orders they name
  Workers,      \* invocations that may overlap
  Serves,       \* what each is for: one that serves one signal is always there for it
  Scenes,       \* the worlds checked: [order, verdict, bound]
  MaxCases      \* bound: cases opened

ASSUME CasesAreBounded == MaxCases \in Nat

VARIABLES
  order,        \* the purchase order each signal names; that of the MRP message
  verdict,      \* of each signal: "refused" by the gatekeeper, "blocked" by the extraction,
                \* "good", "extracted" in one step, or "silent": it never comes
  bound,        \* on invocations that stop, cases closed, and times 72 h pass
  signal,       \* the Signal item
  members,      \* META.signalIds of each case
  status,       \* META.status
  subject,      \* META.poNumber
  origin,       \* the signal, or the MRP message, the case was opened for
  opened,       \* META.createdAt, as an epoch
  updated,      \* META.updatedAt, as an epoch
  key,          \* KEY# items: material and plant, and each order
  opening,      \* cases with an OPENING marker
  done,         \* SIGNAL# markers
  told,         \* events announced; each may be delivered any time, repeatedly
  received,     \* Signal.receivedAt, as an epoch
  epoch,        \* how many times 72 hours have passed
  call,         \* what each invocation is doing, with what it has read
  stops,        \* counts invocations that stopped
  closes,       \* counts cases closed
  unlinked      \* history: signals whose case_id an older copy overwrote

world == <<order, verdict, bound>>
case == <<members, status, subject, origin, opened, updated>>
vars == <<world, signal, case, key, opening, done, told, received, epoch,
          call, stops, closes, unlinked>>

Cases == 1..MaxCases
None == 0
Mrp == "mrp"
Mat == "material"
NoOrder == "no order"

ASSUME NamesAreApart == Mrp \notin Signals /\ Mat \notin Orders /\ NoOrder \notin Orders
ASSUME ScenesNameOrders ==
  \A scene \in Scenes : /\ scene.order \in [Signals \cup {Mrp} -> Orders \cup {NoOrder}]
                        /\ scene.verdict \in [Signals -> {"refused", "blocked", "good", "extracted", "silent"}]

Absent == [status |-> "ABSENT", verified |-> FALSE, read |-> FALSE, case |-> None]
Extracted == [status |-> "ACCEPTED", verified |-> TRUE, read |-> TRUE, case |-> None]

Keys == Orders \cup {Mat, NoOrder}

Idle == [pc |-> "idle", x |-> Mrp, copy |-> Absent, c |-> None, at |-> "NONE",
         mat |-> None, po |-> None]

Open(c) == status[c] \in {"RECEIVED", "TRIAGED", "ACTIVE"}

Goto(w, pc) == call' = [call EXCEPT ![w].pc = pc]
Answers(w, pc) == call' = [call EXCEPT ![w].pc = pc, ![w].copy = Absent]
Ends(w) == call' = [call EXCEPT ![w] = Idle]

\* SignalStore.save: the whole item, whatever it has become since it was read.
Save(s, copy) ==
  /\ signal' = [signal EXCEPT ![s] = copy]
  /\ unlinked' = IF signal[s].case # None /\ copy.case = None THEN unlinked \cup {s} ELSE unlinked

-----------------------------------------------------------------------------
(* Intake.receive *)

\* The claim gives a repeated message the same signal; it is announced again as
\* long as nobody has decided it.
Receive(s) ==
  /\ verdict[s] \in {"good", "refused", "blocked"}
  /\ signal[s].status \in {"ABSENT", "RECEIVED"}
  /\ signal' = [signal EXCEPT ![s].status = "RECEIVED"]
  /\ received' = IF signal[s].status = "ABSENT" THEN [received EXCEPT ![s] = epoch] ELSE received
  /\ \/ told' = told \cup {<<"received", s>>} /\ UNCHANGED stops
     \/ stops < bound.stops /\ stops' = stops + 1 /\ UNCHANGED told
  /\ UNCHANGED <<world, case, key, opening, done, epoch, call, closes, unlinked>>

\* A signal whose way to the case service is not what is looked at.
Arrive(s) ==
  /\ verdict[s] = "extracted" /\ signal[s].status = "ABSENT"
  /\ signal' = [signal EXCEPT ![s] = Extracted]
  /\ received' = [received EXCEPT ![s] = epoch]
  /\ told' = told \cup {<<"extracted", s>>}
  /\ UNCHANGED <<world, case, key, opening, done, epoch, call, stops, closes, unlinked>>

-----------------------------------------------------------------------------
(* Gatekeeper.handle, Extraction.handle *)

Begin(w, s, pc) ==
  /\ call[w].pc = "idle" /\ s \in Serves[w]
  /\ call' = [call EXCEPT ![w] = [Idle EXCEPT !.pc = pc, !.x = s, !.copy = signal[s]]]
  /\ UNCHANGED <<world, signal, case, key, opening, done, told, received, epoch,
                 stops, closes, unlinked>>

BeginGate(w, s) ==
  /\ <<"received", s>> \in told
  /\ signal[s].status = "RECEIVED"
  /\ Begin(w, s, "gate")

Gate(w) ==
  LET s == call[w].x
      refused == verdict[s] = "refused"
  IN  /\ call[w].pc = "gate"
      /\ Save(s, IF refused THEN [call[w].copy EXCEPT !.status = "QUARANTINED"]
                 ELSE [call[w].copy EXCEPT !.status = "ACCEPTED", !.verified = TRUE])
      /\ Answers(w, IF refused THEN "quarantined" ELSE "accepted")
      /\ UNCHANGED <<world, case, key, opening, done, told, received, epoch, stops, closes>>

\* A signal whose fields were read is not read again.
BeginExtract(w, s) ==
  /\ <<"accepted", s>> \in told
  /\ signal[s].status = "ACCEPTED" /\ ~signal[s].read
  /\ Begin(w, s, "extract")

Extract(w) ==
  LET s == call[w].x
      blocked == verdict[s] = "blocked"
  IN  /\ call[w].pc = "extract"
      /\ Save(s, IF blocked THEN [call[w].copy EXCEPT !.status = "QUARANTINED"]
                 ELSE [call[w].copy EXCEPT !.read = TRUE])
      /\ Answers(w, IF blocked THEN "quarantined" ELSE "extracted")
      /\ UNCHANGED <<world, case, key, opening, done, told, received, epoch, stops, closes>>

\* SignalAccepted, SignalExtracted; the audit event and SignalQuarantined.
Announce(w) ==
  /\ call[w].pc \in {"accepted", "extracted", "quarantined"}
  /\ told' = told \cup {<<call[w].pc, call[w].x>>}
  /\ Ends(w)
  /\ UNCHANGED <<world, signal, case, key, opening, done, received, epoch, stops, closes, unlinked>>

-----------------------------------------------------------------------------
(* CaseService: on_signal, on_mrp *)

\* Mutant: a signal in a case is not looked at again.
MBeginSignal(w, s) ==
  /\ <<"extracted", s>> \in told /\ received[s] = epoch
  /\ signal[s].verified /\ signal[s].case = None
  /\ Begin(w, s, "find")

\* A signal that has its case resumes there, unless its marker says it is done.
\* EventBridge gives an event up after 24 h.
BeginSignal(w, s) ==
  LET c == signal[s].case IN
  /\ <<"extracted", s>> \in told /\ received[s] = epoch
  /\ signal[s].verified
  /\ IF c = None THEN Begin(w, s, "find")
     ELSE /\ <<c, s>> \notin done
          /\ call[w].pc = "idle" /\ s \in Serves[w]
          /\ call' = [call EXCEPT ![w] = [Idle EXCEPT !.pc = "attach", !.x = s,
                                            !.copy = signal[s], !.c = c, !.at = status[c]]]
          /\ UNCHANGED <<world, signal, case, key, opening, done, told, received, epoch,
                         stops, closes, unlinked>>

\* One message of MrpExceptionsPolled, every 15 minutes.
BeginMrp(w) ==
  /\ call[w].pc = "idle" /\ Mrp \in Serves[w]
  /\ call' = [call EXCEPT ![w] = [Idle EXCEPT !.pc = "find"]]
  /\ UNCHANGED <<world, signal, case, key, opening, done, told, received, epoch,
                 stops, closes, unlinked>>

\* _open_case: the case of a key, unless it is terminal.
OpenCase(k) == IF key[k] # None /\ Open(key[k]) THEN key[k] ELSE None

\* _case_for_signal: not another order's case, and within 72 h (BR-15); on_mrp
\* takes the material's case as it is.
Existing(x) ==
  LET byOrder == OpenCase(order[x])
      c == IF x # Mrp /\ byOrder # None THEN byOrder ELSE OpenCase(Mat)
  IN  IF c # None /\ x # Mrp
           /\ (subject[c] \notin {NoOrder, order[x]} \/ received[x] # updated[c])
        THEN None ELSE c

Joins(w, c, otherwise) ==
  call' = [call EXCEPT ![w] =
    IF c = None THEN [@ EXCEPT !.pc = otherwise]
    ELSE [@ EXCEPT !.c = c, !.at = status[c], !.mat = None, !.po = None,
                   !.pc = IF call[w].x = Mrp THEN "finish" ELSE "attach"]]

Find(w) ==
  /\ call[w].pc = "find"
  /\ Joins(w, Existing(call[w].x), "keys")
  /\ UNCHANGED <<world, signal, case, key, opening, done, told, received, epoch,
                 stops, closes, unlinked>>

\* _open: the keys are read before the case is looked for again ...
ReadKeys(w) ==
  /\ call[w].pc = "keys"
  /\ call' = [call EXCEPT ![w].pc = "recheck", ![w].mat = key[Mat], ![w].po = key[order[call[w].x]]]
  /\ UNCHANGED <<world, signal, case, key, opening, done, told, received, epoch,
                 stops, closes, unlinked>>

\* Mutant: the case looked for first is not looked for again.
MRecheck(w) ==
  /\ call[w].pc = "recheck"
  /\ Goto(w, "create")
  /\ UNCHANGED <<world, signal, case, key, opening, done, told, received, epoch,
                 stops, closes, unlinked>>

Recheck(w) ==
  /\ call[w].pc = "recheck"
  /\ Joins(w, Existing(call[w].x), "create")
  /\ UNCHANGED <<world, signal, case, key, opening, done, told, received, epoch,
                 stops, closes, unlinked>>

\* Mutant: the keys are put without a condition.
MKeysStand(w) == TRUE

\* ... and must still be what was read when the case is put.
KeysStand(w) == key[Mat] = call[w].mat /\ key[order[call[w].x]] = call[w].po

\* A conflict starts the loop again (its fifth ends the invocation: Stop).
Create(w) ==
  LET x == call[w].x
      unused == {c \in Cases : status[c] = "NONE"}
      c == CHOOSE n \in unused : \A m \in unused : n <= m
  IN  /\ call[w].pc = "create"
      /\ IF ~KeysStand(w)
           THEN Goto(w, "keys") /\ UNCHANGED <<case, key, opening>>
           ELSE /\ unused # {}
                /\ status' = [status EXCEPT ![c] = "RECEIVED"]
                /\ subject' = [subject EXCEPT ![c] = order[x]]
                /\ origin' = [origin EXCEPT ![c] = x]
                /\ opened' = [opened EXCEPT ![c] = epoch]
                /\ updated' = [updated EXCEPT ![c] = epoch]
                /\ key' = [k \in Keys |-> IF k = Mat \/ (k = order[x] /\ k # NoOrder) THEN c ELSE key[k]]
                /\ opening' = opening \cup {c}
                /\ call' = [call EXCEPT ![w].c = c, ![w].at = "RECEIVED", ![w].mat = None, ![w].po = None,
                                        ![w].pc = IF x = Mrp THEN "finish" ELSE "attach"]
                /\ UNCHANGED members
      /\ UNCHANGED <<world, signal, done, told, received, epoch, stops, closes, unlinked>>

\* CaseStore.add_signal; a signal that is there already is not added again.
Attach(w) ==
  LET c == call[w].c
      s == call[w].x
  IN  /\ call[w].pc = "attach"
      /\ members' = [members EXCEPT ![c] = @ \cup {s}]
      /\ updated' = IF s \in members[c] THEN updated ELSE [updated EXCEPT ![c] = epoch]
      /\ Goto(w, "link")
      /\ UNCHANGED <<world, signal, status, subject, origin, opened, key, opening, done, told,
                     received, epoch, stops, closes, unlinked>>

Link(w) ==
  /\ call[w].pc = "link"
  /\ Save(call[w].x, [call[w].copy EXCEPT !.case = call[w].c])
  /\ call' = [call EXCEPT ![w].pc = "finish", ![w].copy = Absent]
  /\ UNCHANGED <<world, case, key, opening, done, told, received, epoch, stops, closes>>

\* The marker outlives an invocation that stops; a case read as RECEIVED is
\* triaged whoever opened it.
Finishes(w) == call[w].c \in opening \/ call[w].at = "RECEIVED"

FinishOpen(w) ==
  LET c == call[w].c IN
  /\ call[w].pc = "finish" /\ Finishes(w)
  /\ IF call[w].at = "RECEIVED"
       THEN /\ updated' = [updated EXCEPT ![c] = epoch]
            /\ status' = [status EXCEPT ![c] = IF @ = "RECEIVED" THEN "TRIAGED" ELSE @]
       ELSE UNCHANGED <<updated, status>>
  /\ call' = [call EXCEPT ![w].pc = "opened", ![w].at = "NONE"]
  /\ UNCHANGED <<world, signal, members, subject, origin, opened, key, opening, done, told,
                 received, epoch, stops, closes, unlinked>>

\* CaseOpened, CaseReadyForRun, then the marker goes.
Tell(w) ==
  /\ \/ /\ call[w].pc \in {"opened", "ready"}
        /\ told' = told \cup {<<call[w].pc, call[w].c>>}
        /\ Goto(w, IF call[w].pc = "opened" THEN "ready" ELSE "unmark")
        /\ UNCHANGED opening
     \/ /\ call[w].pc = "unmark"
        /\ opening' = opening \ {call[w].c}
        /\ IF call[w].x = Mrp THEN Ends(w) ELSE call' = [call EXCEPT ![w].pc = "done", ![w].at = "NONE"]
        /\ UNCHANGED told
  /\ UNCHANGED <<world, signal, case, key, done, received, epoch, stops, closes, unlinked>>

\* _touch: scored again; CaseReadyForRun only where no run has started.
Touch(w) ==
  LET c == call[w].c IN
  /\ call[w].pc = "finish" /\ ~Finishes(w)
  /\ updated' = [updated EXCEPT ![c] = epoch]
  /\ told' = IF call[w].at = "TRIAGED" THEN told \cup {<<"ready", c>>} ELSE told
  /\ IF call[w].x = Mrp THEN Ends(w) ELSE call' = [call EXCEPT ![w].pc = "done", ![w].at = "NONE"]
  /\ UNCHANGED <<world, signal, members, status, subject, origin, opened, key, opening, done,
                 received, epoch, stops, closes, unlinked>>

SignalDone(w) ==
  /\ call[w].pc = "done"
  /\ done' = done \cup {<<call[w].c, call[w].x>>}
  /\ Ends(w)
  /\ UNCHANGED <<world, signal, case, key, opening, told, received, epoch, stops, closes, unlinked>>

-----------------------------------------------------------------------------
(* What happens around the handlers *)

\* An invocation ends early: an error, a timeout, the fifth conflict.
Stop(w) ==
  /\ call[w].pc # "idle" /\ stops < bound.stops
  /\ stops' = stops + 1
  /\ Ends(w)
  /\ UNCHANGED <<world, signal, case, key, opening, done, told, received, epoch, closes, unlinked>>

\* Days are long for deliveries: every event of a signal has been handled.
Quiet ==
  /\ \A w \in Workers : call[w].pc = "idle"
  /\ \A s \in Signals : signal[s].status \in {"ABSENT", "QUARANTINED"} \/ \E c \in Cases : <<c, s>> \in done

\* The run starter takes the case; days later the monitor closes it.
StartRun(c) ==
  /\ <<"ready", c>> \in told /\ status[c] = "TRIAGED"
  /\ status' = [status EXCEPT ![c] = "ACTIVE"]
  /\ updated' = [updated EXCEPT ![c] = epoch]
  /\ UNCHANGED <<world, signal, members, subject, origin, opened, key, opening, done, told,
                 received, epoch, call, stops, closes, unlinked>>

Close(c) ==
  /\ Quiet /\ status[c] = "ACTIVE" /\ closes < bound.closes
  /\ status' = [status EXCEPT ![c] = "CLOSED"]
  /\ updated' = [updated EXCEPT ![c] = epoch]
  /\ closes' = closes + 1
  /\ UNCHANGED <<world, signal, members, subject, origin, opened, key, opening, done, told,
                 received, epoch, call, stops, unlinked>>

Pass72h ==
  /\ Quiet /\ epoch < bound.epoch
  /\ epoch' = epoch + 1
  /\ UNCHANGED <<world, signal, case, key, opening, done, told, received, call, stops, closes, unlinked>>

-----------------------------------------------------------------------------
Init ==
  /\ \E scene \in Scenes : order = scene.order /\ verdict = scene.verdict /\ bound = scene.bound
  /\ signal = [s \in Signals |-> Absent]
  /\ members = [c \in Cases |-> {}]
  /\ status = [c \in Cases |-> "NONE"]
  /\ subject = [c \in Cases |-> NoOrder]
  /\ origin = [c \in Cases |-> Mrp]
  /\ opened = [c \in Cases |-> 0]
  /\ updated = [c \in Cases |-> 0]
  /\ key = [k \in Keys |-> None]
  /\ opening = {} /\ done = {} /\ told = {}
  /\ received = [s \in Signals |-> 0]
  /\ epoch = 0
  /\ call = [w \in Workers |-> Idle]
  /\ stops = 0 /\ closes = 0 /\ unlinked = {}

Step(w) ==
  \/ Gate(w) \/ Extract(w) \/ Announce(w)
  \/ Find(w) \/ ReadKeys(w) \/ Recheck(w) \/ Create(w) \/ Attach(w) \/ Link(w)
  \/ FinishOpen(w) \/ Tell(w) \/ Touch(w) \/ SignalDone(w)

Next ==
  \/ \E s \in Signals :
       Receive(s) \/ Arrive(s) \/ \E w \in Workers : BeginGate(w, s) \/ BeginExtract(w, s) \/ BeginSignal(w, s)
  \/ \E w \in Workers : BeginMrp(w) \/ Step(w) \/ Stop(w)
  \/ \E c \in Cases : StartRun(c) \/ Close(c)
  \/ Pass72h

Spec == Init /\ [][Next]_vars

\* Channels and EventBridge deliver again until a handler succeeds; a started
\* invocation goes on.
Fairness ==
  /\ \A s \in Signals : WF_vars(Receive(s))
  /\ \A w \in Workers : WF_vars(Step(w))
  /\ \A w \in Workers, s \in Signals : Serves[w] = {s} =>
       WF_vars(BeginGate(w, s)) /\ WF_vars(BeginExtract(w, s)) /\ WF_vars(BeginSignal(w, s))

FairSpec == Spec /\ Fairness

-----------------------------------------------------------------------------
(* Properties *)

\* A later case has taken the key by which c would be found: its order's, or the material's.
Passed(c, d) == \E e \in Cases : c < e /\ e < d /\ subject[c] \in {NoOrder, subject[e]}

\* A signal looks for its order's case first: one that is too old hides c.
Hidden(c, d) ==
  /\ subject[c] = NoOrder /\ subject[d] # NoOrder
  /\ \E e \in Cases : e < c /\ subject[e] = subject[d] /\ opened[e] # opened[d]

\* FR-ING-01, FR-ING-08: a second case about a part is opened beside an open one on
\* purpose: by a signal of another order or 72 h apart, or because the keys no
\* longer lead to the first: another case took them, or an old one comes before.
OneOpenCase ==
  \A c, d \in Cases : (c < d /\ Open(c) /\ status[d] # "NONE") =>
    IF origin[d] = Mrp THEN \E e \in Cases : c < e /\ e < d
    ELSE \/ subject[c] \notin {NoOrder, subject[d]} \/ opened[c] # opened[d]
         \/ Passed(c, d) \/ Hidden(c, d)

\* A signal is evidence in one case, however often and however close together its
\* events arrive, unless an older copy cut its link; two cases may share it when
\* they were opened 72 h apart or the material's key passed to a third between them. The
\* console's way from a signal to its case ends in a case that lists the signal.
AttachedOnce ==
  /\ \A s \in Signals : signal[s].case # None => s \in members[signal[s].case]
  /\ \A s \in Signals \ unlinked, c, d \in Cases :
       (c < d /\ s \in members[c] \cap members[d]) =>
         opened[c] # opened[d] \/ \E e \in Cases : c < e /\ e < d

\* An extracted signal of a known sender ends in a case that has been handed to
\* the agent, wherever an invocation stops.
ExtractedIsHandled ==
  \A s \in Signals : (\E w \in Workers : Serves[w] = {s}) =>
    <<"extracted", s>> \in told ~> \E c \in Cases : s \in members[c] /\ <<"ready", c>> \in told

\* gatekeeper/handler.py: "Otherwise it is ACCEPTED with the matched partner and
\* SignalAccepted is emitted."
AcceptedIsEmitted ==
  \A s \in Signals : signal[s].status = "ACCEPTED" ~> <<"accepted", s>> \in told
=============================================================================
