---------------------------- MODULE IntakeProofs ----------------------------
(***************************************************************************)
(* Proofs about Intake, for any signals, orders, invocations and worlds: a *)
(* second case beside an open one is opened on purpose, and a signal is    *)
(* evidence in one case.                                                   *)
(*                                                                         *)
(* IntakeInv holds the two together: cases are numbered as they are        *)
(* opened, so the material's key always names the newest and an order's    *)
(* key the newest of its order; while keys read earlier still stand, what  *)
(* was not found under them is still not there; and the cases a signal is  *)
(* in or on its way into are known, because none of them closes before the *)
(* signal is linked.                                                       *)
(***************************************************************************)
EXTENDS Intake, TLAPS

-----------------------------------------------------------------------------
Statuses == {"NONE", "RECEIVED", "TRIAGED", "ACTIVE", "CLOSED"}
Looking == {"find", "keys", "recheck", "create"}
Placing == {"attach", "link"}
Placed == {"finish", "opened", "ready", "unmark", "done"}
Handling == {"gate", "quarantined", "accepted", "extract", "extracted"}
Pcs == {"idle"} \cup Handling \cup Looking \cup Placing \cup Placed

Messages == Signals \cup {Mrp}
Subjects == Orders \cup {NoOrder}
Verdicts == {"refused", "blocked", "good", "extracted", "silent"}
Items == [status : {"ABSENT", "RECEIVED", "ACCEPTED", "QUARANTINED"}, verified : BOOLEAN,
          read : BOOLEAN, case : Cases \cup {None}]
Work == [pc : Pcs, x : Messages, copy : Items, c : Cases \cup {None}, at : Statuses,
         mat : Cases \cup {None}, po : Cases \cup {None}]

CaseTypes ==
  /\ members \in [Cases -> SUBSET Signals]
  /\ status \in [Cases -> Statuses]
  /\ subject \in [Cases -> Subjects]
  /\ origin \in [Cases -> Messages]
  /\ opened \in [Cases -> Nat]
  /\ updated \in [Cases -> Nat]
  /\ key \in [Keys -> Cases \cup {None}]
  /\ epoch \in Nat

Types ==
  /\ order \in [Messages -> Subjects]
  /\ verdict \in [Signals -> Verdicts]
  /\ signal \in [Signals -> Items]
  /\ received \in [Signals -> Nat]
  /\ call \in [Workers -> Work]
  /\ unlinked \in SUBSET Signals
  /\ CaseTypes

Born(c) == status[c] # "NONE"
Known(s) == <<"extracted", s>> \in told

\* Cases are numbered as they are opened, and a key holds the last it was given to.
Numbering ==
  /\ \A c, d \in Cases : c < d /\ Born(d) => Born(c) /\ opened[c] <= opened[d]
  /\ \A c \in Cases : Born(c) => c <= key[Mat] /\ opened[c] <= updated[c] /\ updated[c] <= epoch
  /\ \A c \in Cases : IF Born(c) THEN subject[c] \in Orders => c <= key[subject[c]]
                      ELSE subject[c] = NoOrder
  /\ \A k \in Keys : key[k] # None => Born(key[k])
  /\ \A k \in Orders : key[k] # None => subject[key[k]] = k
  /\ key[NoOrder] = None

\* Where the keys lead, there is no case for this message; the case that is there, if
\* any, stays unfit while the keys stand and somebody is at work.
NoneFor(x) ==
  LET b == key[order[x]]
      m == key[Mat]
  IN  IF x # Mrp /\ b # None /\ Open(b) THEN opened[b] # epoch
      ELSE m # None /\ Open(m) =>
             x # Mrp /\ (subject[m] \notin {NoOrder, order[x]} \/ opened[m] # epoch)

Fits(w) ==
  LET job == call[w] IN
  /\ job.pc \in Handling \cup Placing \cup {"done"} => job.x \in Signals
  /\ job.pc \in Placing \cup Placed => job.c # None /\ Born(job.c)
  /\ job.pc \in Looking /\ job.x \in Signals => received[job.x] = epoch
  /\ job.pc \in Looking \cup Placing \cup Placed /\ job.x \in Signals => Known(job.x)
  /\ job.pc \in {"recheck", "create"} => job.mat <= key[Mat] /\ job.po <= key[order[job.x]]
  /\ job.pc = "create" /\ KeysStand(w) => NoneFor(job.x)

\* A signal that is known is neither absent nor quarantined, and neither is a copy of it.
Well(s) ==
  /\ Known(s) => verdict[s] \notin {"refused", "blocked"} /\ signal[s].status # "ABSENT"
  /\ signal[s].status = "QUARANTINED" => verdict[s] \in {"refused", "blocked"}
  /\ <<"accepted", s>> \in told => verdict[s] # "refused"
  /\ signal[s].case # None => s \in members[signal[s].case]
Copies(w) ==
  LET job == call[w] IN
  /\ job.pc \in {"gate", "extract"} => job.copy.status # "ABSENT"
  /\ job.pc \in Looking \cup Placing /\ job.x \in Signals => job.copy.status # "ABSENT"
  /\ job.copy.status = "QUARANTINED" => job.x \in Signals /\ verdict[job.x] \in {"refused", "blocked"}
  /\ job.pc \in {"accepted", "extract", "extracted"} => verdict[job.x] # "refused"
  /\ job.pc = "extracted" => verdict[job.x] # "blocked" /\ signal[job.x].status # "ABSENT"
  /\ job.copy.case # None => job.x \in Signals /\ job.x \in members[job.copy.case]
  /\ job.pc = "link" => job.x \in members[job.c]
  /\ job.pc \in Placed /\ job.x \in Signals => signal[job.x].case # None \/ job.x \in unlinked

\* A signal's marker is written after its link.
Marks == \A s \in Signals, c \in Cases : <<c, s>> \in done => signal[s].case # None \/ s \in unlinked

(* The cases a signal is in, or on its way into *)
Chosen(s, c) ==
  s \in members[c] \/ \E w \in Workers : call[w].pc \in Placing /\ call[w].x = s /\ call[w].c = c
Settled(s) ==
  signal[s].case # None /\ \A w \in Workers : call[w].x = s => call[w].pc \notin Looking
Between(c, d) == \E e \in Cases : c < e /\ e < d
Apart(c, d) == opened[c] # opened[d] \/ Between(c, d)

\* A case chosen for want of one of the signal's order: the order's last case before
\* it was closed, so that no case was opened for the order behind an open old one.
ForWant(s, c) == subject[c] = NoOrder /\ order[s] # NoOrder
LastClosed(p, c) ==
  \A b \in Cases :
    b < c /\ subject[b] = p /\ (\A e \in Cases : b < e /\ e < c => subject[e] # p) => ~Open(b)
NextApart(p, c) ==
  \A d \in Cases :
    d = c + 1 /\ Born(d) /\ subject[d] = p /\ origin[d] # Mrp /\ Open(c) => opened[c] # opened[d]

Choices ==
  \A s \in Signals, c \in Cases : Chosen(s, c) =>
    /\ Born(c) /\ subject[c] \in {NoOrder, order[s]} /\ Known(s)
    /\ ForWant(s, c) => LastClosed(order[s], c) /\ NextApart(order[s], c)
    /\ s \in unlinked \/ Open(c) \/ Settled(s)
OneChoice ==
  \A s \in Signals \ unlinked, c, d \in Cases :
    c < d /\ Chosen(s, c) /\ Chosen(s, d) => Apart(c, d)

IntakeInv ==
  /\ Types /\ Numbering
  /\ \A w \in Workers : Fits(w) /\ Copies(w)
  /\ \A s \in Signals : Well(s)
  /\ Marks /\ OneOpenCase /\ Choices /\ OneChoice

-----------------------------------------------------------------------------
(* What most steps leave as it was *)

Keeps ==
  /\ UNCHANGED <<world, subject, origin, opened, key, epoch>>
  /\ \A c \in Cases : (Born(c)' <=> Born(c)) /\ (Open(c)' <=> Open(c))
  /\ \A c \in Cases : updated[c] <= updated'[c] /\ (Born(c) => updated'[c] <= epoch)
  /\ \A c \in Cases : members[c] \subseteq members'[c]
  /\ told \subseteq told' /\ unlinked \subseteq unlinked'
  /\ \A s \in Signals : received[s] = epoch => received'[s] = epoch
  /\ \A s \in Signals : signal[s].status # "ABSENT" => signal'[s].status # "ABSENT"
  /\ \A s \in Signals : signal[s].case # None => signal'[s].case # None \/ s \in unlinked'

\* The step is not a choice: no signal gets a case it had not, none is looked at again.
NoChoice ==
  /\ \A s \in Signals, c \in Cases : Chosen(s, c)' => Chosen(s, c)
  /\ \A s \in Signals \ unlinked' : Settled(s) => Settled(s)'

LEMMA CasesKept ==
  ASSUME IntakeInv, Types', Keeps
  PROVE  Numbering' /\ OneOpenCase'
<1>1. Numbering'
  <2> USE DEF Keeps, IntakeInv, Types, CaseTypes, Numbering, Born, Keys, Cases, None
  <2>1. \A c, d \in Cases : c < d /\ Born(d)' => Born(c)' /\ opened'[c] <= opened'[d]
    OBVIOUS
  <2>2. \A c \in Cases : Born(c)' => c <= key'[Mat] /\ opened'[c] <= updated'[c] /\ updated'[c] <= epoch'
    <3> SUFFICES ASSUME NEW c \in Cases, Born(c)'
                 PROVE  c <= key'[Mat] /\ opened'[c] <= updated'[c] /\ updated'[c] <= epoch'
      OBVIOUS
    <3>1. c <= key[Mat] /\ opened[c] <= updated[c] /\ updated[c] <= updated'[c] /\ updated'[c] <= epoch
      OBVIOUS
    <3>2. opened[c] \in Nat /\ updated[c] \in Nat /\ updated'[c] \in Nat
      OBVIOUS
    <3>3. opened'[c] <= updated'[c]
      BY <3>1, <3>2
    <3> QED BY <3>1, <3>3
  <2> QED BY <2>1, <2>2
<1>2. OneOpenCase'
  BY DEF Keeps, IntakeInv, OneOpenCase, Passed, Hidden, Born
<1> QED BY <1>1, <1>2

LEMMA ChoicesKept ==
  ASSUME IntakeInv, Types', Keeps, NoChoice
  PROVE  Choices' /\ OneChoice'
<1> USE DEF Keeps, NoChoice, IntakeInv, world
<1>1. \A s \in Signals, c \in Cases :
        ForWant(s, c)' => ForWant(s, c)
  BY DEF ForWant
<1>2. \A p \in Orders, c \in Cases : LastClosed(p, c) => LastClosed(p, c)'
  BY DEF LastClosed
<1>3. \A p \in Orders, c \in Cases : NextApart(p, c) => NextApart(p, c)'
  BY DEF NextApart
<1>4. \A s \in Signals : order[s] \in Orders \cup {NoOrder}
  BY DEF Types, Messages, Subjects
<1>5. Choices'
  BY <1>1, <1>2, <1>3, <1>4 DEF Choices, ForWant, Known
<1>6. OneChoice'
  BY DEF OneChoice, Apart, Between
<1> QED BY <1>5, <1>6

LEMMA OthersKept ==
  ASSUME IntakeInv, Types', Keeps, NEW v \in Workers, call'[v] = call[v]
  PROVE  Fits(v)' /\ Copies(v)'
<1> USE DEF Keeps, IntakeInv, world
<1>1. call[v] \in Work /\ order \in [Messages -> Subjects] /\ Messages = Signals \cup {Mrp}
      /\ signal \in [Signals -> Items] /\ unlinked \subseteq Signals /\ key \in [Keys -> Cases \cup {None}]
      /\ Subjects \subseteq Keys
  BY DEF Types, CaseTypes, Messages, Subjects, Keys
<1>2. ASSUME call[v].pc = "create", KeysStand(v)
      PROVE  NoneFor(call[v].x)'
  <2>1. NoneFor(call[v].x)
    BY <1>2 DEF Fits
  <2>2. call[v].x \in Messages /\ order[call[v].x] \in Keys /\ Mat \in Keys
    BY <1>1 DEF Work, Keys
  <2>3. key[order[call[v].x]] \in Cases \cup {None} /\ key[Mat] \in Cases \cup {None}
    BY <1>1, <2>2
  <2> QED BY <2>1, <2>3 DEF NoneFor
<1>3. Fits(v)'
  <2>1. Fits(v)
    OBVIOUS
  <2>2. KeysStand(v)' <=> KeysStand(v)
    BY DEF KeysStand
  <2>3. call[v].x \in Signals \cup {Mrp} /\ call[v].c \in Cases \cup {None}
    BY <1>1 DEF Work
  <2> QED BY <1>2, <2>1, <2>2, <2>3 DEF Fits, Known
<1>4. Copies(v)'
  <2>1. Copies(v)
    OBVIOUS
  <2>2. call[v].x \in Signals \cup {Mrp} /\ call[v].copy.case \in Cases \cup {None}
    BY <1>1 DEF Work, Items
  <2>3. call[v].pc \in Handling => call[v].x \in Signals
    BY DEF Fits
  <2>4. call[v].pc = "link" => call[v].x \in members'[call[v].c]
    <3>1. call[v].pc = "link" => call[v].c \in Cases
      BY <1>1 DEF Fits, Placing, Work
    <3> QED BY <2>1, <3>1 DEF Copies
  <2> QED BY <2>1, <2>2, <2>3, <2>4 DEF Copies, Handling
<1> QED BY <1>3, <1>4

\* The steps of an invocation that choose no case: what remains to show of each is
\* about its own record, the signal it works on and the markers.
NoChoiceOf(w) ==
  /\ \A v \in Workers : v # w => call'[v] = call[v]
  /\ \A s \in Signals, c \in Cases : s \in members'[c] => Chosen(s, c)
  /\ call'[w].pc \in Placing =>
       \/ call[w].pc \in Placing /\ call'[w].x = call[w].x /\ call'[w].c = call[w].c
       \/ call'[w].x \in members[call'[w].c]
  /\ call'[w].pc \in Looking =>
       \/ call'[w].x = Mrp
       \/ call[w].pc \in Looking /\ call'[w].x = call[w].x
       \/ signal[call'[w].x].case = None

LEMMA StepKept ==
  ASSUME IntakeInv, Types', Keeps, NEW w \in Workers, NoChoiceOf(w),
         Fits(w)', Copies(w)', \A s \in Signals : Well(s)', Marks'
  PROVE  IntakeInv'
<1>1. NoChoice
  <2>1. ASSUME NEW s \in Signals, NEW c \in Cases, Chosen(s, c)'
        PROVE  Chosen(s, c)
    <3>1. CASE s \in members'[c]
      BY <3>1 DEF NoChoiceOf
    <3>2. CASE \E v \in Workers : call'[v].pc \in Placing /\ call'[v].x = s /\ call'[v].c = c
      <4>1. PICK v \in Workers : call'[v].pc \in Placing /\ call'[v].x = s /\ call'[v].c = c
        BY <3>2
      <4>2. CASE v = w
        BY <4>1, <4>2 DEF NoChoiceOf, Chosen
      <4>3. CASE v # w
        BY <4>1, <4>3 DEF NoChoiceOf, Chosen
      <4> QED BY <4>2, <4>3
    <3> QED BY <2>1, <3>1, <3>2 DEF Chosen
  <2>2. ASSUME NEW s \in Signals, s \notin unlinked', Settled(s)
        PROVE  Settled(s)'
    <3>1. signal'[s].case # None
      BY <2>2 DEF Keeps, Settled
    <3>2. ASSUME NEW v \in Workers, call'[v].x = s, call'[v].pc \in Looking
          PROVE  FALSE
      <4>1. CASE v # w
        BY <2>2, <3>2, <4>1 DEF NoChoiceOf, Settled
      <4>2. CASE v = w
        <5>1. s # Mrp
          BY NamesAreApart
        <5> QED BY <2>2, <3>2, <4>2, <5>1 DEF NoChoiceOf, Settled
      <4> QED BY <4>1, <4>2
    <3> QED BY <3>1, <3>2 DEF Settled
  <2> QED BY <2>1, <2>2 DEF NoChoice
<1>2. \A v \in Workers : v # w => Fits(v)' /\ Copies(v)'
  BY OthersKept DEF NoChoiceOf
<1> QED BY <1>1, <1>2, CasesKept, ChoicesKept DEF IntakeInv

\* The steps of the world around the handlers that leave every invocation where it is.
LEMMA WorldKept ==
  ASSUME IntakeInv, Types', Keeps, UNCHANGED call, UNCHANGED members,
         \A s \in Signals : Well(s)', Marks'
  PROVE  IntakeInv'
<1>1. NoChoice
  BY DEF NoChoice, Chosen, Settled, Keeps
<1>2. \A v \in Workers : Fits(v)' /\ Copies(v)'
  BY OthersKept
<1> QED BY <1>1, <1>2, CasesKept, ChoicesKept DEF IntakeInv

\* An invocation that has ended holds nothing.
LEMMA IdleIsWork == Idle \in Work
BY DEF Idle, Work, Pcs, Messages, Items, Absent, Statuses

LEMMA IdleFits ==
  ASSUME NEW w \in Workers, call'[w] = Idle
  PROVE  Fits(w)' /\ Copies(w)'
BY DEF Fits, Copies, Idle, Absent, Handling, Looking, Placing, Placed

\* What of a step's record its next state may rely on.
LEMMA RecordIsTyped ==
  ASSUME IntakeInv, NEW w \in Workers
  PROVE  /\ call[w] \in Work /\ call[w].pc \in Pcs /\ call[w].x \in Messages
         /\ call[w].copy \in Items /\ call[w].c \in Cases \cup {None} /\ call[w].at \in Statuses
         /\ call[w].mat \in Cases \cup {None} /\ call[w].po \in Cases \cup {None}
         /\ Fits(w) /\ Copies(w)
BY DEF IntakeInv, Types, Work

-----------------------------------------------------------------------------
(* Channels, gatekeeper, extraction *)

LEMMA ReceiveKeeps ==
  ASSUME IntakeInv, NEW s \in Signals, Receive(s)
  PROVE  IntakeInv'
<1>1. signal[s] \in Items /\ epoch \in Nat /\ verdict[s] \notin {"silent"}
  BY DEF IntakeInv, Types, CaseTypes, Receive
<1>2. PICK it \in Items :
        /\ signal' = [signal EXCEPT ![s] = it] /\ it.status = "RECEIVED" /\ it.case = signal[s].case
  <2>1. [signal[s] EXCEPT !.status = "RECEIVED"] \in Items
    BY <1>1 DEF Items
  <2> QED BY <1>1, <2>1 DEF Receive, Items
<1>3. signal'[s] = it /\ (\A r \in Signals : r # s => signal'[r] = signal[r])
  BY <1>2 DEF IntakeInv, Types
<1>4. received' \in [Signals -> Nat] /\ \A r \in Signals : received[r] = epoch => received'[r] = epoch
  BY <1>1 DEF Receive, IntakeInv, Types
<1>5. Types'
  BY <1>2, <1>4 DEF IntakeInv, Types, CaseTypes, Receive, world, case
<1>6. Keeps
  <2>1. told \subseteq told'
    BY DEF Receive
  <2> QED BY <1>2, <1>3, <1>4, <2>1 DEF Receive, Keeps, world, case, Born, Open, IntakeInv, Types, CaseTypes, Numbering
<1>7. ~Known(s) => ~Known(s)'
  BY DEF Receive, Known
<1>8. \A r \in Signals : Well(r)'
  <2> SUFFICES ASSUME NEW r \in Signals
               PROVE  Well(r)'
    OBVIOUS
  <2>1. Well(r) /\ members' = members /\ verdict' = verdict
    BY DEF IntakeInv, Receive, case, world
  <2>2. (Known(r)' <=> Known(r)) /\ (<<"accepted", r>> \in told' <=> <<"accepted", r>> \in told)
    BY DEF Receive, Known
  <2>3. signal'[r] = signal[r] \/ (signal'[r].status = "RECEIVED" /\ signal'[r].case = signal[r].case)
    BY <1>2, <1>3
  <2> QED BY <2>1, <2>2, <2>3 DEF Well
<1>9. Marks'
  BY <1>2, <1>3 DEF IntakeInv, Marks, Receive
<1> QED BY <1>5, <1>6, <1>8, <1>9, WorldKept DEF Receive, case

LEMMA ArriveKeeps ==
  ASSUME IntakeInv, NEW s \in Signals, Arrive(s)
  PROVE  IntakeInv'
<1>1. Extracted \in Items /\ epoch \in Nat /\ signal[s].status = "ABSENT" /\ verdict[s] = "extracted"
  BY DEF IntakeInv, Types, CaseTypes, Arrive, Extracted, Items
<1>2. signal' \in [Signals -> Items] /\ signal'[s] = Extracted
      /\ (\A r \in Signals : r # s => signal'[r] = signal[r])
  BY <1>1 DEF IntakeInv, Types, Arrive
<1>3. received' \in [Signals -> Nat] /\ \A r \in Signals : received[r] = epoch => received'[r] = epoch
  BY <1>1 DEF Arrive, IntakeInv, Types
<1>4. Types'
  BY <1>2, <1>3 DEF IntakeInv, Types, CaseTypes, Arrive, world, case
<1>5. ~Known(s) /\ \A c \in Cases : s \notin members[c]
  <2>1. ~Known(s)
    BY <1>1 DEF IntakeInv, Well
  <2> QED BY <2>1 DEF IntakeInv, Choices, Chosen
<1>6. signal[s].case = None /\ \A c \in Cases : <<c, s>> \in done => s \in unlinked
  <2>1. signal[s].case \in Cases \cup {None}
    BY DEF IntakeInv, Types, Items
  <2>2. signal[s].case = None
    BY <1>5, <2>1 DEF IntakeInv, Well
  <2> QED BY <2>2 DEF IntakeInv, Marks
<1>7. Keeps
  <2>1. told \subseteq told'
    BY DEF Arrive
  <2> QED BY <1>1, <1>2, <1>3, <1>6, <2>1 DEF Arrive, Keeps, world, case, Born, Open, IntakeInv, Types, CaseTypes, Numbering
<1>8. \A r \in Signals : Well(r)'
  <2> SUFFICES ASSUME NEW r \in Signals
               PROVE  Well(r)'
    OBVIOUS
  <2>1. Well(r) /\ members' = members /\ verdict' = verdict
    BY DEF IntakeInv, Arrive, case, world
  <2>2. <<"accepted", r>> \in told' <=> <<"accepted", r>> \in told
    BY DEF Arrive
  <2>3. r # s => (Known(r)' <=> Known(r))
    BY DEF Arrive, Known
  <2> QED BY <1>1, <1>2, <2>1, <2>2, <2>3 DEF Well, Extracted
<1>9. Marks'
  BY <1>2, <1>6 DEF IntakeInv, Marks, Arrive
<1> QED BY <1>4, <1>7, <1>8, <1>9, WorldKept DEF Arrive, case

\* Beginning to work on a signal changes nothing else.
LEMMA BeginKeeps ==
  ASSUME IntakeInv, NEW w \in Workers, NEW s \in Signals, NEW pc \in {"gate", "extract"},
         Begin(w, s, pc), signal[s].status # "ABSENT", pc = "extract" => verdict[s] # "refused"
  PROVE  IntakeInv'
<1>1. PICK job : job = [Idle EXCEPT !.pc = pc, !.x = s, !.copy = signal[s]]
  OBVIOUS
<1>2. job \in Work /\ job.pc = pc /\ job.x = s /\ job.copy = signal[s]
  BY <1>1, IdleIsWork DEF Work, Pcs, Handling, Messages, Idle, IntakeInv, Types
<1>3. call' = [call EXCEPT ![w] = job]
  BY <1>1 DEF Begin
<1>4. call' \in [Workers -> Work] /\ call'[w] = job /\ \A v \in Workers : v # w => call'[v] = call[v]
  BY <1>2, <1>3 DEF IntakeInv, Types
<1>5. Types'
  BY <1>4 DEF IntakeInv, Types, CaseTypes, Begin, world, case
<1>6. Keeps
  BY DEF Begin, Keeps, world, case, Born, Open, IntakeInv, Types, CaseTypes, Numbering
<1>7. NoChoiceOf(w)
  BY <1>2, <1>4 DEF NoChoiceOf, Placing, Looking, Chosen, Begin, case
<1>8. Fits(w)' /\ Copies(w)'
  <2>1. Well(s)
    BY DEF IntakeInv
  <2> QED BY <1>2, <1>4, <2>1 DEF Fits, Copies, Handling, Looking, Placing, Placed, Well, Begin, world, case
<1>9. (\A r \in Signals : Well(r)') /\ Marks'
  BY DEF IntakeInv, Well, Marks, Begin, world, case, Known
<1> QED BY <1>5, <1>6, <1>7, <1>8, <1>9, StepKept

\* Saving a copy that names the signal's case, or none, over whatever the signal has become.
LEMMA SaveKeeps ==
  ASSUME IntakeInv, NEW s \in Signals, NEW it \in Items, Save(s, it), it.status # "ABSENT"
  PROVE  /\ signal' \in [Signals -> Items] /\ signal'[s] = it
         /\ \A r \in Signals : r # s => signal'[r] = signal[r]
         /\ unlinked' \subseteq Signals /\ unlinked \subseteq unlinked'
         /\ \A r \in Signals : signal[r].status # "ABSENT" => signal'[r].status # "ABSENT"
         /\ \A r \in Signals : signal[r].case # None => signal'[r].case # None \/ r \in unlinked'
         /\ it.case # None => signal'[s].case # None
BY DEF Save, IntakeInv, Types

LEMMA MarksKept ==
  ASSUME IntakeInv, Keeps, done' \subseteq done
  PROVE  Marks'
BY DEF IntakeInv, Marks, Keeps

\* The answer of the gatekeeper or the extraction: the copy with its verdict is saved.
LEMMA AnswerKeeps ==
  ASSUME IntakeInv, NEW w \in Workers, Gate(w) \/ Extract(w)
  PROVE  IntakeInv'
<1> DEFINE s == call[w].x
<1>1. /\ call[w] \in Work /\ s \in Signals /\ call[w].copy \in Items /\ Fits(w) /\ Copies(w)
      /\ call[w].copy.status # "ABSENT" /\ verdict[s] \in Verdicts
  BY RecordIsTyped DEF Gate, Extract, Fits, Copies, Handling, IntakeInv, Types
<1>2. PICK it \in Items, pc \in Pcs :
        /\ Save(s, it) /\ call' = [call EXCEPT ![w].pc = pc, ![w].copy = Absent]
        /\ it.case = call[w].copy.case /\ it.status # "ABSENT"
        /\ pc \in {"quarantined", "accepted", "extracted"}
        /\ it.status = "QUARANTINED" => verdict[s] \in {"refused", "blocked"}
        /\ pc = "accepted" => verdict[s] # "refused"
        /\ pc = "extracted" => verdict[s] \notin {"refused", "blocked"}
  <2>1. CASE Gate(w) /\ verdict[s] = "refused"
    <3>1. PICK it \in Items :
            /\ it = [call[w].copy EXCEPT !.status = "QUARANTINED"]
            /\ it.case = call[w].copy.case /\ it.status = "QUARANTINED"
      <4>1. [call[w].copy EXCEPT !.status = "QUARANTINED"] \in Items
        BY <1>1 DEF Items
      <4> QED BY <1>1, <4>1 DEF Items
    <3>2. Save(s, it) /\ call' = [call EXCEPT ![w].pc = "quarantined", ![w].copy = Absent]
      BY <2>1, <3>1 DEF Gate, Answers
    <3>3. "quarantined" \in Pcs
      BY DEF Pcs, Handling
    <3> QED BY <2>1, <3>1, <3>2, <3>3
  <2>2. CASE Gate(w) /\ verdict[s] # "refused"
    <3>1. PICK it \in Items :
            /\ it = [call[w].copy EXCEPT !.status = "ACCEPTED", !.verified = TRUE]
            /\ it.case = call[w].copy.case /\ it.status = "ACCEPTED"
      <4>1. [call[w].copy EXCEPT !.status = "ACCEPTED", !.verified = TRUE] \in Items
        BY <1>1 DEF Items
      <4> QED BY <1>1, <4>1 DEF Items
    <3>2. Save(s, it) /\ call' = [call EXCEPT ![w].pc = "accepted", ![w].copy = Absent]
      BY <2>2, <3>1 DEF Gate, Answers
    <3>3. "accepted" \in Pcs
      BY DEF Pcs, Handling
    <3> QED BY <2>2, <3>1, <3>2, <3>3
  <2>3. CASE Extract(w) /\ verdict[s] = "blocked"
    <3>1. PICK it \in Items :
            /\ it = [call[w].copy EXCEPT !.status = "QUARANTINED"]
            /\ it.case = call[w].copy.case /\ it.status = "QUARANTINED"
      <4>1. [call[w].copy EXCEPT !.status = "QUARANTINED"] \in Items
        BY <1>1 DEF Items
      <4> QED BY <1>1, <4>1 DEF Items
    <3>2. Save(s, it) /\ call' = [call EXCEPT ![w].pc = "quarantined", ![w].copy = Absent]
      BY <2>3, <3>1 DEF Extract, Answers
    <3>3. "quarantined" \in Pcs
      BY DEF Pcs, Handling
    <3> QED BY <2>3, <3>1, <3>2, <3>3
  <2>4. CASE Extract(w) /\ verdict[s] # "blocked"
    <3>1. [call[w].copy EXCEPT !.read = TRUE] \in Items
      BY <1>1 DEF Items
    <3> QED BY <1>1, <2>4, <3>1 DEF Extract, Answers, Pcs, Handling, Items, Copies
  <2> QED BY <2>1, <2>2, <2>3, <2>4
<1>3. UNCHANGED <<world, case, key, opening, done, told, received, epoch>>
  BY DEF Gate, Extract
<1>4. PICK job \in Work :
        /\ call' = [call EXCEPT ![w] = job] /\ job.pc = pc /\ job.x = s /\ job.copy = Absent /\ job.c = call[w].c
  <2>1. [call[w] EXCEPT !.pc = pc, !.copy = Absent] \in Work
    BY <1>1 DEF Work, Items, Absent
  <2>2. call' = [call EXCEPT ![w] = [call[w] EXCEPT !.pc = pc, !.copy = Absent]]
    BY <1>2 DEF IntakeInv, Types
  <2> QED BY <1>1, <2>1, <2>2 DEF Work
<1>5. call' \in [Workers -> Work] /\ call'[w] = job /\ \A v \in Workers : v # w => call'[v] = call[v]
  BY <1>4 DEF IntakeInv, Types
<1>6. /\ signal' \in [Signals -> Items] /\ signal'[s] = it
      /\ \A r \in Signals : r # s => signal'[r] = signal[r]
      /\ unlinked' \subseteq Signals /\ unlinked \subseteq unlinked'
      /\ \A r \in Signals : signal[r].status # "ABSENT" => signal'[r].status # "ABSENT"
      /\ \A r \in Signals : signal[r].case # None => signal'[r].case # None \/ r \in unlinked'
  BY <1>1, <1>2, SaveKeeps
<1>7. Types'
  BY <1>3, <1>5, <1>6 DEF IntakeInv, Types, CaseTypes, world, case
<1>8. Keeps
  BY <1>3, <1>6 DEF Keeps, world, case, Born, Open, IntakeInv, Types, CaseTypes, Numbering
<1>9. NoChoiceOf(w)
  BY <1>2, <1>3, <1>4, <1>5 DEF NoChoiceOf, Placing, Looking, Chosen, case
<1>10. Fits(w)' /\ Copies(w)'
  BY <1>1, <1>2, <1>3, <1>4, <1>5, <1>6 DEF Fits, Copies, Handling, Looking, Placing, Placed, world, Absent
<1>11. \A r \in Signals : Well(r)'
  <2> SUFFICES ASSUME NEW r \in Signals
               PROVE  Well(r)'
    OBVIOUS
  <2>1. Well(r) /\ members' = members /\ verdict' = verdict /\ told' = told
    BY <1>3 DEF IntakeInv, case, world
  <2>2. CASE r = s
    <3>1. it.case # None => s \in members[it.case]
      BY <1>1, <1>2 DEF Copies
    <3> QED BY <1>2, <1>6, <2>1, <2>2, <3>1 DEF Well, Known
  <2>3. CASE r # s
    BY <1>6, <2>1, <2>3 DEF Well, Known
  <2> QED BY <2>2, <2>3
<1>12. Marks'
  BY <1>3, <1>8, MarksKept
<1> QED BY <1>7, <1>8, <1>9, <1>10, <1>11, <1>12, StepKept

LEMMA AnnounceKeeps ==
  ASSUME IntakeInv, NEW w \in Workers, Announce(w)
  PROVE  IntakeInv'
<1> DEFINE s == call[w].x
<1>1. s \in Signals /\ Fits(w) /\ Copies(w) /\ call[w].pc \in {"accepted", "extracted", "quarantined"}
  BY RecordIsTyped DEF Announce, Fits, Handling
<1>2. call' \in [Workers -> Work] /\ call'[w] = Idle /\ \A v \in Workers : v # w => call'[v] = call[v]
  BY IdleIsWork DEF Announce, Ends, IntakeInv, Types
<1>3. Types'
  BY <1>2 DEF IntakeInv, Types, CaseTypes, Announce, world, case
<1>4. Keeps
  <2>1. told \subseteq told'
    BY DEF Announce
  <2> QED BY <2>1 DEF Announce, Keeps, world, case, Born, Open, IntakeInv, Types, CaseTypes, Numbering
<1>5. NoChoiceOf(w)
  BY <1>2 DEF NoChoiceOf, Placing, Looking, Chosen, Announce, case, Idle
<1>6. Fits(w)' /\ Copies(w)'
  BY <1>2, IdleFits
<1>7. \A r \in Signals : Well(r)'
  <2> SUFFICES ASSUME NEW r \in Signals
               PROVE  Well(r)'
    OBVIOUS
  <2>1. Well(r) /\ members' = members /\ verdict' = verdict /\ signal' = signal
    BY DEF IntakeInv, Announce, case, world
  <2>2. Known(r)' => Known(r) \/ (r = s /\ call[w].pc = "extracted")
    BY DEF Announce, Known
  <2>3. <<"accepted", r>> \in told' => <<"accepted", r>> \in told \/ (r = s /\ call[w].pc = "accepted")
    BY DEF Announce
  <2> QED BY <1>1, <2>1, <2>2, <2>3 DEF Well, Copies
<1>8. Marks'
  BY <1>4, MarksKept DEF Announce
<1> QED BY <1>3, <1>4, <1>5, <1>6, <1>7, <1>8, StepKept

-----------------------------------------------------------------------------
(* The case service, but for the choice of a case *)

\* Taking up a signal for which a case is to be found, the MRP message, or a signal
\* that has its case; and reading the keys: only the invocation's record changes.
OnlyCall == UNCHANGED <<world, signal, case, key, opening, done, told, received, epoch, unlinked>>

LEMMA RecordKeeps ==
  ASSUME IntakeInv, NEW w \in Workers, NEW job \in Work, call' = [call EXCEPT ![w] = job], OnlyCall,
         job.pc \in Placing => job.x \in members[job.c],
         job.pc \in Looking =>
           \/ job.x = Mrp
           \/ call[w].pc \in Looking /\ job.x = call[w].x
           \/ signal[job.x].case = None,
         call'[w] = job => Fits(w)' /\ Copies(w)'
  PROVE  IntakeInv'
<1>1. call' \in [Workers -> Work] /\ call'[w] = job /\ \A v \in Workers : v # w => call'[v] = call[v]
  BY DEF IntakeInv, Types
<1>2. Types'
  BY <1>1 DEF IntakeInv, Types, CaseTypes, OnlyCall, world, case
<1>3. Keeps
  BY DEF OnlyCall, Keeps, world, case, Born, Open, IntakeInv, Types, CaseTypes, Numbering
<1>4. NoChoiceOf(w)
  BY <1>1 DEF NoChoiceOf, Chosen, OnlyCall, case
<1>5. (\A r \in Signals : Well(r)') /\ Marks'
  BY DEF IntakeInv, Well, Marks, OnlyCall, world, case, Known
<1> QED BY <1>1, <1>2, <1>3, <1>4, <1>5, StepKept

LEMMA BeginSignalKeeps ==
  ASSUME IntakeInv, NEW w \in Workers, NEW s \in Signals, BeginSignal(w, s)
  PROVE  IntakeInv'
<1> DEFINE c == signal[s].case
<1>1. /\ Known(s) /\ received[s] = epoch /\ Well(s) /\ signal[s] \in Items
      /\ c \in Cases \cup {None} /\ s # Mrp
  BY NamesAreApart DEF BeginSignal, Known, IntakeInv, Types, Items
<1>2. OnlyCall
  BY DEF BeginSignal, Begin, OnlyCall
<1>3. CASE c = None
  <2>1. PICK job : job = [Idle EXCEPT !.pc = "find", !.x = s, !.copy = signal[s]]
    OBVIOUS
  <2>2. job \in Work /\ job.pc = "find" /\ job.x = s /\ job.copy = signal[s]
    BY <1>1, <2>1, IdleIsWork DEF Work, Pcs, Looking, Messages, Idle
  <2>3. call' = [call EXCEPT ![w] = job]
    BY <1>3, <2>1 DEF BeginSignal, Begin
  <2>4. ASSUME call'[w] = job
        PROVE  Fits(w)' /\ Copies(w)'
    BY <1>1, <1>2, <1>3, <2>2, <2>4 DEF Fits, Copies, Handling, Looking, Placing, Placed, Well, OnlyCall, world, case, Known
  <2> QED BY <1>2, <1>3, <2>2, <2>3, <2>4, RecordKeeps DEF Placing
<1>4. CASE c # None
  <2>1. c \in Cases /\ s \in members[c] /\ Born(c) /\ status[c] \in Statuses
    BY <1>1, <1>4 DEF Well, IntakeInv, Choices, Chosen, Types, CaseTypes
  <2>2. PICK job : job = [Idle EXCEPT !.pc = "attach", !.x = s, !.copy = signal[s], !.c = c, !.at = status[c]]
    OBVIOUS
  <2>3. job \in Work /\ job.pc = "attach" /\ job.x = s /\ job.copy = signal[s] /\ job.c = c
    BY <1>1, <2>1, <2>2, IdleIsWork DEF Work, Pcs, Placing, Messages, Idle
  <2>4. call' = [call EXCEPT ![w] = job]
    BY <1>4, <2>2 DEF BeginSignal
  <2>5. ASSUME call'[w] = job
        PROVE  Fits(w)' /\ Copies(w)'
    <3>1. Fits(w)'
      <4>1. UNCHANGED <<status, told, received, epoch>>
        BY <1>2 DEF OnlyCall, case
      <4> QED BY <1>1, <1>4, <2>1, <2>3, <2>5, <4>1 DEF Fits, Handling, Looking, Placing, Placed, Known, Born
    <3>2. Copies(w)'
      BY <1>1, <1>2, <2>1, <2>3, <2>5 DEF Copies, Handling, Looking, Placing, Placed, Well, OnlyCall, world, case
    <3> QED BY <3>1, <3>2
  <2> QED BY <1>2, <2>1, <2>3, <2>4, <2>5, RecordKeeps DEF Looking
<1> QED BY <1>3, <1>4

LEMMA BeginMrpKeeps ==
  ASSUME IntakeInv, NEW w \in Workers, BeginMrp(w)
  PROVE  IntakeInv'
<1>1. OnlyCall
  BY DEF BeginMrp, OnlyCall
<1>2. PICK job : job = [Idle EXCEPT !.pc = "find"]
  OBVIOUS
<1>3. job \in Work /\ job.pc = "find" /\ job.x = Mrp /\ job.copy = Absent
  BY <1>2, IdleIsWork DEF Work, Pcs, Looking, Idle
<1>4. call' = [call EXCEPT ![w] = job]
  BY <1>2 DEF BeginMrp
<1>5. ASSUME call'[w] = job
      PROVE  Fits(w)' /\ Copies(w)'
  BY <1>3, <1>5, NamesAreApart DEF Fits, Copies, Handling, Looking, Placing, Placed, Absent
<1> QED BY <1>1, <1>3, <1>4, <1>5, RecordKeeps DEF Placing

LEMMA ReadKeysKeeps ==
  ASSUME IntakeInv, NEW w \in Workers, ReadKeys(w)
  PROVE  IntakeInv'
<1> DEFINE x == call[w].x
<1>1. OnlyCall /\ call[w].pc = "keys"
  BY DEF ReadKeys, OnlyCall
<1>2. /\ call[w] \in Work /\ x \in Messages /\ Fits(w) /\ Copies(w)
      /\ order[x] \in Keys /\ Mat \in Keys
      /\ key[Mat] \in Cases \cup {None} /\ key[order[x]] \in Cases \cup {None}
  BY RecordIsTyped DEF IntakeInv, Types, CaseTypes, Subjects, Keys
<1>3. PICK job : job = [call[w] EXCEPT !.pc = "recheck", !.mat = key[Mat], !.po = key[order[x]]]
  OBVIOUS
<1>4. /\ job \in Work /\ job.pc = "recheck" /\ job.x = x /\ job.copy = call[w].copy
      /\ job.mat = key[Mat] /\ job.po = key[order[x]]
  BY <1>2, <1>3 DEF Work, Pcs, Looking
<1>5. call' = [call EXCEPT ![w] = job]
  BY <1>3 DEF ReadKeys, IntakeInv, Types
<1>6. ASSUME call'[w] = job
      PROVE  Fits(w)' /\ Copies(w)'
  <2>1. key[Mat] <= key[Mat] /\ key[order[x]] <= key[order[x]]
    BY <1>2 DEF Cases, None
  <2> QED BY <1>1, <1>2, <1>4, <1>6, <2>1 DEF Fits, Copies, Handling, Looking, Placing, Placed, OnlyCall, world, case, Known
<1> QED BY <1>1, <1>4, <1>5, <1>6, RecordKeeps DEF Placing, Looking

LEMMA StopKeeps ==
  ASSUME IntakeInv, NEW w \in Workers, Stop(w)
  PROVE  IntakeInv'
<1>1. OnlyCall /\ call' = [call EXCEPT ![w] = Idle]
  BY DEF Stop, OnlyCall, Ends
<1> QED BY <1>1, IdleIsWork, IdleFits, RecordKeeps DEF Idle, Placing, Looking

LEMMA SignalDoneKeeps ==
  ASSUME IntakeInv, NEW w \in Workers, SignalDone(w)
  PROVE  IntakeInv'
<1>1. call' \in [Workers -> Work] /\ call'[w] = Idle /\ \A v \in Workers : v # w => call'[v] = call[v]
  BY IdleIsWork DEF SignalDone, Ends, IntakeInv, Types
<1>2. Types'
  BY <1>1 DEF IntakeInv, Types, CaseTypes, SignalDone, world, case
<1>3. Keeps
  BY DEF SignalDone, Keeps, world, case, Born, Open, IntakeInv, Types, CaseTypes, Numbering
<1>4. NoChoiceOf(w)
  BY <1>1 DEF NoChoiceOf, Placing, Looking, Chosen, SignalDone, case, Idle
<1>5. \A r \in Signals : Well(r)'
  BY DEF IntakeInv, Well, SignalDone, world, case, Known
<1>6. Marks'
  <2>1. call[w].x \in Signals => signal[call[w].x].case # None \/ call[w].x \in unlinked
    BY RecordIsTyped DEF Copies, Placed, SignalDone
  <2> QED BY <2>1 DEF IntakeInv, Marks, SignalDone
<1> QED BY <1>1, <1>2, <1>3, <1>4, <1>5, <1>6, IdleFits, StepKept

LEMMA AttachKeeps ==
  ASSUME IntakeInv, NEW w \in Workers, Attach(w)
  PROVE  IntakeInv'
<1> DEFINE s == call[w].x
           c == call[w].c
<1>1. /\ call[w] \in Work /\ s \in Signals /\ c \in Cases /\ Born(c) /\ Known(s)
      /\ Fits(w) /\ Copies(w) /\ call[w].pc = "attach" /\ Chosen(s, c)
  BY RecordIsTyped DEF Attach, Fits, Placing, None, Chosen
<1>2. PICK job \in Work : /\ call' = [call EXCEPT ![w] = job] /\ job.pc = "link" /\ job.x = s
                          /\ job.c = c /\ job.copy = call[w].copy
  <2>1. [call[w] EXCEPT !.pc = "link"] \in Work
    BY <1>1 DEF Work, Pcs, Placing
  <2>2. call' = [call EXCEPT ![w] = [call[w] EXCEPT !.pc = "link"]]
    BY DEF Attach, Goto, IntakeInv, Types
  <2> QED BY <1>1, <2>1, <2>2 DEF Work
<1>3. call' \in [Workers -> Work] /\ call'[w] = job /\ \A v \in Workers : v # w => call'[v] = call[v]
  BY <1>2 DEF IntakeInv, Types
<1>4. /\ members' \in [Cases -> SUBSET Signals] /\ members'[c] = members[c] \cup {s}
      /\ \A d \in Cases : d # c => members'[d] = members[d]
  BY <1>1 DEF Attach, IntakeInv, Types, CaseTypes
<1>5. updated' \in [Cases -> Nat] /\ \A d \in Cases : updated'[d] = updated[d] \/ (d = c /\ updated'[d] = epoch)
  BY <1>1 DEF Attach, IntakeInv, Types, CaseTypes
<1>6. UNCHANGED <<world, signal, status, subject, origin, opened, key, opening, done, told, received, epoch, unlinked>>
  BY DEF Attach
<1>7. Types'
  BY <1>3, <1>4, <1>5, <1>6 DEF IntakeInv, Types, CaseTypes, world
<1>8. Keeps
  <2>1. \A d \in Cases : updated[d] \in Nat /\ (Born(d) => updated[d] <= epoch)
    BY DEF IntakeInv, Types, CaseTypes, Numbering
  <2>2. \A d \in Cases : updated[d] <= updated'[d] /\ (Born(d) => updated'[d] <= epoch)
    BY <1>1, <1>5, <2>1 DEF IntakeInv, Types, CaseTypes
  <2> QED BY <1>4, <1>6, <2>2 DEF Keeps, Born, Open
<1>9. NoChoiceOf(w)
  <2>1. \A r \in Signals, d \in Cases : r \in members'[d] => Chosen(r, d)
    BY <1>1, <1>4 DEF Chosen
  <2> QED BY <1>1, <1>2, <1>3, <2>1 DEF NoChoiceOf, Placing, Looking
<1>10. Fits(w)'
  BY <1>1, <1>2, <1>3, <1>6 DEF Fits, Handling, Looking, Placing, Placed, Known, Born
<1>11. Copies(w)'
  <2>1. job.copy.case \in Cases \cup {None}
    BY <1>1, <1>2 DEF Work, Items
  <2>2. job.copy.case # None => s \in members'[job.copy.case]
    BY <1>1, <1>2, <1>4, <2>1 DEF Copies
  <2>3. job.copy.status # "ABSENT" /\ (job.copy.status = "QUARANTINED" => verdict[s] \in {"refused", "blocked"})
    BY <1>1, <1>2 DEF Copies, Placing, Looking
  <2>4. s \in members'[c]
    BY <1>4
  <2> QED BY <1>1, <1>2, <1>3, <1>6, <2>2, <2>3, <2>4 DEF Copies, Looking, Placing, Placed, world
<1>12. \A r \in Signals : Well(r)'
  BY <1>4, <1>6 DEF IntakeInv, Well, world, Known, Types, Items
<1>13. Marks'
  BY <1>6, <1>8, MarksKept
<1> QED BY <1>7, <1>8, <1>9, <1>10, <1>11, <1>12, <1>13, StepKept

LEMMA LinkKeeps ==
  ASSUME IntakeInv, NEW w \in Workers, Link(w)
  PROVE  IntakeInv'
<1> DEFINE s == call[w].x
           c == call[w].c
<1>1. /\ call[w] \in Work /\ s \in Signals /\ c \in Cases /\ Born(c) /\ Known(s)
      /\ Fits(w) /\ Copies(w) /\ call[w].copy \in Items /\ call[w].copy.status # "ABSENT"
      /\ s \in members[c] /\ c # None
  BY RecordIsTyped DEF Link, Fits, Copies, Placing, None
<1>2. PICK it \in Items : /\ Save(s, it) /\ it.case = c /\ it.status = call[w].copy.status
  <2>1. [call[w].copy EXCEPT !.case = c] \in Items
    BY <1>1 DEF Items
  <2> QED BY <1>1, <2>1 DEF Link, Items
<1>3. PICK job \in Work : /\ call' = [call EXCEPT ![w] = job] /\ job.pc = "finish" /\ job.x = s
                          /\ job.c = c /\ job.copy = Absent
  <2>1. [call[w] EXCEPT !.pc = "finish", !.copy = Absent] \in Work
    BY <1>1 DEF Work, Pcs, Placed, Items, Absent
  <2>2. call' = [call EXCEPT ![w] = [call[w] EXCEPT !.pc = "finish", !.copy = Absent]]
    BY DEF Link, IntakeInv, Types
  <2> QED BY <1>1, <2>1, <2>2 DEF Work
<1>4. call' \in [Workers -> Work] /\ call'[w] = job /\ \A v \in Workers : v # w => call'[v] = call[v]
  BY <1>3 DEF IntakeInv, Types
<1>5. /\ signal' \in [Signals -> Items] /\ signal'[s] = it
      /\ \A r \in Signals : r # s => signal'[r] = signal[r]
      /\ unlinked' \subseteq Signals /\ unlinked \subseteq unlinked'
      /\ \A r \in Signals : signal[r].status # "ABSENT" => signal'[r].status # "ABSENT"
      /\ \A r \in Signals : signal[r].case # None => signal'[r].case # None \/ r \in unlinked'
  BY <1>1, <1>2, SaveKeeps
<1>6. UNCHANGED <<world, case, key, opening, done, told, received, epoch>>
  BY DEF Link
<1>7. Types'
  BY <1>4, <1>5, <1>6 DEF IntakeInv, Types, CaseTypes, world, case
<1>8. Keeps
  BY <1>5, <1>6 DEF Keeps, world, case, Born, Open, IntakeInv, Types, CaseTypes, Numbering
<1>9. NoChoiceOf(w)
  BY <1>3, <1>4, <1>6 DEF NoChoiceOf, Placing, Looking, Chosen, case
<1>10. Fits(w)'
  <2>1. UNCHANGED <<status, told, received, epoch>>
    BY <1>6 DEF case
  <2> QED BY <1>1, <1>3, <1>4, <2>1 DEF Fits, Handling, Looking, Placing, Placed, Known, Born
<1>11. Copies(w)'
  BY <1>1, <1>2, <1>3, <1>4, <1>5 DEF Copies, Looking, Placing, Placed, Absent, None, Cases
<1>12. \A r \in Signals : Well(r)'
  <2> SUFFICES ASSUME NEW r \in Signals
               PROVE  Well(r)'
    OBVIOUS
  <2>1. Well(r) /\ members' = members /\ verdict' = verdict /\ told' = told
    BY <1>6 DEF IntakeInv, case, world
  <2>2. CASE r = s
    <3>1. it.status # "ABSENT" /\ (it.status = "QUARANTINED" => verdict[s] \in {"refused", "blocked"})
      BY <1>1, <1>2 DEF Copies
    <3> QED BY <1>1, <1>2, <1>5, <2>1, <2>2, <3>1 DEF Well, Known
  <2>3. CASE r # s
    BY <1>5, <2>1, <2>3 DEF Well, Known
  <2> QED BY <2>2, <2>3
<1>13. Marks'
  BY <1>6, <1>8, MarksKept
<1> QED BY <1>7, <1>8, <1>9, <1>10, <1>11, <1>12, <1>13, StepKept

\* Finishing a case: triage, its events, the marker, scoring again.
LEMMA FinishingKeeps ==
  ASSUME IntakeInv, NEW w \in Workers, call[w].pc \in Placed,
         NEW job \in Work, call' = [call EXCEPT ![w] = job],
         \/ job = Idle
         \/ /\ job.pc \in Placed /\ job.x = call[w].x /\ job.c = call[w].c /\ job.copy = call[w].copy
            /\ job.pc = "done" => job.x # Mrp,
         UNCHANGED <<world, signal, members, subject, origin, opened, key, done, received, epoch, unlinked>>,
         status' \in [Cases -> Statuses],
         \A d \in Cases : (Born(d)' <=> Born(d)) /\ (Open(d)' <=> Open(d)),
         updated' = updated \/ updated' = [updated EXCEPT ![call[w].c] = epoch],
         told \subseteq told',
         \A s \in Signals : (Known(s)' => Known(s)) /\ (<<"accepted", s>> \in told' => <<"accepted", s>> \in told)
  PROVE  IntakeInv'
<1> DEFINE c == call[w].c
<1>1. /\ call[w] \in Work /\ c \in Cases /\ c # None /\ Born(c) /\ Fits(w) /\ Copies(w)
      /\ call[w].x \in Messages
  BY RecordIsTyped DEF Fits, None
<1>2. call' \in [Workers -> Work] /\ call'[w] = job /\ \A v \in Workers : v # w => call'[v] = call[v]
  BY DEF IntakeInv, Types
<1>3. updated' \in [Cases -> Nat] /\ \A d \in Cases : updated'[d] = updated[d] \/ (d = c /\ updated'[d] = epoch)
  BY <1>1 DEF IntakeInv, Types, CaseTypes
<1>4. Types'
  BY <1>2, <1>3 DEF IntakeInv, Types, CaseTypes, world
<1>5. Keeps
  <2>1. \A d \in Cases : updated[d] \in Nat /\ (Born(d) => updated[d] <= epoch)
    BY DEF IntakeInv, Types, CaseTypes, Numbering
  <2>2. \A d \in Cases : updated[d] <= updated'[d] /\ (Born(d) => updated'[d] <= epoch)
    BY <1>1, <1>3, <2>1 DEF IntakeInv, Types, CaseTypes
  <2> QED BY <2>2 DEF Keeps
<1>6. NoChoiceOf(w)
  BY <1>2 DEF NoChoiceOf, Placing, Looking, Placed, Chosen, Idle
<1>7. Fits(w)' /\ Copies(w)'
  <2>1. CASE job = Idle
    BY <1>2, <2>1, IdleFits
  <2>2. CASE job # Idle
    <3>1. /\ job.pc \in Placed /\ job.x = call[w].x /\ job.c = c /\ job.copy = call[w].copy
          /\ job.pc = "done" => job.x \in Signals
      BY <1>1, <2>2 DEF Messages
    <3>2. \A d \in Cases : Born(d) => Born(d)'
      OBVIOUS
    <3>3. UNCHANGED <<told, received, epoch>> \/ told \subseteq told'
      OBVIOUS
    <3>4. Fits(w)'
      BY <1>1, <1>2, <3>1, <3>2 DEF Fits, Handling, Looking, Placing, Placed, Known
    <3>5. Copies(w)'
      BY <1>1, <1>2, <3>1 DEF Copies, Looking, Placing, Placed, world
    <3> QED BY <3>4, <3>5
  <2> QED BY <2>1, <2>2
<1>8. \A r \in Signals : Well(r)'
  BY DEF IntakeInv, Well, world
<1>9. Marks'
  BY <1>5, MarksKept
<1> QED BY <1>4, <1>5, <1>6, <1>7, <1>8, <1>9, StepKept

LEMMA FinishOpenKeeps ==
  ASSUME IntakeInv, NEW w \in Workers, FinishOpen(w)
  PROVE  IntakeInv'
<1>1. /\ call[w] \in Work /\ call[w].pc = "finish" /\ status \in [Cases -> Statuses]
      /\ call[w].c \in Cases
  BY RecordIsTyped DEF FinishOpen, IntakeInv, Types, CaseTypes, Fits, Placed, None
<1>2. PICK job \in Work : /\ job = [call[w] EXCEPT !.pc = "opened", !.at = "NONE"]
                          /\ job.pc = "opened" /\ job.x = call[w].x /\ job.c = call[w].c /\ job.copy = call[w].copy
  <2>1. [call[w] EXCEPT !.pc = "opened", !.at = "NONE"] \in Work
    BY <1>1 DEF Work, Pcs, Placed, Statuses
  <2> QED BY <1>1, <2>1 DEF Work
<1>3. call' = [call EXCEPT ![w] = job]
  BY <1>2 DEF FinishOpen, IntakeInv, Types
<1>4. /\ status' \in [Cases -> Statuses]
      /\ \A d \in Cases : status'[d] = status[d] \/ (status[d] = "RECEIVED" /\ status'[d] = "TRIAGED")
  BY <1>1 DEF FinishOpen, Statuses
<1>5. \A d \in Cases : (Born(d)' <=> Born(d)) /\ (Open(d)' <=> Open(d))
  BY <1>4 DEF Born, Open
<1>6. /\ UNCHANGED <<world, signal, members, subject, origin, opened, key, done, received, epoch, unlinked, told>>
      /\ updated' = updated \/ updated' = [updated EXCEPT ![call[w].c] = epoch]
  BY DEF FinishOpen
<1> QED BY <1>1, <1>2, <1>3, <1>4, <1>5, <1>6, FinishingKeeps DEF Placed, Known

LEMMA TellKeeps ==
  ASSUME IntakeInv, NEW w \in Workers, Tell(w)
  PROVE  IntakeInv'
<1>1. call[w] \in Work /\ call[w].pc \in {"opened", "ready", "unmark"} /\ status \in [Cases -> Statuses]
  BY RecordIsTyped DEF Tell, IntakeInv, Types, CaseTypes
<1>2. PICK job \in Work :
        /\ call' = [call EXCEPT ![w] = job]
        /\ \/ job = Idle
           \/ /\ job.pc \in Placed /\ job.x = call[w].x /\ job.c = call[w].c /\ job.copy = call[w].copy
              /\ job.pc = "done" => job.x # Mrp
  <2>1. CASE call[w].pc # "unmark"
    <3>1. PICK pc \in {"ready", "unmark"} : call' = [call EXCEPT ![w].pc = pc]
      BY <1>1, <2>1 DEF Tell, Goto
    <3>2. [call[w] EXCEPT !.pc = pc] \in Work
      BY <1>1 DEF Work, Pcs, Placed
    <3>3. call' = [call EXCEPT ![w] = [call[w] EXCEPT !.pc = pc]]
      BY <3>1 DEF IntakeInv, Types
    <3> QED BY <1>1, <3>2, <3>3 DEF Work, Placed
  <2>2. CASE call[w].pc = "unmark" /\ call[w].x = Mrp
    BY <2>2, IdleIsWork DEF Tell, Ends
  <2>3. CASE call[w].pc = "unmark" /\ call[w].x # Mrp
    <3>1. [call[w] EXCEPT !.pc = "done", !.at = "NONE"] \in Work
      BY <1>1 DEF Work, Pcs, Placed, Statuses
    <3>2. call' = [call EXCEPT ![w] = [call[w] EXCEPT !.pc = "done", !.at = "NONE"]]
      BY <2>3 DEF Tell, IntakeInv, Types
    <3> QED BY <1>1, <2>3, <3>1, <3>2 DEF Work, Placed
  <2> QED BY <2>1, <2>2, <2>3
<1>3. /\ UNCHANGED <<world, signal, members, status, subject, origin, opened, updated, key, done, received, epoch, unlinked>>
      /\ told \subseteq told'
      /\ \A s \in Signals : (Known(s)' => Known(s)) /\ (<<"accepted", s>> \in told' => <<"accepted", s>> \in told)
  BY DEF Tell, case, Known
<1> QED BY <1>1, <1>2, <1>3, FinishingKeeps DEF Placed, Born, Open

LEMMA TouchKeeps ==
  ASSUME IntakeInv, NEW w \in Workers, Touch(w)
  PROVE  IntakeInv'
<1>1. call[w] \in Work /\ call[w].pc = "finish" /\ status \in [Cases -> Statuses]
  BY RecordIsTyped DEF Touch, IntakeInv, Types, CaseTypes
<1>2. PICK job \in Work :
        /\ call' = [call EXCEPT ![w] = job]
        /\ \/ job = Idle
           \/ /\ job.pc \in Placed /\ job.x = call[w].x /\ job.c = call[w].c /\ job.copy = call[w].copy
              /\ job.pc = "done" => job.x # Mrp
  <2>1. CASE call[w].x = Mrp
    BY <2>1, IdleIsWork DEF Touch, Ends
  <2>2. CASE call[w].x # Mrp
    <3>1. [call[w] EXCEPT !.pc = "done", !.at = "NONE"] \in Work
      BY <1>1 DEF Work, Pcs, Placed, Statuses
    <3>2. call' = [call EXCEPT ![w] = [call[w] EXCEPT !.pc = "done", !.at = "NONE"]]
      BY <2>2 DEF Touch, IntakeInv, Types
    <3> QED BY <1>1, <2>2, <3>1, <3>2 DEF Work, Placed
  <2> QED BY <2>1, <2>2
<1>3. /\ UNCHANGED <<world, signal, members, status, subject, origin, opened, key, done, received, epoch, unlinked>>
      /\ updated' = [updated EXCEPT ![call[w].c] = epoch]
      /\ told \subseteq told'
      /\ \A s \in Signals : (Known(s)' => Known(s)) /\ (<<"accepted", s>> \in told' => <<"accepted", s>> \in told)
  BY DEF Touch, Known
<1> QED BY <1>1, <1>2, <1>3, FinishingKeeps DEF Placed, Born, Open

-----------------------------------------------------------------------------
(* Around the handlers *)

LEMMA StartRunKeeps ==
  ASSUME IntakeInv, NEW c \in Cases, StartRun(c)
  PROVE  IntakeInv'
<1>1. /\ status' \in [Cases -> Statuses] /\ updated' \in [Cases -> Nat]
      /\ \A d \in Cases : (status'[d] = status[d] /\ updated'[d] = updated[d])
                          \/ (d = c /\ status[d] = "TRIAGED" /\ status'[d] = "ACTIVE" /\ updated'[d] = epoch)
  BY DEF StartRun, IntakeInv, Types, CaseTypes, Statuses
<1>2. \A d \in Cases : (Born(d)' <=> Born(d)) /\ (Open(d)' <=> Open(d))
  BY <1>1 DEF Born, Open
<1>3. UNCHANGED <<world, signal, members, subject, origin, opened, key, opening, done, told, received, epoch, call, unlinked>>
  BY DEF StartRun
<1>4. Types'
  BY <1>1, <1>3 DEF IntakeInv, Types, CaseTypes, world
<1>5. Keeps
  <2>1. \A d \in Cases : updated[d] \in Nat /\ (Born(d) => updated[d] <= epoch)
    BY DEF IntakeInv, Types, CaseTypes, Numbering
  <2>2. \A d \in Cases : updated[d] <= updated'[d] /\ (Born(d) => updated'[d] <= epoch)
    BY <1>1, <2>1 DEF IntakeInv, Types, CaseTypes, Born
  <2> QED BY <1>2, <1>3, <2>2 DEF Keeps
<1>6. (\A r \in Signals : Well(r)') /\ Marks'
  BY <1>3 DEF IntakeInv, Well, Marks, world, Known
<1> QED BY <1>3, <1>4, <1>5, <1>6, WorldKept

\* A case closes, and 72 h pass, when nobody is at work: every signal that is known
\* has its link, so that no case of its closes before.
LEMMA QuietSettles ==
  ASSUME IntakeInv, Quiet, NEW s \in Signals, NEW c \in Cases, Chosen(s, c)
  PROVE  s \in unlinked \/ Settled(s)
<1>1. \A w \in Workers : call[w].pc = "idle"
  BY DEF Quiet
<1>2. Known(s)
  BY DEF IntakeInv, Choices
<1>3. signal[s].status \notin {"ABSENT", "QUARANTINED"}
  BY <1>2 DEF IntakeInv, Well
<1>4. PICK d \in Cases : <<d, s>> \in done
  BY <1>3 DEF Quiet
<1>5. signal[s].case # None \/ s \in unlinked
  BY <1>4 DEF IntakeInv, Marks
<1> QED BY <1>1, <1>5 DEF Settled, Looking

LEMMA CloseKeeps ==
  ASSUME IntakeInv, NEW c \in Cases, Close(c)
  PROVE  IntakeInv'
<1>1. /\ status' \in [Cases -> Statuses] /\ updated' \in [Cases -> Nat]
      /\ \A d \in Cases : (status'[d] = status[d] /\ updated'[d] = updated[d])
                          \/ (d = c /\ status[d] = "ACTIVE" /\ status'[d] = "CLOSED" /\ updated'[d] = epoch)
  BY DEF Close, IntakeInv, Types, CaseTypes, Statuses
<1>2. \A d \in Cases : (Born(d)' <=> Born(d)) /\ (Open(d)' => Open(d))
  BY <1>1 DEF Born, Open
<1>3. UNCHANGED <<world, signal, members, subject, origin, opened, key, opening, done, told, received, epoch, call, unlinked>>
  BY DEF Close
<1>4. Quiet /\ \A w \in Workers : call[w].pc = "idle"
  BY DEF Close, Quiet
<1>5. Types'
  BY <1>1, <1>3 DEF IntakeInv, Types, CaseTypes, world
<1>6. Numbering'
  <2> USE DEF IntakeInv, Types, CaseTypes, Numbering, Keys, Cases
  <2>1. \A d \in Cases : Born(d)' => d <= key'[Mat] /\ opened'[d] <= updated'[d] /\ updated'[d] <= epoch'
    <3> SUFFICES ASSUME NEW d \in Cases, Born(d)'
                 PROVE  d <= key[Mat] /\ opened[d] <= updated'[d] /\ updated'[d] <= epoch
      BY <1>3
    <3>1. d <= key[Mat] /\ opened[d] <= updated[d] /\ updated[d] <= epoch
      BY <1>2
    <3>2. opened[d] \in Nat /\ updated[d] \in Nat /\ epoch \in Nat
      OBVIOUS
    <3> QED BY <1>1, <3>1, <3>2
  <2>2. \A d \in Cases : Born(d)' <=> Born(d)
    BY <1>2
  <2> QED BY <1>3, <2>1, <2>2
<1>7. OneOpenCase'
  BY <1>2, <1>3 DEF IntakeInv, OneOpenCase, Passed, Hidden, Born
<1>8. \A w \in Workers : Fits(w)' /\ Copies(w)'
  <2> SUFFICES ASSUME NEW w \in Workers
               PROVE  Fits(w)' /\ Copies(w)'
    OBVIOUS
  <2>1. Copies(w)
    BY DEF IntakeInv
  <2> QED BY <1>3, <1>4, <2>1 DEF Fits, Copies, Handling, Looking, Placing, Placed, world
<1>9. (\A r \in Signals : Well(r)') /\ Marks'
  BY <1>3 DEF IntakeInv, Well, Marks, world, Known
<1>10. \A s \in Signals, d \in Cases :
         Chosen(s, d)' => Chosen(s, d) /\ (s \in unlinked \/ Settled(s)')
  <2> SUFFICES ASSUME NEW s \in Signals, NEW d \in Cases, Chosen(s, d)'
               PROVE  Chosen(s, d) /\ (s \in unlinked \/ Settled(s)')
    OBVIOUS
  <2>1. Chosen(s, d)
    BY <1>3 DEF Chosen
  <2>2. s \in unlinked \/ Settled(s)
    BY <1>4, <2>1, QuietSettles
  <2> QED BY <1>3, <2>1, <2>2 DEF Settled
<1>11. Choices'
  <2> SUFFICES ASSUME NEW s \in Signals, NEW d \in Cases, Chosen(s, d)'
               PROVE  /\ Born(d)' /\ subject'[d] \in {NoOrder, order'[s]} /\ Known(s)'
                      /\ ForWant(s, d)' => LastClosed(order[s], d)' /\ NextApart(order[s], d)'
                      /\ s \in unlinked' \/ Open(d)' \/ Settled(s)'
    BY DEF Choices
  <2>1. /\ Born(d) /\ subject[d] \in {NoOrder, order[s]} /\ Known(s)
        /\ ForWant(s, d) => LastClosed(order[s], d) /\ NextApart(order[s], d)
    BY <1>10 DEF IntakeInv, Choices
  <2>2. LastClosed(order[s], d) => LastClosed(order[s], d)'
    BY <1>2, <1>3 DEF LastClosed, world
  <2>3. NextApart(order[s], d) => NextApart(order[s], d)'
    BY <1>2, <1>3 DEF NextApart, world
  <2> QED BY <1>2, <1>3, <1>10, <2>1, <2>2, <2>3 DEF ForWant, world, Known
<1>12. OneChoice'
  <2>1. OneChoice /\ opened' = opened /\ unlinked' = unlinked
    BY <1>3 DEF IntakeInv
  <2> QED BY <1>10, <2>1 DEF OneChoice, Apart, Between
<1> QED BY <1>5, <1>6, <1>7, <1>8, <1>9, <1>11, <1>12 DEF IntakeInv

LEMMA Pass72hKeeps ==
  ASSUME IntakeInv, Pass72h
  PROVE  IntakeInv'
<1>1. /\ UNCHANGED <<order, verdict, signal, members, status, subject, origin, opened, updated, key, done, told, received, call, unlinked>>
      /\ epoch' = epoch + 1 /\ epoch \in Nat
  BY DEF Pass72h, world, case, IntakeInv, Types, CaseTypes
<1>2. \A w \in Workers : call[w].pc = "idle"
  BY DEF Pass72h, Quiet
<1>3. Types'
  BY <1>1 DEF IntakeInv, Types, CaseTypes
<1>4. Numbering'
  <2>1. \A d \in Cases : Born(d) => updated[d] <= epoch + 1
    BY <1>1 DEF IntakeInv, Types, CaseTypes, Numbering
  <2> QED BY <1>1, <2>1 DEF IntakeInv, Numbering, Born
<1>5. OneOpenCase'
  BY <1>1 DEF IntakeInv, OneOpenCase, Passed, Hidden, Open
<1>6. \A w \in Workers : Fits(w)' /\ Copies(w)'
  <2> SUFFICES ASSUME NEW w \in Workers
               PROVE  Fits(w)' /\ Copies(w)'
    OBVIOUS
  <2>1. Copies(w)
    BY DEF IntakeInv
  <2> QED BY <1>1, <1>2, <2>1 DEF Fits, Copies, Handling, Looking, Placing, Placed
<1>7. (\A r \in Signals : Well(r)') /\ Marks'
  BY <1>1 DEF IntakeInv, Well, Marks, Known
<1>8. Choices' /\ OneChoice'
  BY <1>1 DEF IntakeInv, Choices, OneChoice, Chosen, Settled, ForWant, LastClosed, NextApart, Apart, Between, Born, Open, Known
<1> QED BY <1>3, <1>4, <1>5, <1>6, <1>7, <1>8 DEF IntakeInv

-----------------------------------------------------------------------------
(* Choosing a case that is there *)

LEMMA Names ==
  ASSUME IntakeInv, NEW x \in Messages
  PROVE  /\ order[x] \in Keys /\ order[x] \in Subjects /\ Mat \in Keys
         /\ key[Mat] \in Cases \cup {None} /\ key[order[x]] \in Cases \cup {None}
         /\ x = Mrp \/ x \in Signals
         /\ order[x] # NoOrder => order[x] \in Orders
BY DEF IntakeInv, Types, CaseTypes, Subjects, Keys, Messages

LEMMA ExistingIsOpen ==
  ASSUME IntakeInv, NEW x \in Messages, NEW d, d = Existing(x), d # None
  PROVE  /\ d \in Cases /\ Open(d) /\ Born(d)
         /\ \/ x # Mrp /\ order[x] \in Orders /\ key[order[x]] = d /\ subject[d] = order[x]
            \/ /\ key[Mat] = d
               /\ x # Mrp => /\ subject[d] \in {NoOrder, order[x]}
                             /\ key[order[x]] = None \/ ~Open(key[order[x]])
<1>1. d = key[Mat] \/ (x # Mrp /\ d = key[order[x]])
  BY DEF Existing, OpenCase
<1>2. d \in Cases /\ Open(d)
  BY <1>1, Names DEF Existing, OpenCase
<1>3. Born(d)
  BY <1>2 DEF Open, Born
<1>4. CASE x # Mrp /\ key[order[x]] # None /\ Open(key[order[x]])
  <2>1. d = key[order[x]]
    BY <1>4 DEF Existing, OpenCase
  <2>2. order[x] \in Orders
    BY <1>4, Names DEF IntakeInv, Numbering
  <2> QED BY <1>2, <1>3, <1>4, <2>1, <2>2 DEF IntakeInv, Numbering
<1>5. CASE ~(x # Mrp /\ key[order[x]] # None /\ Open(key[order[x]]))
  <2>1. d = key[Mat] /\ (x # Mrp => subject[d] \in {NoOrder, order[x]})
    BY <1>5 DEF Existing, OpenCase
  <2> QED BY <1>2, <1>3, <1>5, <2>1
<1> QED BY <1>4, <1>5

LEMMA NothingFound ==
  ASSUME IntakeInv, NEW x \in Messages, Existing(x) = None, x \in Signals => received[x] = epoch
  PROVE  NoneFor(x)
<1> DEFINE b == key[order[x]]
           m == key[Mat]
<1>1. b \in Cases \cup {None} /\ m \in Cases \cup {None} /\ (x = Mrp \/ x \in Signals)
  BY Names
<1>2. \A c \in Cases : Born(c) /\ opened[c] = epoch => updated[c] = epoch
  <2> SUFFICES ASSUME NEW c \in Cases, Born(c), opened[c] = epoch
               PROVE  updated[c] = epoch
    OBVIOUS
  <2>1. opened[c] <= updated[c] /\ updated[c] <= epoch
    BY DEF IntakeInv, Numbering
  <2>2. updated[c] \in Nat /\ epoch \in Nat
    BY DEF IntakeInv, Types, CaseTypes
  <2> QED BY <2>1, <2>2
<1>3. \A c \in Cases : Open(c) => Born(c)
  BY DEF Open, Born
<1>4. CASE x = Mrp
  BY <1>4 DEF NoneFor, Existing, OpenCase
<1>5. CASE x # Mrp /\ b # None /\ Open(b)
  <2>1. subject[b] = order[x]
    BY <1>5, Names DEF IntakeInv, Numbering
  <2>2. updated[b] # epoch
    BY <1>1, <1>5, <2>1 DEF Existing, OpenCase
  <2> QED BY <1>1, <1>2, <1>3, <1>5, <2>2 DEF NoneFor
<1>6. CASE x # Mrp /\ ~(b # None /\ Open(b)) /\ m # None /\ Open(m)
  <2>1. subject[m] \notin {NoOrder, order[x]} \/ updated[m] # epoch
    BY <1>1, <1>6 DEF Existing, OpenCase
  <2> QED BY <1>1, <1>2, <1>3, <1>6, <2>1 DEF NoneFor
<1>7. CASE x # Mrp /\ ~(b # None /\ Open(b)) /\ ~(m # None /\ Open(m))
  BY <1>7 DEF NoneFor
<1> QED BY <1>4, <1>5, <1>6, <1>7

\* Of the cases an invocation finds for a signal and those chosen for it before, none of
\* two is beside the other.
LEMMA FoundIsApart ==
  ASSUME IntakeInv, NEW s \in Signals \ unlinked, NEW w \in Workers, call[w].x = s, call[w].pc \in Looking,
         NEW d, d = Existing(s), d # None, NEW c \in Cases, Chosen(s, c)
  PROVE  (c < d => Apart(c, d)) /\ (d < c => Apart(d, c))
<1> DEFINE p == order[s]
<1>1. s \in Messages /\ s # Mrp
  BY NamesAreApart DEF Messages
<1>2. /\ d \in Cases /\ Open(d) /\ Born(d)
      /\ \/ p \in Orders /\ key[p] = d /\ subject[d] = p
         \/ key[Mat] = d /\ subject[d] \in {NoOrder, p} /\ (key[p] = None \/ ~Open(key[p]))
  BY <1>1, ExistingIsOpen
<1>3. /\ Open(c) /\ Born(c) /\ subject[c] \in {NoOrder, p}
      /\ ForWant(s, c) => LastClosed(p, c) /\ NextApart(p, c)
  <2>1. ~Settled(s)
    BY DEF Settled
  <2> QED BY <2>1 DEF IntakeInv, Choices
<1>4. /\ p \in Subjects /\ key[p] \in Cases \cup {None} /\ key[Mat] \in Cases \cup {None}
      /\ p # NoOrder => p \in Orders
  BY <1>1, Names
<1>5. /\ c <= key[Mat] /\ d <= key[Mat]
      /\ \A e \in Cases : Born(e) /\ subject[e] = p /\ p \in Orders => e <= key[p]
      /\ \A e \in Cases : subject[e] # NoOrder => Born(e)
      /\ key[p] # None => p \in Orders /\ Born(key[p]) /\ subject[key[p]] = p
  BY <1>2, <1>3, <1>4 DEF IntakeInv, Numbering, Keys
<1>6. \A e \in Cases : e \in Nat
  BY DEF Cases
<1>7. ASSUME c < d
      PROVE  Apart(c, d)
  <2>1. \/ Between(c, d) \/ opened[c] # opened[d] \/ Passed(c, d)
        \/ origin[d] # Mrp /\ subject[c] \notin {NoOrder, subject[d]}
        \/ origin[d] # Mrp /\ Hidden(c, d)
    <3>1. OneOpenCase
      BY DEF IntakeInv
    <3> QED BY <1>2, <1>3, <1>7, <3>1 DEF OneOpenCase, Between, Born
  <2>2. Passed(c, d) => Between(c, d)
    BY DEF Passed, Between
  <2>3. CASE subject[c] \notin {NoOrder, subject[d]}
    <3>1. subject[c] = p /\ p # NoOrder /\ subject[d] = NoOrder
      BY <1>2, <1>3, <2>3
    <3>2. key[Mat] = d /\ key[p] \in Cases /\ ~Open(key[p]) /\ c <= key[p] /\ key[p] <= d
      <4>1. c <= key[p]
        BY <1>3, <1>4, <1>5, <3>1
      <4>2. key[p] # None
        BY <1>6, <4>1 DEF None, Cases
      <4>3. key[Mat] = d /\ ~Open(key[p])
        BY <1>2, <3>1, <4>2, <1>4
      <4>4. key[p] <= key[Mat]
        BY <1>4, <1>5, <4>2 DEF IntakeInv, Numbering
      <4> QED BY <1>4, <4>1, <4>2, <4>3, <4>4
    <3>3. key[p] # c /\ key[p] # d
      BY <1>3, <3>1, <3>2, <1>2
    <3> QED BY <1>6, <1>2, <3>2, <3>3 DEF Apart, Between
  <2>4. CASE origin[d] # Mrp /\ Hidden(c, d) /\ ~Between(c, d)
    <3>1. subject[c] = NoOrder /\ subject[d] = p /\ p # NoOrder
      BY <1>2, <2>4 DEF Hidden
    <3>2. d = c + 1
      <4>1. c \in Nat /\ d \in Nat /\ c >= 1 /\ d <= MaxCases /\ MaxCases \in Nat
        BY <1>2, CasesAreBounded DEF Cases
      <4>2. CASE c + 1 < d
        <5>1. c + 1 \in Cases
          BY <4>1, <4>2 DEF Cases
        <5> QED BY <2>4, <4>1, <4>2, <5>1 DEF Between
      <4> QED BY <1>7, <4>1, <4>2
    <3>3. NextApart(p, c)
      BY <1>3, <3>1 DEF ForWant
    <3> QED BY <1>2, <1>3, <2>4, <3>1, <3>2, <3>3 DEF NextApart, Apart
  <2> QED BY <2>1, <2>2, <2>3, <2>4 DEF Apart
<1>8. ASSUME d < c
      PROVE  FALSE
  <2>1. key[Mat] # d
    BY <1>2, <1>5, <1>6, <1>8
  <2>2. p \in Orders /\ key[p] = d /\ subject[d] = p
    BY <1>2, <2>1
  <2>3. subject[c] = NoOrder /\ p # NoOrder
    BY <1>2, <1>3, <1>5, <1>6, <1>8, <2>2, NamesAreApart
  <2>4. LastClosed(p, c)
    BY <1>3, <2>3 DEF ForWant
  <2>5. \A e \in Cases : d < e /\ e < c => subject[e] # p
    BY <1>2, <1>5, <1>6, <2>2, <2>3
  <2> QED BY <1>2, <1>8, <2>2, <2>4, <2>5 DEF LastClosed
<1> QED BY <1>7, <1>8

\* What is known of a case that is found for a signal.
LEMMA FoundIsFit ==
  ASSUME IntakeInv, NEW s \in Signals, Known(s), NEW d, d = Existing(s), d # None
  PROVE  /\ d \in Cases /\ Born(d) /\ Open(d) /\ subject[d] \in {NoOrder, order[s]} /\ Known(s)
         /\ ForWant(s, d) => LastClosed(order[s], d) /\ NextApart(order[s], d)
<1> DEFINE p == order[s]
<1>1. s \in Messages /\ s # Mrp
  BY NamesAreApart DEF Messages
<1>2. /\ d \in Cases /\ Open(d) /\ Born(d)
      /\ \/ p \in Orders /\ key[p] = d /\ subject[d] = p
         \/ key[Mat] = d /\ subject[d] \in {NoOrder, p} /\ (key[p] = None \/ ~Open(key[p]))
  BY <1>1, ExistingIsOpen
<1>3. \A e \in Cases : e \in Nat /\ (Born(e) => e <= key[Mat])
  BY DEF IntakeInv, Numbering, Cases
<1>4. ASSUME ForWant(s, d)
      PROVE  LastClosed(p, d) /\ NextApart(p, d)
  <2>1. p \in Orders /\ subject[d] = NoOrder /\ key[Mat] = d /\ (key[p] = None \/ ~Open(key[p]))
    BY <1>1, <1>2, <1>4, Names, NamesAreApart DEF ForWant
  <2>2. key[p] \in Cases \cup {None} /\ (key[p] # None => Born(key[p]) /\ subject[key[p]] = p)
        /\ \A e \in Cases : subject[e] = p => e <= key[p]
    BY <1>1, <2>1, Names, NamesAreApart DEF IntakeInv, Numbering
  <2>3. ASSUME NEW b \in Cases, b < d, subject[b] = p, \A e \in Cases : b < e /\ e < d => subject[e] # p
        PROVE  ~Open(b)
    <3>1. b <= key[p] /\ key[p] \in Cases
      BY <1>3, <2>2, <2>3 DEF None
    <3>2. key[p] # None /\ Born(key[p]) /\ subject[key[p]] = p /\ p # NoOrder
      BY <2>1, <2>2, <3>1, NamesAreApart DEF None, Cases
    <3>3. key[p] <= d /\ key[p] # d
      BY <1>3, <2>1, <3>1, <3>2
    <3>4. key[p] \in Nat /\ d \in Nat /\ b \in Nat
      BY <1>2, <1>3, <3>1
    <3>5. key[p] < d /\ ~(b < key[p])
      BY <2>3, <3>1, <3>2, <3>3, <3>4
    <3>6. key[p] = b
      BY <3>1, <3>4, <3>5
    <3> QED BY <2>1, <3>2, <3>6
  <2>4. NextApart(p, d)
    BY <1>2, <1>3, <2>1 DEF NextApart
  <2> QED BY <2>3, <2>4 DEF LastClosed
<1> QED BY <1>2, <1>4

\* An invocation takes the case it found for a signal.
LEMMA JoinKeeps ==
  ASSUME IntakeInv, NEW w \in Workers, NEW s \in Signals, call[w].x = s, call[w].pc \in {"find", "recheck"},
         NEW d, d = Existing(s), d # None, OnlyCall,
         NEW job \in Work, call' = [call EXCEPT ![w] = job], job.pc = "attach", job.x = s, job.c = d,
         job.copy = call[w].copy
  PROVE  IntakeInv'
<1>1. call' \in [Workers -> Work] /\ call'[w] = job /\ \A v \in Workers : v # w => call'[v] = call[v]
  BY DEF IntakeInv, Types
<1>2. Known(s) /\ Fits(w) /\ Copies(w) /\ call[w] \in Work
  BY RecordIsTyped DEF Fits, Looking
<1>3. /\ d \in Cases /\ Born(d) /\ Open(d) /\ subject[d] \in {NoOrder, order[s]}
      /\ ForWant(s, d) => LastClosed(order[s], d) /\ NextApart(order[s], d)
  BY <1>2, FoundIsFit
<1>4. UNCHANGED <<order, verdict, bound, signal, members, status, subject, origin, opened, updated, key,
                  done, told, received, epoch, unlinked>>
  BY DEF OnlyCall, world, case
<1>5. Types'
  BY <1>1, <1>4 DEF IntakeInv, Types, CaseTypes
<1>6. Keeps
  BY <1>4 DEF Keeps, world, Born, Open, IntakeInv, Types, CaseTypes, Numbering
<1>7. Fits(w)' /\ Copies(w)'
  <2>1. Fits(w)'
    BY <1>1, <1>2, <1>3, <1>4 DEF Fits, Handling, Looking, Placing, Placed, Known, Born, None, Cases
  <2>2. Copies(w)'
    BY <1>1, <1>2, <1>4 DEF Copies, Looking, Placing, Placed
  <2> QED BY <2>1, <2>2
<1>8. \A v \in Workers : v # w => Fits(v)' /\ Copies(v)'
  BY <1>1, <1>5, <1>6, OthersKept
<1>9. (\A r \in Signals : Well(r)') /\ Marks'
  BY <1>4 DEF IntakeInv, Well, Marks, Known
<1>10. \A r \in Signals, c \in Cases : Chosen(r, c)' => Chosen(r, c) \/ (r = s /\ c = d)
  BY <1>1, <1>4 DEF Chosen
<1>11. \A r \in Signals : Settled(r) => Settled(r)'
  BY <1>1, <1>4 DEF Settled, Looking
<1>12. Choices'
  <2> SUFFICES ASSUME NEW r \in Signals, NEW c \in Cases, Chosen(r, c)'
               PROVE  /\ Born(c)' /\ subject'[c] \in {NoOrder, order'[r]} /\ Known(r)'
                      /\ ForWant(r, c)' => LastClosed(order[r], c)' /\ NextApart(order[r], c)'
                      /\ r \in unlinked' \/ Open(c)' \/ Settled(r)'
    BY DEF Choices
  <2>1. /\ Born(c) /\ subject[c] \in {NoOrder, order[r]} /\ Known(r)
        /\ ForWant(r, c) => LastClosed(order[r], c) /\ NextApart(order[r], c)
        /\ r \in unlinked \/ Open(c) \/ Settled(r)
    <3>1. CASE Chosen(r, c)
      BY <3>1 DEF IntakeInv, Choices
    <3>2. CASE r = s /\ c = d
      BY <1>2, <1>3, <3>2
    <3> QED BY <1>10, <3>1, <3>2
  <2>2. LastClosed(order[r], c) => LastClosed(order[r], c)'
    BY <1>4 DEF LastClosed, Open
  <2>3. NextApart(order[r], c) => NextApart(order[r], c)'
    BY <1>4 DEF NextApart, Open, Born
  <2> QED BY <1>4, <1>11, <2>1, <2>2, <2>3 DEF ForWant, Known, Born, Open
<1>13. OneChoice'
  <2> SUFFICES ASSUME NEW r \in Signals \ unlinked, NEW b \in Cases, NEW c \in Cases, b < c,
                      Chosen(r, b)', Chosen(r, c)'
               PROVE  Apart(b, c)
    BY <1>4 DEF OneChoice, Apart, Between
  <2>1. CASE Chosen(r, b) /\ Chosen(r, c)
    BY <2>1 DEF IntakeInv, OneChoice
  <2>2. CASE r = s /\ c = d /\ Chosen(r, b)
    BY <2>2, FoundIsApart DEF Looking
  <2>3. CASE r = s /\ b = d /\ Chosen(r, c)
    BY <2>3, FoundIsApart DEF Looking
  <2>4. CASE b = d /\ c = d
    BY <2>4 DEF Cases
  <2> QED BY <1>10, <2>1, <2>2, <2>3, <2>4
<1> QED BY <1>5, <1>6, <1>7, <1>8, <1>9, <1>12, <1>13, CasesKept DEF IntakeInv

LEMMA FindKeeps ==
  ASSUME IntakeInv, NEW w \in Workers, Find(w) \/ Recheck(w)
  PROVE  IntakeInv'
<1> DEFINE x == call[w].x
           d == Existing(x)
<1>1. /\ OnlyCall /\ call[w].pc \in {"find", "recheck"}
      /\ Joins(w, d, IF call[w].pc = "find" THEN "keys" ELSE "create")
  BY DEF Find, Recheck, OnlyCall
<1>2. /\ call[w] \in Work /\ x \in Messages /\ Fits(w) /\ Copies(w) /\ (x = Mrp \/ x \in Signals)
      /\ status \in [Cases -> Statuses] /\ call \in [Workers -> Work] /\ Mrp \notin Signals
  BY RecordIsTyped, NamesAreApart DEF Messages, IntakeInv, Types, CaseTypes
<1>3. UNCHANGED <<order, verdict, signal, members, status, subject, opened, key, told, received, epoch, unlinked>>
  BY <1>1 DEF OnlyCall, world, case
<1>4. CASE d = None
  <2>1. PICK pc \in {"keys", "create"} : /\ call' = [call EXCEPT ![w] = [call[w] EXCEPT !.pc = pc]]
                                         /\ call[w].pc = "find" => pc = "keys"
    BY <1>1, <1>2, <1>4 DEF Joins
  <2>2. PICK job \in Work : /\ job = [call[w] EXCEPT !.pc = pc] /\ job.pc = pc /\ job.x = x
                            /\ job.copy = call[w].copy /\ job.mat = call[w].mat /\ job.po = call[w].po
    <3>1. [call[w] EXCEPT !.pc = pc] \in Work
      BY <1>2, <2>1 DEF Work, Pcs, Looking
    <3> QED BY <1>2, <3>1 DEF Work
  <2>3. x \in Signals => received[x] = epoch
    BY <1>1, <1>2 DEF Fits, Looking
  <2>4. NoneFor(x)
    BY <1>2, <1>4, <2>3, NothingFound
  <2>5. NoneFor(job.x)'
    BY <1>3, <2>2, <2>4 DEF NoneFor, Open
  <2>6. ASSUME call'[w] = job
        PROVE  Fits(w)' /\ Copies(w)'
    <3>1. Fits(w)'
      BY <1>1, <1>2, <1>3, <2>1, <2>2, <2>5, <2>6 DEF Fits, Handling, Looking, Placing, Placed, Known
    <3>2. Copies(w)'
      BY <1>1, <1>2, <1>3, <2>1, <2>2, <2>6 DEF Copies, Looking, Placing, Placed
    <3> QED BY <3>1, <3>2
  <2> QED BY <1>1, <1>2, <2>1, <2>2, <2>6, RecordKeeps DEF Placing, Looking
<1>5. CASE d # None
  <2>1. d \in Cases /\ Born(d)
    BY <1>2, <1>5, ExistingIsOpen
  <2>2. PICK job : job = [call[w] EXCEPT !.c = d, !.at = status[d], !.mat = None, !.po = None,
                                        !.pc = IF x = Mrp THEN "finish" ELSE "attach"]
    OBVIOUS
  <2>3. /\ job \in Work /\ job.x = x /\ job.c = d /\ job.copy = call[w].copy
        /\ job.pc = IF x = Mrp THEN "finish" ELSE "attach"
    <3>1. (IF x = Mrp THEN "finish" ELSE "attach") \in Pcs /\ status[d] \in Statuses
      BY <1>2, <2>1 DEF Pcs, Placing, Placed
    <3> QED BY <1>2, <2>1, <2>2, <3>1 DEF Work
  <2>4. call' = [call EXCEPT ![w] = job]
    BY <1>1, <1>2, <1>5, <2>2 DEF Joins
  <2>5. CASE x \in Signals
    BY <1>1, <1>2, <1>5, <2>3, <2>4, <2>5, JoinKeeps
  <2>6. CASE x = Mrp
    <3>1. ASSUME call'[w] = job
          PROVE  Fits(w)' /\ Copies(w)'
      <4>1. job.c # None /\ job.x = Mrp /\ job.pc = "finish" /\ Born(job.c)'
        BY <1>3, <1>5, <2>1, <2>3, <2>6 DEF Born
      <4>2. Fits(w)'
        BY <1>2, <3>1, <4>1 DEF Fits, Handling, Looking, Placing, Placed
      <4>3. Copies(w)'
        BY <1>1, <1>2, <1>3, <2>3, <2>6, <3>1 DEF Copies, Looking, Placing, Placed
      <4> QED BY <4>2, <4>3
    <3> QED BY <1>1, <2>3, <2>4, <2>6, <3>1, RecordKeeps DEF Placing, Looking
  <2> QED BY <1>2, <2>5, <2>6
<1> QED BY <1>4, <1>5

-----------------------------------------------------------------------------
(* Opening a case *)

\* The new case n of message x, which its invocation goes on with.
Opens(w, n) ==
  LET x == call[w].x IN
  /\ n \in Cases /\ ~Born(n) /\ n = key[Mat] + 1
  /\ KeysStand(w)
  /\ status' = [status EXCEPT ![n] = "RECEIVED"]
  /\ subject' = [subject EXCEPT ![n] = order[x]]
  /\ origin' = [origin EXCEPT ![n] = x]
  /\ opened' = [opened EXCEPT ![n] = epoch]
  /\ updated' = [updated EXCEPT ![n] = epoch]
  /\ key' = [k \in Keys |-> IF k = Mat \/ (k = order[x] /\ k # NoOrder) THEN n ELSE key[k]]
  /\ call' = [call EXCEPT ![w].c = n, ![w].at = "RECEIVED", ![w].mat = None, ![w].po = None,
                          ![w].pc = IF x = Mrp THEN "finish" ELSE "attach"]
  /\ UNCHANGED <<world, members, signal, done, told, received, epoch, unlinked>>

\* Cases are opened in the order of their numbers.
LEMMA NextCase ==
  ASSUME IntakeInv, NEW w \in Workers, Create(w)
  PROVE  \/ OnlyCall /\ Goto(w, "keys")
         \/ \E n \in Cases : Opens(w, n)
<1> DEFINE unused == {c \in Cases : status[c] = "NONE"}
           n == key[Mat] + 1
<1>1. CASE ~KeysStand(w)
  BY <1>1 DEF Create, OnlyCall
<1>2. CASE KeysStand(w)
  <2>1. key[Mat] \in Cases \cup {None} /\ \A c \in Cases : Born(c) => c <= key[Mat]
    BY DEF IntakeInv, Types, CaseTypes, Keys, Numbering
  <2>2. \A c \in Cases : c <= key[Mat] => Born(c)
    <3> SUFFICES ASSUME NEW c \in Cases, c <= key[Mat]
                 PROVE  Born(c)
      OBVIOUS
    <3>1. key[Mat] # None /\ key[Mat] \in Cases
      BY <2>1 DEF Cases, None
    <3>2. Born(key[Mat])
      BY <3>1 DEF IntakeInv, Numbering, Keys
    <3>3. c < key[Mat] \/ c = key[Mat]
      BY <3>1 DEF Cases
    <3> QED BY <3>1, <3>2, <3>3 DEF IntakeInv, Numbering
  <2>3. PICK u \in Cases : status[u] = "NONE"
    BY <1>2 DEF Create
  <2>4. n \in Cases /\ ~Born(n) /\ \A m \in unused : n <= m
    <3>1. u > key[Mat]
      BY <2>1, <2>2, <2>3 DEF Born, Cases, None
    <3>2. n \in Cases
      BY <2>1, <3>1, CasesAreBounded DEF Cases, None
    <3>3. \A m \in unused : n <= m
      BY <2>1, <2>2 DEF Born, Cases, None
    <3> QED BY <2>1, <3>2, <3>3 DEF Cases, None
  <2>5. n = CHOOSE k \in unused : \A m \in unused : k <= m
    <3>1. n \in unused
      BY <2>4 DEF Born
    <3>2. \A k \in unused : (\A m \in unused : k <= m) => k = n
      BY <2>4, <3>1 DEF Cases
    <3> QED BY <2>4, <3>1, <3>2
  <2>6. Opens(w, n)
    BY <1>2, <2>4, <2>5 DEF Create, Opens
  <2> QED BY <2>4, <2>6
<1> QED BY <1>1, <1>2

\* Beside which open cases a new one may be put.
LEMMA OpensBeside ==
  ASSUME IntakeInv, NEW w \in Workers, call[w].pc = "create", KeysStand(w),
         NEW x, x = call[w].x, NEW n \in Cases, n = key[Mat] + 1, NEW c \in Cases, Open(c)
  PROVE  /\ c < n
         /\ IF x = Mrp THEN Between(c, n)
            ELSE \/ subject[c] \notin {NoOrder, order[x]} \/ opened[c] # epoch
                 \/ \E e \in Cases : c < e /\ e < n /\ subject[c] \in {NoOrder, subject[e]}
                 \/ /\ subject[c] = NoOrder /\ order[x] # NoOrder
                    /\ \E e \in Cases : e < c /\ subject[e] = order[x] /\ opened[e] # epoch
<1> DEFINE m == key[Mat]
           b == key[order[x]]
<1>1. x \in Messages /\ NoneFor(x)
  BY RecordIsTyped DEF Fits
<1>2. /\ order[x] \in Keys /\ m \in Cases \cup {None} /\ b \in Cases \cup {None}
      /\ order[x] # NoOrder => order[x] \in Orders
  BY <1>1, Names
<1>3. /\ \A e \in Cases : e \in Nat /\ (Born(e) => e <= m)
      /\ opened[c] \in Nat /\ epoch \in Nat /\ Born(c)
  <2>1. \A e \in Cases : e \in Nat /\ (Born(e) => e <= m)
    BY DEF IntakeInv, Numbering, Cases
  <2>2. opened[c] \in Nat /\ epoch \in Nat
    BY DEF IntakeInv, Types, CaseTypes
  <2> QED BY <2>1, <2>2 DEF Born, Open
<1>4. m \in Cases /\ m # None /\ c <= m /\ c < n /\ m < n
  BY <1>2, <1>3 DEF Cases, None
<1>5. CASE x = Mrp
  <2>1. m # c
    BY <1>1, <1>4, <1>5 DEF NoneFor
  <2> QED BY <1>3, <1>4, <1>5, <2>1 DEF Between
<1>6. CASE x # Mrp /\ subject[c] \in {NoOrder, order[x]} /\ opened[c] = epoch
  <2>1. b # None => Born(b) /\ opened[b] <= epoch /\ subject[b] = order[x] /\ order[x] \in Orders /\ b <= m
    <3> SUFFICES ASSUME b # None
                 PROVE  Born(b) /\ opened[b] <= epoch /\ subject[b] = order[x] /\ order[x] \in Orders /\ b <= m
      OBVIOUS
    <3>1. b \in Cases /\ Born(b) /\ order[x] # NoOrder
      BY <1>2 DEF IntakeInv, Numbering
    <3>3. subject[b] = order[x] /\ order[x] \in Orders
      BY <1>2, <3>1 DEF IntakeInv, Numbering
    <3>2. opened[b] <= updated[b] /\ updated[b] <= epoch /\ opened[b] \in Nat /\ updated[b] \in Nat
      BY <3>1 DEF IntakeInv, Numbering, Types, CaseTypes
    <3>4. opened[b] <= epoch
      BY <1>3, <3>2
    <3> QED BY <1>3, <3>1, <3>3, <3>4
  <2>2. CASE subject[c] = order[x] /\ order[x] # NoOrder
    <3>1. c <= b /\ b # None /\ b \in Cases
      <4>1. c <= b
        BY <1>2, <1>3, <2>2 DEF IntakeInv, Numbering
      <4> QED BY <1>2, <1>3, <4>1 DEF None, Cases
    <3>2. b # c
      BY <1>1, <1>6, <3>1 DEF NoneFor
    <3>3. c < b /\ b < n /\ subject[c] = subject[b]
      <4>1. b \in Nat /\ c \in Nat /\ m \in Nat /\ n \in Nat /\ b <= m /\ subject[b] = order[x]
        BY <1>3, <1>4, <2>1, <3>1
      <4> QED BY <1>4, <2>2, <3>1, <3>2, <4>1
    <3>4. \E e \in Cases : c < e /\ e < n /\ subject[c] \in {NoOrder, subject[e]}
      BY <3>1, <3>3
    <3> QED BY <1>4, <1>6, <3>4
  <2>3. CASE subject[c] = NoOrder
    <3>1. CASE m # c
      <4>1. c < m
        BY <1>3, <1>4, <3>1
      <4>2. \E e \in Cases : c < e /\ e < n /\ subject[c] \in {NoOrder, subject[e]}
        BY <1>4, <2>3, <4>1
      <4> QED BY <1>4, <1>6, <4>2
    <3>2. CASE m = c
      <4>1. b # None /\ Open(b) /\ opened[b] # epoch
        BY <1>1, <1>4, <1>6, <2>3, <3>2 DEF NoneFor
      <4>2. b \in Cases /\ b < c
        BY <1>2, <1>3, <1>6, <2>1, <3>2, <4>1 DEF Cases
      <4>3. subject[b] = order[x] /\ order[x] # NoOrder
        BY <2>1, <4>1, NamesAreApart
      <4>4. \E e \in Cases : e < c /\ subject[e] = order[x] /\ opened[e] # epoch
        BY <4>1, <4>2, <4>3
      <4> QED BY <1>4, <1>6, <2>3, <4>3, <4>4
    <3> QED BY <3>1, <3>2
  <2> QED BY <1>6, <2>2, <2>3
<1> QED BY <1>4, <1>5, <1>6

\* A new case is not put behind an old one of its order that is closed.
LEMMA OpensAfterWant ==
  ASSUME IntakeInv, NEW w \in Workers, call[w].pc = "create", KeysStand(w),
         NEW x, x = call[w].x, x # Mrp, NEW c \in Cases, Open(c), c = key[Mat], subject[c] = NoOrder,
         order[x] # NoOrder, LastClosed(order[x], c)
  PROVE  opened[c] # epoch
<1> DEFINE p == order[x]
           b == key[p]
<1>1. x \in Messages /\ NoneFor(x)
  BY RecordIsTyped DEF Fits
<1>2. p \in Orders /\ b \in Cases \cup {None}
  BY <1>1, Names
<1>3. \A e \in Cases : e \in Nat /\ (Born(e) => e <= c) /\ (subject[e] = p => e <= b)
  BY <1>2, NamesAreApart DEF IntakeInv, Numbering, Cases
<1>4. b = None \/ ~Open(b)
  <2> SUFFICES ASSUME b # None
               PROVE  ~Open(b)
    OBVIOUS
  <2>1. b \in Cases /\ Born(b) /\ subject[b] = p
    BY <1>2 DEF IntakeInv, Numbering, Keys
  <2>2. b < c
    BY <1>3, <2>1
  <2>3. \A e \in Cases : b < e /\ e < c => subject[e] # p
    BY <1>3, <2>1
  <2> QED BY <2>1, <2>2, <2>3 DEF LastClosed
<1>5. c # None
  BY DEF Cases, None
<1> QED BY <1>1, <1>4, <1>5 DEF NoneFor

\* What opening a case changes, item by item.
LEMMA OpensEffect ==
  ASSUME IntakeInv, NEW w \in Workers, call[w].pc = "create", NEW n \in Cases, Opens(w, n),
         NEW x, x = call[w].x
  PROVE  /\ Types'
         /\ status'[n] = "RECEIVED" /\ subject'[n] = order[x] /\ origin'[n] = x
         /\ opened'[n] = epoch /\ updated'[n] = epoch
         /\ \A c \in Cases : c # n =>
              /\ status'[c] = status[c] /\ subject'[c] = subject[c] /\ origin'[c] = origin[c]
              /\ opened'[c] = opened[c] /\ updated'[c] = updated[c]
         /\ key'[Mat] = n /\ key'[NoOrder] = None
         /\ \A p \in Orders : key'[p] = IF p = order[x] THEN n ELSE key[p]
         /\ call'[w].x = x /\ call'[w].c = n /\ call'[w].copy = call[w].copy
         /\ call'[w].pc = IF x = Mrp THEN "finish" ELSE "attach"
         /\ \A v \in Workers : v # w => call'[v] = call[v]
<1>1. /\ call[w] \in Work /\ x \in Messages /\ order[x] \in Subjects /\ epoch \in Nat
      /\ call \in [Workers -> Work] /\ key \in [Keys -> Cases \cup {None}]
  BY RecordIsTyped, Names DEF IntakeInv, Types, CaseTypes
<1>2. /\ status' = [status EXCEPT ![n] = "RECEIVED"] /\ subject' = [subject EXCEPT ![n] = order[x]]
      /\ origin' = [origin EXCEPT ![n] = x] /\ opened' = [opened EXCEPT ![n] = epoch]
      /\ updated' = [updated EXCEPT ![n] = epoch]
  BY DEF Opens
<1>3. /\ status \in [Cases -> Statuses] /\ subject \in [Cases -> Subjects] /\ origin \in [Cases -> Messages]
      /\ opened \in [Cases -> Nat] /\ updated \in [Cases -> Nat]
  BY DEF IntakeInv, Types, CaseTypes
<1>4. /\ status' \in [Cases -> Statuses] /\ subject' \in [Cases -> Subjects] /\ origin' \in [Cases -> Messages]
      /\ opened' \in [Cases -> Nat] /\ updated' \in [Cases -> Nat]
  BY <1>1, <1>2, <1>3 DEF Statuses
<1>5. /\ status'[n] = "RECEIVED" /\ subject'[n] = order[x] /\ origin'[n] = x
      /\ opened'[n] = epoch /\ updated'[n] = epoch
      /\ \A c \in Cases : c # n =>
           /\ status'[c] = status[c] /\ subject'[c] = subject[c] /\ origin'[c] = origin[c]
           /\ opened'[c] = opened[c] /\ updated'[c] = updated[c]
  BY <1>2, <1>3
<1>6. key' = [k \in Keys |-> IF k = Mat \/ (k = order[x] /\ k # NoOrder) THEN n ELSE key[k]]
  BY DEF Opens
<1>7. Mat \in Keys /\ NoOrder \in Keys /\ NoOrder # Mat /\ Orders \subseteq Keys /\ Mat \notin Orders
      /\ NoOrder \notin Orders
  BY NamesAreApart DEF Keys, Mat, NoOrder
<1>8. key' \in [Keys -> Cases \cup {None}] /\ key'[Mat] = n
  BY <1>1, <1>6, <1>7
<1>9. key'[NoOrder] = None
  <2>1. key[NoOrder] = None
    BY DEF IntakeInv, Numbering
  <2> QED BY <1>6, <1>7, <2>1
<1>10. \A p \in Orders : key'[p] = IF p = order[x] THEN n ELSE key[p]
  BY <1>6, <1>7
<1>11. PICK job : job = [call[w] EXCEPT !.c = n, !.at = "RECEIVED", !.mat = None, !.po = None,
                                      !.pc = IF x = Mrp THEN "finish" ELSE "attach"]
  OBVIOUS
<1>12. /\ job \in Work /\ job.x = x /\ job.c = n /\ job.copy = call[w].copy
       /\ job.pc = IF x = Mrp THEN "finish" ELSE "attach"
  <2>1. (IF x = Mrp THEN "finish" ELSE "attach") \in Pcs /\ "RECEIVED" \in Statuses
    BY DEF Pcs, Placing, Placed, Statuses
  <2> QED BY <1>1, <1>11, <2>1 DEF Work
<1>13. call' = [call EXCEPT ![w] = job]
  BY <1>1, <1>11 DEF Opens
<1>14. call' \in [Workers -> Work] /\ call'[w] = job /\ \A v \in Workers : v # w => call'[v] = call[v]
  BY <1>1, <1>12, <1>13
<1>15. Types'
  <2>1. UNCHANGED <<order, verdict, members, signal, received, epoch, unlinked>>
    BY DEF Opens, world
  <2> QED BY <1>4, <1>8, <1>14, <2>1 DEF IntakeInv, Types, CaseTypes
<1> QED BY <1>5, <1>8, <1>9, <1>10, <1>12, <1>14, <1>15

LEMMA OpensKeeps ==
  ASSUME IntakeInv, NEW w \in Workers, call[w].pc = "create", NEW n \in Cases, Opens(w, n)
  PROVE  IntakeInv'
<1>0. PICK x : x = call[w].x
  OBVIOUS
<1>1. /\ x \in Messages /\ (x = Mrp \/ x \in Signals) /\ Mrp \notin Signals /\ Fits(w) /\ Copies(w)
      /\ order[x] \in Keys /\ (order[x] # NoOrder => order[x] \in Orders)
      /\ key[Mat] \in Cases \cup {None} /\ order[x] \in Subjects
      /\ n = key[Mat] + 1 /\ ~Born(n) /\ KeysStand(w)
  BY <1>0, RecordIsTyped, Names, NamesAreApart DEF Opens
<1>2. UNCHANGED <<order, verdict, members, signal, done, told, received, epoch, unlinked>>
  BY DEF Opens, world
<1>3. /\ Types'
      /\ status'[n] = "RECEIVED" /\ subject'[n] = order[x] /\ origin'[n] = x
      /\ opened'[n] = epoch /\ updated'[n] = epoch
      /\ \A c \in Cases : c # n =>
           /\ status'[c] = status[c] /\ subject'[c] = subject[c] /\ origin'[c] = origin[c]
           /\ opened'[c] = opened[c] /\ updated'[c] = updated[c]
  BY <1>0, OpensEffect
<1>4. /\ key'[Mat] = n /\ key'[NoOrder] = None
      /\ \A p \in Orders : key'[p] = IF p = order[x] THEN n ELSE key[p]
  BY <1>0, OpensEffect
<1>5. /\ call'[w].x = x /\ call'[w].c = n /\ call'[w].copy = call[w].copy
      /\ call'[w].pc = IF x = Mrp THEN "finish" ELSE "attach"
      /\ \A v \in Workers : v # w => call'[v] = call[v]
  BY <1>0, OpensEffect
<1>6. \A c \in Cases : /\ c \in Nat
                       /\ Born(c) => c < n /\ Born(c)' /\ opened[c] <= updated[c] /\ updated[c] <= epoch
                       /\ Born(c)' => Born(c) \/ c = n
                       /\ ~Born(c) => subject[c] = NoOrder
  <2> SUFFICES ASSUME NEW c \in Cases
               PROVE  /\ c \in Nat
                      /\ Born(c) => c < n /\ Born(c)' /\ opened[c] <= updated[c] /\ updated[c] <= epoch
                      /\ Born(c)' => Born(c) \/ c = n
                      /\ ~Born(c) => subject[c] = NoOrder
    OBVIOUS
  <2>1. c \in Nat /\ n \in Nat
    BY DEF Cases
  <2>2. Born(c) => c <= key[Mat] /\ opened[c] <= updated[c] /\ updated[c] <= epoch
    BY DEF IntakeInv, Numbering
  <2>3. c <= key[Mat] => c < n
    BY <1>1, <2>1 DEF Cases, None
  <2>4. ~Born(c) => subject[c] = NoOrder
    BY DEF IntakeInv, Numbering
  <2>5. (Born(c) => Born(c)') /\ (Born(c)' => Born(c) \/ c = n)
    BY <1>3 DEF Born
  <2> QED BY <2>1, <2>2, <2>3, <2>4, <2>5
<1>7. \A c \in Cases : Open(c)' => c = n \/ (c # n /\ Open(c) /\ Born(c))
  BY <1>3 DEF Open, Born
<1>8. \A c \in Cases : Born(c) => opened[c] <= epoch /\ opened'[c] = opened[c] /\ subject'[c] = subject[c]
  <2> SUFFICES ASSUME NEW c \in Cases, Born(c)
               PROVE  opened[c] <= epoch /\ opened'[c] = opened[c] /\ subject'[c] = subject[c]
    OBVIOUS
  <2>1. opened[c] \in Nat /\ updated[c] \in Nat /\ epoch \in Nat
    BY DEF IntakeInv, Types, CaseTypes
  <2>2. opened[c] <= epoch
    BY <1>6, <2>1
  <2>3. c # n
    BY <1>1
  <2> QED BY <1>3, <2>2, <2>3
<1>9. Numbering'
  <2>1. \A c, d \in Cases : c < d /\ Born(d)' => Born(c)' /\ opened'[c] <= opened'[d]
    <3> SUFFICES ASSUME NEW c \in Cases, NEW d \in Cases, c < d, Born(d)'
                 PROVE  Born(c)' /\ opened'[c] <= opened'[d]
      OBVIOUS
    <3>1. CASE Born(d)
      <4>1. Born(c) /\ opened[c] <= opened[d]
        BY <3>1 DEF IntakeInv, Numbering
      <4> QED BY <1>6, <1>8, <3>1, <4>1
    <3>2. CASE d = n
      <4>1. c <= key[Mat]
        BY <1>1, <1>6, <3>2 DEF Cases, None
      <4>2. key[Mat] \in Cases /\ Born(key[Mat])
        BY <1>1, <1>6, <4>1 DEF IntakeInv, Numbering, Keys, Cases, None
      <4>3. Born(c)
        BY <1>6, <4>1, <4>2 DEF IntakeInv, Numbering
      <4> QED BY <1>3, <1>6, <1>8, <3>2, <4>3
    <3> QED BY <1>6, <3>1, <3>2
  <2>2. \A c \in Cases : Born(c)' => c <= key'[Mat] /\ opened'[c] <= updated'[c] /\ updated'[c] <= epoch'
    <3> SUFFICES ASSUME NEW c \in Cases, Born(c)'
                 PROVE  c <= n /\ opened'[c] <= updated'[c] /\ updated'[c] <= epoch
      BY <1>2, <1>4
    <3>1. CASE c = n
      BY <1>3, <1>6, <3>1 DEF IntakeInv, Types, CaseTypes
    <3>2. CASE c # n
      BY <1>3, <1>6, <3>2
    <3> QED BY <3>1, <3>2
  <2>3. \A c \in Cases : IF Born(c)' THEN subject'[c] \in Orders => c <= key'[subject'[c]]
                         ELSE subject'[c] = NoOrder
    <3> SUFFICES ASSUME NEW c \in Cases
                 PROVE  IF Born(c)' THEN subject'[c] \in Orders => c <= key'[subject'[c]]
                        ELSE subject'[c] = NoOrder
      OBVIOUS
    <3>1. CASE c = n
      BY <1>3, <1>4, <1>6, <3>1 DEF Born
    <3>2. CASE c # n /\ Born(c)
      <4>1. subject'[c] = subject[c] /\ Born(c)' /\ c <= n
        BY <1>3, <1>6, <3>2
      <4>2. subject[c] \in Orders => c <= key[subject[c]]
        BY <3>2 DEF IntakeInv, Numbering
      <4> QED BY <1>4, <4>1, <4>2
    <3>3. CASE c # n /\ ~Born(c)
      BY <1>3, <1>6, <3>3 DEF Born
    <3> QED BY <3>1, <3>2, <3>3
  <2>4. \A k \in Orders : key'[k] # None => status'[key'[k]] # "NONE" /\ subject'[key'[k]] = k
    <3> SUFFICES ASSUME NEW k \in Orders, key'[k] # None
                 PROVE  status'[key'[k]] # "NONE" /\ subject'[key'[k]] = k
      OBVIOUS
    <3>1. CASE k = order[x]
      BY <1>3, <1>4, <3>1 DEF Born
    <3>2. CASE k # order[x]
      <4>1. key'[k] = key[k] /\ key[k] \in Cases
        BY <1>4, <3>2 DEF IntakeInv, Types, CaseTypes, Keys
      <4>2. Born(key[k]) /\ subject[key[k]] = k /\ key[k] # n
        BY <1>1, <4>1 DEF IntakeInv, Numbering, Keys, None, Cases
      <4> QED BY <1>3, <4>1, <4>2 DEF Born
    <3> QED BY <3>1, <3>2
  <2>5. \A k \in Keys : key'[k] # None => status'[key'[k]] # "NONE"
    BY <1>3, <1>4, <2>4 DEF Keys, Born
  <2> QED BY <1>4, <2>1, <2>2, <2>3, <2>4, <2>5 DEF Numbering, Born
<1>10. \A c, d \in Cases : Between(c, d)' <=> Between(c, d)
  BY DEF Between
<1>11. OneOpenCase'
  <2> SUFFICES ASSUME NEW c \in Cases, NEW d \in Cases, c < d, Open(c)', Born(d)'
               PROVE  IF origin'[d] = Mrp THEN Between(c, d)
                      ELSE \/ subject'[c] \notin {NoOrder, subject'[d]} \/ opened'[c] # opened'[d]
                           \/ Passed(c, d)' \/ Hidden(c, d)'
    BY <1>10 DEF OneOpenCase, Between, Born
  <2>1. CASE d = n
    <3>1. c # n /\ Open(c) /\ Born(c)
      BY <1>6, <1>7, <2>1
    <3>2. IF x = Mrp THEN Between(c, n)
          ELSE \/ subject[c] \notin {NoOrder, order[x]} \/ opened[c] # epoch
               \/ \E e \in Cases : c < e /\ e < n /\ subject[c] \in {NoOrder, subject[e]}
               \/ /\ subject[c] = NoOrder /\ order[x] # NoOrder
                  /\ \E e \in Cases : e < c /\ subject[e] = order[x] /\ opened[e] # epoch
      BY <1>0, <1>1, <3>1, OpensBeside
    <3>3. (\E e \in Cases : c < e /\ e < n /\ subject[c] \in {NoOrder, subject[e]}) => Passed(c, d)'
      BY <1>3, <1>6, <2>1, <3>1 DEF Passed
    <3>4. (/\ subject[c] = NoOrder /\ order[x] # NoOrder
           /\ \E e \in Cases : e < c /\ subject[e] = order[x] /\ opened[e] # epoch) => Hidden(c, d)'
      BY <1>3, <1>6, <2>1, <3>1 DEF Hidden
    <3> QED BY <1>3, <2>1, <3>1, <3>2, <3>3, <3>4
  <2>2. CASE d # n
    <3>1. Born(d) /\ d < n /\ c < n
      BY <1>6, <2>2
    <3>2. c # n /\ Open(c) /\ status[d] # "NONE"
      BY <1>6, <1>7, <3>1 DEF Born
    <3>3. IF origin[d] = Mrp THEN Between(c, d)
          ELSE \/ subject[c] \notin {NoOrder, subject[d]} \/ opened[c] # opened[d]
               \/ Passed(c, d) \/ Hidden(c, d)
      <4>1. OneOpenCase
        BY DEF IntakeInv
      <4> QED BY <3>2, <4>1 DEF OneOpenCase, Between
    <3>4. \A e \in Cases : e < d => e # n
      BY <1>6, <3>1
    <3>5. Passed(c, d) => Passed(c, d)'
      BY <1>3, <3>2, <3>4 DEF Passed
    <3>6. Hidden(c, d) => Hidden(c, d)'
      <4>1. \A e \in Cases : e < c => e # n
        BY <1>6, <3>1
      <4> QED BY <1>3, <2>2, <3>2, <4>1 DEF Hidden
    <3> QED BY <1>3, <2>2, <3>2, <3>3, <3>5, <3>6
  <2> QED BY <2>1, <2>2
<1>12. Fits(w)' /\ Copies(w)'
  <2>1. call[w].pc = "create" /\ (x \in Signals => Known(x))
    BY <1>0, <1>1 DEF Fits, Looking
  <2>2. n # None /\ status'[n] # "NONE"
    BY <1>3 DEF Cases, None
  <2>3. Fits(w)'
    BY <1>1, <1>2, <1>5, <2>1, <2>2 DEF Fits, Handling, Looking, Placing, Placed, Known, Born
  <2>4. Copies(w)'
    BY <1>0, <1>1, <1>2, <1>5, <2>1 DEF Copies, Looking, Placing, Placed
  <2> QED BY <2>3, <2>4
<1>13. ASSUME NEW v \in Workers, v # w
       PROVE  Fits(v)' /\ Copies(v)'
  <2>1. /\ call'[v] = call[v] /\ call[v] \in Work /\ call[v].x \in Messages /\ call[v].c \in Cases \cup {None}
        /\ call[v].mat \in Cases \cup {None} /\ call[v].po \in Cases \cup {None}
        /\ Fits(v) /\ Copies(v)
    BY <1>5, <1>13, RecordIsTyped
  <2>2. \A y \in Messages : key[order[y]] <= key'[order[y]]
    <3> SUFFICES ASSUME NEW y \in Messages
                 PROVE  key[order[y]] <= key'[order[y]]
      OBVIOUS
    <3>1. order[y] \in Subjects /\ key[order[y]] \in Cases \cup {None}
      BY Names
    <3>2. CASE order[y] = NoOrder
      BY <1>4, <3>1, <3>2 DEF IntakeInv, Numbering, None
    <3>3. CASE order[y] \in Orders /\ order[y] = order[x]
      <4>1. key[order[y]] = None \/ Born(key[order[y]])
        BY <3>3 DEF IntakeInv, Numbering, Keys
      <4> QED BY <1>4, <1>6, <3>1, <3>3, <4>1 DEF None, Cases
    <3>4. CASE order[y] \in Orders /\ order[y] # order[x]
      BY <1>4, <3>1, <3>4 DEF None, Cases
    <3> QED BY <3>1, <3>2, <3>3, <3>4 DEF Subjects
  <2>3. /\ call[v].pc \in {"recheck", "create"} =>
             call[v].mat < key'[Mat] /\ call[v].po <= key'[order[call[v].x]]
    <3> SUFFICES ASSUME call[v].pc \in {"recheck", "create"}
                 PROVE  call[v].mat < key'[Mat] /\ call[v].po <= key'[order[call[v].x]]
      OBVIOUS
    <3>1. call[v].mat <= key[Mat] /\ call[v].po <= key[order[call[v].x]]
      BY <2>1 DEF Fits
    <3>2. key[order[call[v].x]] <= key'[order[call[v].x]]
      BY <2>1, <2>2
    <3>3. /\ key[order[call[v].x]] \in Cases \cup {None} /\ key'[order[call[v].x]] \in Cases \cup {None}
      <4>1. order[call[v].x] \in Keys
        BY <2>1, Names
      <4> QED BY <1>3, <4>1 DEF Types, CaseTypes, IntakeInv
    <3> QED BY <1>1, <1>4, <2>1, <3>1, <3>2, <3>3 DEF Cases, None
  <2>4. \A c \in Cases : Born(c) => status'[c] # "NONE"
    BY <1>6 DEF Born
  <2>5. call[v].pc = "create" => call[v].mat # key'[Mat] /\ call[v].mat <= key'[Mat]
    BY <1>4, <2>1, <2>3 DEF Cases, None
  <2>6. call[v].pc = "recheck" => call[v].mat <= key'[Mat]
    BY <1>4, <2>1, <2>3 DEF Cases, None
  <2>7. Fits(v)'
    BY <1>2, <2>1, <2>3, <2>4, <2>5, <2>6 DEF Fits, KeysStand, Opens, Known, Born
  <2>8. Copies(v)'
    BY <1>2, <2>1 DEF Copies
  <2> QED BY <2>7, <2>8
<1>14. (\A r \in Signals : Well(r)') /\ Marks'
  BY <1>2 DEF IntakeInv, Well, Marks, Known
<1>15. \A r \in Signals, c \in Cases : Chosen(r, c)' => Chosen(r, c) \/ (r = x /\ c = n)
  BY <1>2, <1>5 DEF Chosen, Placing
<1>16. \A r \in Signals, c \in Cases : Chosen(r, c) => Born(c) /\ c < n
  BY <1>6 DEF IntakeInv, Choices
<1>17. \A r \in Signals : Settled(r) => Settled(r)'
  <2> SUFFICES ASSUME NEW r \in Signals, Settled(r)
               PROVE  Settled(r)'
    OBVIOUS
  <2>1. call'[w].pc \notin Looking
    BY <1>5 DEF Looking
  <2> QED BY <1>2, <1>5, <2>1 DEF Settled
<1>18. \A r \in Signals, c \in Cases :
         r = x /\ r \notin unlinked /\ Chosen(r, c) =>
           Open(c) /\ subject[c] \in {NoOrder, order[r]} /\ (ForWant(r, c) => LastClosed(order[r], c))
  <2> SUFFICES ASSUME NEW r \in Signals, NEW c \in Cases, r = x, r \notin unlinked, Chosen(r, c)
               PROVE  Open(c) /\ subject[c] \in {NoOrder, order[r]} /\ (ForWant(r, c) => LastClosed(order[r], c))
    OBVIOUS
  <2>1. ~Settled(r)
    BY <1>0 DEF Settled, Looking
  <2> QED BY <2>1 DEF IntakeInv, Choices
<1>19. Choices'
  <2> SUFFICES ASSUME NEW r \in Signals, NEW c \in Cases, Chosen(r, c)'
               PROVE  /\ Born(c)' /\ subject'[c] \in {NoOrder, order'[r]} /\ Known(r)'
                      /\ ForWant(r, c)' => LastClosed(order[r], c)' /\ NextApart(order[r], c)'
                      /\ r \in unlinked' \/ Open(c)' \/ Settled(r)'
    BY DEF Choices
  <2>1. CASE Chosen(r, c)
    <3>1. /\ Born(c) /\ subject[c] \in {NoOrder, order[r]} /\ Known(r)
          /\ ForWant(r, c) => LastClosed(order[r], c) /\ NextApart(order[r], c)
          /\ r \in unlinked \/ Open(c) \/ Settled(r)
      BY <2>1 DEF IntakeInv, Choices
    <3>2. c # n /\ c < n
      BY <1>6, <1>16, <2>1
    <3>3. \A b \in Cases : b < c => b # n
      BY <1>6, <3>2
    <3>4. LastClosed(order[r], c) => LastClosed(order[r], c)'
      BY <1>2, <1>3, <3>3 DEF LastClosed, Open
    <3>5. ASSUME ForWant(r, c)
          PROVE  NextApart(order[r], c)'
      <4> SUFFICES ASSUME NEW d \in Cases, d = c + 1, Born(d)', subject'[d] = order[r], origin'[d] # Mrp, Open(c)'
                   PROVE  opened'[c] # opened'[d]
        BY <1>2 DEF NextApart
      <4>1. Open(c)
        BY <1>7, <3>2
      <4>2. CASE d = n
        <5>1. c = key[Mat]
          BY <1>1, <1>6, <4>2 DEF Cases, None
        <5>2. opened[c] # epoch
          BY <1>0, <1>1, <1>3, <3>1, <3>5, <4>1, <4>2, <5>1, OpensAfterWant DEF ForWant
        <5> QED BY <1>3, <3>2, <4>2, <5>2
      <4>3. CASE d # n
        <5>1. Born(d) /\ subject[d] = order[r] /\ origin[d] # Mrp
          BY <1>3, <1>6, <4>3
        <5>2. NextApart(order[r], c)
          BY <3>1, <3>5
        <5> QED BY <1>3, <3>2, <4>1, <4>3, <5>1, <5>2 DEF NextApart
      <4> QED BY <4>2, <4>3
    <3>6. ForWant(r, c)' => ForWant(r, c)
      BY <1>2, <1>3, <3>2 DEF ForWant
    <3>7. Open(c) => Open(c)'
      BY <1>3, <3>2 DEF Open
    <3>8. Born(c)' /\ subject'[c] = subject[c] /\ Known(r)'
      BY <1>2, <1>3, <1>6, <3>1, <3>2 DEF Known
    <3> QED BY <1>2, <1>17, <3>1, <3>4, <3>5, <3>6, <3>7, <3>8
  <2>2. CASE r = x /\ c = n
    <3>1. Known(r)
      BY <1>0, <1>1, <2>2 DEF Fits, Looking
    <3>2. ~ForWant(r, c)'
      BY <1>2, <1>3, <2>2 DEF ForWant
    <3> QED BY <1>2, <1>3, <2>2, <3>1, <3>2 DEF Born, Open, Known
  <2> QED BY <1>15, <2>1, <2>2
<1>20. OneChoice'
  <2> SUFFICES ASSUME NEW r \in Signals \ unlinked, NEW b \in Cases, NEW c \in Cases, b < c,
                      Chosen(r, b)', Chosen(r, c)'
               PROVE  opened'[b] # opened'[c] \/ Between(b, c)
    BY <1>2, <1>10 DEF OneChoice, Apart
  <2>1. CASE Chosen(r, b) /\ Chosen(r, c)
    <3>1. Apart(b, c) /\ b # n /\ c # n
      BY <1>1, <1>16, <2>1 DEF IntakeInv, OneChoice
    <3> QED BY <1>3, <3>1 DEF Apart
  <2>2. CASE r = x /\ c = n /\ Chosen(r, b)
    <3>1. Open(b) /\ subject[b] \in {NoOrder, order[r]} /\ (ForWant(r, b) => LastClosed(order[r], b))
      BY <1>18, <2>2
    <3>2. x # Mrp /\ b # n
      BY <1>1, <1>16, <2>2
    <3>3. \/ opened[b] # epoch
          \/ \E e \in Cases : b < e /\ e < n /\ subject[b] \in {NoOrder, subject[e]}
          \/ subject[b] = NoOrder /\ order[x] # NoOrder
      BY <1>0, <1>1, <2>2, <3>1, <3>2, OpensBeside
    <3>4. CASE opened[b] # epoch
      BY <1>3, <2>2, <3>2, <3>4
    <3>5. CASE \E e \in Cases : b < e /\ e < n /\ subject[b] \in {NoOrder, subject[e]}
      BY <2>2, <3>5 DEF Between
    <3>6. CASE subject[b] = NoOrder /\ order[x] # NoOrder /\ ~Between(b, n)
      <4>1. b = key[Mat]
        <5>1. Born(b) /\ b <= key[Mat] /\ key[Mat] \in Cases /\ key[Mat] < n
          <6>1. Born(b)
            BY <1>16, <2>2
          <6>2. b <= key[Mat]
            BY <6>1 DEF IntakeInv, Numbering
          <6> QED BY <1>1, <6>1, <6>2 DEF Cases, None
        <5>2. b < key[Mat] \/ b = key[Mat]
          BY <5>1 DEF Cases
        <5> QED BY <3>6, <5>1, <5>2 DEF Between
      <4>2. LastClosed(order[x], b)
        BY <2>2, <3>1, <3>6 DEF ForWant
      <4>3. opened[b] # epoch
        BY <1>0, <1>1, <3>1, <3>2, <3>6, <4>1, <4>2, OpensAfterWant
      <4> QED BY <3>4, <4>3
    <3> QED BY <2>2, <3>3, <3>4, <3>5, <3>6
  <2>3. CASE b = n /\ c # n
    <3>1. Chosen(r, c)
      BY <1>15, <2>3
    <3> QED BY <1>6, <1>16, <2>3, <3>1
  <2>4. CASE b = n /\ c = n
    BY <1>6, <2>4
  <2> QED BY <1>15, <2>1, <2>2, <2>3, <2>4
<1>21. \A v \in Workers : Fits(v)' /\ Copies(v)'
  BY <1>12, <1>13
<1> QED BY <1>3, <1>9, <1>11, <1>14, <1>19, <1>20, <1>21 DEF IntakeInv

LEMMA CreateKeeps ==
  ASSUME IntakeInv, NEW w \in Workers, Create(w)
  PROVE  IntakeInv'
<1>1. call[w].pc = "create" /\ call[w] \in Work /\ Fits(w) /\ Copies(w)
  BY RecordIsTyped DEF Create
<1>2. CASE OnlyCall /\ Goto(w, "keys")
  <2>1. PICK job \in Work : /\ job = [call[w] EXCEPT !.pc = "keys"] /\ job.pc = "keys" /\ job.x = call[w].x
                            /\ job.copy = call[w].copy
    <3>1. [call[w] EXCEPT !.pc = "keys"] \in Work
      BY <1>1 DEF Work, Pcs, Looking
    <3> QED BY <1>1, <3>1 DEF Work
  <2>2. call' = [call EXCEPT ![w] = job]
    BY <1>2, <2>1 DEF Goto, IntakeInv, Types
  <2>3. UNCHANGED <<order, verdict, signal, members, received, told, epoch, unlinked>>
    BY <1>2 DEF OnlyCall, world, case
  <2>4. ASSUME call'[w] = job
        PROVE  Fits(w)' /\ Copies(w)'
    BY <1>1, <2>1, <2>3, <2>4 DEF Fits, Copies, Handling, Looking, Placing, Placed, Known
  <2> QED BY <1>1, <1>2, <2>1, <2>2, <2>4, RecordKeeps DEF Placing, Looking
<1>3. CASE \E n \in Cases : Opens(w, n)
  BY <1>1, <1>3, OpensKeeps
<1> QED BY <1>2, <1>3, NextCase

-----------------------------------------------------------------------------
(* The theorems *)

LEMMA InitFits ==
  ASSUME Init
  PROVE  IntakeInv
<1>1. PICK scene \in Scenes : order = scene.order /\ verdict = scene.verdict
  BY DEF Init
<1>2. order \in [Messages -> Subjects] /\ verdict \in [Signals -> Verdicts]
  BY <1>1, ScenesNameOrders DEF Messages, Subjects, Verdicts
<1>3. Types
  <2>1. Absent \in Items /\ Idle \in Work
    BY IdleIsWork DEF Absent, Items
  <2> QED BY <1>2, <2>1 DEF Init, Types, CaseTypes, Statuses, Subjects, Messages
<1>4. \A s \in Signals : signal[s] = Absent /\ ~Known(s)
  BY DEF Init, Known
<1>5. \A w \in Workers : call[w] = Idle
  BY DEF Init
<1>6. \A c \in Cases : status[c] = "NONE" /\ subject[c] = NoOrder /\ members[c] = {}
  BY DEF Init
<1>7. \A k \in Keys : key[k] = None
  BY DEF Init
<1>8. Numbering
  BY <1>6, <1>7 DEF Numbering, Born, Keys
<1>9. \A w \in Workers : Fits(w) /\ Copies(w)
  BY <1>5 DEF Fits, Copies, Idle, Absent, Handling, Looking, Placing, Placed
<1>10. \A s \in Signals : Well(s)
  BY <1>4 DEF Well, Absent, Init
<1>11. Marks /\ OneOpenCase
  BY <1>6 DEF Marks, OneOpenCase, Init
<1>12. \A s \in Signals, c \in Cases : ~Chosen(s, c)
  BY <1>5, <1>6 DEF Chosen, Idle, Placing
<1> QED BY <1>3, <1>8, <1>9, <1>10, <1>11, <1>12 DEF IntakeInv, Choices, OneChoice

LEMMA NextKeeps ==
  ASSUME IntakeInv, [Next]_vars
  PROVE  IntakeInv'
<1>1. ASSUME NEW s \in Signals, Receive(s)
      PROVE  IntakeInv'
  BY <1>1, ReceiveKeeps
<1>2. ASSUME NEW s \in Signals, Arrive(s)
      PROVE  IntakeInv'
  BY <1>2, ArriveKeeps
<1>3. ASSUME NEW s \in Signals, NEW w \in Workers, BeginGate(w, s) \/ BeginExtract(w, s)
      PROVE  IntakeInv'
  <2>1. Well(s)
    BY DEF IntakeInv
  <2> QED BY <1>3, <2>1, BeginKeeps DEF BeginGate, BeginExtract, Well
<1>4. ASSUME NEW s \in Signals, NEW w \in Workers, BeginSignal(w, s)
      PROVE  IntakeInv'
  BY <1>4, BeginSignalKeeps
<1>5. ASSUME NEW w \in Workers, BeginMrp(w) \/ Stop(w)
      PROVE  IntakeInv'
  BY <1>5, BeginMrpKeeps, StopKeeps
<1>6. ASSUME NEW w \in Workers, Step(w)
      PROVE  IntakeInv'
  BY <1>6, AnswerKeeps, AnnounceKeeps, FindKeeps, ReadKeysKeeps, CreateKeeps, AttachKeeps, LinkKeeps,
     FinishOpenKeeps, TellKeeps, TouchKeeps, SignalDoneKeeps DEF Step
<1>7. ASSUME NEW c \in Cases, StartRun(c) \/ Close(c)
      PROVE  IntakeInv'
  BY <1>7, StartRunKeeps, CloseKeeps
<1>8. CASE Pass72h
  BY <1>8, Pass72hKeeps
<1>9. CASE UNCHANGED vars
  <2>1. UNCHANGED <<order, verdict, bound, signal, members, status, subject, origin, opened, updated,
                    key, opening, done, told, received, epoch, call, unlinked>>
    BY <1>9 DEF vars, world, case
  <2>2. Types'
    BY <2>1 DEF IntakeInv, Types, CaseTypes
  <2>3. Keeps
    BY <2>1 DEF Keeps, world, Born, Open, IntakeInv, Types, CaseTypes, Numbering
  <2>4. (\A r \in Signals : Well(r)') /\ Marks'
    BY <2>1 DEF IntakeInv, Well, Marks, Known
  <2> QED BY <2>1, <2>2, <2>3, <2>4, WorldKept
<1> QED BY <1>1, <1>2, <1>3, <1>4, <1>5, <1>6, <1>7, <1>8, <1>9 DEF Next

\* The inductive invariant the theorems below rest on holds in every reachable state.
THEOREM IntakeInvariance == Spec => []IntakeInv
BY InitFits, NextKeeps, PTL DEF Spec

\* A second case beside an open one is opened on purpose (case_service/handler.py: _case_for_signal,
\* _open): by another order, 72 h apart, or because the keys no longer lead to the first.
THEOREM CasesAreOpenedOnPurpose == Spec => []OneOpenCase
<1>1. IntakeInv => OneOpenCase
  BY DEF IntakeInv
<1> QED BY <1>1, IntakeInvariance, PTL

\* A signal is attached to one case however its events are delivered (case_service/handler.py:
\* on_signal, _attach), and its link leads to a case that lists it.
THEOREM SignalsAreAttachedOnce == Spec => []AttachedOnce
<1>1. IntakeInv => AttachedOnce
  <2> SUFFICES ASSUME IntakeInv
               PROVE  AttachedOnce
    OBVIOUS
  <2>1. \A s \in Signals, c \in Cases : s \in members[c] => Chosen(s, c)
    BY DEF Chosen
  <2>2. \A s \in Signals \ unlinked, c, d \in Cases :
          (c < d /\ s \in members[c] \cap members[d]) => Apart(c, d)
    BY <2>1 DEF IntakeInv, OneChoice
  <2>3. \A s \in Signals : signal[s].case # None => s \in members[signal[s].case]
    BY DEF IntakeInv, Well
  <2> QED BY <2>2, <2>3 DEF AttachedOnce, Apart, Between
<1> QED BY <1>1, IntakeInvariance, PTL
=============================================================================
