--------------------------- MODULE ServicesProofs ---------------------------
(***************************************************************************)
(* Proofs about the services around the core, for any callers, consoles,   *)
(* deliveries, handlers, readers and messages. Each service has an         *)
(* inductive invariant of its own:                                         *)
(*   ConsoleInv   the claim a command holds on its key, and the page of    *)
(*                each console an event still has before it;               *)
(*   IntakeInv, NoticeInv, LabInv   who owns a signal's id, a notice and   *)
(*                what a poll has read;                                    *)
(*   EvidenceInv  what every copy of an item, saved or held, may claim;    *)
(*   SettingsInv  how old what a cache holds may be;                       *)
(*   SapInv       which etag an update is conditioned on, and which lines  *)
(*                of a document the action has made;                       *)
(*   ChainInv     that the head and every draft name the event they end    *)
(*                with.                                                    *)
(***************************************************************************)
EXTENDS Console, Channels, Evidence, Settings, Sap, Chain, FiniteSetTheorems, TLAPS

-----------------------------------------------------------------------------
(* Commands *)

Bodies == {p.body : p \in Posts} \cup {"none"}
Claimed == [body : Bodies, answer : {"none", "done", "refused"}]
Served == [step : {"idle", "act", "answer"}, post : Posts \cup {Serving.post},
           note : {"none", "done", "refused"}]
Engaged(c) == call[c].step # "idle"

ApiTypes ==
  /\ claim \in [Keys -> Claimed]
  /\ acts \in [Keys -> Nat]
  /\ call \in [Callers -> Served]
  /\ \A c \in Callers :
       /\ Engaged(c) => call[c].post \in Posts
       /\ call[c].step = "answer" => call[c].note # "none"

\* Until a reset, whoever works on a key has its claim for itself and nothing is answered yet;
\* every answer there is repeats what the claim says.
KeysHold == \A k \in Keys : acts[k] <= 1 /\ (claim[k] = Free => acts[k] = 0)
CallsHold ==
  \A c \in Callers : Engaged(c) =>
    /\ claim[Key(c)].body = call[c].post.body /\ claim[Key(c)].answer = "none"
    /\ call[c].step = "act" => acts[Key(c)] = 0
OneEach == \A c, d \in Callers : Engaged(c) /\ Engaged(d) /\ Key(c) = Key(d) => c = d
AnswersAgree ==
  \A a \in answers : \E k \in Keys :
    a = <<k, claim[k].body, claim[k].answer>> /\ claim[k].answer # "none"
ClaimsHold == KeysHold /\ CallsHold /\ OneEach /\ AnswersAgree

ApiInv == ApiTypes /\ (wiped \/ ClaimsHold)

(* The push *)

Push == [step : {"none", "case", "board", "sent", "lost"}, page : SUBSET Consoles,
         heard : SUBSET Consoles, tries : Nat, due : SUBSET Consoles]

LiveTypes ==
  /\ row \in [Consoles -> {"none", "idle", "board", "case"}]
  /\ indexed \in [Consoles -> {"none", "idle", "board", "case"}]
  /\ socket \in [Consoles -> {"new", "open", "gone"}]
  /\ push \in Push

\* An event still has before it the page of each console that is to hear it, whose item the index has.
StillToHear(s) ==
  /\ row[s] \in {"case", "board"} /\ indexed[s] = row[s]
  /\ row[s] = "case" => push.step = "case" /\ (push.page = {} \/ s \in push.page)
  /\ row[s] = "board" => push.step = "case" \/ push.page = {} \/ s \in push.page
DueIsAhead ==
  \A s \in push.due \ push.heard :
    socket[s] = "gone" \/ (socket[s] = "open" /\
      (push.step \in {"case", "board", "sent"} => push.step # "sent" /\ StillToHear(s)))

LiveInv == LiveTypes /\ DueIsAhead

ConsoleInv == ApiInv /\ LiveInv

LEMMA ServingIsServed == Serving \in Served /\ Serving.step = "idle"
BY DEF Serving, Served

LEMMA FreeIsClaimed == Free \in Claimed /\ Free.body = "none" /\ Free.answer = "none"
BY DEF Free, Claimed, Bodies

LEMMA ConsoleInitHolds == ASSUME ConsoleInit PROVE ConsoleInv
<1>1. ApiTypes
  <2>1. claim \in [Keys -> Claimed]
    BY FreeIsClaimed DEF ConsoleInit
  <2>2. call \in [Callers -> Served] /\ \A c \in Callers : call[c].step = "idle"
    BY ServingIsServed DEF ConsoleInit
  <2> QED
    BY <2>1, <2>2 DEF ConsoleInit, ApiTypes, Engaged
<1>2. ClaimsHold
  BY ServingIsServed DEF ConsoleInit, ClaimsHold, KeysHold, CallsHold, OneEach, AnswersAgree, Engaged
<1>3. LiveInv
  BY DEF ConsoleInit, LiveInv, LiveTypes, Push, DueIsAhead, Quiet
<1> QED BY <1>1, <1>2, <1>3 DEF ConsoleInv, ApiInv

LEMMA BusyOnKey ==
  ASSUME ApiTypes, NEW c \in Callers, Engaged(c)
  PROVE  call[c].post \in Posts /\ Key(c) \in Keys /\ call[c].post.body # "none"
BY PostsAreRequests DEF ApiTypes, Key, Keys

LEMMA PostStep ==
  ASSUME ApiInv, NEW c \in Callers, NEW p \in Posts, Post(c, p)
  PROVE  ApiInv'
  <2>0. p.key \in Keys /\ p.body \in Bodies /\ p.body # "none"
    BY PostsAreRequests DEF Keys, Bodies
  <2>1. CASE /\ claim[p.key] = Free
        /\ claim' = [claim EXCEPT ![p.key].body = p.body]
        /\ call' = [call EXCEPT ![c] = [Serving EXCEPT !.step = "act", !.post = p]]
        /\ UNCHANGED answers
    <3> DEFINE r == [Serving EXCEPT !.step = "act", !.post = p]
    <3>1. r \in Served /\ r.step = "act" /\ r.post = p
      BY <2>0 DEF Served, Serving
    <3>2. call' \in [Callers -> Served] /\ call'[c] = r
          /\ \A d \in Callers \ {c} : call'[d] = call[d]
      BY <2>1, <3>1 DEF ApiInv, ApiTypes
    <3>3. /\ claim' \in [Keys -> Claimed]
          /\ claim'[p.key].body = p.body /\ claim'[p.key].answer = "none"
          /\ \A k \in Keys \ {p.key} : claim'[k] = claim[k]
      BY <2>0, <2>1, FreeIsClaimed DEF ApiInv, ApiTypes, Claimed
    <3>4. UNCHANGED <<acts, answers, wiped>>
      BY <2>1 DEF Post
    <3> HIDE DEF r
    <3>5. ApiTypes'
      BY <3>1, <3>2, <3>3, <3>4 DEF ApiInv, ApiTypes, Engaged
    <3>6. ASSUME ClaimsHold PROVE ClaimsHold'
      <4>1. \A d \in Callers : Engaged(d) => Key(d) # p.key /\ Key(d) \in Keys
        BY <2>1, <3>6, BusyOnKey, FreeIsClaimed DEF ClaimsHold, CallsHold, ApiInv
      <4>2. AnswersAgree'
        BY <2>0, <2>1, <3>3, <3>6, <3>4, FreeIsClaimed DEF ClaimsHold, AnswersAgree
      <4>3. KeysHold'
        BY <2>0, <2>1, <3>3, <3>6, <3>4, FreeIsClaimed DEF ClaimsHold, KeysHold
      <4>4. CallsHold'
        BY <2>0, <2>1, <3>1, <3>2, <3>3, <3>4, <3>6, <4>1 DEF ClaimsHold, CallsHold, KeysHold, Engaged, Key
      <4>5. OneEach'
        BY <3>1, <3>2, <3>6, <4>1 DEF ClaimsHold, OneEach, Engaged, Key
      <4> QED
        BY <4>2, <4>3, <4>4, <4>5 DEF ClaimsHold
    <3> QED
      BY <3>4, <3>5, <3>6 DEF ApiInv
  <2>2. CASE /\ claim[p.key].body = p.body /\ claim[p.key].answer # "none"
        /\ Tell(p, claim[p.key].answer)
        /\ UNCHANGED <<claim, call>>
    BY <2>0, <2>2 DEF Post, Tell, ApiInv, ApiTypes, ClaimsHold, KeysHold, CallsHold, OneEach, AnswersAgree, Engaged, Key
  <2> QED
    BY <2>1, <2>2 DEF Post

\* A call goes on to its answer, or is over.
LEMMA CallGoesOn ==
  ASSUME ApiTypes, NEW c \in Callers, Engaged(c),
         NEW r \in Served, r.step # "act", r.post = call[c].post \/ r.step = "idle",
         r.step = "answer" => r.note # "none",
         call' = [call EXCEPT ![c] = r],
         claim' \in [Keys -> Claimed],
         acts' \in [Keys -> Nat]
  PROVE  /\ ApiTypes'
         /\ ClaimsHold /\ UNCHANGED <<claim, answers>>
            /\ (\A k \in Keys \ {Key(c)} : acts'[k] = acts[k]) /\ acts'[Key(c)] <= 1
              => ClaimsHold'
<1>1. call' \in [Callers -> Served] /\ call'[c] = r
      /\ \A d \in Callers \ {c} : call'[d] = call[d]
  BY DEF ApiTypes
<1>2. ApiTypes'
  BY <1>1, BusyOnKey DEF ApiTypes, Engaged
<1>3. ASSUME ClaimsHold, UNCHANGED <<claim, answers>>, acts'[Key(c)] <= 1,
             \A k \in Keys \ {Key(c)} : acts'[k] = acts[k]
      PROVE  ClaimsHold'
  <2>1. Key(c) \in Keys /\ claim[Key(c)] # Free
    BY <1>3, BusyOnKey, FreeIsClaimed DEF ClaimsHold, CallsHold
  <2>2. \A d \in Callers : Engaged(d)' => Engaged(d) /\ Key(d)' = Key(d) /\ call'[d].post = call[d].post
          /\ (d # c => call'[d] = call[d] /\ Key(d) # Key(c)) /\ Key(d) \in Keys
    BY <1>1, <1>3, BusyOnKey DEF Engaged, Key, ClaimsHold, OneEach
  <2>3. KeysHold'
    BY <1>3, <2>1 DEF ClaimsHold, KeysHold
  <2>4. CallsHold'
    BY <1>1, <1>3, <2>2 DEF ClaimsHold, CallsHold
  <2>5. OneEach'
    BY <1>3, <2>2 DEF ClaimsHold, OneEach
  <2>6. AnswersAgree'
    BY <1>3 DEF ClaimsHold, AnswersAgree
  <2> QED
    BY <2>3, <2>4, <2>5, <2>6 DEF ClaimsHold
<1> QED
  BY <1>2, <1>3

LEMMA ServeStep ==
  ASSUME ApiInv, NEW c \in Callers, Act(c) \/ Fails(c) \/ Answer(c) \/ StopCall(c) \/ Reset(c)
  PROVE  ApiInv'
  <2>1. /\ Engaged(c) /\ call[c] \in Served /\ ApiTypes
    BY DEF Act, Fails, Answer, StopCall, Reset, Command, ApiInv, ApiTypes, Engaged
  <2>2. Key(c) \in Keys /\ call[c].post.body # "none"
    BY <2>1, BusyOnKey
  <2> DEFINE r(note) == [call[c] EXCEPT !.step = "answer", !.note = note]
  <2>3. ASSUME NEW note \in {"done", "refused"}
        PROVE  /\ r(note) \in Served /\ r(note).step = "answer" /\ r(note).post = call[c].post
               /\ r(note).note # "none"
               /\ GoOn(c, "answer", note) => call' = [call EXCEPT ![c] = r(note)]
    BY <2>1 DEF Served, ApiTypes, GoOn
  <2> HIDE DEF r
  <2>4. CASE Act(c)
    <3>1. /\ call[c].step = "act" /\ UNCHANGED <<claim, wiped, answers>>
          /\ \E note \in {"done", "refused"} : GoOn(c, "answer", note)
          /\ acts' \in [Keys -> Nat] /\ \A k \in Keys \ {Key(c)} : acts'[k] = acts[k]
          /\ acts'[Key(c)] \in {acts[Key(c)], acts[Key(c)] + 1}
      BY <2>1, <2>2, <2>4 DEF Act, Command, TakesEffect, ApiTypes
    <3>2. ClaimsHold => acts'[Key(c)] <= 1
      BY <2>1, <3>1 DEF ClaimsHold, CallsHold
    <3> QED
      BY <2>1, <2>3, <3>1, <3>2, CallGoesOn DEF ApiInv, ApiTypes
  <2>5. CASE Fails(c) \/ StopCall(c)
    <3>1. /\ acts' \in [Keys -> Nat] /\ \A k \in Keys \ {Key(c)} : acts'[k] = acts[k]
          /\ acts'[Key(c)] \in {acts[Key(c)], acts[Key(c)] + 1}
          /\ call[c].step # "act" => acts' = acts
          /\ UNCHANGED <<claim, wiped, answers>> /\ Done(c)
      BY <2>1, <2>2, <2>5 DEF Fails, StopCall, Command, Left, TakesEffect, ApiTypes
    <3>2. ClaimsHold => acts'[Key(c)] <= 1
      BY <2>1, <2>2, <3>1 DEF ClaimsHold, CallsHold, KeysHold
    <3>3. Serving.step # "act" /\ Serving.step # "answer"
      BY ServingIsServed
    <3> QED
      BY <2>1, <3>1, <3>2, <3>3, CallGoesOn, ServingIsServed DEF ApiInv, ApiTypes, Done
  <2>6. CASE Answer(c)
    <3>1. /\ claim' \in [Keys -> Claimed]
          /\ claim'[Key(c)].answer = call[c].note /\ claim'[Key(c)].body = claim[Key(c)].body
          /\ \A k \in Keys \ {Key(c)} : claim'[k] = claim[k]
      BY <2>1, <2>2, <2>6 DEF Answer, ApiTypes, Served, Claimed
    <3>2. /\ call' = [call EXCEPT ![c] = Serving]
          /\ answers' = answers \cup {<<Key(c), call[c].post.body, call[c].note>>}
          /\ UNCHANGED <<wiped, acts>> /\ call[c].note # "none"
      BY <2>1, <2>6 DEF Answer, Tell, Done, Key, ApiTypes
    <3>3. Serving.step # "act" /\ Serving.step # "answer"
      BY ServingIsServed
    <3>4. ApiTypes'
      BY <2>1, <3>1, <3>2, <3>3, CallGoesOn, ServingIsServed DEF ApiTypes
    <3>5. call'[c] = Serving /\ \A d \in Callers \ {c} : call'[d] = call[d]
      BY <2>1, <3>2 DEF ApiTypes
    <3>6. ASSUME ClaimsHold PROVE ClaimsHold'
      <4>1. \A d \in Callers : Engaged(d)' => Engaged(d) /\ Key(d)' = Key(d) /\ Key(d) # Key(c)
               /\ call'[d] = call[d] /\ Key(d) \in Keys
        BY <2>1, <3>5, <3>6, BusyOnKey, ServingIsServed DEF Engaged, Key, ClaimsHold, OneEach
      <4>2. /\ claim[Key(c)].body = call[c].post.body /\ claim[Key(c)].answer = "none"
            /\ claim'[Key(c)] # Free /\ claim[Key(c)] # Free
        BY <2>1, <2>2, <3>1, <3>2, <3>6, FreeIsClaimed DEF ClaimsHold, CallsHold
      <4>3. AnswersAgree'
        <5>1. \A a \in answers : \E k \in Keys \ {Key(c)} :
                a = <<k, claim[k].body, claim[k].answer>> /\ claim[k].answer # "none"
          BY <3>6, <4>2 DEF ClaimsHold, AnswersAgree
        <5>2. \A a \in answers : \E k \in Keys :
                a = <<k, claim'[k].body, claim'[k].answer>> /\ claim'[k].answer # "none"
          BY <3>1, <5>1
        <5>3. <<Key(c), call[c].post.body, call[c].note>>
                = <<Key(c), claim'[Key(c)].body, claim'[Key(c)].answer>>
              /\ claim'[Key(c)].answer # "none"
          BY <3>1, <3>2, <4>2
        <5> QED
          BY <2>2, <3>2, <5>2, <5>3 DEF AnswersAgree
      <4>4. KeysHold'
        BY <2>2, <3>1, <3>2, <3>6, <4>2 DEF ClaimsHold, KeysHold
      <4>5. CallsHold'
        BY <3>1, <3>2, <3>6, <4>1 DEF ClaimsHold, CallsHold
      <4>6. OneEach'
        BY <3>6, <4>1 DEF ClaimsHold, OneEach
      <4> QED
        BY <4>3, <4>4, <4>5, <4>6 DEF ClaimsHold
    <3> QED
      BY <3>2, <3>4, <3>6 DEF ApiInv
  <2>7. CASE Reset(c)
    <3>1. wiped' /\ acts' = acts /\ claim' = [k \in Keys |-> Free] /\ GoOn(c, "answer", "done")
      BY <2>7 DEF Reset
    <3>2. claim' \in [Keys -> Claimed]
      BY <3>1, FreeIsClaimed
    <3> QED
      BY <2>1, <2>3, <3>1, <3>2, CallGoesOn DEF ApiInv, ApiTypes
  <2> QED
    BY <2>4, <2>5, <2>6, <2>7

LEMMA ApiStep ==
  ASSUME ApiInv, [ApiNext \/ LiveNext]_consoleVars
  PROVE  ApiInv'
<1>1. CASE UNCHANGED apiVars
  BY <1>1 DEF apiVars, ApiInv, ApiTypes, ClaimsHold, KeysHold, CallsHold, OneEach, AnswersAgree, Engaged, Key
<1>2. LiveNext \/ UNCHANGED consoleVars => UNCHANGED apiVars
  BY DEF consoleVars, LiveNext, Connect, Subscribe, Disconnect, Index, PostOne, Issue, Happens, QueryTarget,
    PushFails
<1> QED
  BY <1>1, <1>2, PostStep, ServeStep DEF ApiNext

LEMMA LiveStep ==
  ASSUME LiveInv, [ApiNext \/ LiveNext]_consoleVars
  PROVE  LiveInv'
<1> USE DEF LiveInv, LiveTypes, Push, DueIsAhead, StillToHear
<1>1. CASE UNCHANGED liveVars
  BY <1>1 DEF liveVars
<1>2. CASE UNCHANGED consoleVars \/ \E c \in Callers : (\E p \in Posts : Post(c, p)) \/ Act(c) \/ Fails(c)
             \/ Answer(c) \/ StopCall(c)
  <2>1. UNCHANGED liveVars
    BY <1>2 DEF consoleVars, Post, Act, Fails, Answer, StopCall
  <2> QED
    BY <1>1, <2>1
<1>3. ASSUME NEW c \in Callers, Reset(c) PROVE LiveInv'
  <2>1. socket' = socket /\ indexed' = indexed /\ row' = [t \in Consoles |-> "none"] /\ push' = [push EXCEPT !.due = {}]
    BY <1>3 DEF Reset
  <2>2. push'.due = {}
    BY <2>1
  <2>3. LiveTypes'
    BY <2>1
  <2> QED
    BY <2>2, <2>3
<1>4. ASSUME NEW s \in Consoles, Connect(s) \/ Subscribe(s) \/ Disconnect(s) \/ Index(s) PROVE LiveInv'
  BY <1>4 DEF Connect, Subscribe, Disconnect, Index
<1>5. ASSUME NEW s \in Consoles, PostOne(s) PROVE LiveInv'
  <2>1. CASE socket[s] = "open" /\ push' = [PageWithout(s) EXCEPT !.heard = @ \cup {s}] /\ UNCHANGED row
    <3>1. /\ push'.page = push.page \ {s} /\ push'.heard = push.heard \cup {s}
          /\ push'.due = push.due /\ push'.tries = push.tries
          /\ push'.step = IF push.page \ {s} # {} THEN push.step
                          ELSE IF push.step = "case" THEN "board" ELSE "sent"
          /\ push' \in Push
      BY <2>1 DEF PageWithout
    <3> QED
      BY <1>5, <2>1, <3>1 DEF PostOne
  <2>2. CASE socket[s] = "gone" /\ push' = GoneOne(s) /\ row' = [row EXCEPT ![s] = "none"]
    <3>1. /\ push'.page = push.page \ {s} /\ push'.heard = push.heard
          /\ push'.due = push.due /\ push'.tries = push.tries
          /\ push'.step = IF push.page \ {s} # {} THEN push.step
                          ELSE IF push.step = "case" THEN "board" ELSE "sent"
          /\ push' \in Push
      BY <2>2 DEF GoneOne, PageWithout
    <3>2. /\ row' \in [Consoles -> {"none", "idle", "board", "case"}]
          /\ \A t \in Consoles \ {s} : row'[t] = row[t]
      BY <2>2
    <3> QED
      BY <1>5, <2>2, <3>1, <3>2 DEF PostOne
  <2> QED
    BY <1>5, <2>1, <2>2 DEF PostOne
<1>6. CASE Issue
  BY <1>6 DEF Issue
<1>7. CASE Happens
  <2>1. /\ push'.step = "case" /\ push'.page = {} /\ push'.heard = {} /\ push'.due = Subscribed
        /\ push' \in Push
        /\ UNCHANGED <<row, indexed, socket>>
    BY <1>7 DEF Happens, Quiet, Subscribed
  <2> QED
    BY <2>1 DEF Subscribed
<1>8. CASE QueryTarget
  <2>1. PICK page \in SUBSET Consoles :
          /\ page = {s \in Consoles : indexed[s] = push.step}
          /\ push' = [push EXCEPT !.page = page, !.step = IF page # {} THEN @
                                                  ELSE IF @ = "case" THEN "board" ELSE "sent"]
    BY <1>8 DEF QueryTarget
  <2>2. /\ push'.page = page /\ push'.heard = push.heard
        /\ push'.due = push.due /\ push'.tries = push.tries
        /\ push'.step = IF page # {} THEN push.step
                        ELSE IF push.step = "case" THEN "board" ELSE "sent"
        /\ push' \in Push
    BY <1>8, <2>1 DEF QueryTarget
  <2>3. push.step \in {"case", "board"} /\ push.page = {} /\ UNCHANGED <<row, indexed, socket>>
    BY <1>8 DEF QueryTarget
  <2>4. ASSUME NEW s \in push'.due \ push'.heard, socket[s] # "gone"
        PROVE  push'.step \in {"case", "board"} /\ StillToHear(s)' /\ socket[s] = "open"
    <3>1. s \in push.due \ push.heard /\ s \in Consoles /\ socket[s] = "open"
          /\ row[s] \in {"case", "board"} /\ indexed[s] = row[s]
          /\ (row[s] = "case" => push.step = "case")
      BY <2>2, <2>3, <2>4
    <3>2. row[s] = push.step => s \in page
      BY <2>1, <3>1
    <3> QED
      BY <2>2, <2>3, <3>1, <3>2
  <2> QED
    BY <2>2, <2>3, <2>4
<1>9. CASE PushFails
  <2>1. /\ push'.page = {} /\ push'.heard = push.heard /\ push'.due = push.due
        /\ push'.step \in {"case", "lost"} /\ push' \in Push
        /\ UNCHANGED <<row, indexed, socket>>
    <3>1. CASE push' = [push EXCEPT !.step = "case", !.page = {}, !.tries = @ + 1]
      <4> DEFINE q == [push EXCEPT !.step = "case", !.page = {}]
      <4>1. /\ q \in Push /\ q.page = {} /\ q.heard = push.heard /\ q.due = push.due
            /\ q.step = "case"
        OBVIOUS
      <4>2. push' = [q EXCEPT !.tries = @ + 1]
        BY <3>1
      <4> HIDE DEF q
      <4> QED
        BY <1>9, <4>1, <4>2 DEF PushFails
    <3>2. CASE push' = [push EXCEPT !.step = "lost", !.page = {}]
      BY <1>9, <3>2 DEF PushFails
    <3> QED
      BY <1>9, <3>1, <3>2 DEF PushFails
  <2>2. push.step \in {"case", "board"}
    BY <1>9 DEF PushFails
  <2>3. ASSUME NEW s \in push'.due \ push'.heard, socket[s] # "gone"
        PROVE  StillToHear(s)' \/ push'.step = "lost"
    BY <2>1, <2>2, <2>3
  <2>4. \A s \in push'.due \ push'.heard : socket[s] \in {"gone", "open"}
    BY <2>1, <2>2
  <2> QED
    BY <2>1, <2>3, <2>4
<1> QED
  BY <1>2, <1>3, <1>4, <1>5, <1>6, <1>7, <1>8, <1>9 DEF LiveNext, ApiNext

\* For any callers, posts and consoles: however requests are repeated, overlap or stop, the command
\* of an idempotency key acts at most once and its answers agree, until a reset (Api._idempotent);
\* and an audit event whose push ended well was heard by every console that watched and whose
\* subscription the index knew (realtime).
THEOREM ConsoleServes == ConsoleSpec => []ConsoleIsServed
<1>1. ConsoleInit => ConsoleInv
  BY ConsoleInitHolds
<1>2. ConsoleInv /\ [ApiNext \/ LiveNext]_consoleVars => ConsoleInv'
  BY ApiStep, LiveStep DEF ConsoleInv
<1>3. ConsoleInv => ConsoleIsServed
  BY DEF ConsoleInv, ApiInv, ClaimsHold, KeysHold, AnswersAgree, ConsoleIsServed, ActedOnce, LiveInv, LiveTypes, DueIsAhead, EveryoneHears
<1> QED
  BY <1>1, <1>2, <1>3, PTL DEF ConsoleSpec

-----------------------------------------------------------------------------
(* Deliveries *)

Working(h) == hand[h].step \in {"look", "store", "emit"}
Exists(i) == signal[i].status # "none"

HandStep == [step : {"idle", "fetch", "claim", "look", "store", "emit"}, at : Nat, id : 0..MaxSignals]

IntakeTypes ==
  /\ batch \in Batches /\ drawn \in 0..MaxSignals
  /\ claimed \in [Messages -> 0..drawn]
  /\ signal \in [Ids -> [of : Messages \cup {"none"},
                         status : {"none", "RECEIVED", "ACCEPTED", "QUARANTINED"}]]
  /\ emitted \subseteq Ids /\ acked \in BOOLEAN
  /\ hand \in [Hands -> HandStep]
  /\ \A h \in Hands : hand[h].at \in DOMAIN batch /\ (Working(h) => hand[h].id \in 1..drawn)

\* An id belongs to one message: to the one that claimed it, or to the delivery that drew it
\* for a message without an id of its own.
ClaimsDiffer ==
  \A m \in Messages : claimed[m] # 0 =>
    /\ m \in Keyed
    /\ \A n \in Messages : claimed[n] = claimed[m] => n = m
    /\ Exists(claimed[m]) => signal[claimed[m]].of = m
Holds(h) ==
  /\ Message(h) \in Keyed => claimed[Message(h)] = hand[h].id
  /\ Message(h) \notin Keyed =>
       /\ \A m \in Messages : claimed[m] # hand[h].id
       /\ \A g \in Hands : Working(g) /\ hand[g].id = hand[h].id => g = h
  /\ Exists(hand[h].id) => signal[hand[h].id].of = Message(h)
  /\ hand[h].step = "emit" => Exists(hand[h].id)
HandsHold == \A h \in Hands : Working(h) => Holds(h)

SignalsAreOwned ==
  \A i \in Ids :
    /\ Exists(i) => i <= drawn /\ (signal[i].of \in Keyed => claimed[signal[i].of] = i)
    /\ ~Exists(i) => signal[i].of = "none" /\ i \notin emitted
    /\ Finished(i) => i \in emitted

\* What lies behind a delivery is announced.
Announced(m) == \E i \in emitted : signal[i].of = m
Through ==
  /\ \A h \in Hands : \A k \in 1..(hand[h].at - 1) : Announced(batch[k])
  /\ acked => \A k \in DOMAIN batch : Announced(batch[k])

IntakeInv == IntakeTypes /\ ClaimsDiffer /\ HandsHold /\ SignalsAreOwned /\ Through

LEMMA BatchHas ==
  ASSUME IntakeTypes
  PROVE  /\ Len(batch) \in Nat \ {0} /\ DOMAIN batch = 1..Len(batch)
         /\ \A k \in DOMAIN batch : batch[k] \in Messages
         /\ \A h \in Hands : Message(h) \in Messages /\ Message(h) # "none"
<1>1. batch \in Batches /\ batch \in Seq(STRING) /\ batch # <<>>
  BY BatchesAreSequences DEF IntakeTypes
<1>2. Len(batch) \in Nat \ {0} /\ DOMAIN batch = 1..Len(batch)
  BY <1>1
<1>3. \A k \in DOMAIN batch : batch[k] \in Messages
  BY <1>1 DEF Messages
<1> QED
  BY <1>2, <1>3, NoneIsNoMessage DEF Message, IntakeTypes

LEMMA WorksOn ==
  ASSUME IntakeInv, NEW h \in Hands, Working(h)
  PROVE  hand[h].id \in Ids /\ hand[h].id \in 1..drawn /\ Holds(h)
<1>1. hand[h].id \in 1..drawn /\ drawn \in 0..MaxSignals /\ MaxSignals \in Nat
  BY SignalsAreNumbered DEF IntakeInv, IntakeTypes
<1> QED
  BY <1>1 DEF Ids, IntakeInv, HandsHold

\* A hand goes on with what it holds or lets go of it; what it leaves behind is announced.
LEMMA HandMoves ==
  ASSUME IntakeInv, NEW h \in Hands, NEW r \in HandStep,
         hand' = [hand EXCEPT ![h] = r], UNCHANGED <<batch, drawn, claimed, signal>>,
         r.at \in DOMAIN batch,
         r.step \in {"look", "store", "emit"} =>
           Working(h) /\ r.id = hand[h].id /\ r.at = hand[h].at,
         r.step = "emit" => Exists(r.id),
         emitted \subseteq emitted', \A i \in emitted' \ emitted : i \in Ids /\ Exists(i),
         \A k \in 1..(r.at - 1) : Announced(batch[k])',
         acked' \in BOOLEAN, acked' => acked \/ \A k \in DOMAIN batch : Announced(batch[k])'
  PROVE  IntakeInv'
<1>1. /\ hand' \in [Hands -> HandStep] /\ hand'[h] = r
      /\ \A g \in Hands \ {h} : hand'[g] = hand[g]
  BY DEF IntakeInv, IntakeTypes
<1>2. \A g \in Hands : Working(g)' =>
        Working(g) /\ hand'[g].id = hand[g].id /\ hand'[g].at = hand[g].at
  BY <1>1 DEF Working
<1>3. IntakeTypes'
  BY <1>1, <1>2 DEF IntakeInv, IntakeTypes
<1>4. ClaimsDiffer'
  BY DEF IntakeInv, ClaimsDiffer, Exists
<1>5. ASSUME NEW g \in Hands, Working(g)' PROVE Holds(g)'
  <2>1. Holds(g) /\ Message(g)' = Message(g) /\ hand'[g].id = hand[g].id
    BY <1>2, <1>5 DEF IntakeInv, HandsHold, Message
  <2>2. hand'[g].step = "emit" => Exists(hand[g].id)
    BY <1>1, <1>2, <1>5, <2>1 DEF Holds
  <2> QED
    BY <1>2, <2>1, <2>2 DEF Holds, Exists
<1>6. SignalsAreOwned'
  BY DEF IntakeInv, SignalsAreOwned, Exists, Finished
<1>7. \A m : Announced(m) => Announced(m)'
  BY DEF Announced
<1>8. Through'
  BY <1>1, <1>7 DEF IntakeInv, Through
<1> QED
  BY <1>3, <1>4, <1>5, <1>6, <1>8 DEF IntakeInv, HandsHold

LEMMA RestIsStep == Rest \in HandStep /\ Rest.step = "idle" /\ Rest.at = 1
BY SignalsAreNumbered DEF Rest, HandStep

\* A message is behind its delivery, and perhaps the delivery is through.
LEMMA NextMessageStep ==
  ASSUME IntakeInv, NEW h \in Hands, NextMessage(h), UNCHANGED <<batch, drawn, claimed, signal>>,
         emitted \subseteq emitted', \A i \in emitted' \ emitted : i \in Ids /\ Exists(i),
         NEW m, m = Message(h), Announced(m)'
  PROVE  IntakeInv'
<1>1. /\ Len(batch) \in Nat \ {0} /\ DOMAIN batch = 1..Len(batch) /\ hand[h].at \in DOMAIN batch
      /\ acked \in BOOLEAN
  BY BatchHas DEF IntakeInv, IntakeTypes
<1>2. \A n : Announced(n) => Announced(n)'
  BY DEF Announced
<1>3. \A k \in 1..hand[h].at : Announced(batch[k])'
  <2> SUFFICES ASSUME NEW k \in 1..hand[h].at PROVE Announced(batch[k])'
    OBVIOUS
  <2>1. CASE k = hand[h].at
    BY <2>1 DEF Message
  <2>2. CASE k # hand[h].at
    <3>1. k \in 1..(hand[h].at - 1)
      BY <1>1, <2>2
    <3> QED
      BY <1>2, <3>1 DEF IntakeInv, Through
  <2> QED
    BY <2>1, <2>2
<1>4. CASE hand[h].at < Len(batch)
  <2> DEFINE r == [Rest EXCEPT !.step = "fetch", !.at = hand[h].at + 1]
  <2>1. r \in HandStep /\ r.step = "fetch" /\ r.at = hand[h].at + 1
    <3>1. hand[h].at + 1 \in Nat /\ 0 \in 0..MaxSignals
      BY <1>1, SignalsAreNumbered
    <3> QED
      BY <3>1 DEF Rest, HandStep
  <2>2. hand' = [hand EXCEPT ![h] = r] /\ acked' = acked
    BY <1>4 DEF NextMessage
  <2> HIDE DEF r
  <2>3. r.at \in DOMAIN batch /\ \A k \in 1..(r.at - 1) : Announced(batch[k])'
    BY <1>1, <1>3, <1>4, <2>1
  <2> QED
    BY <1>1, <2>1, <2>2, <2>3, HandMoves
<1>5. CASE ~(hand[h].at < Len(batch))
  <2>1. hand' = [hand EXCEPT ![h] = Rest] /\ acked' = TRUE
    BY <1>5 DEF NextMessage
  <2>2. \A k \in DOMAIN batch : Announced(batch[k])'
    BY <1>1, <1>3, <1>5
  <2>3. 1 \in DOMAIN batch /\ 1..(Rest.at - 1) = {}
    BY <1>1, RestIsStep
  <2> QED
    BY <1>1, <2>1, <2>2, <2>3, HandMoves, RestIsStep
<1> QED
  BY <1>4, <1>5

LEMMA ClaimMessageStep ==
  ASSUME IntakeInv, NEW h \in Hands, Claim(h)
  PROVE  IntakeInv'
<1> DEFINE m == Message(h)
<1>1. /\ m \in Messages /\ drawn \in 0..MaxSignals /\ hand[h] \in HandStep /\ ~Working(h)
      /\ hand[h].at \in DOMAIN batch /\ claimed \in [Messages -> 0..drawn] /\ MaxSignals \in Nat
      /\ UNCHANGED <<batch, signal, emitted, acked>>
  BY BatchHas, SignalsAreNumbered DEF IntakeInv, IntakeTypes, Claim, Working
<1>2. PICK i \in 0..MaxSignals : hand' = [hand EXCEPT ![h].step = "look", ![h].id = i] /\
        \/ /\ m \notin Keyed \/ claimed[m] = 0
           /\ i = drawn + 1 /\ drawn' = drawn + 1
           /\ claimed' = IF m \in Keyed THEN [claimed EXCEPT ![m] = i] ELSE claimed
        \/ m \in Keyed /\ claimed[m] # 0 /\ i = claimed[m] /\ UNCHANGED <<drawn, claimed>>
  BY <1>1 DEF Claim, Taken
<1>3. /\ hand' \in [Hands -> HandStep] /\ hand'[h].step = "look" /\ hand'[h].id = i
      /\ hand'[h].at = hand[h].at /\ \A g \in Hands \ {h} : hand'[g] = hand[g]
  BY <1>1, <1>2 DEF IntakeInv, IntakeTypes, HandStep
<1>4. /\ i \in 1..drawn' /\ drawn' \in 0..MaxSignals /\ drawn <= drawn'
      /\ claimed' \in [Messages -> 0..drawn']
      /\ \A n \in Messages : claimed'[n] = claimed[n] \/ (n = m /\ claimed'[n] = i /\ claimed[n] = 0)
  BY <1>1, <1>2
<1>5. IntakeTypes'
  BY <1>1, <1>3, <1>4 DEF IntakeInv, IntakeTypes, Working
<1>6. \/ /\ i = drawn + 1 /\ (m \in Keyed => claimed'[m] = i)
         /\ \A n \in Messages \ {m} : claimed'[n] = claimed[n]
         /\ (m \notin Keyed => claimed' = claimed)
      \/ m \in Keyed /\ i = claimed[m] /\ claimed[m] # 0 /\ claimed' = claimed
  BY <1>1, <1>2
<1>7. i = drawn + 1 =>
        /\ ~Exists(i)
        /\ \A n \in Messages : claimed[n] # i
        /\ \A g \in Hands : Working(g) => hand[g].id # i
  BY <1>1, <1>4 DEF IntakeInv, IntakeTypes, SignalsAreOwned, Ids
<1> HIDE DEF m
<1>8. ClaimsDiffer'
  <2> SUFFICES ASSUME NEW n \in Messages, claimed'[n] # 0
               PROVE  /\ n \in Keyed /\ (\A o \in Messages : claimed'[o] = claimed'[n] => o = n)
                      /\ (Exists(claimed'[n]) => signal[claimed'[n]].of = n)
    BY <1>1 DEF ClaimsDiffer, Exists
  <2>1. CASE claimed' = claimed
    BY <2>1 DEF IntakeInv, ClaimsDiffer
  <2>2. CASE claimed' # claimed
    <3>1. m \in Keyed /\ i = drawn + 1 /\ claimed'[m] = i
          /\ \A o \in Messages \ {m} : claimed'[o] = claimed[o] /\ claimed[o] # i
      BY <1>6, <1>7, <2>2
    <3> QED
      BY <1>7, <3>1 DEF IntakeInv, ClaimsDiffer
  <2> QED
    BY <2>1, <2>2
<1>9. ASSUME NEW g \in Hands, Working(g)' PROVE Holds(g)'
  <2>1. CASE g = h
    <3>1. Message(g)' = m /\ hand'[g].id = i
      BY <1>1, <1>3, <2>1 DEF m, Message
    <3>2. m \in Keyed => claimed'[m] = i
      BY <1>6
    <3>3. m \notin Keyed =>
            /\ \A n \in Messages : claimed'[n] # i
            /\ \A f \in Hands : Working(f)' /\ hand'[f].id = i => f = g
      <4> SUFFICES ASSUME m \notin Keyed
                   PROVE  /\ \A n \in Messages : claimed'[n] # i
                          /\ \A f \in Hands \ {h} : Working(f)' => hand'[f].id # i
        BY <2>1
      <4>1. i = drawn + 1 /\ claimed' = claimed
        BY <1>6
      <4>2. \A f \in Hands \ {h} : Working(f)' => Working(f) /\ hand'[f].id = hand[f].id
        BY <1>3 DEF Working
      <4> QED
        BY <1>7, <4>1, <4>2
    <3>4. Exists(i) => signal[i].of = m
      BY <1>1, <1>6, <1>7 DEF IntakeInv, ClaimsDiffer
    <3> QED
      BY <1>1, <1>3, <2>1, <3>1, <3>2, <3>3, <3>4 DEF Holds, Exists
  <2>2. CASE g # h
    <3>1. Working(g) /\ Holds(g) /\ Message(g)' = Message(g) /\ hand'[g] = hand[g]
          /\ Message(g) \in Messages
      BY <1>1, <1>3, <1>9, <2>2, BatchHas DEF IntakeInv, HandsHold, Working, Message
    <3>2. Message(g) \in Keyed => claimed'[Message(g)] = claimed[Message(g)]
      BY <1>1, <1>4, <1>6, <1>7, <3>1 DEF Holds, IntakeInv, IntakeTypes
    <3>3. Message(g) \notin Keyed =>
            /\ \A n \in Messages : claimed'[n] # hand[g].id
            /\ i # hand[g].id
      BY <1>1, <1>4, <1>6, <1>7, <3>1 DEF Holds
    <3> QED
      BY <1>1, <1>3, <3>1, <3>2, <3>3 DEF Holds, Exists, Working
  <2> QED
    BY <2>1, <2>2
<1>10. SignalsAreOwned'
  <2>1. \A j \in Ids : Exists(j) => (j <= drawn /\ j # i) \/ claimed' = claimed
    BY <1>6, <1>7 DEF IntakeInv, SignalsAreOwned
  <2>2. \A j \in Ids : j <= drawn => j <= drawn'
    BY <1>1, <1>4 DEF Ids
  <2>3. ASSUME NEW j \in Ids, Exists(j), signal[j].of \in Keyed PROVE claimed'[signal[j].of] = j
    <3>1. claimed[signal[j].of] = j /\ signal[j].of \in Messages /\ j # 0
      BY <2>3, NoneIsNoMessage DEF IntakeInv, IntakeTypes, SignalsAreOwned, Ids
    <3> QED
      BY <1>4, <3>1
  <2> QED
    BY <1>1, <2>1, <2>2, <2>3 DEF IntakeInv, SignalsAreOwned, Exists, Finished
<1>11. Through'
  BY <1>1, <1>3 DEF IntakeInv, Through, Announced
<1> QED
  BY <1>5, <1>8, <1>9, <1>10, <1>11 DEF IntakeInv, HandsHold

LEMMA StoreSignalStep ==
  ASSUME IntakeInv, NEW h \in Hands, hand[h].step = "store", ~Exists(hand[h].id),
         signal' = [signal EXCEPT ![hand[h].id] = [of |-> Message(h), status |-> "RECEIVED"]],
         Advance(h, "emit"), UNCHANGED <<batch, drawn, claimed, emitted, acked>>
  PROVE  IntakeInv'
<1> DEFINE i == hand[h].id
           m == Message(h)
<1>1. /\ m \in Messages /\ m # "none" /\ hand[h] \in HandStep /\ Working(h) /\ Holds(h) /\ i \in Ids
      /\ i \in 1..drawn
  BY BatchHas, WorksOn DEF IntakeInv, IntakeTypes, Working
<1>2. /\ hand' \in [Hands -> HandStep] /\ hand'[h].step = "emit" /\ hand'[h].id = i
      /\ hand'[h].at = hand[h].at /\ \A g \in Hands \ {h} : hand'[g] = hand[g]
  BY <1>1 DEF IntakeInv, IntakeTypes, HandStep, Advance
<1>3. /\ signal' \in [Ids -> [of : Messages \cup {"none"},
                             status : {"none", "RECEIVED", "ACCEPTED", "QUARANTINED"}]]
      /\ signal'[i].of = m /\ signal'[i].status = "RECEIVED"
      /\ \A j \in Ids \ {i} : signal'[j] = signal[j]
  BY <1>1 DEF IntakeInv, IntakeTypes
<1>4. \A n \in Messages : claimed[n] = i => n = m
  BY <1>1 DEF Holds, IntakeInv, ClaimsDiffer, IntakeTypes
<1>5. ASSUME NEW g \in Hands, Working(g), hand[g].id = i PROVE Message(g) = m
  <2>1. Holds(g) /\ Message(g) \in Messages
    BY <1>5, BatchHas DEF IntakeInv, HandsHold
  <2> QED
    BY <1>1, <1>4, <1>5, <2>1 DEF Holds
<1>6. IntakeTypes'
  BY <1>1, <1>2, <1>3 DEF IntakeInv, IntakeTypes, Working
<1>7. i \notin emitted /\ ~Exists(i)
  BY <1>1 DEF IntakeInv, SignalsAreOwned
<1>8. ASSUME NEW g \in Hands, Working(g)' PROVE Holds(g)'
  <2>1. Working(g) /\ Holds(g) /\ Message(g)' = Message(g) /\ hand'[g].id = hand[g].id
        /\ (hand'[g].step = "emit" => g = h \/ hand[g].step = "emit") /\ hand[g].id \in Ids
    BY <1>1, <1>2, <1>8, WorksOn DEF IntakeInv, Working, Message
  <2>2. \A f \in Hands : Working(f)' => Working(f) /\ hand'[f].id = hand[f].id
    BY <1>1, <1>2 DEF Working
  <2>3. Exists(hand[g].id)' => signal'[hand[g].id].of = Message(g)
    BY <1>3, <1>5, <2>1 DEF Holds, Exists
  <2>4. hand'[g].step = "emit" => Exists(hand[g].id)'
    BY <1>3, <2>1 DEF Holds, Exists
  <2> QED
    BY <2>1, <2>2, <2>3, <2>4 DEF Holds, Exists
<1> HIDE DEF i, m
<1>9. ClaimsDiffer'
  <2> SUFFICES ASSUME NEW n \in Messages, claimed[n] # 0
               PROVE  /\ n \in Keyed /\ (\A o \in Messages : claimed[o] = claimed[n] => o = n)
                      /\ (Exists(claimed[n])' => signal'[claimed[n]].of = n)
    BY DEF ClaimsDiffer, Exists
  <2>1. claimed[n] \in Ids
    BY SignalsAreNumbered DEF IntakeInv, IntakeTypes, Ids
  <2> QED
    BY <1>3, <1>4, <2>1 DEF IntakeInv, ClaimsDiffer, Exists
<1>10. SignalsAreOwned'
  <2> SUFFICES ASSUME NEW j \in Ids
               PROVE  /\ Exists(j)' => j <= drawn /\ (signal'[j].of \in Keyed => claimed[signal'[j].of] = j)
                      /\ ~Exists(j)' => signal'[j].of = "none" /\ j \notin emitted
                      /\ Finished(j)' => j \in emitted
    BY DEF SignalsAreOwned, Exists, Finished
  <2>1. CASE j = i
    <3>1. m \in Keyed => claimed[m] = i
      BY <1>1 DEF Holds, i, m
    <3> QED
      BY <1>1, <1>3, <2>1, <3>1 DEF Exists, Finished
  <2>2. CASE j # i
    BY <1>3, <2>2 DEF IntakeInv, SignalsAreOwned, Exists, Finished
  <2> QED
    BY <2>1, <2>2
<1>11. \A n : Announced(n) => Announced(n)'
  BY <1>3, <1>7 DEF Announced, IntakeInv, IntakeTypes
<1>12. Through'
  BY <1>1, <1>2, <1>11 DEF IntakeInv, Through, i
<1> QED
  BY <1>6, <1>8, <1>9, <1>10, <1>12 DEF IntakeInv, HandsHold

LEMMA DecideStep ==
  ASSUME IntakeInv, NEW i \in Ids, Decide(i)
  PROVE  IntakeInv'
<1>1. PICK status \in {"ACCEPTED", "QUARANTINED"} : signal' = [signal EXCEPT ![i].status = status]
  BY DEF Decide
<1>2. /\ signal' \in [Ids -> [of : Messages \cup {"none"},
                             status : {"none", "RECEIVED", "ACCEPTED", "QUARANTINED"}]]
      /\ \A j \in Ids : signal'[j].of = signal[j].of
      /\ signal'[i].status = status /\ \A j \in Ids \ {i} : signal'[j] = signal[j]
      /\ i \in emitted /\ Exists(i)
      /\ UNCHANGED <<batch, drawn, claimed, emitted, acked, hand>>
  BY <1>1 DEF Decide, IntakeInv, IntakeTypes, Exists
<1>3. \A j \in Ids : Exists(j)' <=> Exists(j)
  BY <1>2 DEF Exists
<1>4. IntakeTypes'
  BY <1>2 DEF IntakeInv, IntakeTypes, Working
<1>5. ClaimsDiffer'
  <2>1. \A n \in Messages : claimed[n] # 0 => claimed[n] \in Ids
    BY SignalsAreNumbered DEF IntakeInv, IntakeTypes, Ids
  <2> QED
    BY <1>2, <1>3, <2>1 DEF IntakeInv, ClaimsDiffer, Exists
<1>6. ASSUME NEW g \in Hands, Working(g)' PROVE Holds(g)'
  <2>1. Working(g) /\ Holds(g) /\ Message(g)' = Message(g) /\ hand[g].id \in Ids
    BY <1>2, <1>6, WorksOn DEF IntakeInv, Working, Message
  <2> QED
    BY <1>2, <1>3, <2>1 DEF Holds, Exists, Working
<1>7. SignalsAreOwned'
  BY <1>2, <1>3 DEF IntakeInv, SignalsAreOwned, Exists, Finished
<1>8. Through'
  BY <1>2 DEF IntakeInv, IntakeTypes, Through, Announced
<1> QED
  BY <1>4, <1>5, <1>6, <1>7, <1>8 DEF IntakeInv, HandsHold

LEMMA IntakeStep ==
  ASSUME IntakeInv, [IntakeNext \/ NoticeNext \/ LabNext]_channelVars
  PROVE  IntakeInv'
<1>1. CASE UNCHANGED intakeVars
  BY <1>1 DEF intakeVars, IntakeInv, IntakeTypes, ClaimsDiffer, HandsHold, Holds, SignalsAreOwned, Through,
       Announced, Working, Exists, Finished, Message
<1>2. UNCHANGED channelVars \/ NoticeNext \/ LabNext => UNCHANGED intakeVars
  BY DEF channelVars, NoticeNext, Notify, ClaimNotice, Mail, MarkSent, DropSend, LabNext, Submit,
       SubmitHostile, Started, FailedStart, WorldAnswers, Reads, ReadRun, ReadMain, ReadHostile,
       ReadCase, SavePoll
<1>3. ASSUME NEW h \in Hands,
             Deliver(h) \/ Fetch(h) \/ Claim(h) \/ Look(h) \/ Store(h) \/ Emit(h) \/ Drop(h)
      PROVE  IntakeInv'
  <2>1. /\ hand[h] \in HandStep /\ hand[h].at \in DOMAIN batch /\ acked \in BOOLEAN
        /\ \A k \in 1..(hand[h].at - 1) : Announced(batch[k])
        /\ hand \in [Hands -> HandStep]
    BY DEF IntakeInv, IntakeTypes, Through
  <2>2. ASSUME UNCHANGED <<signal, emitted>> PROVE \A m : Announced(m)' <=> Announced(m)
    BY <2>2 DEF Announced
  <2> DEFINE r(step) == [hand[h] EXCEPT !.step = step]
  <2>3. ASSUME NEW step \in {"fetch", "claim", "look", "store", "emit"}
        PROVE  /\ r(step) \in HandStep /\ r(step).step = step /\ r(step).id = hand[h].id
               /\ r(step).at = hand[h].at
               /\ Advance(h, step) => hand' = [hand EXCEPT ![h] = r(step)]
    BY <2>1 DEF HandStep, Advance
  <2> HIDE DEF r
  <2>4. ASSUME NEW step \in {"fetch", "claim", "look", "store", "emit"}, Advance(h, step),
               step \in {"look", "store", "emit"} => Working(h),
               step = "emit" => Exists(hand[h].id),
               UNCHANGED <<batch, drawn, claimed, signal, emitted, acked>>
        PROVE  IntakeInv'
    <3>1. \A k \in 1..(r(step).at - 1) : Announced(batch[k])'
      BY <2>1, <2>2, <2>3, <2>4
    <3> QED
      BY <2>1, <2>3, <2>4, <3>1, HandMoves
  <2>5. CASE Deliver(h) \/ Fetch(h)
    BY <2>4, <2>5 DEF Deliver, Fetch
  <2>6. CASE Claim(h)
    BY <2>6, ClaimMessageStep
  <2>7. CASE Look(h)
    <3>1. Working(h) /\ Holds(h) /\ hand[h].id \in Ids
      BY <2>7, WorksOn DEF Look, Working
    <3>2. CASE Finished(hand[h].id) /\ NextMessage(h)
      <4>1. hand[h].id \in emitted /\ signal[hand[h].id].of = Message(h)
        BY <3>1, <3>2 DEF IntakeInv, SignalsAreOwned, Finished, Exists, Holds
      <4>2. UNCHANGED <<batch, drawn, claimed, signal, emitted>>
        BY <2>7 DEF Look
      <4>3. PICK m : m = Message(h)
        OBVIOUS
      <4>4. Announced(m)'
        BY <4>1, <4>2, <4>3 DEF Announced
      <4> QED
        BY <3>2, <4>2, <4>3, <4>4, NextMessageStep
    <3>3. CASE Advance(h, "store") /\ UNCHANGED acked
      BY <2>4, <2>7, <3>1, <3>3 DEF Look
    <3>4. CASE Advance(h, "emit") /\ Exists(hand[h].id) /\ UNCHANGED acked
      BY <2>4, <2>7, <3>1, <3>4 DEF Look
    <3> QED
      BY <2>7, <3>2, <3>3, <3>4 DEF Look, Exists
  <2>8. CASE Store(h)
    <3>1. Working(h) /\ UNCHANGED <<batch, drawn, claimed, emitted, acked>> /\ hand[h].step = "store"
      BY <2>8 DEF Store, Working
    <3>2. CASE Exists(hand[h].id)
      BY <2>4, <2>8, <3>1, <3>2 DEF Store, Exists
    <3>3. CASE ~Exists(hand[h].id)
      BY <2>8, <3>1, <3>3, StoreSignalStep DEF Store, Exists
    <3> QED
      BY <3>2, <3>3
  <2>9. CASE Emit(h)
    <3>1. Working(h) /\ Holds(h) /\ hand[h].id \in Ids /\ Exists(hand[h].id)
          /\ emitted' = emitted \cup {hand[h].id} /\ NextMessage(h)
          /\ UNCHANGED <<batch, drawn, claimed, signal>>
      BY <2>9, WorksOn DEF Emit, Working, Holds
    <3>2. PICK m : m = Message(h)
      OBVIOUS
    <3>3. Announced(m)'
      BY <3>1, <3>2 DEF Announced, Holds
    <3> QED
      BY <3>1, <3>2, <3>3, NextMessageStep
  <2>10. CASE Drop(h)
    <3>1. hand' = [hand EXCEPT ![h] = Rest] /\ UNCHANGED <<batch, drawn, claimed, signal, emitted, acked>>
      BY <2>10 DEF Drop
    <3>2. 1 \in DOMAIN batch /\ 1..(Rest.at - 1) = {}
      BY BatchHas, RestIsStep DEF IntakeInv
    <3> QED
      BY <2>1, <3>1, <3>2, RestIsStep, HandMoves
  <2> QED
    BY <1>3, <2>5, <2>6, <2>7, <2>8, <2>9, <2>10
<1> QED
  BY <1>1, <1>2, <1>3, DecideStep DEF IntakeNext

LEMMA IntakeInit == ASSUME ChannelsInit PROVE IntakeInv
<1>1. hand \in [Hands -> HandStep] /\ \A h \in Hands : hand[h] = Rest
  BY RestIsStep DEF ChannelsInit
<1>2. /\ batch \in Batches /\ Len(batch) \in Nat \ {0} /\ DOMAIN batch = 1..Len(batch)
  BY BatchesAreSequences DEF ChannelsInit
<1>3. signal = [i \in Ids |-> [of |-> "none", status |-> "none"]] /\ claimed = [m \in Messages |-> 0]
      /\ drawn = 0 /\ emitted = {} /\ acked = FALSE
  BY DEF ChannelsInit
<1>4. IntakeTypes
  <2>1. claimed \in [Messages -> 0..drawn] /\ drawn \in 0..MaxSignals
    BY <1>3, SignalsAreNumbered
  <2>2. signal \in [Ids -> [of : Messages \cup {"none"},
                           status : {"none", "RECEIVED", "ACCEPTED", "QUARANTINED"}]]
    BY <1>3
  <2>3. \A h \in Hands : hand[h].at \in DOMAIN batch /\ ~Working(h)
    BY <1>1, <1>2, RestIsStep DEF Working
  <2> QED
    BY <1>1, <1>2, <1>3, <2>1, <2>2, <2>3 DEF IntakeTypes
<1>5. ClaimsDiffer /\ SignalsAreOwned
  BY <1>3 DEF ClaimsDiffer, SignalsAreOwned, Exists, Finished
<1>6. HandsHold /\ Through
  BY <1>1, <1>3, RestIsStep DEF HandsHold, Through, Working
<1> QED
  BY <1>4, <1>5, <1>6 DEF IntakeInv

LEMMA IntakeIsSound == ASSUME IntakeInv PROVE MessagesBecomeSignals
<1>1. ASSUME NEW i \in Ids, signal[i].of \in Keyed PROVE claimed[signal[i].of] = i
  BY <1>1, NoneIsNoMessage DEF IntakeInv, SignalsAreOwned
<1> QED
  BY <1>1 DEF MessagesBecomeSignals, IntakeInv, Through, Announced

-----------------------------------------------------------------------------
(* Notifications *)

Sending == [step : {"idle", "claim", "mail", "mark"}, at : Recipients, id : {0}]
Owns(h) == send[h].step \in {"mail", "mark"}

NoticeTypes ==
  /\ notice \in [Recipients -> {"none", "PENDING", "SENT"}]
  /\ mails \in [Recipients -> Nat] /\ handled \in BOOLEAN
  /\ send \in [Hands -> Sending]

\* A notice is recorded before its mail, for a recipient SAP knows, and the invocation that
\* recorded it is the only one that mails it.
Mailed ==
  \A r \in Recipients :
    mails[r] <= 1 /\ (mails[r] # 0 => notice[r] # "none") /\ (notice[r] # "none" => r \in Allowed)
Owners ==
  /\ \A h \in Hands : Owns(h) =>
       notice[send[h].at] # "none" /\ (send[h].step = "mail" => mails[send[h].at] = 0)
  /\ \A g, h \in Hands : Owns(g) /\ Owns(h) /\ send[g].at = send[h].at => g = h

Recorded(r) == r \in Allowed => notice[r] # "none"
Behind ==
  /\ \A h \in Hands : \A r \in Recipients : r < send[h].at => Recorded(r)
  /\ handled => \A r \in Recipients : Recorded(r)

NoticeInv == NoticeTypes /\ Mailed /\ Owners /\ Behind

LEMMA RecipientsNumbered ==
  /\ Cardinality(Recipients) \in Nat \ {0} /\ Recipients = 1..Cardinality(Recipients)
  /\ Rest \in Sending /\ Rest.step = "idle" /\ Rest.at = 1
<1>1. Cardinality(Recipients) \in Nat /\ Recipients = 1..Cardinality(Recipients)
  BY RecipientsAreNumbered, FS_CardinalityType
<1>2. Cardinality(Recipients) # 0
  BY <1>1, RecipientsAreNumbered
<1> QED
  BY <1>1, <1>2 DEF Rest, Sending

\* What may become of the notices without one being recorded: marked sent or left alone.
Marked ==
  /\ notice' \in [Recipients -> {"none", "PENDING", "SENT"}] /\ UNCHANGED mails
  /\ \A r \in Recipients : notice'[r] = "none" <=> notice[r] = "none"

\* An invocation goes on to a record that owns nothing it did not own.
LEMMA SendMoves ==
  ASSUME NoticeInv, NEW h \in Hands, NEW r \in Sending,
         send' = [send EXCEPT ![h] = r], Marked,
         r.step \in {"mail", "mark"} => r.at = send[h].at /\ Owns(h) /\ r.step = "mark",
         \A n \in Recipients : n < r.at => Recorded(n),
         handled' \in BOOLEAN, handled' => handled \/ \A n \in Recipients : Recorded(n)
  PROVE  NoticeInv'
<1>1. /\ send' \in [Hands -> Sending] /\ send'[h] = r
      /\ \A g \in Hands \ {h} : send'[g] = send[g]
  BY DEF NoticeInv, NoticeTypes
<1>2. NoticeTypes' /\ Mailed'
  <2>1. NoticeTypes'
    BY <1>1 DEF NoticeInv, NoticeTypes, Marked
  <2> QED
    BY <2>1 DEF NoticeInv, Mailed, Marked
<1>3. \A g \in Hands : Owns(g)' => Owns(g) /\ send'[g].at = send[g].at
                                 /\ (send'[g].step = "mail" => send[g].step = "mail")
  BY <1>1 DEF Owns
<1>4. Owners'
  BY <1>3 DEF NoticeInv, NoticeTypes, Sending, Owners, Marked
<1>5. \A n \in Recipients : Recorded(n) => Recorded(n)'
  BY DEF Recorded, Marked
<1>6. Behind'
  BY <1>1, <1>5 DEF NoticeInv, Behind
<1> QED
  BY <1>2, <1>4, <1>6 DEF NoticeInv

LEMMA NothingMarked == ASSUME NoticeInv, UNCHANGED <<notice, mails>> PROVE Marked
BY DEF NoticeInv, NoticeTypes, Marked

LEMMA OnwardStep ==
  ASSUME NoticeInv, NEW h \in Hands, Onward(h), Marked, Recorded(send[h].at)
  PROVE  NoticeInv'
<1>1. /\ send[h].at \in Recipients /\ handled \in BOOLEAN
      /\ \A n \in Recipients : n <= send[h].at => Recorded(n)
  <2>1. send[h].at \in Recipients /\ handled \in BOOLEAN
    BY DEF NoticeInv, NoticeTypes, Sending
  <2>2. ASSUME NEW n \in Recipients, n <= send[h].at PROVE Recorded(n)
    <3>1. n < send[h].at \/ n = send[h].at
      BY <2>1, <2>2, RecipientsNumbered
    <3> QED
      BY <3>1 DEF NoticeInv, Behind
  <2> QED
    BY <2>1, <2>2
<1>2. CASE send[h].at < Cardinality(Recipients)
  <2> DEFINE r == [Rest EXCEPT !.step = "claim", !.at = send[h].at + 1]
  <2>1. send[h].at + 1 \in Recipients
    BY <1>1, <1>2, RecipientsNumbered
  <2>2. r \in Sending /\ r.step = "claim" /\ r.at = send[h].at + 1
    BY <2>1 DEF Rest, Sending
  <2>3. send' = [send EXCEPT ![h] = r] /\ handled' = handled
    BY <1>2 DEF Onward
  <2> HIDE DEF r
  <2>4. \A n \in Recipients : n < r.at => Recorded(n)
    BY <1>1, <2>2, RecipientsNumbered
  <2> QED
    BY <1>1, <2>2, <2>3, <2>4, SendMoves
<1>3. CASE ~(send[h].at < Cardinality(Recipients))
  <2>1. send' = [send EXCEPT ![h] = Rest] /\ handled' = TRUE
    BY <1>3 DEF Onward
  <2>2. \A n \in Recipients : Recorded(n)
    BY <1>1, <1>3, RecipientsNumbered
  <2> QED
    BY <2>1, <2>2, RecipientsNumbered, SendMoves
<1> QED
  BY <1>2, <1>3

LEMMA NoticeStep ==
  ASSUME NoticeInv, [IntakeNext \/ NoticeNext \/ LabNext]_channelVars
  PROVE  NoticeInv'
<1>1. CASE UNCHANGED noticeVars
  BY <1>1 DEF noticeVars, NoticeInv, NoticeTypes, Mailed, Owners, Behind, Recorded, Owns
<1>2. UNCHANGED channelVars \/ IntakeNext \/ LabNext => UNCHANGED noticeVars
  BY DEF channelVars, IntakeNext, Deliver, Fetch, Claim, Look, Store, Emit, Drop, Decide, LabNext,
       Submit, SubmitHostile, Started, FailedStart, WorldAnswers, Reads, ReadRun, ReadMain,
       ReadHostile, ReadCase, SavePoll
<1>3. ASSUME NEW h \in Hands,
             Notify(h) \/ ClaimNotice(h) \/ Mail(h) \/ MarkSent(h) \/ DropSend(h)
      PROVE  NoticeInv'
  <2>1. /\ send[h] \in Sending /\ handled \in BOOLEAN /\ send \in [Hands -> Sending]
        /\ \A n \in Recipients : n < send[h].at => Recorded(n)
    BY <1>3 DEF NoticeInv, NoticeTypes, Behind
  <2>2. CASE Notify(h)
    <3> DEFINE r == [send[h] EXCEPT !.step = "claim"]
    <3>1. r \in Sending /\ r.step = "claim" /\ r.at = send[h].at
      BY <2>1 DEF Sending
    <3>2. send' = [send EXCEPT ![h] = r] /\ UNCHANGED <<notice, mails, handled>>
      BY <2>1, <2>2 DEF Notify, Sends
    <3> HIDE DEF r
    <3> QED
      BY <2>1, <3>1, <3>2, SendMoves, NothingMarked
  <2>3. CASE DropSend(h)
    <3>1. \A n \in Recipients : ~(n < Rest.at)
      BY RecipientsNumbered
    <3> QED
      BY <2>1, <2>3, <3>1, RecipientsNumbered, SendMoves, NothingMarked DEF DropSend
  <2>4. CASE ClaimNotice(h)
    <3> DEFINE n == send[h].at
    <3>0. n \in Recipients
      BY <2>1 DEF Sending
    <3>1. CASE (n \notin Allowed \/ Duplicate(n)) /\ Onward(h) /\ UNCHANGED notice
      BY <2>4, <3>1, OnwardStep, NothingMarked DEF ClaimNotice, Recorded, Duplicate
    <3>2. CASE n \in Allowed /\ ~Duplicate(n) /\ notice' = [notice EXCEPT ![n] = "PENDING"]
               /\ Sends(h, "mail") /\ UNCHANGED handled
      <4>1. UNCHANGED <<mails, handled>> /\ notice[n] = "none" /\ mails[n] = 0
        BY <2>4, <3>0, <3>2 DEF ClaimNotice, Duplicate, NoticeInv, NoticeTypes, Mailed
      <4>2. /\ send' \in [Hands -> Sending] /\ send'[h].step = "mail" /\ send'[h].at = n
            /\ \A g \in Hands \ {h} : send'[g] = send[g]
        BY <2>1, <3>2 DEF Sends, Sending
      <4>3. /\ notice' \in [Recipients -> {"none", "PENDING", "SENT"}] /\ notice'[n] = "PENDING"
            /\ \A m \in Recipients \ {n} : notice'[m] = notice[m]
        BY <3>0, <3>2 DEF NoticeInv, NoticeTypes
      <4>4. \A g \in Hands : Owns(g) => send[g].at # n /\ send[g].at \in Recipients
        BY <4>1 DEF NoticeInv, Owners, NoticeTypes, Sending
      <4> HIDE DEF n
      <4>5. NoticeTypes' /\ Mailed'
        BY <3>0, <3>2, <4>1, <4>2, <4>3 DEF NoticeInv, NoticeTypes, Mailed
      <4>6. Owners'
        BY <4>1, <4>2, <4>3, <4>4 DEF NoticeInv, Owners, Owns
      <4>7. \A m \in Recipients : Recorded(m) => Recorded(m)'
        BY <4>1, <4>3 DEF Recorded
      <4>8. Behind'
        BY <2>1, <4>1, <4>2, <4>7 DEF NoticeInv, Behind, n
      <4> QED
        BY <4>5, <4>6, <4>8 DEF NoticeInv
    <3> QED
      BY <2>4, <3>1, <3>2 DEF ClaimNotice
  <2>5. CASE Mail(h)
    <3> DEFINE n == send[h].at
    <3>1. n \in Recipients /\ mails[n] = 0 /\ notice[n] # "none" /\ Owns(h)
      BY <2>1, <2>5 DEF Mail, NoticeInv, Owners, Owns, Sending
    <3>2. /\ send' \in [Hands -> Sending] /\ send'[h].step = "mark" /\ send'[h].at = n
          /\ \A g \in Hands \ {h} : send'[g] = send[g]
      BY <2>1, <2>5 DEF Mail, Sends, Sending
    <3>3. /\ mails' \in [Recipients -> Nat] /\ mails'[n] = 1
          /\ \A m \in Recipients \ {n} : mails'[m] = mails[m]
          /\ UNCHANGED <<notice, handled>>
      BY <2>5, <3>1 DEF Mail, NoticeInv, NoticeTypes
    <3>4. \A g \in Hands \ {h} : Owns(g) => send[g].at # n /\ send[g].at \in Recipients
      BY <3>1 DEF NoticeInv, Owners, NoticeTypes, Sending
    <3> HIDE DEF n
    <3>5. NoticeTypes' /\ Mailed'
      BY <3>1, <3>2, <3>3 DEF NoticeInv, NoticeTypes, Mailed
    <3>6. Owners'
      BY <3>1, <3>2, <3>3, <3>4 DEF NoticeInv, Owners, Owns
    <3>7. Behind'
      BY <2>1, <3>2, <3>3 DEF NoticeInv, Behind, Recorded, n
    <3> QED
      BY <3>5, <3>6, <3>7 DEF NoticeInv
  <2>6. CASE MarkSent(h)
    <3> DEFINE n == send[h].at
    <3>1. n \in Recipients /\ notice[n] # "none" /\ UNCHANGED mails /\ Onward(h)
          /\ notice' = [notice EXCEPT ![n] = "SENT"]
      BY <2>1, <2>6 DEF MarkSent, NoticeInv, Owners, Owns, Sending
    <3>2. Marked
      BY <3>1 DEF NoticeInv, NoticeTypes, Marked
    <3> QED
      BY <3>1, <3>2, OnwardStep DEF NoticeInv, Mailed, Recorded
  <2> QED
    BY <1>3, <2>2, <2>3, <2>4, <2>5, <2>6
<1> QED
  BY <1>1, <1>2, <1>3 DEF NoticeNext

LEMMA NoticeInit == ASSUME ChannelsInit PROVE NoticeInv
<1>1. send \in [Hands -> Sending] /\ \A h \in Hands : send[h] = Rest
  BY RecipientsNumbered DEF ChannelsInit
<1>2. \A n \in Recipients : ~(n < 1)
  BY RecipientsNumbered
<1>3. NoticeTypes /\ Mailed /\ ~handled
  <2>1. /\ notice = [r \in Recipients |-> "none"] /\ mails = [r \in Recipients |-> 0]
        /\ handled = FALSE
    BY DEF ChannelsInit
  <2>2. NoticeTypes
    BY <1>1, <2>1 DEF NoticeTypes
  <2>3. \A r \in Recipients : mails[r] = 0 /\ notice[r] = "none"
    BY <2>1
  <2> QED
    BY <2>1, <2>2, <2>3 DEF Mailed
<1>4. Owners
  BY <1>1, RecipientsNumbered DEF Owners, Owns
<1>5. Behind
  BY <1>1, <1>2, <1>3, RecipientsNumbered DEF Behind
<1> QED
  BY <1>3, <1>4, <1>5 DEF NoticeInv

LEMMA NoticeIsSound == ASSUME NoticeInv PROVE NotifiedOnce
BY RecipientsAreNumbered DEF NoticeInv, NoticeTypes, Mailed, Behind, Recorded, NotifiedOnce

-----------------------------------------------------------------------------
(* The Lab *)

Fates == {"none", "sent", "RECEIVED", "ACCEPTED", "QUARANTINED"}
PollRead == [step : {"idle", "main", "hostile", "case", "save"},
         run : {"none", "IN_PROGRESS", "DELIVERY_FAILED", "SIGNAL_BLOCKED",
                "HOSTILE_NOT_BLOCKED", "RESOLVED", "ESCALATED"},
         main : Fates, hostile : Fates, case : {"none", "open", "CLOSED", "ESCALATED"}]

\* What a read saw blocked is blocked: the gatekeeper does not take a decision back.
SawRight(r) ==
  /\ r.main = "QUARANTINED" => news.main = "QUARANTINED"
  /\ r.hostile = "QUARANTINED" => news.hostile = "QUARANTINED"

LabInv ==
  /\ lab \in [hostile : BOOLEAN, status : {"PREPARING", "SUBMITTED", "FAILED"},
              outcome : {"IN_PROGRESS", "DELIVERY_FAILED", "SIGNAL_BLOCKED", "HOSTILE_NOT_BLOCKED",
                         "RESOLVED", "ESCALATED"}]
  /\ news \in [main : Fates, hostile : Fates, case : {"none", "open", "CLOSED", "ESCALATED"}]
  /\ poll \in [Polls -> PollRead] /\ \A p \in Polls : SawRight(poll[p])
  /\ LabTellsBlocked

LEMMA ReadsOn ==
  ASSUME LabInv, NEW p \in Polls, NEW r \in PollRead, poll' = [poll EXCEPT ![p] = r],
         SawRight(r), UNCHANGED <<lab, news>>
  PROVE  LabInv'
<1>1. poll' \in [Polls -> PollRead] /\ \A q \in Polls : poll'[q] = poll[q] \/ poll'[q] = r
  BY DEF LabInv
<1> QED
  BY <1>1 DEF LabInv, SawRight, LabTellsBlocked

LEMMA NoPollIsRead == NoPoll \in PollRead /\ SawRight(NoPoll)
BY DEF NoPoll, PollRead, SawRight, Fates

LEMMA ReadSteps ==
  ASSUME LabInv, NEW p \in Polls, ReadRun(p) \/ ReadMain(p) \/ ReadHostile(p) \/ ReadCase(p)
  PROVE  LabInv'
<1>1. /\ poll[p] \in PollRead /\ SawRight(poll[p]) /\ news.main \in Fates /\ news.hostile \in Fates
      /\ news.case \in {"none", "open", "CLOSED", "ESCALATED"}
  BY DEF LabInv
<1>2. CASE ReadRun(p)
  <2> DEFINE r == [[NoPoll EXCEPT !.run = lab.outcome] EXCEPT !.step = "main"]
  <2>1. lab.outcome \in {"IN_PROGRESS", "DELIVERY_FAILED", "SIGNAL_BLOCKED", "HOSTILE_NOT_BLOCKED",
                         "RESOLVED", "ESCALATED"}
    BY DEF LabInv
  <2>2. r \in PollRead /\ r.main = NoPoll.main /\ r.hostile = NoPoll.hostile
    BY <2>1, NoPollIsRead DEF PollRead
  <2>3. poll' = [poll EXCEPT ![p] = r] /\ UNCHANGED <<lab, news>>
    BY <1>2 DEF ReadRun, Reads
  <2> HIDE DEF r
  <2> QED
    BY <2>2, <2>3, NoPollIsRead, ReadsOn DEF SawRight
<1>3. CASE ReadMain(p)
  <2> DEFINE r == [[poll[p] EXCEPT !.main = news.main, !.case = news.case] EXCEPT !.step = "hostile"]
  <2>1. r \in PollRead /\ r.main = news.main /\ r.hostile = poll[p].hostile
    BY <1>1 DEF PollRead
  <2>2. poll' = [poll EXCEPT ![p] = r] /\ UNCHANGED <<lab, news>>
    BY <1>3 DEF ReadMain, Reads
  <2> HIDE DEF r
  <2> QED
    BY <1>1, <2>1, <2>2, ReadsOn DEF SawRight
<1>4. CASE ReadHostile(p)
  <2> DEFINE r == [[poll[p] EXCEPT !.hostile = news.hostile] EXCEPT !.step = "case"]
  <2>1. r \in PollRead /\ r.main = poll[p].main /\ r.hostile = news.hostile
    BY <1>1 DEF PollRead
  <2>2. poll' = [poll EXCEPT ![p] = r] /\ UNCHANGED <<lab, news>>
    BY <1>4 DEF ReadHostile, Reads
  <2> HIDE DEF r
  <2> QED
    BY <1>1, <2>1, <2>2, ReadsOn DEF SawRight
<1>5. CASE ReadCase(p)
  <2> DEFINE r == [[poll[p] EXCEPT !.case = IF @ = "none" THEN @ ELSE news.case] EXCEPT !.step = "save"]
  <2>1. r \in PollRead /\ r.main = poll[p].main /\ r.hostile = poll[p].hostile
    BY <1>1 DEF PollRead
  <2>2. poll' = [poll EXCEPT ![p] = r] /\ UNCHANGED <<lab, news>>
    BY <1>5 DEF ReadCase, Reads
  <2> HIDE DEF r
  <2> QED
    BY <1>1, <2>1, <2>2, ReadsOn DEF SawRight
<1> QED
  BY <1>2, <1>3, <1>4, <1>5

\* What is saved as the outcome is what the read saw, over whatever was saved meanwhile.
LEMMA SavePollStep ==
  ASSUME LabInv, NEW p \in Polls, SavePoll(p)
  PROVE  LabInv'
<1>1. /\ poll[p] \in PollRead /\ SawRight(poll[p])
      /\ poll' = [poll EXCEPT ![p] = NoPoll] /\ UNCHANGED news
      /\ lab' = lab \/ lab' = [lab EXCEPT !.outcome = Outcome(poll[p])]
  BY DEF LabInv, SavePoll
<1>2. poll' \in [Polls -> PollRead] /\ \A q \in Polls : poll'[q] = poll[q] \/ poll'[q] = NoPoll
  BY <1>1, NoPollIsRead DEF LabInv
<1>3. \A q \in Polls : SawRight(poll[q])'
  BY <1>1, <1>2, NoPollIsRead DEF LabInv, SawRight
<1>4. /\ Outcome(poll[p]) \in {"IN_PROGRESS", "SIGNAL_BLOCKED", "HOSTILE_NOT_BLOCKED", "RESOLVED",
                               "ESCALATED"}
      /\ Outcome(poll[p]) = "SIGNAL_BLOCKED" => news.main = "QUARANTINED"
      /\ Outcome(poll[p]) \in {"RESOLVED", "ESCALATED"} /\ lab.hostile
           => news.hostile = "QUARANTINED"
  BY <1>1 DEF Outcome, Ends, PollRead, Fates, SawRight, LabInv
<1>5. LabTellsBlocked'
  BY <1>1, <1>4 DEF LabInv, LabTellsBlocked
<1> QED
  BY <1>1, <1>2, <1>3, <1>4, <1>5 DEF LabInv

LEMMA LabStep ==
  ASSUME LabInv, [IntakeNext \/ NoticeNext \/ LabNext]_channelVars
  PROVE  LabInv'
<1>1. CASE UNCHANGED labVars
  BY <1>1 DEF labVars, LabInv, SawRight, LabTellsBlocked
<1>2. UNCHANGED channelVars \/ IntakeNext \/ NoticeNext => UNCHANGED labVars
  BY DEF channelVars, IntakeNext, Deliver, Fetch, Claim, Look, Store, Emit, Drop, Decide, NoticeNext,
       Notify, ClaimNotice, Mail, MarkSent, DropSend
<1>3. CASE Submit \/ SubmitHostile
  BY <1>3 DEF Submit, SubmitHostile, LabInv, LabTellsBlocked, SawRight, Fates
<1>4. CASE Started \/ FailedStart
  BY <1>4 DEF Started, FailedStart, LabInv, LabTellsBlocked, SawRight
<1>5. CASE WorldAnswers
  BY <1>5 DEF WorldAnswers, LabInv, LabTellsBlocked, SawRight, Fates
<1> QED
  BY <1>1, <1>2, <1>3, <1>4, <1>5, ReadSteps, SavePollStep DEF LabNext

LEMMA LabInit == ASSUME ChannelsInit PROVE LabInv
<1>1. poll \in [Polls -> PollRead] /\ \A p \in Polls : poll[p] = NoPoll
  BY NoPollIsRead DEF ChannelsInit
<1> QED
  BY <1>1, NoPollIsRead DEF ChannelsInit, LabInv, LabTellsBlocked, Fates

\* However deliveries, webhooks and polls overlap, repeat or break off: a message with an id is one
\* signal, an acknowledged batch has been announced, nobody is mailed twice of one thing,
\* and the Lab shows a run as blocked, or as ended well beside a hostile signal, only when the
\* gatekeeper blocked that signal.
THEOREM ChannelsStayTrue == ChannelsSpec => []ChannelsAreTrue
<1> DEFINE Inv == IntakeInv /\ NoticeInv /\ LabInv
<1>1. ChannelsInit => Inv
  BY IntakeInit, NoticeInit, LabInit
<1>2. Inv /\ [IntakeNext \/ NoticeNext \/ LabNext]_channelVars => Inv'
  BY IntakeStep, NoticeStep, LabStep
<1>3. Inv => ChannelsAreTrue
  BY IntakeIsSound, NoticeIsSound DEF LabInv, ChannelsAreTrue
<1> QED
  BY <1>1, <1>2, <1>3, PTL DEF ChannelsSpec

-----------------------------------------------------------------------------
(* Evidence *)

Field == [value : Nat, by : {"none", "planner"}, status : {"SAP_MATCHED", "CONFIRMED", "UNCONFIRMED"}]
FieldLists == Seq(Field)
Statuses == {"none", "RECEIVED", "ACCEPTED", "QUARANTINED"}
Items == [status : Statuses, verified : BOOLEAN,
          inCase : BOOLEAN, fields : FieldLists]
Tasks == [job : {"none", "gate", "extract", "attach", "confirm"}, copy : Items, result : Items]
Drafts == [at : 0..2, qty : Nat \cup Claims, ref : {"none", "planner", "signal"}, passed : BOOLEAN]

\* What the gatekeeper makes sure of, and with the picture what a case may rest on
Admitted ==
  /\ message.text # "attack" /\ ~message.hides
  /\ message.channel # "AGENT" => message.sender \in Partners
  /\ message.form = "CARRIER" => message.sender = "carrier"
  /\ message.channel = "EMAIL" => message.proven
Trusted == Admitted /\ message.image # "attack"

\* A copy of the item, whoever holds it: none claims more than was made sure of.
Sound(x) ==
  /\ x.status = "ACCEPTED" \/ x.verified => Admitted
  /\ x.inCase => Trusted
  /\ \A i \in DOMAIN x.fields : usable(x.fields[i]) => x.fields[i].value \in backed

EvidenceTypes ==
  /\ message \in Arrivals /\ partners \subseteq Partners
  /\ item \in Items /\ index \in Items
  /\ work \in [Handlers -> Tasks]
  /\ draft \in Drafts

EvidenceInv ==
  /\ EvidenceTypes
  /\ Sound(item) /\ Sound(index)
  /\ \A h \in Handlers :
       /\ Sound(work[h].copy) /\ Sound(work[h].result)
       /\ work[h].job = "extract" /\ work[h].result.status = "ACCEPTED" => Trusted
  /\ "SignalExtracted" \in announced => Trusted
  /\ Ordered \in backed
  /\ draft.at # 0 => Trusted /\ draft.qty \in backed

LEMMA NoItemIsItem ==
  /\ New \in Items /\ NoItem \in Items /\ Resting \in Tasks
  /\ Sound(New) /\ Sound(NoItem) /\ NoItem.status = "none" /\ New.status = "RECEIVED"
<1>1. <<>> \in Seq(Field)
  OBVIOUS
<1>2. /\ New \in Items /\ ~New.verified /\ ~New.inCase /\ New.status = "RECEIVED"
      /\ New.fields = <<>>
  BY <1>1 DEF New, Items, FieldLists, Statuses
<1>3. /\ NoItem \in Items /\ ~NoItem.verified /\ ~NoItem.inCase /\ NoItem.status = "none"
      /\ NoItem.fields = <<>>
  BY <1>2 DEF NoItem, Items, Statuses
<1>4. Resting \in Tasks
  BY <1>3 DEF Resting, Tasks
<1> QED
  BY <1>2, <1>3, <1>4 DEF Sound

\* A handler takes up or finishes a task; what was backed stays backed.
LEMMA Works ==
  ASSUME EvidenceInv, NEW h \in Handlers, NEW t \in Tasks, work' = [work EXCEPT ![h] = t],
         Sound(t.copy)', Sound(t.result)',
         t.job = "extract" /\ t.result.status = "ACCEPTED" => Trusted,
         UNCHANGED <<message, partners, item, index, announced, draft>>, backed \subseteq backed'
  PROVE  EvidenceInv'
<1>1. /\ work' \in [Handlers -> Tasks] /\ work'[h] = t
      /\ \A g \in Handlers \ {h} : work'[g] = work[g]
  BY DEF EvidenceInv, EvidenceTypes
<1>2. \A x : Sound(x) => Sound(x)'
  BY DEF Sound, Trusted, Admitted
<1> QED
  BY <1>1, <1>2 DEF EvidenceInv, EvidenceTypes, Trusted, Admitted

\* The item, its index or the draft changes to something sound.
LEMMA WorldMoves ==
  ASSUME EvidenceInv, UNCHANGED <<message, work, backed>>, EvidenceTypes',
         item' \in {item, index} \/ item' = item, index' \in {item, index},
         partners' \subseteq partners, announced' = announced,
         (draft'.at # 0 => Trusted /\ draft'.qty \in backed)
  PROVE  EvidenceInv'
<1>1. \A x : Sound(x) => Sound(x)'
  BY DEF Sound, Trusted, Admitted
<1> QED
  BY <1>1 DEF EvidenceInv, Trusted, Admitted

LEMMA FunctionIsSequence ==
  ASSUME NEW S, NEW n \in Nat, NEW f \in [1..n -> S]
  PROVE  f \in Seq(S)
OBVIOUS

LEMMA EvidenceInitHolds == ASSUME EvidenceInit PROVE EvidenceInv
<1>1. /\ message \in Arrivals /\ partners \subseteq Partners /\ item = New /\ index = New
      /\ announced = {"SignalReceived"} /\ draft = NoQuantity /\ Ordered \in backed
  BY DEF EvidenceInit
<1>2. work \in [Handlers -> Tasks] /\ \A h \in Handlers : work[h] = Resting
  BY NoItemIsItem DEF EvidenceInit
<1>3. /\ Resting.copy = NoItem /\ Resting.result = NoItem /\ Resting.job = "none"
      /\ NoQuantity \in Drafts /\ NoQuantity.at = 0
  BY DEF Resting, NoQuantity, Drafts
<1>4. EvidenceTypes
  BY <1>1, <1>2, <1>3, NoItemIsItem DEF EvidenceTypes
<1> QED
  BY <1>1, <1>2, <1>3, <1>4, NoItemIsItem DEF EvidenceInv

\* Reading a document yields positive quantities.
LEMMA ReadingsAreSound ==
  ASSUME message \in Arrivals, NEW rs \in Readings
  PROVE  rs \in Seq([value : Nat \ {0}, sure : BOOLEAN])
<1> DEFINE R == [value : Nat \ {0}, sure : BOOLEAN]
<1>1. message.says \in Seq(Nat \ {0}) /\ message.reads \subseteq R
  BY ArrivalsAreMessages
<1>2. text_quantities \in Seq(R)
  <2>1. Len(message.says) \in Nat /\ DOMAIN message.says = 1..Len(message.says)
    BY <1>1
  <2>2. \A i \in DOMAIN message.says :
          [value |-> message.says[i], sure |-> Len(message.says) = 1] \in R
    BY <1>1
  <2>3. text_quantities \in [1..Len(message.says) -> R]
    BY <2>1, <2>2 DEF text_quantities
  <2> HIDE DEF R
  <2> QED
    BY <2>1, <2>3, FunctionIsSequence
<1>3. \A r \in message.reads : <<r>> \in Seq(R)
  BY <1>1
<1>4. \A q : verified_spans(q) \in Seq(R)
  <2> SUFFICES ASSUME NEW q PROVE verified_spans(q) \in Seq(R)
    OBVIOUS
  <2> DEFINE words == {w \in message.reads : w.value = q}
             span == [value |-> q, sure |-> \A w \in words : w.sure]
  <2>1. verified_spans(q) = IF words = {} THEN <<>> ELSE <<span>>
    BY DEF verified_spans
  <2>2. words # {} => span \in R
    <3>1. (\A w \in words : w.sure) \in BOOLEAN
      OBVIOUS
    <3>2. words # {} => q \in Nat \ {0}
      BY <1>1
    <3> QED
      BY <3>1, <3>2
  <2> HIDE DEF span, words, R
  <2>3. <<>> \in Seq(R) /\ (words # {} => <<span>> \in Seq(R))
    BY <2>2
  <2> QED
    BY <2>1, <2>3
<1>5. <<>> \in Seq(R)
  OBVIOUS
<1> HIDE DEF R
<1>6. rs \in Seq(R)
  BY <1>2, <1>3, <1>4, <1>5 DEF Readings, textract_document
<1> QED
  BY <1>6 DEF R

LEMMA HoldsSound ==
  ASSUME EvidenceInv, NEW h \in Handlers
  PROVE  /\ work[h] \in Tasks /\ work[h].copy \in Items /\ work[h].result \in Items
         /\ Sound(work[h].copy) /\ Sound(work[h].result)
BY DEF EvidenceInv, EvidenceTypes, Tasks

LEMMA BeginStep ==
  ASSUME EvidenceInv, NEW h \in Handlers, NEW duty \in {"gate", "extract"}, Begin(h, duty, item),
         UNCHANGED <<message, partners, item, index, announced, draft, backed>>
  PROVE  EvidenceInv'
<1>0. PICK t : t = [job |-> duty, copy |-> item, result |-> NoItem]
  OBVIOUS
<1>1. t \in Tasks /\ t.copy = item /\ t.result = NoItem
  BY <1>0, NoItemIsItem DEF EvidenceInv, EvidenceTypes, Tasks
<1>2. work' = [work EXCEPT ![h] = t]
  BY <1>0 DEF Begin
<1>3. Sound(t.copy)' /\ Sound(t.result)' /\ t.result.status # "ACCEPTED"
  BY <1>1, NoItemIsItem DEF EvidenceInv, Sound, Trusted, Admitted
<1> QED
  BY <1>1, <1>2, <1>3, Works

\* A result is sound: the task goes on with it.
LEMMA ResultStep ==
  ASSUME EvidenceInv, NEW h \in Handlers, NEW x \in Items, Result(h, x), Sound(x)',
         work[h].job = "extract" /\ x.status = "ACCEPTED" => Trusted,
         UNCHANGED <<message, partners, item, index, announced, draft>>, backed \subseteq backed'
  PROVE  EvidenceInv'
<1>0. PICK t : t = [work[h] EXCEPT !.copy = NoItem, !.result = x]
  OBVIOUS
<1>1. t \in Tasks /\ t.copy = NoItem /\ t.result = x /\ t.job = work[h].job
  BY <1>0, HoldsSound, NoItemIsItem DEF Tasks
<1>2. work' = [work EXCEPT ![h] = t]
  BY <1>0 DEF Result, EvidenceInv, EvidenceTypes, Tasks
<1>3. Sound(t.copy)'
  BY <1>1, NoItemIsItem DEF Sound, Trusted, Admitted
<1> QED
  BY <1>1, <1>2, <1>3, Works

LEMMA QuarantineIsSound ==
  ASSUME NEW x \in Items, Sound(x)
  PROVE  /\ quarantine(x) \in Items /\ Sound(quarantine(x))
         /\ quarantine(x).status = "QUARANTINED"
<1>1. /\ quarantine(x) \in Items /\ quarantine(x).status = "QUARANTINED"
      /\ quarantine(x).verified = x.verified /\ quarantine(x).inCase = x.inCase
      /\ quarantine(x).fields = x.fields
  BY DEF quarantine, Items, Statuses
<1> QED
  BY <1>1 DEF Sound

LEMMA JudgeStep ==
  ASSUME EvidenceInv, NEW h \in Handlers, Judge(h)
  PROVE  EvidenceInv'
<1> DEFINE x == work[h].copy
           ok == /\ message.channel = "AGENT" \/ (verify_sender /\ ~_email_auth_failed)
                 /\ ~scan(_texts)
           y == [x EXCEPT !.status = "ACCEPTED", !.verified = TRUE]
<1>1. /\ x \in Items /\ Sound(x) /\ work[h].job = "gate"
      /\ UNCHANGED <<message, partners, item, index, announced, draft, backed>>
      /\ Result(h, IF ok THEN y ELSE quarantine(x))
  BY HoldsSound DEF Judge, Decides
<1>2. CASE ~ok
  <2>1. Result(h, quarantine(x))
    BY <1>1, <1>2
  <2>2. PICK z \in Items : z = quarantine(x) /\ Sound(z)
    BY <1>1, QuarantineIsSound
  <2>3. Sound(z)'
    BY <1>1, <2>2 DEF Sound, Trusted, Admitted
  <2> QED
    BY <1>1, <2>1, <2>2, <2>3, ResultStep
<1>3. CASE ok
  <2>1. Admitted
    <3>1. message.text # "attack" /\ ~message.hides
      BY <1>3 DEF scan, _texts, html_texts
    <3>2. message.channel = "AGENT" => message.form # "CARRIER"
      BY ArrivalsAreMessages DEF EvidenceInv, EvidenceTypes
    <3>3. message.channel # "AGENT" =>
            /\ message.sender \in Partners
            /\ _sender_channel = "CARRIER" => message.sender = "carrier"
            /\ message.channel = "EMAIL" => message.proven
      BY <1>3 DEF verify_sender, _email_auth_failed, EvidenceInv, EvidenceTypes
    <3>4. message.form = "CARRIER" => _sender_channel = "CARRIER"
      BY ArrivalsAreMessages DEF EvidenceInv, EvidenceTypes, _sender_channel
    <3> QED
      BY <3>1, <3>2, <3>3, <3>4 DEF Admitted
  <2>0. PICK z : z = y
    OBVIOUS
  <2>2. /\ z \in Items /\ z.inCase = x.inCase /\ z.fields = x.fields
        /\ z.verified = TRUE /\ z.status = "ACCEPTED"
    BY <1>1, <2>0 DEF Items, Statuses
  <2>3. Sound(z)'
    BY <1>1, <2>1, <2>2 DEF Sound, Trusted, Admitted
  <2> QED
    BY <1>1, <1>3, <2>0, <2>2, <2>3, ResultStep
<1> QED
  BY <1>2, <1>3

LEMMA ReadFieldsStep ==
  ASSUME EvidenceInv, NEW h \in Handlers, ReadFields(h)
  PROVE  EvidenceInv'
<1> DEFINE x == work[h].copy
<1>1. /\ x \in Items /\ Sound(x) /\ message \in Arrivals /\ Ordered \in backed
      /\ UNCHANGED <<message, partners, item, index, announced, draft>>
  BY HoldsSound DEF ReadFields, EvidenceInv, EvidenceTypes
<1>2. CASE blocked /\ Result(h, quarantine(x)) /\ UNCHANGED backed
  <2>1. PICK z \in Items : z = quarantine(x) /\ Sound(z) /\ z.status = "QUARANTINED"
    BY <1>1, QuarantineIsSound
  <2>2. Sound(z)'
    BY <1>1, <1>2, <2>1 DEF Sound, Trusted, Admitted
  <2> QED
    BY <1>1, <1>2, <2>1, <2>2, ResultStep
<1>3. ASSUME ~blocked, NEW rs \in Readings, NEW truth \in sap_values,
             Result(h, [x EXCEPT !.fields =
                          [i \in DOMAIN rs |->
                            [value |-> rs[i].value, by |-> "none",
                             status |-> field_status(rs[i].value, rs[i].sure, truth)]]]),
             backed' = backed \cup {rs[i].value : i \in {k \in DOMAIN rs : rs[k].sure}}
      PROVE  EvidenceInv'
  <2> DEFINE f == [i \in DOMAIN rs |->
                    [value |-> rs[i].value, by |-> "none",
                     status |-> field_status(rs[i].value, rs[i].sure, truth)]]
  <2>0. PICK R : R = [value : Nat \ {0}, sure : BOOLEAN]
    OBVIOUS
  <2>1. /\ Len(rs) \in Nat /\ DOMAIN rs = 1..Len(rs)
        /\ \A i \in DOMAIN rs : rs[i].value \in Nat \ {0} /\ rs[i].sure \in BOOLEAN
    <3>1. rs \in Seq(R)
      BY <1>1, <1>3, <2>0, ReadingsAreSound
    <3>2. \A i \in DOMAIN rs : rs[i] \in R
      BY <3>1
    <3> QED
      BY <2>0, <3>1, <3>2
  <2>2. ASSUME NEW i \in DOMAIN rs
        PROVE  /\ f[i] \in Field /\ f[i].value = rs[i].value
               /\ usable(f[i]) => f[i].value \in backed'
    <3>1. field_status(rs[i].value, rs[i].sure, truth) \in {"SAP_MATCHED", "CONFIRMED", "UNCONFIRMED"}
      BY DEF field_status
    <3>2. CASE rs[i].value = truth
      BY <1>1, <1>3, <2>1, <3>1, <3>2 DEF sap_values, Field
    <3>3. CASE rs[i].value # truth /\ rs[i].sure
      BY <1>3, <2>1, <3>1, <3>3 DEF Field
    <3>4. CASE rs[i].value # truth /\ ~rs[i].sure
      BY <2>1, <3>1, <3>4 DEF Field, field_status, usable
    <3> QED
      BY <3>2, <3>3, <3>4
  <2>3. f \in [1..Len(rs) -> Field] /\ DOMAIN f = DOMAIN rs
    BY <2>1, <2>2
  <2>4. f \in FieldLists
    BY <2>1, <2>3, FunctionIsSequence DEF FieldLists
  <2>5. \A i \in DOMAIN f : usable(f[i]) => f[i].value \in backed'
    BY <2>2, <2>3
  <2>6. Result(h, [x EXCEPT !.fields = f])
    BY <1>3
  <2> HIDE DEF f
  <2>a. PICK z : z = [x EXCEPT !.fields = f]
    OBVIOUS
  <2>7. /\ z \in Items /\ z.fields = f /\ z.status = x.status
        /\ z.verified = x.verified /\ z.inCase = x.inCase
    BY <1>1, <2>4, <2>a DEF Items
  <2>8. Sound(z)'
    BY <1>1, <2>5, <2>7 DEF Sound, Trusted, Admitted
  <2>9. z.status = "ACCEPTED" => Trusted
    BY <1>1, <1>3, <2>7 DEF blocked, scan, Sound, Trusted
  <2> QED
    BY <1>1, <1>3, <2>6, <2>a, <2>7, <2>8, <2>9, ResultStep
<1> QED
  BY <1>2, <1>3 DEF ReadFields

LEMMA AttachStep ==
  ASSUME EvidenceInv, NEW h \in Handlers, AttachItem(h)
  PROVE  EvidenceInv'
<1>1. PICK x : x = [item EXCEPT !.inCase = TRUE]
  OBVIOUS
<1>2. /\ x \in Items /\ x.status = item.status /\ x.verified = item.verified
      /\ x.fields = item.fields
  BY <1>1 DEF EvidenceInv, EvidenceTypes, Items
<1>0. PICK t : t = [job |-> "attach", copy |-> NoItem, result |-> x]
  OBVIOUS
<1>3. t \in Tasks /\ t.copy = NoItem /\ t.result = x /\ t.job = "attach"
  BY <1>0, <1>2, NoItemIsItem DEF Tasks
<1>4. /\ work' = [work EXCEPT ![h] = t] /\ Trusted
      /\ UNCHANGED <<message, partners, item, index, announced, draft, backed>>
  BY <1>0, <1>1 DEF AttachItem, EvidenceInv, Sound
<1>5. Sound(t.copy)' /\ Sound(t.result)'
  BY <1>2, <1>3, <1>4, NoItemIsItem DEF EvidenceInv, Sound, Trusted, Admitted
<1> QED
  BY <1>3, <1>4, <1>5, Works

LEMMA ConfirmStep ==
  ASSUME EvidenceInv, NEW h \in Handlers, NEW i \in 1..2, NEW q \in message.mends \cup {0},
         confirm(h, i, q)
  PROVE  EvidenceInv'
<1>1. PICK v : v = IF q = 0 THEN index.fields[i].value ELSE q
  OBVIOUS
<1>2. /\ index \in Items /\ index.inCase /\ i \in DOMAIN index.fields /\ index.fields \in Seq(Field)
      /\ message \in Arrivals
  BY DEF confirm, EvidenceInv, EvidenceTypes, Items, FieldLists
<1>3. v \in Nat
  <2>1. index.fields[i] \in Field
    BY <1>2
  <2>2. q \in Nat
    BY <1>2, ArrivalsAreMessages
  <2> QED
    BY <1>1, <2>1, <2>2 DEF Field
<1> DEFINE c == [value |-> v, by |-> "planner", status |-> "CONFIRMED"]
<1>4. c \in Field /\ c.value = v
  BY <1>3 DEF Field
<1> HIDE DEF c
<1>a. PICK f : f = [index.fields EXCEPT ![i] = c]
  OBVIOUS
<1>5. /\ f \in Seq(Field) /\ DOMAIN f = DOMAIN index.fields /\ f[i] = c
      /\ \A j \in DOMAIN f \ {i} : f[j] = index.fields[j]
  BY <1>2, <1>4, <1>a
<1>b. PICK x : x = [index EXCEPT !.fields = f]
  OBVIOUS
<1>c. [index EXCEPT !.fields[i] = c] = x
  BY <1>a, <1>b
<1>6. /\ x \in Items /\ x.fields = f
      /\ x.status = index.status /\ x.verified = index.verified
      /\ x.inCase = index.inCase
  BY <1>2, <1>5, <1>b DEF Items, FieldLists
<1>7. /\ work' = [work EXCEPT ![h] = [job |-> "confirm", copy |-> NoItem, result |-> x]]
      /\ backed' = backed \cup {v}
      /\ UNCHANGED <<message, partners, item, index, announced, draft>>
  BY <1>1, <1>c DEF confirm, c
<1>8. Sound(x)'
  BY <1>4, <1>5, <1>6, <1>7 DEF EvidenceInv, Sound, Trusted, Admitted
<1>0. PICK t : t = [job |-> "confirm", copy |-> NoItem, result |-> x]
  OBVIOUS
<1>9. t \in Tasks /\ t.copy = NoItem /\ t.result = x /\ t.job = "confirm"
  BY <1>0, <1>6, NoItemIsItem DEF Tasks
<1>10. work' = [work EXCEPT ![h] = t]
  BY <1>0, <1>7
<1>11. Sound(t.copy)' /\ Sound(t.result)'
  BY <1>7, <1>8, <1>9, NoItemIsItem DEF Sound, Trusted, Admitted
<1> QED
  BY <1>7, <1>9, <1>10, <1>11, Works

LEMMA SaveStep ==
  ASSUME EvidenceInv, NEW h \in Handlers, SaveItem(h)
  PROVE  EvidenceInv'
<1>1. /\ item' = work[h].result /\ work' = [work EXCEPT ![h] = Resting]
      /\ announced' \subseteq announced \cup Tells(work[h])
      /\ UNCHANGED <<message, partners, index, draft, backed>>
  BY DEF SaveItem
<1>2. work[h].result \in Items /\ Sound(work[h].result)
  BY HoldsSound
<1>3. "SignalExtracted" \in announced' => Trusted
  BY <1>1 DEF Tells, EvidenceInv
<1>4. /\ work' \in [Handlers -> Tasks] /\ work'[h] = Resting
      /\ \A g \in Handlers \ {h} : work'[g] = work[g]
  BY <1>1, NoItemIsItem DEF EvidenceInv, EvidenceTypes
<1>5. EvidenceTypes'
  BY <1>1, <1>2, <1>4 DEF EvidenceInv, EvidenceTypes
<1>6. \A x : Sound(x) => Sound(x)'
  BY <1>1 DEF Sound, Trusted, Admitted
<1>7. Sound(item)' /\ Sound(index)'
  BY <1>1, <1>2, <1>6 DEF EvidenceInv, Sound, Trusted, Admitted
<1>8. Resting.copy = NoItem /\ Resting.result = NoItem /\ NoItem.status # "ACCEPTED"
  BY NoItemIsItem DEF Resting
<1>9. ASSUME NEW g \in Handlers
      PROVE  /\ Sound(work[g].copy)' /\ Sound(work[g].result)'
             /\ work'[g].job = "extract" /\ work'[g].result.status = "ACCEPTED" => Trusted'
  <2>1. CASE g = h
    BY <1>1, <1>4, <1>8, <2>1, NoItemIsItem DEF Sound, Trusted, Admitted
  <2>2. CASE g # h
    BY <1>1, <1>4, <2>2 DEF EvidenceInv, Sound, Trusted, Admitted
  <2> QED
    BY <2>1, <2>2
<1> QED
  BY <1>1, <1>3, <1>5, <1>7, <1>9 DEF EvidenceInv, Trusted, Admitted

LEMMA StopStep ==
  ASSUME EvidenceInv, NEW h \in Handlers, StopHandler(h)
  PROVE  EvidenceInv'
<1>1. /\ work' = [work EXCEPT ![h] = Resting]
      /\ UNCHANGED <<message, partners, item, index, announced, draft, backed>>
  BY DEF StopHandler
<1>2. Resting.copy = NoItem /\ Resting.result = NoItem /\ NoItem.status # "ACCEPTED"
  BY NoItemIsItem DEF Resting
<1>3. Sound(Resting.copy)' /\ Sound(Resting.result)'
  BY <1>1, <1>2, NoItemIsItem DEF Sound, Trusted, Admitted
<1> QED
  BY <1>1, <1>2, <1>3, NoItemIsItem, Works

LEMMA DraftSteps ==
  ASSUME EvidenceInv,
         Verify \/ (\E i \in 1..2 : Price(i)) \/ (\E q \in Claims : PriceClaimed(q))
  PROVE  EvidenceInv'
<1> DEFINE Drawn(d) == d \in Drafts /\ (d.at # 0 => Trusted /\ d.qty \in backed)
<1>1. UNCHANGED <<message, partners, item, index, announced, work, backed>>
  BY DEF Verify, Price, PriceClaimed
<1>2. Drawn(draft) /\ index \in Items /\ Sound(index)
  BY DEF EvidenceInv, EvidenceTypes
<1>3. PICK d : d = draft'
  OBVIOUS
<1>4. Drawn(d)
  <2>1. ASSUME Verify PROVE Drawn(d)
    BY <1>2, <1>3, <2>1 DEF Verify, Drafts
  <2>2. ASSUME NEW q \in Claims, PriceClaimed(q) PROVE Drawn(d)
    BY <1>3, <2>2 DEF PriceClaimed, Drafts
  <2>3. ASSUME NEW i \in 1..2, Price(i) PROVE Drawn(d)
    <3>1. /\ index.inCase /\ i \in DOMAIN index.fields /\ usable(index.fields[i])
          /\ d = _usable_quantity(i)
      BY <1>3, <2>3 DEF Price, Evident
    <3>2. index.fields[i] \in Field
      BY <1>2, <3>1 DEF Items, FieldLists
    <3>3. index.fields[i].value \in Nat
      BY <3>2 DEF Field
    <3>4. Trusted /\ index.fields[i].value \in backed
      BY <1>2, <3>1 DEF Sound
    <3>5. d.at = i /\ d.qty = index.fields[i].value /\ d \in Drafts
      BY <3>1, <3>3 DEF _usable_quantity, Drafts
    <3> QED
      BY <3>4, <3>5
  <2> QED
    BY <2>1, <2>2, <2>3
<1>5. EvidenceTypes'
  BY <1>1, <1>3, <1>4 DEF EvidenceInv, EvidenceTypes
<1> QED
  BY <1>1, <1>3, <1>4, <1>5, WorldMoves

LEMMA EvidenceStep ==
  ASSUME EvidenceInv, [EvidenceNext]_evidenceVars
  PROVE  EvidenceInv'
<1>1. CASE UNCHANGED evidenceVars
  <2>1. EvidenceTypes'
    BY <1>1 DEF evidenceVars, EvidenceInv, EvidenceTypes
  <2> QED
    BY <1>1, <2>1, WorldMoves DEF evidenceVars, EvidenceInv
<1>2. CASE Propagate \/ Unlist
  <2>1. EvidenceTypes'
    BY <1>2 DEF Propagate, Unlist, EvidenceInv, EvidenceTypes
  <2> QED
    BY <1>2, <2>1, WorldMoves DEF Propagate, Unlist, EvidenceInv
<1>3. ASSUME NEW h \in Handlers, Inspect(h) \/ Extract(h) PROVE EvidenceInv'
  BY <1>3, BeginStep DEF Inspect, Extract
<1> QED
  BY <1>1, <1>2, <1>3, JudgeStep, ReadFieldsStep, AttachStep, ConfirmStep, SaveStep, StopStep,
     DraftSteps DEF EvidenceNext

\* Whatever inspections, extractions and confirmations of one item overlap and save late: what a
\* plan draws from it came from somebody the gatekeeper admits and was confirmed by a planner or SAP.
THEOREM EvidenceStaysSound == EvidenceSpec => []EvidenceIsSound
<1>1. EvidenceInit => EvidenceInv
  BY EvidenceInitHolds
<1>2. EvidenceInv /\ [EvidenceNext]_evidenceVars => EvidenceInv'
  BY EvidenceStep
<1>3. EvidenceInv => EvidenceIsSound
  BY DEF EvidenceInv, EvidenceIsSound, TrustedOnly, UsedIsConfirmed, Sound, Trusted, Admitted
<1> QED
  BY <1>1, <1>2, <1>3, PTL DEF EvidenceSpec

-----------------------------------------------------------------------------
(* Settings *)

Entry == [value : Int, at : Int]
History == Seq(Entry)
Asked == [step : {"none", "put", "record"}, request : Requests \cup {NoCommand.request}, old : Int]

\* What was held or used at time t was its key's value at most d ticks earlier.
Recent(k, v, t, d) == t \in Int /\ t <= now /\ v \in Since(k, t - d)
Slack == (CacheTime - 1) + Lag

SettingsTypes ==
  /\ now \in Int
  /\ puts \in [SettingKeys -> History]
  /\ command \in [Admins -> Asked]
  /\ cache \in [Readers -> [Used -> Entry]]
PutsAreKeyed ==
  \A a \in Admins :
    command[a].step = "put" => command[a].request \in Requests /\ command[a].request.key \in SettingKeys
PutsArePast == \A k \in SettingKeys : \A i \in DOMAIN puts[k] : puts[k][i].at <= now
CacheIsRecent ==
  \A r \in Readers, k \in Used :
    cache[r][k] # NoEntry => Recent(k, cache[r][k].value, cache[r][k].at, Lag)
SeenIsRecent == seen.key \in SettingKeys => Recent(seen.key, seen.value, seen.at, Slack)
SettingsInv ==
  /\ SettingsTypes /\ PutsAreKeyed /\ PutsArePast
  /\ CacheIsRecent /\ SeenIsRecent

LEMMA TimesAreIntegers == Lag \in Int /\ Lag >= 0 /\ Slack \in Int /\ Slack >= Lag /\ CacheTime \in Int
BY TimesAreNumbers DEF Slack

\* An earlier time leaves more choice.
LEMMA EarlierIsMore ==
  ASSUME SettingsTypes, NEW k \in SettingKeys, NEW t \in Int, NEW u \in Int, u <= t
  PROVE  Since(k, t) \subseteq Since(k, u)
<1> DEFINE p == puts[k]
<1>1. p \in History
  BY DEF SettingsTypes
<1>2. /\ Len(p) \in Nat /\ DOMAIN p = 1..Len(p) /\ (p = <<>> <=> Len(p) = 0)
      /\ \A i \in DOMAIN p : p[i] \in Entry
  BY <1>1 DEF History
<1>3. \A i \in DOMAIN p : p[i].at \in Int
  BY <1>2 DEF Entry
<1>4. (p = <<>> \/ p[1].at >= t) => (p = <<>> \/ p[1].at >= u)
  BY <1>2, <1>3
<1>5. ASSUME NEW j \in DOMAIN p, j # Len(p), p[j + 1].at >= t
      PROVE  p[j + 1].at >= u
  <2>1. j + 1 \in DOMAIN p
    BY <1>2, <1>5
  <2>2. PICK n \in Int : n = p[j + 1].at
    BY <1>3, <2>1
  <2> QED
    BY <1>5, <2>2
<1> HIDE DEF p
<1> QED
  BY <1>4, <1>5 DEF Since, p

\* A change made now takes nothing from what a key was since an earlier time.
LEMMA ChangeAddsOnly ==
  ASSUME SettingsTypes, NEW k \in SettingKeys, NEW t \in Int, t <= now, NEW e \in Entry, e.at = now,
         puts'[k] = Append(puts[k], e)
  PROVE  Since(k, t) \subseteq Since(k, t)'
<1>1. PICK p : p = puts[k]
  OBVIOUS
<1>2. PICK q : q = puts'[k]
  OBVIOUS
<1>3. p \in History /\ q = Append(p, e) /\ now \in Int
  BY <1>1, <1>2 DEF SettingsTypes
<1>4. /\ Len(p) \in Nat /\ DOMAIN p = 1..Len(p) /\ (p = <<>> <=> Len(p) = 0)
      /\ Len(q) = Len(p) + 1 /\ DOMAIN q = 1..Len(q) /\ q # <<>>
      /\ q[Len(p) + 1] = e /\ \A i \in DOMAIN p : q[i] = p[i]
  BY <1>3 DEF History
<1>5. (p = <<>> \/ p[1].at >= t) => (q = <<>> \/ q[1].at >= t)
  BY <1>3, <1>4
<1>6. ASSUME NEW j \in DOMAIN p, j = Len(p) \/ p[j + 1].at >= t
      PROVE  j \in DOMAIN q /\ q[j].value = p[j].value /\ (j = Len(q) \/ q[j + 1].at >= t)
  BY <1>3, <1>4, <1>6
<1>7. Since(k, t) = {OrDefault(k, Unset) : i \in {j \in {1} : p = <<>> \/ p[1].at >= t}}
                      \cup {p[i].value : i \in {j \in DOMAIN p : j = Len(p) \/ p[j + 1].at >= t}}
  BY <1>1 DEF Since
<1>8. Since(k, t)' = {OrDefault(k, Unset) : i \in {j \in {1} : q = <<>> \/ q[1].at >= t}}
                       \cup {q[i].value : i \in {j \in DOMAIN q : j = Len(q) \/ q[j + 1].at >= t}}
  BY <1>2 DEF Since, OrDefault
<1> QED
  BY <1>5, <1>6, <1>7, <1>8

\* Whatever a key was is a number.
LEMMA SinceAreNumbers ==
  ASSUME SettingsTypes, NEW k \in SettingKeys, NEW t
  PROVE  Since(k, t) \subseteq Int
<1>1. \A i \in DOMAIN puts[k] : puts[k][i].value \in Int
  <2>1. puts[k] \in History
    BY DEF SettingsTypes
  <2>2. \A i \in DOMAIN puts[k] : puts[k][i] \in Entry
    BY <2>1 DEF History
  <2> QED
    BY <2>2 DEF Entry
<1>2. OrDefault(k, Unset) \in Int
  BY DEF OrDefault, Unset, CONFIG_DEFAULTS
<1> QED
  BY <1>1, <1>2 DEF Since

LEMMA SettingsInitHolds == ASSUME SettingsInit PROVE SettingsInv
<1>1. puts \in [SettingKeys -> History] /\ PutsArePast
  <2>1. <<>> \in History /\ <<[value |-> 1, at |-> 0]>> \in History
    BY DEF History, Entry
  <2>2. /\ now = 0 /\ puts \in [SettingKeys -> History]
        /\ \A k \in SettingKeys : puts[k] \in {<<>>, <<[value |-> 1, at |-> 0]>>}
    BY <2>1 DEF SettingsInit
  <2> QED
    BY <2>2 DEF PutsArePast
<1>2. /\ NoEntry \in Entry /\ NoCommand \in Asked /\ NoCommand.step = "none"
  BY DEF NoEntry, Unset, Entry, NoCommand, Asked
<1>3. /\ cache \in [Readers -> [Used -> Entry]] /\ command \in [Admins -> Asked]
      /\ \A r \in Readers, k \in Used : cache[r][k] = NoEntry
      /\ \A a \in Admins : command[a] = NoCommand
      /\ now = 0 /\ seen.key = "none"
  BY <1>2 DEF SettingsInit
<1>4. "none" \notin SettingKeys
  BY DEF SettingKeys, CONFIG_DEFAULTS, Replaced, Set
<1> QED
  BY <1>1, <1>2, <1>3, <1>4 DEF SettingsInv, SettingsTypes, PutsAreKeyed, CacheIsRecent, SeenIsRecent

\* A command goes on; what was put and read stays.
LEMMA AskStep ==
  ASSUME SettingsInv, NEW a \in Admins, NEW q \in Requests, Ask(a, q)
  PROVE  SettingsInv'
<1>1. PICK c : c = [step |-> "put", request |-> q, old |-> _current(q.key)]
  OBVIOUS
<1>2. command' = [command EXCEPT ![a] = c] /\ UNCHANGED <<now, puts, trail, cache, seen>> /\ Valid(q)
  BY <1>1 DEF Ask
<1>3. q.key \in SettingKeys
  BY <1>2 DEF Valid, set_config, kill_switch, set_rate, set_approver, set_portfolio_input,
              SettingKeys, Numbers, CONFIG_DEFAULTS, Replaced, Set
<1>4. _current(q.key) \in Int
  <2>1. puts[q.key] \in History
    BY <1>3 DEF SettingsInv, SettingsTypes
  <2>2. puts[q.key] # <<>> => Last(puts[q.key]) \in Entry
    BY <2>1 DEF History, Last
  <2>3. puts[q.key] # <<>> => Last(puts[q.key]).value \in Int
    BY <2>2 DEF Entry
  <2> QED
    BY <2>3 DEF _current, OrDefault, Unset, CONFIG_DEFAULTS
<1>5. c \in Asked /\ c.request = q
  BY <1>1, <1>4 DEF Asked
<1>6. /\ command' \in [Admins -> Asked] /\ command'[a] = c
      /\ \A b \in Admins \ {a} : command'[b] = command[b]
  BY <1>2, <1>5 DEF SettingsInv, SettingsTypes
<1>7. PutsAreKeyed'
  BY <1>3, <1>5, <1>6 DEF SettingsInv, PutsAreKeyed
<1> QED
  BY <1>2, <1>6, <1>7 DEF SettingsInv, SettingsTypes, PutsArePast, CacheIsRecent, SeenIsRecent,
                          Recent, Since

LEMMA RecordSteps ==
  ASSUME SettingsInv, NEW a \in Admins, Record(a) \/ StopCommand(a)
  PROVE  SettingsInv'
<1>1. command' = [command EXCEPT ![a] = NoCommand] /\ UNCHANGED <<now, puts, cache, seen>>
  BY DEF Record, StopCommand
<1>2. NoCommand \in Asked /\ NoCommand.step = "none"
  BY DEF NoCommand, Asked, Unset
<1>3. /\ command' \in [Admins -> Asked] /\ command'[a] = NoCommand
      /\ \A b \in Admins \ {a} : command'[b] = command[b]
  BY <1>1, <1>2 DEF SettingsInv, SettingsTypes
<1>4. PutsAreKeyed'
  BY <1>2, <1>3 DEF SettingsInv, PutsAreKeyed
<1> QED
  BY <1>1, <1>3, <1>4 DEF SettingsInv, SettingsTypes, PutsArePast, CacheIsRecent, SeenIsRecent,
                          Recent, Since

LEMMA PutStep ==
  ASSUME SettingsInv, NEW a \in Admins, Put(a)
  PROVE  SettingsInv'
<1>1. PICK key : key = command[a].request.key
  OBVIOUS
<1>2. PICK e : e = [value |-> command[a].request.value, at |-> now]
  OBVIOUS
<1>3. key \in SettingKeys /\ e \in Entry /\ e.at = now /\ now \in Int
  BY <1>1, <1>2, ValuesAreNumbers DEF Put, SettingsInv, SettingsTypes, PutsAreKeyed, Entry
<1>4. /\ puts' = [puts EXCEPT ![key] = Append(puts[key], e)]
      /\ command' = [command EXCEPT ![a].step = "record"]
      /\ UNCHANGED <<now, cache, seen>>
  BY <1>1, <1>2 DEF Put
<1>5. Append(puts[key], e) \in History
  BY <1>3 DEF SettingsInv, SettingsTypes, History
<1>6. /\ puts' \in [SettingKeys -> History] /\ puts'[key] = Append(puts[key], e)
      /\ \A k \in SettingKeys \ {key} : puts'[k] = puts[k]
  BY <1>3, <1>4, <1>5 DEF SettingsInv, SettingsTypes
<1>7. PutsArePast'
  <2> SUFFICES ASSUME NEW k \in SettingKeys, NEW i \in DOMAIN puts'[k]
               PROVE  puts'[k][i].at <= now
    BY <1>4 DEF PutsArePast
  <2>1. CASE k # key
    BY <1>6, <2>1 DEF SettingsInv, PutsArePast
  <2>2. CASE k = key
    <3>1. puts[key] \in Seq(Entry)
      BY <1>3 DEF SettingsInv, SettingsTypes, History
    <3>2. puts'[k][i] = e \/ (i \in DOMAIN puts[key] /\ puts'[k][i] = puts[key][i])
      BY <1>6, <2>2, <3>1
    <3> QED
      BY <1>3, <3>2 DEF SettingsInv, PutsArePast
  <2> QED
    BY <2>1, <2>2
<1>8. /\ command' \in [Admins -> Asked] /\ PutsAreKeyed'
  <2>1. PICK c : c = [command[a] EXCEPT !.step = "record"]
    OBVIOUS
  <2>2. c \in Asked /\ c.step = "record"
    BY <2>1 DEF SettingsInv, SettingsTypes, Asked
  <2>3. /\ command' \in [Admins -> Asked] /\ command'[a] = c
        /\ \A b \in Admins \ {a} : command'[b] = command[b]
    BY <1>4, <2>1, <2>2 DEF SettingsInv, SettingsTypes
  <2> QED
    BY <2>2, <2>3 DEF SettingsInv, PutsAreKeyed
<1>9. ASSUME NEW k \in SettingKeys, NEW v, NEW t, NEW d \in Int, d >= 0, Recent(k, v, t, d)
      PROVE  Recent(k, v, t, d)'
  <2>1. t \in Int /\ t - d \in Int /\ t - d <= now /\ v \in Since(k, t - d) /\ t <= now
    BY <1>3, <1>9 DEF Recent
  <2>2. v \in Since(k, t - d)'
    <3>1. CASE k = key
      BY <1>3, <1>6, <2>1, <3>1, ChangeAddsOnly DEF SettingsInv
    <3>2. CASE k # key
      BY <1>6, <2>1, <3>2 DEF Since
    <3> QED
      BY <3>1, <3>2
  <2> QED
    BY <1>4, <2>1, <2>2 DEF Recent
<1>10. CacheIsRecent' /\ SeenIsRecent'
  <2>1. \A r \in Readers, k \in Used : k \in SettingKeys
    BY UsedAreSettings
  <2>2. CacheIsRecent'
    BY <1>4, <1>9, <2>1, TimesAreIntegers DEF SettingsInv, CacheIsRecent
  <2>3. SeenIsRecent'
    BY <1>4, <1>9, TimesAreIntegers DEF SettingsInv, SeenIsRecent
  <2> QED
    BY <2>2, <2>3
<1> QED
  BY <1>4, <1>6, <1>7, <1>8, <1>10 DEF SettingsInv, SettingsTypes

LEMMA GetStep ==
  ASSUME SettingsInv, NEW r \in Readers, NEW k \in Used, Get(r, k)
  PROVE  SettingsInv'
<1>1. k \in SettingKeys /\ now \in Int /\ UNCHANGED <<now, puts, command>>
  BY UsedAreSettings DEF SettingsInv, SettingsTypes, Get
<1>2. \A j, v, t, d : Recent(j, v, t, d) => Recent(j, v, t, d)'
  BY <1>1 DEF Recent, Since
<1>3. cache[r][k] \in Entry
  BY DEF SettingsInv, SettingsTypes
<1>4. CASE Hit(r, k) /\ seen' = [key |-> k, value |-> cache[r][k].value, at |-> now]
  <2>1. /\ cache[r][k].at \in Int /\ cache[r][k].at <= now /\ now - cache[r][k].at < CacheTime
        /\ cache[r][k].value \in Since(k, cache[r][k].at - Lag) /\ cache' = cache
    BY <1>4 DEF Hit, Fresh, SettingsInv, CacheIsRecent, Recent
  <2>2. now - Slack <= cache[r][k].at - Lag /\ now - Slack \in Int /\ cache[r][k].at - Lag \in Int
    BY <1>1, <2>1, TimesAreNumbers DEF Slack
  <2>3. Recent(k, cache[r][k].value, now, Slack)
    BY <1>1, <2>1, <2>2, EarlierIsMore DEF Recent, SettingsInv
  <2>4. SeenIsRecent'
    BY <1>1, <1>2, <1>4, <2>3 DEF SeenIsRecent
  <2> QED
    BY <1>1, <1>2, <2>1, <2>4 DEF SettingsInv, SettingsTypes, PutsAreKeyed, PutsArePast, CacheIsRecent
<1>5. ASSUME ~Fresh(r, k), NEW v \in Since(k, now - Lag), Keeps(r, k, v),
             seen' = [key |-> k, value |-> v, at |-> now]
      PROVE  SettingsInv'
  <2>1. v \in Int
    BY <1>1, <1>5, SinceAreNumbers DEF SettingsInv
  <2>2. Recent(k, v, now, Lag) /\ Recent(k, v, now, Slack)
    <3>1. now - Lag \in Int /\ now - Slack \in Int /\ now - Slack <= now - Lag
      BY <1>1, TimesAreIntegers
    <3> QED
      BY <1>1, <1>5, <3>1, EarlierIsMore DEF Recent, SettingsInv
  <2>3. PICK e : e = [value |-> v, at |-> now]
    OBVIOUS
  <2>4. e \in Entry /\ e.value = v /\ e.at = now
    BY <1>1, <2>1, <2>3 DEF Entry
  <2>5. cache' = [cache EXCEPT ![r][k] = e]
    BY <1>5, <2>3 DEF Keeps
  <2>6. /\ cache' \in [Readers -> [Used -> Entry]] /\ cache'[r][k] = e
        /\ \A s \in Readers, j \in Used : <<s, j>> # <<r, k>> => cache'[s][j] = cache[s][j]
    BY <2>4, <2>5 DEF SettingsInv, SettingsTypes
  <2>7. CacheIsRecent'
    <3> SUFFICES ASSUME NEW s \in Readers, NEW j \in Used, cache'[s][j] # NoEntry
                 PROVE  Recent(j, cache[s][j].value, cache[s][j].at, Lag)'
      BY DEF CacheIsRecent
    <3>1. CASE s = r /\ j = k
      BY <1>2, <2>2, <2>4, <2>6, <3>1
    <3>2. CASE ~(s = r /\ j = k)
      BY <1>2, <2>6, <3>2 DEF SettingsInv, CacheIsRecent
    <3> QED
      BY <3>1, <3>2
  <2>8. SeenIsRecent'
    BY <1>1, <1>2, <1>5, <2>2 DEF SeenIsRecent
  <2> QED
    BY <1>1, <2>6, <2>7, <2>8 DEF SettingsInv, SettingsTypes, PutsAreKeyed, PutsArePast
<1> QED
  BY <1>4, <1>5 DEF Get

LEMMA TickStep ==
  ASSUME SettingsInv, Tick \/ UNCHANGED settingsVars
  PROVE  SettingsInv'
<1>1. /\ now' \in Int /\ now <= now' /\ now \in Int /\ UNCHANGED <<puts, command, cache, seen>>
  BY DEF Tick, SettingsInv, SettingsTypes, settingsVars
<1>2. \A j, v, t, d : Recent(j, v, t, d) => Recent(j, v, t, d)'
  BY <1>1 DEF Recent, Since
<1>3. PutsArePast'
  <2> SUFFICES ASSUME NEW k \in SettingKeys, NEW i \in DOMAIN puts[k] PROVE puts[k][i].at <= now'
    BY <1>1 DEF PutsArePast
  <2>1. puts[k] \in History
    BY DEF SettingsInv, SettingsTypes
  <2>2. puts[k][i] \in Entry
    BY <2>1 DEF History
  <2>3. puts[k][i].at \in Int /\ puts[k][i].at <= now
    BY <2>2 DEF Entry, SettingsInv, PutsArePast
  <2> QED
    BY <1>1, <2>3
<1> QED
  BY <1>1, <1>2, <1>3 DEF SettingsInv, SettingsTypes, PutsAreKeyed, CacheIsRecent, SeenIsRecent

\* What a service uses of a setting was the setting's value less than the cache's time and one read
\* ago, whoever changes it and however reads and changes overlap (config.py).
THEOREM SettingsAreSeen == SettingsSpec => []SeenInTime
<1>1. SettingsInit => SettingsInv
  BY SettingsInitHolds
<1>2. SettingsInv /\ [SettingsNext]_settingsVars => SettingsInv'
  BY AskStep, RecordSteps, PutStep, GetStep, TickStep DEF SettingsNext
<1>3. SettingsInv => SeenInTime
  <2> SUFFICES ASSUME SettingsInv, seen.key \in DOMAIN CONFIG_DEFAULTS
               PROVE  seen.value \in Since(seen.key, seen.at - (CacheTime - 1) - Lag)
    BY DEF SeenInTime
  <2>1. Recent(seen.key, seen.value, seen.at, Slack)
    BY DEF SettingsInv, SeenIsRecent, SettingKeys
  <2>2. seen.at - Slack = seen.at - (CacheTime - 1) - Lag
    BY <2>1, TimesAreNumbers DEF Recent, Slack
  <2> QED
    BY <2>1, <2>2 DEF Recent
<1> QED
  BY <1>1, <1>2, <1>3, PTL DEF SettingsSpec

-----------------------------------------------------------------------------
(* The SAP boundary *)

Writing == {"prepare", "apply", "reread", "verify"}
Undoing == {"check", "again", "unwrite", "recheck"}
Jobs == [kind : Actions, op : Writing \cup Undoing \cup Ended, i : {1, 2}, tries : Nat,
         refetched : BOOLEAN, pending : BOOLEAN]
Lines == [qty : Int, due : {"none", "old", "new", "theirs", "deleted"}, etag : Nat]

SapTypes ==
  /\ job \in Jobs /\ job.i \in Steps(job.kind)
  /\ lines \in [{1, 2} -> Lines] /\ undo \in [{1, 2} -> Lines]
  /\ etag \in Nat /\ stamps \in Nat /\ created \in Nat /\ edits \in Nat
  /\ unread \subseteq {1, 2} /\ overwritten \in BOOLEAN

\* SAP never gives an etag out twice.
StampsGrow ==
  /\ \A l \in {1, 2} : lines[l].etag <= stamps /\ undo[l].etag <= stamps
  /\ etag <= stamps

\* Until the action's create has been sent for the last time, it has not been carried out.
ToCreate(j) == j.op \in {"prepare", "apply"}
                 \/ (j.kind = "SPLIT" /\ j.i = 1 /\ j.op \in {"reread", "verify"})
CreateIsAhead == created <= 1 /\ (ToCreate(job) => created = 0)

\* What others changed since carries a younger etag than the one a write is conditioned on.
UnreadIsYounger ==
  /\ 1 \in unread => lines[1].etag > undo[1].etag
  /\ job.kind # "SPLIT" /\ job.op \in {"again", "unwrite"} /\ 1 \in unread => lines[1].etag > etag
NothingIsOverwritten == overwritten => job.kind = "SPLIT" /\ job.op \notin Writing

\* The second line of a split is there only while the action is at it.
SecondLine ==
  /\ job.kind # "SPLIT" => lines[2] = Absent
  /\ \/ lines[2] = Absent
     \/ job.i = 2 /\ job.op \in Undoing \cup {"verify"}
     \/ job.op \in {"done", "failed"}
     \/ job.pending

\* A verified write stays as it is if nobody else writes, and a verified undo is what there was.
Verified ==
  /\ edits = 0 /\ job.i = 2 /\ job.op \in Writing \ {"prepare"} => Shows(lines[1], Planned(job.kind, 1))
  /\ edits = 0 /\ job.op = "done" => \A l \in Steps(job.kind) : Shows(lines[l], Planned(job.kind, l))
  /\ job.op = "undone" => Shows(lines[1], Restored(job.kind, 1))
  /\ job.op \in Undoing \cup {"undone", "reread"} => job.kind # "ALTERNATE"
  /\ edits = 0 /\ job.kind = "ALTERNATE" /\ job.op = "verify" => Shows(lines[1], Planned("ALTERNATE", 1))

SapInv ==
  /\ SapTypes /\ StampsGrow /\ CreateIsAhead /\ UnreadIsYounger /\ NothingIsOverwritten
  /\ SecondLine /\ Verified

-----------------------------------------------------------------------------
(* Requests and where they leave the job *)

SapOps == Writing \cup Undoing \cup Ended

LEMMA AbsentIsLine == Absent \in Lines /\ Absent.etag = 0
BY DEF Absent, Lines

LEMMA ToFields ==
  ASSUME NEW j \in Jobs, NEW op \in SapOps, NEW i \in {1, 2}
  PROVE  /\ To(j, op, i) \in Jobs /\ To(j, op, i).kind = j.kind /\ To(j, op, i).op = op
         /\ To(j, op, i).i = i /\ To(j, op, i).pending = j.pending
<1>1. PICK a : a = [j EXCEPT !.op = op, !.i = i]
  OBVIOUS
<1>2. a \in Jobs /\ a.kind = j.kind /\ a.op = op /\ a.i = i /\ a.pending = j.pending
  BY <1>1 DEF Jobs, SapOps
<1>3. PICK b : b = [a EXCEPT !.tries = 1, !.refetched = FALSE]
  OBVIOUS
<1>4. b \in Jobs /\ b.kind = a.kind /\ b.op = a.op /\ b.i = a.i /\ b.pending = a.pending
  BY <1>2, <1>3 DEF Jobs
<1>5. To(j, op, i) = b
  BY <1>1, <1>3 DEF To, Jobs
<1> QED
  BY <1>2, <1>4, <1>5

\* Where a failure leaves the job.
Failing(j, k) ==
  /\ k \in Jobs /\ k.kind = j.kind /\ k.i \in Steps(k.kind)
  /\ \/ k.op = "failed"
     \/ /\ k.op = "check" /\ k.kind # "ALTERNATE"
        /\ \/ k.pending
           \/ j.op = "verify" /\ k.i = j.i /\ k.pending = j.pending

LEMMA FailFields ==
  ASSUME NEW j \in Jobs, j.i \in Steps(j.kind)
  PROVE  Failing(j, Fail(j))
<1>1. j.kind = "SPLIT" \/ j.i = 1
  BY DEF Steps
<1>2. 1 \in Steps(j.kind) /\ "failed" \in SapOps /\ "check" \in SapOps
  BY DEF Steps, SapOps, Ended, Undoing
<1>3. CASE j.op \in {"apply", "reread"}
  <2>1. PICK t : t = To(j, IF j.i = 1 THEN "failed" ELSE "check", 1)
    OBVIOUS
  <2>2. t \in Jobs /\ t.kind = j.kind /\ t.i = 1 /\ t.op = IF j.i = 1 THEN "failed" ELSE "check"
    BY <1>2, <2>1, ToFields
  <2>3. Fail(j) = [t EXCEPT !.pending = TRUE]
    BY <1>3, <2>1 DEF Fail
  <2>4. Fail(j) \in Jobs /\ Fail(j).kind = j.kind /\ Fail(j).i = 1 /\ Fail(j).op = t.op /\ Fail(j).pending
    BY <2>2, <2>3 DEF Jobs
  <2> QED
    BY <1>1, <1>2, <2>2, <2>4 DEF Failing
<1>4. CASE j.op = "verify"
  <2>1. j.i \in {1, 2}
    BY DEF Jobs
  <2>2. Fail(j) = IF j.kind = "ALTERNATE" THEN To(j, "failed", 1) ELSE To(j, "check", j.i)
    BY <1>4 DEF Fail
  <2>3. CASE j.kind = "ALTERNATE"
    <3>1. PICK k : k = To(j, "failed", 1)
      OBVIOUS
    <3>2. k \in Jobs /\ k.kind = j.kind /\ k.i = 1 /\ k.op = "failed"
      BY <1>2, <3>1, ToFields
    <3> QED
      BY <1>2, <2>2, <2>3, <3>1, <3>2 DEF Failing
  <2>4. CASE j.kind # "ALTERNATE"
    <3>1. PICK k : k = To(j, "check", j.i)
      OBVIOUS
    <3>2. k \in Jobs /\ k.kind = j.kind /\ k.i = j.i /\ k.op = "check" /\ k.pending = j.pending
      BY <1>2, <2>1, <3>1, ToFields
    <3> QED
      BY <1>4, <2>2, <2>4, <3>1, <3>2 DEF Failing
  <2> QED
    BY <2>3, <2>4
<1>5. CASE j.op \notin {"apply", "reread", "verify"}
  <2>1. Fail(j) = To(j, "failed", 1)
    BY <1>5 DEF Fail
  <2>2. PICK k : k = To(j, "failed", 1)
    OBVIOUS
  <2>3. k \in Jobs /\ k.kind = j.kind /\ k.i = 1 /\ k.op = "failed"
    BY <1>2, <2>2, ToFields
  <2> QED
    BY <1>2, <2>1, <2>2, <2>3 DEF Failing
<1> QED
  BY <1>3, <1>4, <1>5

\* The job as it was, but for its tries and its token.
Same(j, k) ==
  k \in Jobs /\ k.kind = j.kind /\ k.op = j.op /\ k.i = j.i /\ k.pending = j.pending

LEMMA RepeatFields ==
  ASSUME NEW j \in Jobs, j.i \in Steps(j.kind)
  PROVE  Same(j, Repeat(j)) \/ Failing(j, Repeat(j))
<1>1. Same(j, [j EXCEPT !.tries = @ + 1])
  BY DEF Same, Jobs
<1> QED
  BY <1>1, FailFields DEF Repeat

\* What a request does if SAP carries it out.
Nothing ==
  /\ UNCHANGED <<lines, stamps, created, overwritten>>
  /\ unread' \subseteq unread /\ (job.op \in {"prepare", "check"} => job.i \notin unread')
Written(new) ==
  /\ new \in Lines /\ (new = Absent \/ new.etag = stamps + 1)
  /\ lines' = [lines EXCEPT ![job.i] = new]
  /\ stamps' = stamps + 1 /\ unread' = unread \ {job.i}
Made(new) ==
  /\ Written(new) /\ Creates(job) /\ new # Absent
  /\ created' = created + 1 /\ overwritten' = overwritten
Changed(new) ==
  /\ Written(new) /\ created' = created
  /\ overwritten' = (overwritten \/ job.i \in unread)
  /\ ~Creates(job) /\ Method(job) # "POST"
  /\ \/ job.i = 1 /\ job.op \in {"apply", "unwrite"} /\ lines[1].etag = IfMatch(job) /\ new # Absent
     \/ job.i = 2 /\ job.op = "unwrite" /\ job.kind = "SPLIT" /\ new = Absent

LEMMA Carried ==
  ASSUME SapTypes, Carries(job), Method(job) # "none"
  PROVE  Nothing \/ \E new \in Lines : Made(new) \/ Changed(new)
<1> DEFINE new == IF Method(job) = "DELETE" THEN Absent ELSE Stamped(Body(job))
<1>1. CASE ~(Reply(job) \in {200, 201} /\ Method(job) # "GET")
  BY <1>1 DEF Carries, Nothing
<1>2. CASE Reply(job) \in {200, 201} /\ Method(job) # "GET"
  <2>1. /\ job \in Jobs /\ job.i \in {1, 2} /\ (job.kind = "SPLIT" \/ job.i = 1)
        /\ undo \in [{1, 2} -> Lines] /\ lines \in [{1, 2} -> Lines] /\ stamps \in Nat
    BY DEF SapTypes, Jobs, Steps
  <2>2. /\ job.op \in {"apply", "unwrite"}
        /\ job.op = "unwrite" \/ job.op = "apply"
    BY <1>2 DEF Method, Creates
  <2>3. Planned(job.kind, job.i).qty \in Int /\ Planned(job.kind, job.i).due = "new"
    BY <2>1 DEF Planned, Part, Whole
  <2>4. /\ Restored(job.kind, job.i).qty \in Int
        /\ Restored(job.kind, job.i).due \in {"none", "old", "new", "theirs", "deleted"}
    BY <2>1 DEF Restored, Whole, Lines
  <2>5. Body(job).qty \in Int /\ Body(job).due \in {"none", "old", "new", "theirs", "deleted"}
    BY <2>3, <2>4 DEF Body
  <2>6. Stamped(Body(job)) \in Lines /\ Stamped(Body(job)).etag = stamps + 1 /\ Stamped(Body(job)) # Absent
    BY <2>1, <2>5, AbsentIsLine DEF Stamped, Lines
  <2>7. new \in Lines /\ Written(new)
    BY <1>2, <2>6, AbsentIsLine DEF Carries, Written
  <2>8. CASE Creates(job)
    <3>1. Method(job) = "POST"
      BY <2>8 DEF Method, Creates
    <3>2. created' = created + 1 /\ overwritten' = overwritten
      BY <1>2, <3>1 DEF Carries, SapTypes
    <3>3. new # Absent
      BY <2>6, <3>1
    <3> QED
      BY <2>7, <2>8, <3>2, <3>3 DEF Made
  <2>9. CASE ~Creates(job)
    <3>1. /\ Method(job) = IF job.op = "unwrite" /\ job.kind = "SPLIT" /\ job.i = 2
                           THEN "DELETE" ELSE "PATCH"
      BY <2>2, <2>9 DEF Method, Creates
    <3>2. created' = created /\ overwritten' = (overwritten \/ job.i \in unread)
      BY <1>2, <3>1 DEF Carries, SapTypes
    <3>3. lines[job.i].etag = IfMatch(job)
      BY <1>2, <2>9, <3>1 DEF Reply
    <3>4. job.i = 2 => job.op = "unwrite" /\ job.kind = "SPLIT"
      BY <2>1, <2>2, <2>9 DEF Creates
    <3> QED
      BY <2>1, <2>2, <2>6, <2>7, <2>9, <3>1, <3>2, <3>3, <3>4 DEF Changed
  <2> QED
    BY <2>8, <2>9
<1> QED
  BY <1>1, <1>2

\* Where an answer takes the job.
LEMMA NextFields ==
  ASSUME NEW j \in Jobs, j.i \in Steps(j.kind), NEW k, k = NextOp(j), Method(j) # "none"
  PROVE  /\ k \in Jobs /\ k.kind = j.kind /\ k.pending = j.pending /\ k.i \in Steps(j.kind)
         /\ j.op = "prepare" => \/ k.op = "prepare" /\ k.i = 2 /\ j.kind = "SPLIT"
                                \/ k.op = "apply" /\ k.i = 1
         /\ j.op = "apply" => k.op = (IF Creates(j) THEN "verify" ELSE "reread") /\ k.i = j.i
         /\ j.op = "reread" => k.op = "verify" /\ k.i = j.i
         /\ j.op = "verify" => \/ k.op = "apply" /\ k.i = 2 /\ j.i = 1 /\ j.kind = "SPLIT"
                               \/ k.op = "done" /\ k.i = 1 /\ (j.i = 2 \/ j.kind # "SPLIT")
         /\ j.op \in {"check", "again"} => k.op \in {"again", "unwrite"} /\ k.i = j.i
         /\ j.op = "unwrite" => k.op = "recheck" /\ k.i = j.i
         /\ j.op = "recheck" => \/ k.op = "check" /\ k.i = 1 /\ j.i = 2
                                \/ k.op = "undone" /\ k.i = 1 /\ j.i = 1
         /\ j.op \in Writing \cup Undoing
<1>1. /\ j.i \in {1, 2} /\ 1 \in Steps(j.kind) /\ (2 \in Steps(j.kind) <=> j.kind = "SPLIT")
      /\ j.i + 1 \in Steps(j.kind) <=> j.i = 1 /\ j.kind = "SPLIT"
  BY DEF Jobs, Steps
<1>2. ASSUME NEW op \in SapOps, NEW i \in {1, 2}, k = To(j, op, i)
      PROVE  k \in Jobs /\ k.kind = j.kind /\ k.pending = j.pending /\ k.op = op /\ k.i = i
  BY <1>2, ToFields
<1>3. j.op \in Writing \cup Undoing
  BY DEF Method, Creates, Writing, Undoing
<1>4. {"prepare", "apply", "reread", "verify", "done", "undone"} \cup Undoing \subseteq SapOps
  BY DEF SapOps, Writing, Ended
<1>5. CASE j.op = "prepare"
  <2>1. CASE j.i + 1 \in Steps(j.kind)
    <3>1. k = To(j, "prepare", 2)
      BY <1>5, <2>1 DEF NextOp
    <3> QED
      BY <1>1, <1>2, <1>3, <1>4, <1>5, <2>1, <3>1
  <2>2. CASE j.i + 1 \notin Steps(j.kind)
    <3>1. k = To(j, "apply", 1)
      BY <1>5, <2>2 DEF NextOp
    <3> QED
      BY <1>1, <1>2, <1>3, <1>4, <1>5, <3>1
  <2> QED
    BY <2>1, <2>2
<1>6. CASE j.op = "apply"
  <2>1. k = To(j, IF Creates(j) THEN "verify" ELSE "reread", j.i)
    BY <1>6 DEF NextOp
  <2> QED
    BY <1>1, <1>2, <1>3, <1>4, <1>6, <2>1
<1>7. CASE j.op = "reread"
  <2>1. k = To(j, "verify", j.i)
    BY <1>7 DEF NextOp
  <2> QED
    BY <1>1, <1>2, <1>3, <1>4, <1>7, <2>1
<1>8. CASE j.op = "verify"
  <2>1. CASE j.i + 1 \in Steps(j.kind)
    <3>1. k = To(j, "apply", 2)
      BY <1>8, <2>1 DEF NextOp
    <3> QED
      BY <1>1, <1>2, <1>3, <1>4, <1>8, <2>1, <3>1
  <2>2. CASE j.i + 1 \notin Steps(j.kind)
    <3>1. k = To(j, "done", 1)
      BY <1>8, <2>2 DEF NextOp
    <3> QED
      BY <1>1, <1>2, <1>3, <1>4, <1>8, <2>2, <3>1
  <2> QED
    BY <2>1, <2>2
<1>9. CASE j.op \in {"check", "again"}
  <2>1. PICK op \in {"again", "unwrite"} : k = To(j, op, j.i)
    BY <1>9 DEF NextOp
  <2>2. op \in SapOps
    BY DEF SapOps, Undoing
  <2> QED
    BY <1>1, <1>2, <1>3, <1>9, <2>1, <2>2
<1>10. CASE j.op = "unwrite"
  <2>1. k = To(j, "recheck", j.i) /\ "recheck" \in SapOps
    BY <1>10 DEF NextOp, SapOps, Undoing
  <2> QED
    BY <1>1, <1>2, <1>3, <1>10, <2>1
<1>11. CASE j.op = "recheck"
  <2>1. k = (IF j.i = 2 THEN To(j, "check", 1) ELSE To(j, "undone", 1)) /\ "check" \in SapOps
    BY <1>11 DEF NextOp, SapOps, Undoing
  <2>2. CASE j.i = 2
    BY <1>1, <1>2, <1>3, <1>11, <2>1, <2>2
  <2>3. CASE j.i = 1
    BY <1>1, <1>2, <1>3, <1>4, <1>11, <2>1, <2>3
  <2> QED
    BY <1>1, <2>2, <2>3
<1> QED
  BY <1>3, <1>5, <1>6, <1>7, <1>8, <1>9, <1>10, <1>11 DEF Writing, Undoing

\* What holds of SAP and of what the job has read, wherever it goes next.
SapWorld(kind) ==
  /\ lines \in [{1, 2} -> Lines] /\ undo \in [{1, 2} -> Lines]
  /\ etag \in Nat /\ stamps \in Nat /\ created \in Nat /\ edits \in Nat
  /\ unread \subseteq {1, 2} /\ overwritten \in BOOLEAN
  /\ StampsGrow /\ created <= 1
  /\ 1 \in unread => lines[1].etag > undo[1].etag
  /\ overwritten => kind = "SPLIT"
  /\ kind # "SPLIT" => lines[2] = Absent

Remembers ==
  /\ UNCHANGED undo \/ (job.op = "prepare" /\ undo' = [undo EXCEPT ![job.i] = lines[job.i]])
  /\ etag' \in {etag, lines[job.i].etag} /\ edits' = edits

\* A request keeps it: a create is the first, and an update finds the etag its job has judged.
LEMMA RequestsKeepWorld ==
  ASSUME SapInv, Carries(job), Method(job) # "none", Remembers, NEW kind, kind = job.kind
  PROVE  SapWorld(kind)'
<1>1. /\ job \in Jobs /\ job.i \in {1, 2} /\ (kind = "SPLIT" \/ job.i = 1)
      /\ undo \in [{1, 2} -> Lines] /\ lines \in [{1, 2} -> Lines] /\ stamps \in Nat
      /\ etag \in Nat /\ stamps \in Nat /\ created \in Nat /\ edits \in Nat
      /\ unread \subseteq {1, 2} /\ overwritten \in BOOLEAN
      /\ StampsGrow /\ (kind # "SPLIT" => lines[2] = Absent)
  BY DEF SapInv, SapTypes, Jobs, Steps, SecondLine
<1>2. /\ lines[1].etag \in Nat /\ lines[2].etag \in Nat /\ undo[1].etag \in Nat /\ undo[2].etag \in Nat
      /\ lines[1].etag <= stamps /\ lines[2].etag <= stamps
      /\ undo[1].etag <= stamps /\ undo[2].etag <= stamps /\ etag <= stamps
  BY <1>1 DEF Lines, StampsGrow
<1>3. /\ undo' \in [{1, 2} -> Lines] /\ etag' \in Nat /\ etag' <= stamps /\ edits' = edits
      /\ undo'[1].etag <= stamps /\ undo'[2].etag <= stamps
      /\ undo'[1].etag \in Nat /\ undo'[2].etag \in Nat
      /\ undo'[1] = undo[1] \/ (job.op = "prepare" /\ job.i = 1)
  <2>1. etag' \in Nat /\ etag' <= stamps /\ edits' = edits
    BY <1>1, <1>2 DEF Remembers
  <2>2. CASE UNCHANGED undo
    BY <1>1, <1>2, <2>1, <2>2
  <2>3. CASE job.op = "prepare" /\ undo' = [undo EXCEPT ![job.i] = lines[job.i]]
    BY <1>1, <1>2, <2>1, <2>3
  <2> QED
    BY <2>1, <2>2, <2>3 DEF Remembers
<1>4. created <= 1 /\ (1 \in unread => lines[1].etag > undo[1].etag) /\ (overwritten => kind = "SPLIT")
  BY DEF SapInv, CreateIsAhead, UnreadIsYounger, NothingIsOverwritten
<1>5. CASE Nothing
  <2>1. 1 \in unread' => 1 \in unread /\ undo'[1] = undo[1]
    BY <1>3, <1>5 DEF Nothing
  <2> QED
    BY <1>1, <1>2, <1>3, <1>4, <1>5, <2>1 DEF SapWorld, Nothing, StampsGrow
<1>6. ASSUME NEW new \in Lines, Made(new) \/ Changed(new) PROVE SapWorld(kind)'
  <2>1. /\ lines' \in [{1, 2} -> Lines] /\ lines'[job.i] = new
        /\ \A l \in {1, 2} \ {job.i} : lines'[l] = lines[l]
        /\ stamps' = stamps + 1 /\ unread' = unread \ {job.i}
        /\ new.etag \in Nat /\ new.etag <= stamps + 1
    BY <1>1, <1>6, AbsentIsLine DEF Made, Changed, Written, Lines
  <2>2. StampsGrow'
    <3>1. lines'[1].etag <= stamps + 1 /\ lines'[2].etag <= stamps + 1
      BY <1>1, <1>2, <2>1
    <3>2. undo'[1].etag <= stamps + 1 /\ undo'[2].etag <= stamps + 1 /\ etag' <= stamps + 1
      BY <1>1, <1>3
    <3> QED
      BY <2>1, <3>1, <3>2 DEF StampsGrow
  <2>3. job.op # "prepare"
    BY <1>6 DEF Made, Changed, Creates
  <2>4. 1 \in unread' => lines'[1].etag > undo'[1].etag
    BY <1>1, <1>3, <1>4, <2>1, <2>3
  <2>5. created' \in Nat /\ created' <= 1
    <3>1. CASE Made(new)
      <4>1. created = 0
        BY <3>1 DEF Made, Creates, SapInv, CreateIsAhead, ToCreate
      <4> QED
        BY <3>1, <4>1 DEF Made
    <3>2. CASE Changed(new)
      BY <1>1, <1>4, <3>2 DEF Changed
    <3> QED
      BY <1>6, <3>1, <3>2
  <2>6. overwritten' \in BOOLEAN /\ (overwritten' => kind = "SPLIT")
    <3>1. CASE Made(new)
      BY <1>1, <1>4, <3>1 DEF Made
    <3>2. CASE Changed(new) /\ job.i = 2
      BY <1>1, <3>2 DEF Changed
    <3>3. CASE Changed(new) /\ job.i = 1
      <4>1. 1 \in unread => lines[1].etag # undo[1].etag
        BY <1>2, <1>4
      <4>2. 1 \in unread /\ kind # "SPLIT" /\ job.op = "unwrite" => lines[1].etag # etag
        BY <1>1, <1>2 DEF SapInv, UnreadIsYounger
      <4>3. lines[1].etag = (IF job.op = "apply" THEN undo[1].etag ELSE etag)
            /\ job.op \in {"apply", "unwrite"}
        BY <3>3 DEF Changed, IfMatch
      <4> QED
        BY <1>1, <1>4, <3>3, <4>1, <4>2, <4>3 DEF Changed
    <3> QED
      BY <1>1, <1>6, <3>1, <3>2, <3>3
  <2>7. kind # "SPLIT" => lines'[2] = Absent
    BY <1>1, <2>1
  <2>8. stamps' \in Nat /\ unread' \subseteq {1, 2} /\ edits' \in Nat
    <3>1. stamps' \in Nat
      BY <1>1, <2>1
    <3>2. unread' \subseteq unread
      BY <2>1
    <3>3. edits' \in Nat
      BY <1>1, <1>3
    <3> QED
      BY <1>1, <3>1, <3>2, <3>3
  <2> QED
    BY <1>3, <2>1, <2>2, <2>4, <2>5, <2>6, <2>7, <2>8 DEF SapWorld
<1>7. SapTypes
  BY DEF SapInv
<1> QED
  BY <1>5, <1>6, <1>7, Carried

\* An exception ends the job, or begins to compensate.
LEMMA FailStep ==
  ASSUME SapInv, Failing(job, job'), SapWorld(job.kind)',
         job.op = "verify" => lines' = lines
  PROVE  SapInv'
<1>1. job'.kind = job.kind /\ job' \in Jobs /\ job'.op \in {"failed", "check"} /\ job'.i \in Steps(job'.kind)
  BY DEF Failing
<1>2. SapTypes' /\ StampsGrow' /\ UnreadIsYounger' /\ NothingIsOverwritten' /\ CreateIsAhead'
  BY <1>1 DEF SapWorld, SapTypes, UnreadIsYounger, NothingIsOverwritten, CreateIsAhead, ToCreate, Writing
<1>3. SecondLine'
  BY <1>1 DEF SapWorld, SecondLine, Failing, SapInv, Undoing
<1>4. Verified'
  BY <1>1 DEF Verified, Failing, Writing, Undoing
<1> QED
  BY <1>2, <1>3, <1>4 DEF SapInv

\* A request that will be sent again, carried out or not.
LEMMA SameStep ==
  ASSUME SapInv, Same(job, job'), UNCHANGED <<undo, etag, edits>>,
         \/ Carries(job) /\ Method(job) \notin {"none", "POST"}
         \/ UNCHANGED <<lines, stamps, created, unread, overwritten>>
  PROVE  SapInv'
<1>1. /\ job' \in Jobs /\ job'.kind = job.kind /\ job'.op = job.op /\ job'.i = job.i
      /\ job'.pending = job.pending /\ job \in Jobs /\ job.i \in {1, 2}
      /\ (job.kind = "SPLIT" \/ job.i = 1) /\ SapTypes /\ lines \in [{1, 2} -> Lines]
  BY DEF Same, SapInv, SapTypes, Jobs, Steps
<1>2. CASE UNCHANGED <<lines, stamps, created, unread, overwritten>>
  <2>1. SapTypes'
    BY <1>1, <1>2 DEF SapTypes
  <2>2. StampsGrow' /\ CreateIsAhead' /\ UnreadIsYounger' /\ NothingIsOverwritten' /\ SecondLine'
    BY <1>1, <1>2 DEF SapInv, StampsGrow, CreateIsAhead, ToCreate, UnreadIsYounger,
                      NothingIsOverwritten, SecondLine
  <2>3. Verified'
    BY <1>1, <1>2 DEF SapInv, Verified, Shows, Planned, Restored
  <2> QED
    BY <2>1, <2>2, <2>3 DEF SapInv
<1>3. CASE Carries(job) /\ Method(job) \notin {"none", "POST"}
  <2>1. SapWorld(job.kind)'
    BY <1>1, <1>3, RequestsKeepWorld DEF Remembers
  <2>2. Nothing \/ \E new \in Lines : Changed(new)
    <3>1. ~Creates(job)
      BY <1>3 DEF Method, Creates
    <3> QED
      BY <1>1, <1>3, <3>1, Carried DEF Made
  <2> DEFINE Spares ==
        /\ created' = created
        /\ (job.i = 2 => lines'[1] = lines[1])
        /\ (lines'[2] = lines[2] \/ lines'[2] = Absent)
        /\ \/ overwritten' = overwritten
           \/ job.op = "unwrite"
           \/ job.op = "apply" /\ (overwritten' => overwritten \/ 1 \in unread)
                /\ lines[1].etag = undo[1].etag
  <2>3. Spares
    <3>1. CASE Nothing
      BY <3>1 DEF Nothing
    <3>2. ASSUME NEW new \in Lines, Changed(new) PROVE Spares
      <4>1. lines' = [lines EXCEPT ![job.i] = new] /\ created' = created
        BY <3>2 DEF Changed, Written
      <4>2. (job.i = 2 => lines'[1] = lines[1]) /\ (lines'[2] = lines[2] \/ lines'[2] = Absent)
        BY <1>1, <3>2, <4>1 DEF Changed
      <4>3. \/ job.op = "unwrite"
            \/ job.op = "apply" /\ (overwritten' => overwritten \/ 1 \in unread)
                 /\ lines[1].etag = undo[1].etag
        BY <3>2 DEF Changed, IfMatch
      <4> QED
        BY <4>1, <4>2, <4>3
    <3> QED
      BY <2>2, <3>1, <3>2
  <2>4. SapTypes'
    BY <1>1, <2>1 DEF SapWorld, SapTypes
  <2>5. CreateIsAhead' /\ StampsGrow'
    BY <1>1, <2>1, <2>3 DEF SapWorld, SapInv, CreateIsAhead, ToCreate
  <2>6. UnreadIsYounger'
    <3>1. job.kind # "SPLIT" /\ job.op \in {"again", "unwrite"} /\ 1 \in unread' =>
            1 \in unread /\ lines'[1] = lines[1]
      BY <1>1, <2>2 DEF Nothing, Changed, Written
    <3> QED
      BY <1>1, <2>1, <3>1 DEF SapWorld, SapInv, UnreadIsYounger
  <2>7. NothingIsOverwritten'
    <3>1. lines[1].etag \in Nat /\ undo[1].etag \in Nat
      BY <1>1 DEF SapTypes, Lines
    <3>2. job.op \in Writing => ~overwritten'
      BY <2>3, <3>1 DEF SapInv, NothingIsOverwritten, UnreadIsYounger, Writing
    <3> QED
      BY <1>1, <2>1, <3>2 DEF SapWorld, NothingIsOverwritten
  <2>8. SecondLine'
    BY <1>1, <2>1, <2>3 DEF SapWorld, SapInv, SecondLine
  <2>9. Verified'
    <3>1. job.op \notin {"done", "undone"}
      BY <1>3 DEF Method, Creates
    <3>2. job.i = 2 => lines'[1] = lines[1]
      BY <2>3
    <3>3. job.op = "verify" => lines' = lines
      BY <2>2 DEF Nothing, Changed
    <3> QED
      BY <1>1, <3>1, <3>2, <3>3 DEF SapInv, Verified, Shows, Planned
  <2> QED
    BY <2>4, <2>5, <2>6, <2>7, <2>8, <2>9 DEF SapInv
<1> QED
  BY <1>2, <1>3

LEMMA CreatesAnswer ==
  ASSUME Creates(job), job.kind = "ALTERNATE"
  PROVE  Reply(job) = 201 /\ Method(job) = "POST"
<1>1. job.op = "apply" /\ job.kind # "SPLIT"
  BY DEF Creates
<1>2. Reply(job) = 201
  BY <1>1 DEF Reply
<1>3. Method(job) = "POST"
  BY <1>1 DEF Method
<1> QED
  BY <1>2, <1>3

\* An answer the boundary accepts.
LEMMA AcceptedStep ==
  ASSUME SapInv, Answered, Accepts(job, lines[job.i]), job' = NextOp(job)
  PROVE  SapInv'
<1>1. /\ Method(job) # "none" /\ Carries(job) /\ job' = NextOp(job) /\ edits' = edits
      /\ undo' = (IF job.op = "prepare" THEN [undo EXCEPT ![job.i] = lines[job.i]] ELSE undo)
      /\ etag' = (IF job.op = "check" \/ (job.op = "again" /\ job.kind = "SPLIT")
                  THEN lines[job.i].etag ELSE etag)
  BY DEF Answered
<1>2. /\ job \in Jobs /\ job.i \in {1, 2} /\ job.i \in Steps(job.kind)
      /\ (job.kind = "SPLIT" \/ job.i = 1) /\ SapTypes /\ lines \in [{1, 2} -> Lines]
      /\ undo \in [{1, 2} -> Lines] /\ etag \in Nat
  BY DEF SapInv, SapTypes, Jobs, Steps
<1>3. /\ job' \in Jobs /\ job'.kind = job.kind /\ job'.pending = job.pending
      /\ job'.i \in Steps(job.kind) /\ job.op \in Writing \cup Undoing
  BY <1>1, <1>2, NextFields
<1>4. SapWorld(job.kind)'
  <2>1. Remembers
    BY <1>1, <1>2 DEF Remembers
  <2> QED
    BY <1>1, <1>3, <2>1, RequestsKeepWorld
<1>5. SapTypes' /\ StampsGrow' /\ created' <= 1
  BY <1>4, <1>3 DEF SapWorld, SapTypes
<1>6. ASSUME ToCreate(job') => created' = 0,
             job.kind # "SPLIT" /\ job'.op \in {"again", "unwrite"} /\ 1 \in unread' =>
               lines'[1].etag > etag',
             job'.op \in Writing => ~overwritten',
             \/ lines'[2] = Absent
             \/ job'.i = 2 /\ job'.op \in Undoing \cup {"verify"}
             \/ job'.op \in {"done", "failed"}
             \/ job.pending,
             Verified'
      PROVE  SapInv'
  <2>1. CreateIsAhead' /\ UnreadIsYounger' /\ NothingIsOverwritten'
    BY <1>4, <1>3, <1>6 DEF SapWorld, CreateIsAhead, UnreadIsYounger, NothingIsOverwritten
  <2>2. SecondLine'
    BY <1>4, <1>3, <1>6 DEF SapWorld, SecondLine
  <2> QED
    BY <1>5, <1>6, <2>1, <2>2 DEF SapInv
<1>7. job.op \notin {"apply", "unwrite"} => Nothing
  BY <1>1, <1>2, Carried DEF Made, Changed, Creates
<1>8. CASE job.op = "prepare"
  <2>1. \/ job'.op = "prepare" /\ job'.i = 2
        \/ job'.op = "apply" /\ job'.i = 1
    BY <1>1, <1>2, <1>8, NextFields
  <2>2. created' = 0 /\ ~overwritten' /\ (lines'[2] = Absent \/ job.pending)
    BY <1>7, <1>8 DEF Nothing, SapInv, CreateIsAhead, ToCreate, NothingIsOverwritten, SecondLine,
                      Undoing, Writing
  <2>3. Verified'
    BY <2>1 DEF Verified, Undoing
  <2> QED
    BY <1>6, <2>1, <2>2, <2>3
<1>9. CASE job.op = "apply"
  <2>1. job'.op = (IF Creates(job) THEN "verify" ELSE "reread") /\ job'.i = job.i
    BY <1>1, <1>2, <1>9, NextFields
  <2>2. /\ ~overwritten /\ created = 0 /\ (lines[2] = Absent \/ job.pending)
        /\ (edits = 0 /\ job.i = 2 => Shows(lines[1], Planned(job.kind, 1)))
    BY <1>9 DEF SapInv, NothingIsOverwritten, Writing, CreateIsAhead, ToCreate, SecondLine, Undoing,
                Verified
  <2>3. CASE Creates(job)
    <3>1. Nothing \/ \E new \in Lines : Made(new)
      BY <1>1, <1>2, <2>3, Carried DEF Changed
    <3>2. ~overwritten' /\ \A l \in {1, 2} \ {job.i} : lines'[l] = lines[l]
      BY <1>2, <2>2, <3>1 DEF Nothing, Made, Written
    <3>3. job.kind = "SPLIT" => job.i = 2
      BY <1>9, <2>3 DEF Creates
    <3>5. job.kind = "ALTERNATE" => Shows(lines'[1], Planned("ALTERNATE", 1))
      <4> SUFFICES ASSUME job.kind = "ALTERNATE" PROVE Shows(lines'[1], Planned("ALTERNATE", 1))
        OBVIOUS
      <4>0. job.i = 1
        BY <1>2
      <4>1. Reply(job) = 201 /\ Method(job) = "POST"
        BY <2>3, CreatesAnswer
      <4>2. lines' = [lines EXCEPT ![1] = Stamped(Body(job))]
        BY <1>1, <4>0, <4>1 DEF Carries
      <4>3. Body(job) = Planned("ALTERNATE", 1)
        BY <1>9, <4>0 DEF Body
      <4> QED
        BY <1>2, <4>2, <4>3 DEF Stamped, Shows, Planned
    <3>4. Verified'
      BY <1>1, <1>2, <1>3, <2>1, <2>2, <2>3, <3>2, <3>5 DEF Verified, Undoing, Shows, Planned
    <3> QED
      BY <1>2, <1>3, <1>6, <2>1, <2>2, <2>3, <3>2, <3>3, <3>4 DEF ToCreate
  <2>4. CASE ~Creates(job)
    <3>1. Nothing \/ \E new \in Lines : Changed(new)
      BY <1>1, <1>2, <2>4, Carried DEF Made
    <3>2. job.i = 1
      BY <1>2, <1>9, <2>4 DEF Creates
    <3>3. created' = created /\ lines'[2] = lines[2]
      BY <1>2, <3>1, <3>2 DEF Nothing, Changed, Written
    <3>4. ~overwritten'
      <4>1. 1 \in unread => lines[1].etag # undo[1].etag
        BY <1>2 DEF SapInv, UnreadIsYounger, Lines
      <4> QED
        BY <1>9, <2>2, <3>1, <3>2, <4>1 DEF Nothing, Changed, IfMatch
    <3>5. Verified'
      BY <1>3, <1>9, <2>1, <2>4, <3>2 DEF Verified, Undoing, Creates
    <3> QED
      BY <1>6, <2>1, <2>2, <2>4, <3>2, <3>3, <3>4, <3>5
  <2> QED
    BY <2>3, <2>4
<1>10. CASE job.op = "reread"
  <2>1. job'.op = "verify" /\ job'.i = job.i
    BY <1>1, <1>2, <1>10, NextFields
  <2>2. /\ lines' = lines /\ ~overwritten' /\ created' = created
        /\ (lines[2] = Absent \/ job.pending)
        /\ (edits = 0 /\ job.i = 2 => Shows(lines[1], Planned(job.kind, 1)))
    BY <1>7, <1>10 DEF Nothing, SapInv, NothingIsOverwritten, Writing, SecondLine, Undoing, Verified
  <2>5. job.kind # "ALTERNATE"
    BY <1>10 DEF SapInv, Verified
  <2>3. ToCreate(job') => created' = 0
    BY <1>3, <1>10, <2>1, <2>2 DEF SapInv, CreateIsAhead, ToCreate
  <2>4. Verified'
    BY <1>1, <1>3, <2>1, <2>2, <2>5 DEF Verified, Undoing, Shows, Planned
  <2> QED
    BY <1>6, <2>1, <2>2, <2>3, <2>4
<1>11. CASE job.op = "verify"
  <2>1. \/ job'.op = "apply" /\ job'.i = 2 /\ job.i = 1 /\ job.kind = "SPLIT"
        \/ job'.op = "done" /\ job'.i = 1 /\ (job.i = 2 \/ job.kind # "SPLIT")
    BY <1>1, <1>2, <1>11, NextFields
  <2>2. /\ lines' = lines /\ ~overwritten' /\ created' = created
        /\ (edits = 0 /\ job.i = 2 => Shows(lines[1], Planned(job.kind, 1)))
        /\ (edits = 0 => Shows(lines[job.i], Planned(job.kind, job.i)))
        /\ (job.i = 1 => lines[2] = Absent \/ job.pending)
    BY <1>2, <1>7, <1>11 DEF Nothing, SapInv, NothingIsOverwritten, Writing, SecondLine, Undoing, Verified,
                       Accepts
  <2>3. ToCreate(job') => created' = 0
    BY <1>3, <1>11, <2>1, <2>2 DEF SapInv, CreateIsAhead, ToCreate
  <2>4. Verified'
    <3>1. \A l \in Steps(job.kind) : l = job.i \/ (l = 1 /\ job.i = 2) \/ (l = 2 /\ job.i = 1 /\ job.kind = "SPLIT")
      BY <1>2 DEF Steps
    <3> QED
      BY <1>1, <1>3, <2>1, <2>2, <3>1 DEF Verified, Undoing, Shows, Planned
  <2> QED
    BY <1>6, <2>1, <2>2, <2>3, <2>4
<1>12. CASE job.op \in {"check", "again"}
  <2>1. job'.op \in {"again", "unwrite"} /\ job'.i = job.i
    BY <1>1, <1>2, <1>12, NextFields
  <2>2. lines' = lines /\ Nothing
    BY <1>7, <1>12 DEF Nothing
  <2>3. job.kind # "SPLIT" /\ 1 \in unread' => lines'[1].etag > etag'
    <3>1. CASE job.op = "check"
      BY <1>2, <2>2, <3>1 DEF Nothing
    <3>2. CASE job.op = "again"
      BY <1>1, <1>2, <2>2, <3>2 DEF Nothing, SapInv, UnreadIsYounger
    <3> QED
      BY <1>12, <3>1, <3>2
  <2>4. ~ToCreate(job') /\ job'.op \notin Writing /\ job'.op \in Undoing
    BY <2>1 DEF ToCreate, Writing, Undoing
  <2>5. lines'[2] = Absent \/ job'.i = 2 \/ job.pending
    BY <1>12, <2>1, <2>2 DEF SapInv, SecondLine
  <2>6. Verified'
    BY <1>3, <1>12, <2>1 DEF SapInv, Verified, Writing, Undoing
  <2> QED
    BY <1>6, <2>3, <2>4, <2>5, <2>6
<1>13. CASE job.op = "unwrite"
  <2>1. job'.op = "recheck" /\ job'.i = job.i
    BY <1>1, <1>2, <1>13, NextFields
  <2>2. job.i = 1 => lines'[2] = lines[2]
    BY <1>1, <1>2, Carried DEF Nothing, Made, Changed, Written
  <2>3. lines'[2] = Absent \/ job'.i = 2 \/ job.pending
    BY <1>2, <1>13, <2>1, <2>2 DEF SapInv, SecondLine
  <2>4. ~ToCreate(job') /\ job'.op \notin Writing /\ job'.op \in Undoing
    BY <2>1 DEF ToCreate, Writing, Undoing
  <2>5. Verified'
    BY <1>3, <1>13, <2>1 DEF SapInv, Verified, Writing, Undoing
  <2> QED
    BY <1>6, <2>1, <2>3, <2>4, <2>5
<1>14. CASE job.op = "recheck"
  <2>1. \/ job'.op = "check" /\ job'.i = 1 /\ job.i = 2
        \/ job'.op = "undone" /\ job'.i = 1 /\ job.i = 1
    BY <1>1, <1>2, <1>14, NextFields
  <2>2. /\ lines' = lines /\ undo' = undo
        /\ (lines[2] = Absent \/ job.i = 2 \/ job.pending)
        /\ job.kind # "ALTERNATE"
    BY <1>1, <1>7, <1>14 DEF Nothing, SapInv, SecondLine, Verified, Undoing
  <2>3. /\ job.i = 2 => lines[2] = Absent
        /\ job.i = 1 => Shows(lines[1], Restored(job.kind, 1))
    BY <1>2, <1>14 DEF Accepts
  <2>4. ~ToCreate(job') /\ job'.op \notin Writing
    BY <2>1 DEF ToCreate, Writing
  <2>5. Verified'
    BY <1>3, <2>1, <2>2, <2>3 DEF Verified, Writing, Shows, Restored
  <2> QED
    BY <1>6, <2>1, <2>2, <2>3, <2>4, <2>5 DEF Undoing
<1> QED
  BY <1>3, <1>8, <1>9, <1>10, <1>11, <1>12, <1>13, <1>14 DEF Writing, Undoing

\* An answer it does not accept, or goods that have moved.
LEMMA RejectedStep ==
  ASSUME SapInv, Answered, job' = Fail(job)
  PROVE  SapInv'
<1>1. /\ Method(job) # "none" /\ Carries(job) /\ job' = Fail(job) /\ edits' = edits
      /\ undo' = (IF job.op = "prepare" THEN [undo EXCEPT ![job.i] = lines[job.i]] ELSE undo)
      /\ etag' = (IF job.op = "check" \/ (job.op = "again" /\ job.kind = "SPLIT")
                  THEN lines[job.i].etag ELSE etag)
  BY DEF Answered
<1>2. job \in Jobs /\ job.i \in Steps(job.kind) /\ SapTypes
  BY DEF SapInv, SapTypes
<1>3. Failing(job, job') /\ job'.kind = job.kind
  BY <1>1, <1>2, FailFields DEF Failing
<1>4. SapWorld(job.kind)'
  <2>1. Remembers
    BY <1>1 DEF Remembers
  <2> QED
    BY <1>1, <1>3, <2>1, RequestsKeepWorld
<1>5. job.op = "verify" => lines' = lines
  BY <1>1, <1>2, Carried DEF Nothing, Made, Changed, Creates
<1> QED
  BY <1>3, <1>4, <1>5, FailStep

\* A request that is not answered, carried out or not.
LEMMA LostStep ==
  ASSUME SapInv, Method(job) # "none", UNCHANGED <<undo, etag, edits>>,
         Carries(job) \/ UNCHANGED <<lines, stamps, created, unread, overwritten>>,
         \/ job' = Fail(job)
         \/ /\ job' = Repeat(job)
            /\ Method(job) # "POST" \/ UNCHANGED <<lines, stamps, created, unread, overwritten>>
  PROVE  SapInv'
<1>1. job \in Jobs /\ job.i \in Steps(job.kind) /\ SapTypes
  BY DEF SapInv, SapTypes
<1>2. \/ Failing(job, job')
      \/ /\ Same(job, job')
         /\ Method(job) # "POST" \/ UNCHANGED <<lines, stamps, created, unread, overwritten>>
  BY <1>1, FailFields, RepeatFields
<1>3. CASE /\ Same(job, job')
           /\ Method(job) # "POST" \/ UNCHANGED <<lines, stamps, created, unread, overwritten>>
  BY <1>3, SameStep
<1>4. CASE Failing(job, job')
  <2>1. job'.kind = job.kind
    BY <1>4 DEF Failing
  <2>2. SapWorld(job.kind)'
    <3>1. CASE Carries(job)
      BY <2>1, <3>1, RequestsKeepWorld DEF Remembers
    <3>2. CASE UNCHANGED <<lines, stamps, created, unread, overwritten>>
      BY <2>1, <3>2 DEF SapInv, SapTypes, SapWorld, StampsGrow, CreateIsAhead, UnreadIsYounger,
                        NothingIsOverwritten, SecondLine
    <3> QED
      BY <3>1, <3>2
  <2>3. job.op = "verify" => lines' = lines
    BY <1>1, Carried DEF Nothing, Made, Changed, Creates
  <2> QED
    BY <1>4, <2>2, <2>3, FailStep
<1> QED
  BY <1>2, <1>3, <1>4

\* Another user's change.
LEMMA EditStep ==
  ASSUME SapInv, NEW l \in {1, 2}, Edit(l)
  PROVE  SapInv'
<1>1. PICK due \in {"old", "new", "theirs", "deleted"} :
        lines' = [lines EXCEPT ![l] = Stamped([qty |-> lines[l].qty, due |-> due])]
  BY DEF Edit
<1>2. /\ stamps' = stamps + 1 /\ edits' = edits + 1 /\ unread' = unread \cup {l} /\ lines[l] # Absent
      /\ UNCHANGED <<job, undo, etag, created, overwritten>> /\ job.op \notin Ended
      /\ lines \in [{1, 2} -> Lines] /\ undo \in [{1, 2} -> Lines] /\ stamps \in Nat /\ etag \in Nat
      /\ edits \in Nat /\ unread \subseteq {1, 2} /\ SapTypes /\ StampsGrow
  BY DEF Edit, SapInv, SapTypes
<1>3. PICK new : new = Stamped([qty |-> lines[l].qty, due |-> due])
  OBVIOUS
<1>4. new \in Lines /\ new.etag = stamps + 1
  BY <1>2, <1>3 DEF Stamped, Lines
<1>5. /\ lines' \in [{1, 2} -> Lines] /\ lines'[l] = new
      /\ \A k \in {1, 2} \ {l} : lines'[k] = lines[k]
  BY <1>1, <1>2, <1>3, <1>4
<1>6. SapTypes'
  <2>1. stamps' \in Nat /\ edits' \in Nat /\ unread' \subseteq {1, 2}
    BY <1>2
  <2> QED
    BY <1>2, <1>5, <2>1 DEF SapTypes
<1>7. /\ \A k \in {1, 2} : lines[k].etag \in Nat /\ lines[k].etag <= stamps
                           /\ undo[k].etag \in Nat /\ undo[k].etag <= stamps
      /\ etag <= stamps
  BY <1>2 DEF Lines, StampsGrow
<1>8. StampsGrow'
  <2>1. \A k \in {1, 2} : lines'[k].etag <= stamps + 1 /\ undo[k].etag <= stamps + 1
    BY <1>2, <1>4, <1>5, <1>7
  <2>2. etag <= stamps + 1
    BY <1>2, <1>7
  <2> QED
    BY <1>2, <2>1, <2>2 DEF StampsGrow
<1>9. UnreadIsYounger'
  <2>1. CASE l = 1
    <3>1. lines'[1].etag > undo[1].etag /\ lines'[1].etag > etag
      BY <1>2, <1>4, <1>5, <1>7, <2>1
    <3> QED
      BY <1>2, <3>1 DEF UnreadIsYounger
  <2>2. CASE l = 2
    BY <1>2, <1>5, <2>2 DEF SapInv, UnreadIsYounger
  <2> QED
    BY <2>1, <2>2
<1>10. SecondLine'
  <2>1. l = 2 \/ lines'[2] = lines[2]
    BY <1>5
  <2> QED
    BY <1>2, <2>1 DEF SapInv, SecondLine
<1>11. Verified'
  <2>1. edits' # 0
    BY <1>2
  <2> QED
    BY <1>2, <2>1 DEF SapInv, Verified, Ended
<1>12. CreateIsAhead' /\ NothingIsOverwritten'
  BY <1>2 DEF SapInv, CreateIsAhead, ToCreate, NothingIsOverwritten
<1> QED
  BY <1>6, <1>8, <1>9, <1>10, <1>11, <1>12 DEF SapInv

\* A rollback begins with the last step.
LEMMA RollbackStep ==
  ASSUME SapInv, Rollback
  PROVE  SapInv'
<1>1. /\ job.op = "done" /\ job.kind # "ALTERNATE" /\ job \in Jobs
      /\ UNCHANGED <<undo, etag, lines, stamps, edits, created, unread, overwritten>>
  BY DEF Rollback, SapInv, SapTypes
<1>2. job' = To(job, "check", IF job.kind = "SPLIT" THEN 2 ELSE 1)
  <2>1. Cardinality({1}) = 1
    BY FS_Singleton
  <2>2. Cardinality(1..2) = 2
    <3>1. PICK S : S = {1}
      OBVIOUS
    <3>2. IsFiniteSet(S) /\ Cardinality(S) = 1
      BY <3>1, FS_Singleton
    <3>3. \A x : Cardinality(S \cup {x}) = IF x \in S THEN Cardinality(S) ELSE Cardinality(S) + 1
      BY <3>2, FS_AddElement
    <3>4. 2 \notin S /\ 1..2 = S \cup {2}
      BY <3>1
    <3>5. Cardinality(S \cup {2}) = 2
      BY <3>2, <3>3, <3>4
    <3> QED
      BY <3>4, <3>5
  <2> QED
    BY <2>1, <2>2 DEF Rollback, Steps
<1>3. /\ job' \in Jobs /\ job'.kind = job.kind /\ job'.op = "check"
      /\ job'.i = IF job.kind = "SPLIT" THEN 2 ELSE 1
  BY <1>1, <1>2, ToFields DEF SapOps, Undoing
<1>4. SapTypes'
  BY <1>1, <1>3 DEF SapInv, SapTypes, Steps
<1>5. StampsGrow' /\ CreateIsAhead' /\ UnreadIsYounger' /\ NothingIsOverwritten'
  BY <1>1, <1>3 DEF SapInv, StampsGrow, CreateIsAhead, ToCreate, UnreadIsYounger, NothingIsOverwritten, Writing
<1>6. SecondLine'
  BY <1>1, <1>3 DEF SapInv, SecondLine, Undoing
<1>7. Verified'
  BY <1>1, <1>3 DEF Verified, Undoing, Writing
<1> QED
  BY <1>4, <1>5, <1>6, <1>7 DEF SapInv

LEMMA SapInitHolds ==
  ASSUME SapInit
  PROVE  SapInv
<1>1. PICK kind \in Kinds :
        /\ job = [kind |-> kind, op |-> "prepare", i |-> 1, tries |-> 1, refetched |-> FALSE,
                   pending |-> FALSE]
        /\ lines = [l \in {1, 2} |-> IF l = 1 /\ kind \in {"DATE", "SPLIT"}
                                     THEN [qty |-> Whole, due |-> "old", etag |-> 1] ELSE Absent]
  BY DEF SapInit
<1>2. /\ undo = [l \in {1, 2} |-> Absent] /\ etag = 0 /\ stamps = 1
      /\ edits = 0 /\ created = 0 /\ unread = {} /\ overwritten = FALSE
  BY DEF SapInit
<1>3. job \in Jobs /\ job.kind = kind /\ job.op = "prepare" /\ job.i = 1
  BY <1>1, KindsAreActions DEF Jobs, Actions, Writing
<1>4. [qty |-> Whole, due |-> "old", etag |-> 1] \in Lines
  BY DEF Lines, Whole
<1>5. /\ lines \in [{1, 2} -> Lines] /\ undo \in [{1, 2} -> Lines]
      /\ lines[1].etag <= 1 /\ lines[2] = Absent /\ undo[1] = Absent /\ undo[2] = Absent
  BY <1>1, <1>2, <1>4, AbsentIsLine
<1>6. SapTypes
  <2>1. job.i \in Steps(job.kind)
    BY <1>3 DEF Steps
  <2>2. /\ etag \in Nat /\ stamps \in Nat /\ created \in Nat /\ edits \in Nat
        /\ unread \subseteq {1, 2} /\ overwritten \in BOOLEAN
    BY <1>2
  <2> QED
    BY <1>3, <1>5, <2>1, <2>2 DEF SapTypes
<1>7. StampsGrow /\ CreateIsAhead /\ UnreadIsYounger /\ NothingIsOverwritten /\ SecondLine
  BY <1>2, <1>3, <1>5, AbsentIsLine DEF StampsGrow, CreateIsAhead, UnreadIsYounger, NothingIsOverwritten, SecondLine
<1>8. Verified
  BY <1>3 DEF Verified, Undoing
<1> QED
  BY <1>6, <1>7, <1>8 DEF SapInv

LEMMA SapStep ==
  ASSUME SapInv, [SapNext]_sapVars
  PROVE  SapInv'
<1>1. CASE Answered
  <2>1. \/ Accepts(job, lines[job.i]) /\ job' = NextOp(job)
        \/ job' = Fail(job)
    BY <1>1 DEF Answered
  <2> QED
    BY <1>1, <2>1, AcceptedStep, RejectedStep
<1>2. CASE Unserved
  BY <1>2, LostStep DEF Unserved, Unread
<1>3. CASE Unanswered
  BY <1>3, LostStep DEF Unanswered, Unread, MayRepeat
<1>4. CASE FetchCsrf \/ Expire \/ UNCHANGED sapVars
  <2>1. UNCHANGED <<job, undo, etag, edits, lines, stamps, created, unread, overwritten>>
    BY <1>4 DEF FetchCsrf, Expire, Unread, sapVars
  <2>2. Same(job, job')
    BY <2>1 DEF Same, SapInv, SapTypes
  <2> QED
    BY <2>1, <2>2, SameStep
<1>5. CASE CsrfRequired
  <2>1. /\ UNCHANGED <<undo, etag, edits, lines, stamps, created, unread, overwritten>>
        /\ job' = (IF job.refetched THEN Fail(job) ELSE [job EXCEPT !.refetched = TRUE, !.tries = 1])
        /\ Method(job) # "none" /\ job \in Jobs
    BY <1>5 DEF CsrfRequired, Unread, SapInv, SapTypes
  <2>2. CASE job.refetched
    BY <2>1, <2>2, LostStep
  <2>3. CASE ~job.refetched
    <3>1. Same(job, job')
      BY <2>1, <2>3 DEF Same, Jobs
    <3> QED
      BY <2>1, <3>1, SameStep
  <2> QED
    BY <2>2, <2>3
<1>6. ASSUME NEW l \in {1, 2}, Edit(l) PROVE SapInv'
  BY <1>6, EditStep
<1> QED
  BY <1>1, <1>2, <1>3, <1>4, <1>5, <1>6, RollbackStep DEF SapNext

\* Whatever requests and answers are lost and whatever other users of SAP change, for any number
\* of attempts, faults and edits: a document is created at most once (SapClient._send repeats no
\* create), a judged record changed by others is not overwritten (If-Match), and an action that
\* ends as done or undone left in SAP what the boundary says it left.
THEOREM SapActionsAreExact == SapSpec => []ActionIsExact
<1>1. SapInit => SapInv
  BY SapInitHolds
<1>2. SapInv /\ [SapNext]_sapVars => SapInv'
  BY SapStep
<1>3. ASSUME SapInv PROVE ActionIsExact
  <2>1. CreatedOnce /\ EditsAreKept
    BY <1>3 DEF SapInv, CreateIsAhead, NothingIsOverwritten, CreatedOnce, EditsAreKept, Writing
  <2>2. job.op = "undone" => job.kind \in {"STO", "DATE", "SPLIT"}
    BY <1>3 DEF SapInv, SapTypes, Jobs, Actions, Verified
  <2>3. WholeOrBack
    BY <1>3, <2>2 DEF SapInv, Verified, SecondLine, WholeOrBack, Restored, Shows, Undoing
  <2> QED
    BY <2>1, <2>3 DEF ActionIsExact
<1> QED
  BY <1>1, <1>2, <1>3, PTL DEF SapSpec

-----------------------------------------------------------------------------
(* The audit chain *)

\* What keeps the trail whole is that the hash a writer links to names the event it ends
\* with: a writer that finds the head it read has that event's id, whatever its clock says.

Whats == CanMove \cup {Creation} \cup ({"TRIAGE_SCORED"} \X Writers)
Hashes == Seq(Int \X Whats)

Event == [id : Int, prev : Hashes, what : Whats]

Work == [step : {"idle", "head", "commit"}, what : Whats \cup {<<>>}, hash : Hashes, last : Int,
         tries : Int]

\* The id of the event a hash ends with
Names(hash, id) == id = IF hash = GENESIS THEN 0 ELSE hash[Len(hash)][1]

ChainTypes ==
  /\ head \in [hash : Hashes, id : Int]
  /\ chain \subseteq Event
  /\ writer \in [Writers -> Work]

\* A drafting writer has something to record, and the head it holds was one once.
Drafting ==
  \A w \in Writers :
    /\ writer[w].step # "idle" => writer[w].what \in Whats
    /\ writer[w].step = "commit" => Names(writer[w].hash, writer[w].last)

\* The head is the hash and the id of the event that comes last.
IsHead(e) ==
  /\ e \in chain /\ head.hash = event_hash(e) /\ head.id = e.id
  /\ \A f \in chain : f.id <= e.id
HeadIsLast ==
  /\ Names(head.hash, head.id)
  /\ chain = {} => head.hash = GENESIS
  /\ chain # {} => \E e \in chain : IsHead(e)

IdsDiffer == \A e, f \in chain : e.id = f.id => e = f

ChainInv == ChainTypes /\ Drafting /\ HeadIsLast /\ IdsDiffer /\ TrailIsWhole

-----------------------------------------------------------------------------
(* Lemmas about ids and hashes *)

\* Of events with different ids, the one no other comes after is the latest.
LEMMA LatestIsLast ==
  ASSUME NEW S, NEW m \in S, \A f \in S : f.id \in Int /\ f.id <= m.id,
         \A e, f \in S : e.id = f.id => e = f
  PROVE  Latest(S) = m
<1> DEFINE l == CHOOSE e \in S : \A f \in S : f.id <= e.id
<1>1. l \in S /\ \A f \in S : f.id <= l.id
  OBVIOUS
<1>2. l.id = m.id
  BY <1>1
<1> QED
  BY <1>1, <1>2 DEF Latest

\* The hash of an event is not the genesis hash and names the event.
LEMMA HashNames ==
  ASSUME NEW e \in Event
  PROVE  /\ event_hash(e) \in Hashes /\ event_hash(e) # GENESIS
         /\ Names(event_hash(e), e.id)
<1> DEFINE p == e.prev
           x == <<e.id, e.what>>
<1>1. p \in Seq(Int \X Whats) /\ x \in Int \X Whats /\ x[1] = e.id
  BY DEF Event, Hashes
<1>2. event_hash(e) = Append(p, x)
  BY DEF event_hash
<1>3. /\ Append(p, x) \in Seq(Int \X Whats) /\ Append(p, x) # <<>>
      /\ Append(p, x)[Len(Append(p, x))] = x
  <2> DEFINE S == Int \X Whats
  <2>1. p \in Seq(S) /\ x \in S
    BY <1>1
  <2> HIDE DEF S, p, x
  <2>2. Append(p, x) \in Seq(S) /\ Len(Append(p, x)) = Len(p) + 1 /\ Len(p) \in Nat
    BY <2>1
  <2>3. Append(p, x)[Len(p) + 1] = x
    BY <2>1
  <2>4. Append(p, x) # <<>>
    BY <2>2
  <2> QED
    BY <2>2, <2>3, <2>4 DEF S
<1> HIDE DEF p, x
<1> QED
  BY <1>1, <1>2, <1>3 DEF Names, Hashes, GENESIS

\* An id drawn after another one comes after it.
LEMMA AfterIsLater ==
  ASSUME NEW last \in Int, NEW clock \in Clocks
  PROVE  _after(last, clock) \in Int /\ _after(last, clock) > last
BY ClocksAreNumbers DEF _after

\* The head a draft is linked to determines the event it names.
LEMMA SameHead ==
  ASSUME NEW hash, NEW i, NEW j, Names(hash, i), Names(hash, j)
  PROVE  i = j
BY DEF Names

\* What a writer may hold besides what it held: nothing, or a new record.
LEMMA Given ==
  ASSUME ChainInv, NEW w \in Writers, NEW r \in Work, Give(w, r), Stored,
         r.step # "idle" => r.what \in Whats,
         r.step = "commit" => Names(r.hash, r.last)
  PROVE  ChainInv'
<1>1. writer' \in [Writers -> Work] /\ writer'[w] = r
      /\ \A v \in Writers \ {w} : writer'[v] = writer[v]
  BY DEF Give, ChainInv, ChainTypes
<1>2. Drafting'
  BY <1>1 DEF ChainInv, Drafting
<1> QED
  BY <1>1, <1>2 DEF Stored, ChainInv, ChainTypes, HeadIsLast, IsHead, IdsDiffer, TrailIsWhole,
       ChainVerifies, verify_chain, Linked, Before, ChangesAreChained, Moves

LEMMA NoWorkIsWork ==
  /\ NoWork \in Work /\ NoWork.step = "idle"
  /\ \A what \in Whats :
       LET r == [NoWork EXCEPT !.step = "head", !.what = what] IN
       r \in Work /\ r.step = "head" /\ r.what = what
<1>1. GENESIS \in Hashes
  BY DEF GENESIS, Hashes
<1>2. NoWork \in Work /\ NoWork.step = "idle"
  BY <1>1 DEF NoWork, Work
<1> QED
  BY <1>2 DEF Work

-----------------------------------------------------------------------------
(* The steps *)

LEMMA InitEstablishesChain ==
  ASSUME ChainInit
  PROVE  ChainInv
<1>1. GENESIS \in Hashes /\ Names(GENESIS, 0)
  BY DEF GENESIS, Hashes, Names
<1>2. head \in [hash : Hashes, id : Int] /\ chain = {}
  BY <1>1 DEF ChainInit
<1>3. writer \in [Writers -> Work] /\ \A w \in Writers : writer[w] = NoWork
  BY NoWorkIsWork DEF ChainInit
<1>4. ChainTypes /\ Drafting
  <2>1. "idle" # "commit"
    OBVIOUS
  <2> QED
    BY <1>2, <1>3, <2>1, NoWorkIsWork DEF ChainTypes, Drafting
<1> QED
  BY <1>1, <1>4 DEF ChainInit, ChainInv, HeadIsLast, IdsDiffer, TrailIsWhole, ChainVerifies,
       verify_chain, ChangesAreChained, Moves

\* The event that is committed comes after every other and is linked to the last one.
LEMMA CommitStep ==
  ASSUME ChainInv, NEW w \in Writers, Commit(w)
  PROVE  ChainInv'
<1>1. PICK clock \in Clocks :
        LET e == Draft(w, clock) IN
          /\ IsNew(e) /\ HeadHolds(w) /\ ExtraHolds(e.what)
          /\ chain' = chain \cup {e} /\ head' = [hash |-> event_hash(e), id |-> e.id]
          /\ meta' = IF Move(e.what) THEN e.what[2] ELSE meta
  BY DEF Commit
<1>0. PICK e : e = Draft(w, clock)
  OBVIOUS
<1>2. /\ writer[w] \in Work /\ writer[w].what \in Whats /\ writer[w].hash = head.hash
      /\ Names(writer[w].hash, writer[w].last)
  BY <1>1 DEF Commit, ChainInv, ChainTypes, Drafting, HeadHolds
<1>3. writer[w].last = head.id /\ head.id \in Int
  BY <1>2, SameHead DEF ChainInv, HeadIsLast, ChainTypes
<1>4. /\ e \in Event /\ e.id > head.id /\ e.prev = head.hash
      /\ ExtraHolds(e.what)
  BY <1>0, <1>1, <1>2, <1>3, AfterIsLater DEF Draft, Event, Work
<1>5. /\ chain' = chain \cup {e} /\ head' = [hash |-> event_hash(e), id |-> e.id]
      /\ meta' = IF Move(e.what) THEN e.what[2] ELSE meta
  BY <1>0, <1>1
<1>6. writer' = [writer EXCEPT ![w] = NoWork]
  BY DEF Commit, Give
<1>7. /\ chain \subseteq Event
      /\ \A f \in chain : f.id \in Int /\ f.id < e.id
  <2> SUFFICES ASSUME NEW f \in chain PROVE f.id \in Int /\ f.id < e.id
    BY DEF ChainInv, ChainTypes
  <2>1. f.id \in Int /\ e.id \in Int
    BY <1>4 DEF ChainInv, ChainTypes, Event
  <2>2. f.id <= head.id
    BY DEF ChainInv, HeadIsLast, IsHead
  <2> QED
    BY <1>3, <1>4, <2>1, <2>2
<1>8. ChainTypes' /\ Drafting'
  <2>1. head' \in [hash : Hashes, id : Int]
    BY <1>4, <1>5, HashNames DEF Event
  <2>2. writer' \in [Writers -> Work]
    BY <1>6, NoWorkIsWork DEF ChainInv, ChainTypes
  <2> QED
    BY <1>4, <1>5, <1>6, <1>7, <2>1, <2>2, NoWorkIsWork DEF ChainInv, ChainTypes, Drafting
<1>9. HeadIsLast'
  <2>1. IsHead(e)'
    BY <1>4, <1>5, <1>7 DEF IsHead, Event
  <2> QED
    BY <1>4, <1>5, <2>1, HashNames DEF HeadIsLast
<1>10. IdsDiffer'
  BY <1>5, <1>7 DEF ChainInv, IdsDiffer
<1>11. ChainVerifies'
  <2>1. Linked(e)'
    <3>1. Before(e)' = chain
      BY <1>4, <1>5, <1>7 DEF Before, Event
    <3>2. CASE chain = {}
      BY <1>4, <3>1, <3>2 DEF Linked, ChainInv, HeadIsLast
    <3>3. CASE chain # {}
      <4>1. PICK h \in chain : IsHead(h)
        BY <3>3 DEF ChainInv, HeadIsLast, IsHead
      <4>2. Latest(chain) = h
        BY <1>7, <4>1, LatestIsLast DEF IsHead, ChainInv, IdsDiffer
      <4> QED
        BY <1>4, <3>1, <3>3, <4>1, <4>2 DEF Linked, IsHead
    <3> QED
      BY <3>2, <3>3
  <2>2. ASSUME NEW f \in chain PROVE Linked(f)'
    <3>1. Before(f)' = Before(f)
      BY <1>4, <1>5, <1>7 DEF Before, Event
    <3>2. Linked(f)
      BY DEF ChainInv, TrailIsWhole, ChainVerifies, verify_chain
    <3> QED
      BY <3>1, <3>2 DEF Linked
  <2> QED
    BY <1>5, <2>1, <2>2 DEF ChainVerifies, verify_chain
<1>12. ChangesAreChained'
  <2>1. CASE ~Move(e.what)
    <3>1. Moves' = Moves /\ meta' = meta
      BY <1>5, <2>1 DEF Moves
    <3> QED
      BY <3>1 DEF ChainInv, TrailIsWhole, ChangesAreChained
  <2>2. CASE Move(e.what)
    <3>1. Moves' = Moves \cup {e} /\ meta' = e.what[2] /\ e.what[1] = meta
      BY <1>4, <1>5, <2>2 DEF Moves, ExtraHolds
    <3>2. /\ \A f \in Moves : f.id \in Int /\ f.id < e.id
          /\ \A f, g \in Moves : f.id = g.id => f = g
          /\ e.id \in Int
      BY <1>4, <1>7 DEF Moves, ChainInv, IdsDiffer, Event
    <3>3. Latest(Moves \cup {e}) = e
      <4> DEFINE S == Moves \cup {e}
      <4>1. /\ e \in S /\ \A f \in S : f.id \in Int /\ f.id <= e.id
            /\ \A f, g \in S : f.id = g.id => f = g
        BY <3>2
      <4> HIDE DEF S
      <4>2. Latest(S) = e
        BY <4>1, LatestIsLast
      <4> QED
        BY <4>2 DEF S
    <3>4. {f \in Moves \cup {e} : f.id < e.id} = Moves
      BY <3>2
    <3>5. \A f \in Moves :
            {g \in Moves \cup {e} : g.id < f.id} = {g \in Moves : g.id < f.id}
      BY <3>2
    <3> QED
      BY <3>1, <3>3, <3>4, <3>5 DEF ChainInv, TrailIsWhole, ChangesAreChained
  <2> QED
    BY <2>1, <2>2
<1> QED
  BY <1>8, <1>9, <1>10, <1>11, <1>12 DEF ChainInv, TrailIsWhole

LEMMA ChainStep ==
  ASSUME ChainInv, [ChainNext]_chainVars
  PROVE  ChainInv'
<1>1. CASE UNCHANGED chainVars
  BY <1>1 DEF chainVars, ChainInv, ChainTypes, Drafting, HeadIsLast, IsHead, IdsDiffer, TrailIsWhole,
       ChainVerifies, verify_chain, Linked, Before, ChangesAreChained, Moves
<1>2. ASSUME NEW w \in Writers,
             \/ BeginCreate(w) \/ BeginTransition(w) \/ UpdateTriage(w)
             \/ ReadHead(w) \/ Commit(w) \/ Conflict(w) \/ Again(w) \/ StopWriter(w)
      PROVE  ChainInv'
  <2>1. writer[w] \in Work /\ head.hash \in Hashes /\ head.id \in Int
        /\ Names(head.hash, head.id)
    BY DEF ChainInv, ChainTypes, HeadIsLast
  <2>2. CASE BeginCreate(w)
    BY <2>2, NoWorkIsWork, Given DEF BeginCreate, Whats
  <2>3. CASE BeginTransition(w)
    <3>1. PICK move \in CanMove : Give(w, [NoWork EXCEPT !.step = "head", !.what = move]) /\ Stored
      BY <2>3 DEF BeginTransition
    <3> DEFINE r == [NoWork EXCEPT !.step = "head", !.what = move]
    <3>2. move \in Whats
      BY DEF Whats
    <3>3. r \in Work /\ r.step = "head" /\ r.what \in Whats
      BY <3>2, NoWorkIsWork
    <3> HIDE DEF r
    <3>4. r.step # "commit"
      BY <3>3
    <3> QED
      BY <3>1, <3>3, <3>4, Given DEF r
  <2>4. CASE UpdateTriage(w)
    <3> DEFINE r == [NoWork EXCEPT !.step = "head", !.what = <<"TRIAGE_SCORED", w>>]
    <3>1. r \in Work /\ r.step = "head" /\ r.what \in Whats
      BY NoWorkIsWork DEF Whats
    <3>2. writer' \in [Writers -> Work] /\ writer'[w] = r
          /\ \A v \in Writers \ {w} : writer'[v] = writer[v]
      BY <2>4, <3>1 DEF UpdateTriage, Give, ChainInv, ChainTypes
    <3> HIDE DEF r
    <3>3. Drafting'
      BY <3>1, <3>2 DEF ChainInv, Drafting
    <3> QED
      BY <2>4, <3>2, <3>3 DEF UpdateTriage, ChainInv, ChainTypes, HeadIsLast, IsHead, IdsDiffer,
           TrailIsWhole, ChainVerifies, verify_chain, Linked, Before, ChangesAreChained, Moves
  <2>5. CASE ReadHead(w)
    <3> DEFINE r == [writer[w] EXCEPT !.step = "commit", !.hash = head.hash, !.last = head.id,
                                      !.tries = @ + 1]
    <3>1. r \in Work /\ r.what = writer[w].what /\ r.hash = head.hash /\ r.last = head.id
      <4> DEFINE p == [writer[w] EXCEPT !.step = "commit", !.hash = head.hash]
                 q == [p EXCEPT !.last = head.id]
      <4>1. p \in Work /\ p.what = writer[w].what /\ p.hash = head.hash
            /\ p.tries = writer[w].tries
        BY <2>1 DEF Work
      <4>2. r = [p EXCEPT !.last = head.id, !.tries = @ + 1]
        BY <2>1 DEF Work
      <4> HIDE DEF p, r
      <4>3. q \in Work /\ q.what = p.what /\ q.hash = p.hash /\ q.last = head.id
        BY <2>1, <4>1 DEF Work
      <4>4. r = [q EXCEPT !.tries = @ + 1]
        BY <4>1, <4>2 DEF Work
      <4> HIDE DEF q
      <4> QED
        BY <4>1, <4>3, <4>4 DEF Work
    <3>2. r.what \in Whats
      BY <2>5, <3>1 DEF ReadHead, ChainInv, Drafting
    <3>3. Give(w, r) /\ Stored
      BY <2>5 DEF ReadHead
    <3> HIDE DEF r
    <3> QED
      BY <2>1, <3>1, <3>2, <3>3, Given
  <2>6. CASE Commit(w)
    BY <2>6, CommitStep
  <2>7. CASE Conflict(w) \/ StopWriter(w)
    BY <2>7, NoWorkIsWork, Given DEF Conflict, StopWriter
  <2>8. CASE Again(w)
    <3> DEFINE r == [writer[w] EXCEPT !.step = "head"]
    <3>1. r \in Work /\ r.what = writer[w].what /\ r.step = "head"
      BY <2>1 DEF Work
    <3>2. r.what \in Whats
      BY <2>8, <3>1 DEF Again, ChainInv, Drafting
    <3>3. (Give(w, r) \/ Give(w, NoWork)) /\ Stored
      BY <2>8 DEF Again
    <3> HIDE DEF r
    <3> QED
      BY <3>1, <3>2, <3>3, NoWorkIsWork, Given
  <2> QED
    BY <1>2, <2>2, <2>3, <2>4, <2>5, <2>6, <2>7, <2>8
<1> QED
  BY <1>1, <1>2 DEF ChainNext

-----------------------------------------------------------------------------

\* The inductive invariant: the head is the last event, and whoever holds a hash knows the
\* event it ends with.
THEOREM ChainInvariance == ChainSpec => []ChainInv
<1>1. ChainInit => ChainInv
  BY InitEstablishesChain
<1>2. ChainInv /\ [ChainNext]_chainVars => ChainInv'
  BY ChainStep
<1> QED
  BY <1>1, <1>2, PTL DEF ChainSpec

\* However many writers race on a case, whatever their clocks say and wherever they stop,
\* the chain of the case verifies and its moves lead from the creation to its status.
THEOREM TrailStaysWhole == ChainSpec => []TrailIsWhole
<1>1. ChainInv => TrailIsWhole
  BY DEF ChainInv
<1> QED
  BY <1>1, ChainInvariance, PTL

=============================================================================
