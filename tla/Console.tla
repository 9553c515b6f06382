------------------------------ MODULE Console ------------------------------
(***************************************************************************)
(* The console's API and its live updates: POST requests with an           *)
(* idempotency key and the reset of the environment (api/handler.py,       *)
(* api/admin.py), single-use socket tickets and the push of domain events  *)
(* to open consoles (realtime/handler.py).                                 *)
(*                                                                         *)
(* What a command does is left open: it takes effect, is refused, or stops *)
(* with or without an effect. Its own rules are in the other modules.      *)
(***************************************************************************)
EXTENDS Naturals, Sequences, FiniteSets

CONSTANTS
  Callers,    \* requests being served at the same time
  Posts,      \* bound: the POSTs clients send, [key, body]; body "reset" is the reset
  Consoles,   \* connections
  MaxActs,    \* bound: effects of one key
  MaxPushes   \* attempts at delivering one event (EventBridge retries a failed call)

\* "none" stands for no request.
ASSUME PostsAreRequests == \A p \in Posts : p = [key |-> p.key, body |-> p.body] /\ p.body # "none"

VARIABLES
  claim,      \* API#user#key of the idempotency table: [body, answer]
  call,       \* what each request being served has done
  wiped,      \* the environment has been reset
  acts,       \* effects that the commands of a key have had
  answers,    \* answers clients got, 409 aside: <<key, body, answer>>
  tickets,    \* TICKET# items
  row,        \* a connection's item: "none", "idle" before it subscribes, else its target
  indexed,    \* the same as the index by target has it, which follows the items
  socket,     \* the socket itself: "new", "open", "gone"
  push        \* the event being pushed: [step, page, heard, tries, due]

apiVars == <<claim, call, wiped, acts, answers>>
liveVars == <<tickets, row, indexed, socket, push>>
consoleVars == <<apiVars, liveVars>>

Keys == {p.key : p \in Posts}
Free == [body |-> "none", answer |-> "none"]
Serving == [step |-> "idle", post |-> [key |-> "none", body |-> "none"], note |-> "none"]
Quiet == [step |-> "none", page |-> {}, heard |-> {}, tries |-> 0, due |-> {}]

ConsoleInit ==
  /\ wiped = FALSE
  /\ claim = [k \in Keys |-> Free] /\ call = [c \in Callers |-> Serving]
  /\ acts = [k \in Keys |-> 0] /\ answers = {}
  /\ tickets = 0 /\ row = [s \in Consoles |-> "none"] /\ indexed = row
  /\ socket = [s \in Consoles |-> "new"] /\ push = Quiet

GoOn(c, step, note) == call' = [call EXCEPT ![c].step = step, ![c].note = note]
Done(c) == call' = [call EXCEPT ![c] = Serving]
Tell(p, answer) == answers' = answers \cup {<<p.key, p.body, answer>>}
Key(c) == call[c].post.key

-----------------------------------------------------------------------------
(* Api._idempotent *)

\* The claim; a key that is taken answers what its request was answered, to the same
\* request only, and 409 while that is not known.
Post(c, p) ==
  /\ call[c] = Serving
  /\ \/ /\ claim[p.key] = Free
        /\ claim' = [claim EXCEPT ![p.key].body = p.body]
        /\ call' = [call EXCEPT ![c] = [Serving EXCEPT !.step = "act", !.post = p]]
        /\ UNCHANGED answers
     \/ /\ claim[p.key].body = p.body /\ claim[p.key].answer # "none"
        /\ Tell(p, claim[p.key].answer)
        /\ UNCHANGED <<claim, call>>
  /\ UNCHANGED <<wiped, acts, liveVars>>

Command(c) == call[c].step = "act" /\ call[c].post.body # "reset"
TakesEffect(c) ==
  /\ acts[Key(c)] < MaxActs
  /\ acts' = [acts EXCEPT ![Key(c)] = @ + 1]

\* The command: done, or refused with a Problem, which is an answer too
Act(c) ==
  /\ Command(c)
  /\ \/ TakesEffect(c) /\ GoOn(c, "answer", "done")
     \/ GoOn(c, "answer", "refused") /\ UNCHANGED acts
  /\ UNCHANGED <<claim, wiped, answers, liveVars>>

\* Mutant: a command that fails unexpectedly gives its claim back.
MLeft(c) == claim' = [claim EXCEPT ![Key(c)] = Free]

\* "An unexpected failure leaves the claim intact: side effects may already exist."
Left(c) == UNCHANGED claim

Fails(c) ==
  /\ Command(c)
  /\ TakesEffect(c) \/ UNCHANGED acts
  /\ Left(c) /\ Done(c)
  /\ UNCHANGED <<wiped, answers, liveVars>>

\* The answer is stored, then sent; a stop before that leaves the claim without one.
Answer(c) ==
  /\ call[c].step = "answer"
  /\ claim' = [claim EXCEPT ![Key(c)].answer = call[c].note]
  /\ Tell(call[c].post, call[c].note) /\ Done(c)
  /\ UNCHANGED <<wiped, acts, liveVars>>

StopCall(c) ==
  /\ call[c].step # "idle" /\ Done(c)
  /\ UNCHANGED <<claim, wiped, acts, answers, liveVars>>

-----------------------------------------------------------------------------
(* Admin *)

\* reset clears the tables (here in one step), its own claim and those of requests
\* that still run among them.
Reset(c) ==
  /\ call[c].step = "act" /\ call[c].post.body = "reset"
  /\ claim' = [k \in Keys |-> Free] /\ wiped' = TRUE
  /\ tickets' = 0 /\ row' = [s \in Consoles |-> "none"]
  /\ push' = [push EXCEPT !.due = {}]
  /\ GoOn(c, "answer", "done")
  /\ UNCHANGED <<acts, answers, indexed, socket>>

-----------------------------------------------------------------------------
(* Realtime *)

Issue == tickets = 0 /\ tickets' = 1 /\ UNCHANGED <<apiVars, row, indexed, socket, push>>

Connect(s) ==
  /\ socket[s] = "new" /\ tickets > 0 /\ tickets' = tickets - 1
  /\ socket' = [socket EXCEPT ![s] = "open"] /\ row' = [row EXCEPT ![s] = "idle"]
  /\ UNCHANGED <<apiVars, indexed, push>>

\* To the board or to one case; a later subscription replaces it.
Subscribe(s) ==
  /\ socket[s] = "open" /\ row[s] # "none"
  /\ \E target \in {"board", "case"} \ {row[s]} : row' = [row EXCEPT ![s] = target]
  /\ push' = [push EXCEPT !.due = @ \ {s}]
  /\ UNCHANGED <<apiVars, tickets, indexed, socket>>

\* The client leaves; API Gateway may not get to tell $disconnect.
Disconnect(s) ==
  /\ socket[s] = "open" /\ socket' = [socket EXCEPT ![s] = "gone"]
  /\ row' = [row EXCEPT ![s] = "none"] \/ UNCHANGED row
  /\ UNCHANGED <<apiVars, tickets, indexed, push>>

\* DynamoDB brings the index up to date, some time after the item changed.
Index(s) ==
  /\ indexed[s] # row[s] /\ indexed' = [indexed EXCEPT ![s] = row[s]]
  /\ UNCHANGED <<apiVars, tickets, row, socket, push>>

\* The open consoles whose subscription the index knows
Subscribed ==
  {s \in Consoles : socket[s] = "open" /\ row[s] \in {"board", "case"} /\ indexed[s] = row[s]}

\* A board event of the case: it goes to the case's consoles and to the board's.
Happens ==
  /\ push = Quiet
  /\ push' = [Quiet EXCEPT !.step = "case", !.due = Subscribed]
  /\ UNCHANGED <<apiVars, tickets, row, indexed, socket>>

\* _send queries the index for the consoles of one target, then of the next: one page,
\* which these few fill at most.
QueryTarget ==
  /\ push.step \in {"case", "board"} /\ push.page = {}
  /\ LET page == {s \in Consoles : indexed[s] = push.step} IN
       push' = [push EXCEPT !.page = page, !.step = IF page # {} THEN @
                                                  ELSE IF @ = "case" THEN "board" ELSE "sent"]
  /\ UNCHANGED <<apiVars, tickets, row, indexed, socket>>

\* The step after one console of the page
PageWithout(s) ==
  LET left == push.page \ {s} IN
  [push EXCEPT !.page = left, !.step = IF left # {} THEN @
                                       ELSE IF @ = "case" THEN "board" ELSE "sent"]

\* Mutant: a console that is gone ends the push.
MGoneOne(s) == [push EXCEPT !.page = {}, !.step = "sent"]
GoneOne(s) == PageWithout(s)

PostOne(s) ==
  /\ push.step \in {"case", "board"} /\ s \in push.page
  /\ \/ socket[s] = "open" /\ push' = [PageWithout(s) EXCEPT !.heard = @ \cup {s}] /\ UNCHANGED row
     \/ socket[s] = "gone" /\ push' = GoneOne(s) /\ row' = [row EXCEPT ![s] = "none"]
  /\ UNCHANGED <<apiVars, tickets, indexed, socket>>

\* Any other error fails the call; it is made again from the start, or given up.
PushFails ==
  /\ push.step \in {"case", "board"}
  /\ push' = IF push.tries + 1 < MaxPushes
               THEN [push EXCEPT !.step = "case", !.page = {}, !.tries = @ + 1]
               ELSE [push EXCEPT !.step = "lost", !.page = {}]
  /\ UNCHANGED <<apiVars, tickets, row, indexed, socket>>

ApiNext ==
  \E c \in Callers :
    \/ \E p \in Posts : Post(c, p)
    \/ Act(c) \/ Fails(c) \/ Answer(c) \/ StopCall(c) \/ Reset(c)

LiveNext ==
  \/ \E s \in Consoles : Connect(s) \/ Subscribe(s) \/ Disconnect(s) \/ Index(s) \/ PostOne(s)
  \/ Issue \/ Happens \/ QueryTarget \/ PushFails

ConsoleSpec == ConsoleInit /\ [][ApiNext \/ LiveNext]_consoleVars

-----------------------------------------------------------------------------
\* However often a request is repeated and wherever a call stops, the command of a key
\* takes effect at most once and all its answers agree, until a reset forgets the keys.
ActedOnce ==
  wiped \/ ( /\ \A k \in Keys : acts[k] <= 1
             /\ \A a, b \in answers : a[1] = b[1] => a = b )

\* FR-AUD-03: an event whose push ended well was heard by every console that watched
\* its case or the board when it happened and has neither left nor turned to another;
\* watched in the index, which a console that has just subscribed is missing from.
EveryoneHears ==
  push.step = "sent" => \A s \in push.due : s \in push.heard \/ socket[s] = "gone"

\* Commands act once and what they change is heard.
ConsoleIsServed == ActedOnce /\ EveryoneHears
=============================================================================
