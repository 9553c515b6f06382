------------------------------- MODULE Chain -------------------------------
(***************************************************************************)
(* The audit chain of one case (shared/audit.py) and the case store whose  *)
(* writes commit together with their audit event (shared/cases.py).         *)
(*                                                                         *)
(* A writer reads the case, reads the chain's head, drafts an event linked *)
(* to it and commits event, head and case update in one DynamoDB            *)
(* transaction. The hash of an event is the sequence of everything it      *)
(* covers, so different histories have different hashes.                    *)
(***************************************************************************)
EXTENDS Integers, Sequences, FiniteSetsExt

CONSTANTS
  Writers,      \* invocations that write to the case at the same time
  MaxAttempts,  \* _MAX_ATTEMPTS
  MaxEvents,    \* bound: events on the chain
  Clocks        \* bound: readings of the writers' clocks, skewed against each other

\* A ULID's order is that of a number.
ASSUME ClocksAreNumbers == Clocks \subseteq Int

VARIABLES
  meta,     \* META.status, "NONE" before the case exists
  score,    \* META.priorityScore, by the writer that set it last
  head,     \* the AUDIT# head: [hash (lastHash), id (lastEventId, 0 when there is none)]
  chain,    \* the audit table's events: [id, prev (prevHash), what]
  writer    \* what each invocation has read and drafted

chainVars == <<meta, score, head, chain, writer>>

GENESIS == <<>>
\* Of TRANSITIONS, enough for a case to come back to a status it has left
CanMove == {<<"RECEIVED", "TRIAGED">>, <<"TRIAGED", "INVESTIGATING">>,
            <<"INVESTIGATING", "WAITING_PLANNER">>, <<"WAITING_PLANNER", "INVESTIGATING">>}
NoWork == [step |-> "idle", what |-> <<>>, hash |-> GENESIS, last |-> 0, tries |-> 0]

ChainInit ==
  /\ meta = "NONE" /\ score = "none"
  /\ head = [hash |-> GENESIS, id |-> 0] /\ chain = {}
  /\ writer = [w \in Writers |-> NoWork]

Creation == <<"NONE", "RECEIVED">>
Move(what) == what \in CanMove \cup {Creation}
event_hash(e) == Append(e.prev, <<e.id, e.what>>)
Give(w, r) == writer' = [writer EXCEPT ![w] = r]
Stored == UNCHANGED <<meta, score, head, chain>>

\* CaseStore.create and transition: the caller names the status it saw, or none and
\* the store takes the one it reads; a move that is not allowed writes nothing.
BeginCreate(w) ==
  /\ writer[w] = NoWork /\ Cardinality(chain) < MaxEvents
  /\ Give(w, [NoWork EXCEPT !.step = "head", !.what = Creation]) /\ Stored
BeginTransition(w) ==
  /\ writer[w] = NoWork /\ meta # "NONE" /\ Cardinality(chain) < MaxEvents
  /\ \E move \in CanMove : Give(w, [NoWork EXCEPT !.step = "head", !.what = move])
  /\ Stored

\* update_triage: the score is written before its event is recorded.
UpdateTriage(w) ==
  /\ writer[w] = NoWork /\ meta # "NONE" /\ Cardinality(chain) < MaxEvents
  /\ score' = w
  /\ Give(w, [NoWork EXCEPT !.step = "head", !.what = <<"TRIAGE_SCORED", w>>])
  /\ UNCHANGED <<meta, head, chain>>

\* AuditWriter.head, at the start of each attempt
ReadHead(w) ==
  /\ writer[w].step = "head"
  /\ Give(w, [writer[w] EXCEPT !.step = "commit", !.hash = head.hash, !.last = head.id,
                               !.tries = @ + 1])
  /\ Stored

\* ULIDs order the audit table: one that is not after the last event's becomes its successor.
\* Mutant: the clock's ULID as it is.
M_after(last, clock) == clock
_after(last, clock) == IF clock <= last THEN last + 1 ELSE clock

Draft(w, clock) ==
  [id |-> _after(writer[w].last, clock), prev |-> writer[w].hash, what |-> writer[w].what]

\* The condition of the caller's own item in the transaction
\* Mutant: the update of the status is not conditional on the one the caller saw.
MExtraHolds(what) == what = Creation => meta = "NONE"
ExtraHolds(what) == Move(what) => meta = what[1]
HeadHolds(w) == head.hash = writer[w].hash
IsNew(e) == \A f \in chain : f.id # e.id

Commit(w) ==
  /\ writer[w].step = "commit"
  /\ \E clock \in Clocks : LET e == Draft(w, clock) IN
       /\ IsNew(e) /\ HeadHolds(w) /\ ExtraHolds(e.what)
       /\ chain' = chain \cup {e} /\ head' = [hash |-> event_hash(e), id |-> e.id]
       /\ meta' = IF Move(e.what) THEN e.what[2] ELSE meta
  /\ Give(w, NoWork) /\ UNCHANGED score

\* The caller's condition failed, or its item was busy in another transaction: it is
\* told that the case changed (TransactionConflictError).
Busy(w) == \E v \in Writers \ {w} : writer[v].step = "commit"
Conflict(w) ==
  /\ writer[w].step = "commit" /\ Move(writer[w].what)
  /\ Busy(w) \/ ~ExtraHolds(writer[w].what)
  /\ Give(w, NoWork) /\ Stored

\* The chain moved on, or its head was busy: link again, or give up.
Again(w) ==
  /\ writer[w].step = "commit" /\ ExtraHolds(writer[w].what)
  /\ Busy(w) \/ ~HeadHolds(w)
  /\ IF writer[w].tries < MaxAttempts THEN Give(w, [writer[w] EXCEPT !.step = "head"])
                                      ELSE Give(w, NoWork)
  /\ Stored

StopWriter(w) == writer[w] # NoWork /\ Give(w, NoWork) /\ Stored

ChainNext ==
  \E w \in Writers :
    \/ BeginCreate(w) \/ BeginTransition(w) \/ UpdateTriage(w)
    \/ ReadHead(w) \/ Commit(w) \/ Conflict(w) \/ Again(w) \/ StopWriter(w)

ChainSpec == ChainInit /\ [][ChainNext]_chainVars

-----------------------------------------------------------------------------

\* verify_chain over the events as the table orders them: those whose link does not hold
Before(e) == {f \in chain : f.id < e.id}
Latest(events) == CHOOSE e \in events : \A f \in events : f.id <= e.id
Linked(e) == e.prev = IF Before(e) = {} THEN GENESIS ELSE event_hash(Latest(Before(e)))
verify_chain == {e \in chain : ~Linked(e)}

\* Read in the order of its keys, the chain verifies: writers that race, or whose
\* clocks disagree, neither fork it nor swap its events.
ChainVerifies == verify_chain = {}

\* The moves on the chain follow each other from the creation to the status the
\* case has: no change of status is lost, repeated or left out of the trail.
Moves == {e \in chain : Move(e.what)}
ChangesAreChained ==
  /\ \A e \in Moves : LET earlier == {f \in Moves : f.id < e.id} IN
       e.what[1] = IF earlier = {} THEN "NONE" ELSE Latest(earlier).what[2]
  /\ meta = IF Moves = {} THEN "NONE" ELSE Latest(Moves).what[2]

\* The trail of a case can be verified, and it is the case's history.
TrailIsWhole == ChainVerifies /\ ChangesAreChained
=============================================================================
