-------------------------------- MODULE Sap --------------------------------
(***************************************************************************)
(* One plan action at the SAP boundary (execution/sap.py) through the OData *)
(* client (shared/sap_client.py): prepare_undo of every write, the writes   *)
(* with their verification, and undo, last first, while SAP's other users   *)
(* change the same documents and the network loses requests and answers.    *)
(*                                                                         *)
(* `job.op` names the request in progress. Every attempt of a request is a  *)
(* step: SAP may answer it, carry it out and lose the answer, or not get    *)
(* it. What the boundary does with an answer belongs to the same step.      *)
(***************************************************************************)
EXTENDS Integers, FiniteSets

CONSTANTS
  Kinds,      \* of Actions: the plan actions explored
  attempts,   \* SapClient.attempts
  MaxFaults,  \* bound: requests or answers lost, refused or expired sessions
  MaxEdits    \* bound: changes by other users of SAP

VARIABLES
  job,        \* what the boundary is doing: [kind, op, i, tries, refetched, pending]
  undo,       \* `prepared`: what prepare_undo saved of each step
  etag,       \* of the record read last
  csrf,       \* the client's token: "none", "valid" or "stale"
  lines,      \* SAP's records that the action touches, by step
  stamps,     \* etags given out
  faults, edits,
  created,    \* history: documents and lines created
  unread,     \* history: records changed by others since the boundary last judged them
  overwritten \* history: such a record was written

sapVars == <<job, undo, etag, csrf, lines, stamps, faults, edits, created, unread, overwritten>>

\* CREATE_STO, CREATE_PO_ALTERNATE, CHANGE_PO_DATE, SPLIT_PO_SCHEDULE_LINE
Actions == {"STO", "ALTERNATE", "DATE", "SPLIT"}
ASSUME KindsAreActions == Kinds \subseteq Actions
Absent == [qty |-> 0, due |-> "none", etag |-> 0]
Whole == 3
Part == <<2, 1>>
Steps(kind) == IF kind = "SPLIT" THEN 1..2 ELSE {1}

SapInit ==
  /\ \E kind \in Kinds :
       /\ job = [kind |-> kind, op |-> "prepare", i |-> 1, tries |-> 1, refetched |-> FALSE,
                  pending |-> FALSE]
       /\ lines = [l \in {1, 2} |-> IF l = 1 /\ kind \in {"DATE", "SPLIT"}
                                    THEN [qty |-> Whole, due |-> "old", etag |-> 1] ELSE Absent]
  /\ undo = [l \in {1, 2} |-> Absent] /\ etag = 0 /\ csrf = "none" /\ stamps = 1
  /\ faults = 0 /\ edits = 0 /\ created = 0 /\ unread = {} /\ overwritten = FALSE

\* The request of an operation: what it writes, and the etag of its If-Match
Creates(j) == j.op = "apply" /\ (j.kind \in {"STO", "ALTERNATE"} \/ j.i = 2)
Method(j) ==
  CASE Creates(j) -> "POST"
    [] j.op = "apply" /\ ~Creates(j) -> "PATCH"
    [] j.op = "unwrite" -> IF j.kind = "SPLIT" /\ j.i = 2 THEN "DELETE" ELSE "PATCH"
    [] j.op \in {"prepare", "reread", "verify", "check", "again", "recheck"} -> "GET"
    [] OTHER -> "none"
Planned(kind, i) == [qty |-> IF kind = "SPLIT" THEN Part[i] ELSE Whole, due |-> "new"]
\* what undo leaves: the line as it was, or the order's item marked deleted
\* Mutant: undo puts the date back and leaves the quantity.
MRestored(kind, i) ==
  IF kind \in {"STO", "ALTERNATE"} THEN [qty |-> Whole, due |-> "deleted"]
  ELSE [qty |-> lines[i].qty, due |-> undo[i].due]
Restored(kind, i) ==
  IF kind \in {"STO", "ALTERNATE"} THEN [qty |-> Whole, due |-> "deleted"]
  ELSE [qty |-> undo[i].qty, due |-> undo[i].due]
Body(j) == IF j.op = "apply" THEN Planned(j.kind, j.i) ELSE Restored(j.kind, j.i)
IfMatch(j) == IF j.op = "apply" THEN undo[j.i].etag ELSE etag
Shows(line, value) == line.qty = value.qty /\ line.due = value.due
Stamped(value) == [qty |-> value.qty, due |-> value.due, etag |-> stamps + 1]

\* SAP's answer to a request
\* Mutant: SAP does not compare the etag of an update.
MReply(j) ==
  LET line == lines[j.i] IN
  IF Creates(j) THEN (IF line = Absent THEN 201 ELSE 400)
  ELSE IF line = Absent THEN 404 ELSE 200
Reply(j) ==
  LET line == lines[j.i] IN
  IF Creates(j) THEN (IF j.kind = "SPLIT" /\ line # Absent THEN 400 ELSE 201)
  ELSE IF line = Absent THEN 404
  ELSE IF Method(j) \in {"PATCH", "DELETE"} /\ line.etag # IfMatch(j) THEN 412 ELSE 200

\* What a request changes, answered or not
Carries(j) ==
  IF Reply(j) \in {200, 201} /\ Method(j) # "GET"
  THEN /\ lines' = [lines EXCEPT ![j.i] = IF Method(j) = "DELETE" THEN Absent ELSE Stamped(Body(j))]
       /\ stamps' = stamps + 1
       /\ created' = created + (IF Method(j) = "POST" THEN 1 ELSE 0)
       /\ overwritten' = (overwritten \/ (Method(j) # "POST" /\ j.i \in unread))
       /\ unread' = unread \ {j.i}
  ELSE /\ UNCHANGED <<lines, stamps, created, overwritten>>
       /\ unread' = IF j.op \in {"prepare", "check"} THEN unread \ {j.i} ELSE unread

Ended == {"done", "undone", "failed"}
To(j, op, i) == [j EXCEPT !.op = op, !.i = i, !.tries = 1, !.refetched = FALSE]

\* Where an exception of the boundary leaves the job: nothing is written before the
\* first apply; a write that raises stays PENDING in the journal and the ones before
\* it are compensated; a failed compensation stops.
Fail(j) ==
  CASE j.op \in {"apply", "reread"} ->
         [To(j, IF j.i = 1 THEN "failed" ELSE "check", 1) EXCEPT !.pending = TRUE]
    [] j.op = "verify" -> IF j.kind = "ALTERNATE" THEN To(j, "failed", 1) ELSE To(j, "check", j.i)
    [] OTHER -> To(j, "failed", 1)

\* prepare_undo, apply, verify and undo, after the answer to their request
Prepared(j, line) ==
  CASE j.kind \in {"STO", "ALTERNATE"} -> TRUE
    [] j.kind = "DATE" -> line # Absent
    [] j.kind = "SPLIT" /\ j.i = 1 -> line # Absent /\ Part[1] + Part[2] = line.qty
    [] OTHER -> line = Absent
NextOp(j) ==
  CASE j.op = "prepare" -> IF j.i + 1 \in Steps(j.kind) THEN To(j, "prepare", 2) ELSE To(j, "apply", 1)
    [] j.op = "apply" -> To(j, IF Creates(j) THEN "verify" ELSE "reread", j.i)
    [] j.op = "reread" -> To(j, "verify", j.i)
    [] j.op = "verify" -> IF j.i + 1 \in Steps(j.kind) THEN To(j, "apply", 2) ELSE To(j, "done", 1)
    [] j.op = "check" -> To(j, IF j.kind = "DATE" THEN "unwrite" ELSE "again", j.i)
    [] j.op = "again" -> To(j, "unwrite", j.i)
    [] j.op = "unwrite" -> To(j, "recheck", j.i)
    [] OTHER -> IF j.i = 2 THEN To(j, "check", 1) ELSE To(j, "undone", 1)
\* What undo checks of an order is that no goods have moved: another query.
\* verify does not look at the date of an alternate order.
Accepts(j, line) ==
  CASE j.op = "prepare" -> Prepared(j, line)
    [] j.op = "verify" -> /\ line # Absent
                          /\ \/ Shows(line, Planned(j.kind, j.i))
                             \/ j.kind = "ALTERNATE" /\ line.qty = Whole
    [] j.op = "check" -> line # Absent /\ (j.kind = "STO" \/ Shows(line, Planned(j.kind, j.i)))
    [] j.op = "recheck" -> IF j.kind = "SPLIT" /\ j.i = 2 THEN line = Absent
                           ELSE line # Absent /\ Shows(line, Restored(j.kind, j.i))
    [] OTHER -> Reply(j) \in {200, 201}

\* undo sends the etag of the record it has judged; for a split line it reads it again,
\* and for an order it asks for goods movements, which refuse it.
Answered ==
  LET j == job  line == lines[job.i] IN
  /\ Method(j) # "none" /\ (Method(j) = "GET" \/ csrf = "valid")
  /\ Carries(j)
  /\ \/ job' = IF Accepts(j, line) THEN NextOp(j) ELSE Fail(j)
     \/ j.kind = "STO" /\ j.op = "again" /\ job' = Fail(j)
  /\ undo' = IF j.op = "prepare" THEN [undo EXCEPT ![j.i] = line] ELSE undo
  /\ etag' = IF j.op = "check" \/ (j.op = "again" /\ j.kind = "SPLIT") THEN line.etag ELSE etag
  /\ UNCHANGED <<csrf, faults, edits>>

\* _send: a create is only repeated when SAP cannot have carried it out.
\* Mutant: whatever was not answered is repeated.
MMayRepeat(j) == TRUE
MayRepeat(j) == Method(j) # "POST"
Repeat(j) == IF j.tries < attempts THEN [j EXCEPT !.tries = @ + 1] ELSE Fail(j)
Fault == faults < MaxFaults /\ faults' = faults + 1
Unread == UNCHANGED <<undo, etag, edits>>

\* 429, 503, no connection
Unserved ==
  /\ Method(job) # "none" /\ Fault
  /\ job' = Repeat(job)
  /\ Unread /\ UNCHANGED <<csrf, lines, stamps, created, unread, overwritten>>

\* A timeout, a broken connection, 500, 502 or 504, before or after SAP's work
Unanswered ==
  /\ Method(job) # "none" /\ (Method(job) = "GET" \/ csrf = "valid") /\ Fault
  /\ Carries(job) \/ UNCHANGED <<lines, stamps, created, unread, overwritten>>
  /\ job' = IF MayRepeat(job) THEN Repeat(job) ELSE Fail(job)
  /\ Unread /\ UNCHANGED csrf

\* _write: a token is fetched for the first write, and once more when SAP refuses it.
FetchCsrf ==
  /\ Method(job) \in {"POST", "PATCH", "DELETE"} /\ csrf = "none" /\ csrf' = "valid"
  /\ Unread /\ UNCHANGED <<job, faults, lines, stamps, created, unread, overwritten>>
CsrfRequired ==
  /\ Method(job) \in {"POST", "PATCH", "DELETE"} /\ csrf = "stale" /\ csrf' = "none"
  /\ job' = IF job.refetched THEN Fail(job) ELSE [job EXCEPT !.refetched = TRUE, !.tries = 1]
  /\ Unread /\ UNCHANGED <<faults, lines, stamps, created, unread, overwritten>>
Expire ==
  /\ csrf = "valid" /\ job.op \notin Ended /\ Fault /\ csrf' = "stale"
  /\ Unread /\ UNCHANGED <<job, lines, stamps, created, unread, overwritten>>

\* Another user of SAP moves a date; an item's deletion mark may stay.
Edit(l) ==
  /\ edits < MaxEdits /\ job.op \notin Ended /\ lines[l] # Absent
  /\ \E due \in {"old", "new", "theirs"} \cup ({lines[l].due} \cap {"deleted"}) :
       lines' = [lines EXCEPT ![l] = Stamped([qty |-> lines[l].qty, due |-> due])]
  /\ stamps' = stamps + 1 /\ edits' = edits + 1 /\ unread' = unread \cup {l}
  /\ UNCHANGED <<job, undo, etag, csrf, faults, created, overwritten>>

\* A rollback of the executed action; BR-17 leaves an alternate order to a human.
Rollback ==
  /\ job.op = "done" /\ job.kind # "ALTERNATE"
  /\ job' = To(job, "check", Cardinality(Steps(job.kind)))
  /\ UNCHANGED <<undo, etag, csrf, lines, stamps, faults, edits, created, unread, overwritten>>

SapNext ==
  \/ Answered \/ Unserved \/ Unanswered \/ FetchCsrf \/ CsrfRequired \/ Expire
  \/ Rollback \/ \E l \in {1, 2} : Edit(l)
SapSpec == SapInit /\ [][SapNext]_sapVars

-----------------------------------------------------------------------------

\* Lost answers never make a second document (SapClient, NFR-REL-01): an order, and
\* each line of a split, is created at most once.
CreatedOnce == created <= 1

\* What another user changed after the boundary judged a record is never overwritten,
\* neither by a write of the plan nor by its undo, except where undo of a split reads
\* the line again after verifying it.
EditsAreKept == overwritten => job.kind = "SPLIT" /\ job.op \notin {"apply", "reread", "verify"}

\* A finished action shows what the plan wrote, an undone one what was there before:
\* retries and refused tokens leave nothing half done. Others may have changed it
\* meanwhile, and a write whose outcome is unknown is left to reconciliation.
WholeOrBack ==
  edits = 0 /\ ~job.pending =>
    /\ job.op = "done" => \A l \in Steps(job.kind) : Shows(lines[l], Planned(job.kind, l))
    /\ job.op = "undone" /\ job.kind = "STO" => lines[1].due = "deleted"
    /\ job.op = "undone" /\ job.kind # "STO" => Shows(lines[1], undo[1]) /\ lines[2] = Absent

\* Whatever is lost, refused or changed by others on the way, a SAP action ends as the
\* execution journal believes it ended.
ActionIsExact == CreatedOnce /\ EditsAreKept /\ WholeOrBack
=============================================================================
