--------------------------- MODULE ApprovalProofs ---------------------------
(***************************************************************************)
(* Proofs about Approval for any invocations, approvers and plan versions  *)
(* and whatever a behaviour allows: stops, administrators, late timers,    *)
(* portfolio solves. What keeps the approvals right is that a part carries *)
(* a revision: a call that finds the one it read finds the part it read.   *)
(***************************************************************************)
EXTENDS Approval, FiniteSetTheorems, TLAPS

-----------------------------------------------------------------------------
(* The inductive invariant *)

Bumping(r) == r.pc \in {"bump", "bumpResized"}

\* Versions are numbered without a gap, and one call at most has stored the
\* next plan and not yet made it the current one.
Numbering ==
  /\ 1..version \subseteq plans
  /\ plans \subseteq 1..(version + 1)
  /\ \A c, d \in Callers : Bumping(call[c]) /\ Bumping(call[d]) => c = d

\* A part has one fate; one superseded is not of the current version, unless the
\* solve left the case nothing to run.
PartFits(v) ==
  LET p == part[v] IN
  /\ route[v] = "NONE" => p.decision = "NONE"
  /\ time[v] # 0 => HasPart(v)
  /\ p.decision # "NONE" => ~p.expired /\ (p.superseded => bound.canStarve)
  /\ p.superseded => ~p.expired /\ (bound.canStarve \/ v < version)

Deciding == {"checkLimit", "decide"}

\* The points where a call will write to a part under the revision it read.
Pinning == Deciding \cup {"findBackup", "expire", "remind", "reallocate"}

Unnumbered == {"idle", "claimRun", "enterRun", "plan", "endRun"}

Of(r) == part[r.v]

\* What the record r of a call says at each of its points.
Numbered(r) ==
  /\ r.pc \notin Unnumbered => r.v \in Versions
  /\ r.pc = "bump" => r.v = version + 1
  /\ r.pc \in {"bump", "propose"} => r.v \in plans
  /\ r.pc \in {"resume", "solve", "storeResized"} => r.v <= version
  /\ r.pc = "storeResized" => r.v < bound.versions
  /\ r.pc = "bumpResized" => r.v = version
  /\ r.pc \in {"bumpResized", "emitResized"} => r.v + 1 \in plans

Carries(r) ==
  /\ r.pc = "save" => r.what \in {"1", "2", "3", "split"}
  /\ r.pc \in {"readRoute", "readPart"} \cup Deciding =>
       r.who \in Approvers /\ r.what \in {"APPROVED", "REJECTED"}
  /\ r.pc \in {"readRoute", "readPart", "tick"} \cup Pinning => HasPart(r.v)

AsRead(r) ==
  /\ Of(r).decision = "NONE" /\ ~Of(r).expired
  /\ IF r.pc \in Deciding THEN Of(r).approver = r.who ELSE ~Of(r).superseded

Pinned(r) ==
  r.pc \in Pinning => r.rev <= Of(r).rev /\ (r.rev = Of(r).rev => AsRead(r))

Fits(r) == Numbered(r) /\ Carries(r) /\ Pinned(r)

IInv ==
  /\ TypeOK
  /\ Numbering
  /\ \A v \in Versions : PartFits(v)
  /\ \A c \in Callers : Fits(call[c])

-----------------------------------------------------------------------------
(* Constants and records *)

LEMMA BoundFacts ==
  ASSUME bound \in Bounds
  PROVE  bound.versions \in 1..MaxVersion /\ bound.canStarve \in BOOLEAN
BY BoundsAreBounds

LEMMA ApproverFacts == Approvers \subseteq Nat /\ NoOne \notin Approvers
BY ApproversAreOrdered DEF NoOne

\* The record of c is replaced by r; every other call's stays.
Takes(c, r) ==
  /\ call' \in [Callers -> Call]
  /\ call'[c] = r
  /\ \A d \in Callers \ {c} : call'[d] = call[d]

LEMMA Replaced ==
  ASSUME TypeOK, NEW c \in Callers, NEW r \in Call, call' = [call EXCEPT ![c] = r]
  PROVE  Takes(c, r)
BY DEF TypeOK, Takes

LEMMA IdleIsCall == Idle \in Call
BY VersionsExist DEF Idle, Call, Pcs, Running, Statuses, NoOne

LEMMA Going ==
  ASSUME TypeOK, NEW c \in Callers, NEW pc \in Pcs, Goto(c, pc)
  PROVE  Takes(c, [call[c] EXCEPT !.pc = pc])
<1> DEFINE r == [call[c] EXCEPT !.pc = pc]
<1>1. call[c] \in Call
  BY DEF TypeOK
<1>2. r \in Call
  BY <1>1 DEF Call
<1>3. call' = [call EXCEPT ![c] = r]
  BY DEF Goto
<1> QED
  BY <1>2, <1>3, Replaced

\* A call's record with a part's revision, the approver concerned and the clock put back.
Reread(r, pc, rev, who) == [r EXCEPT !.pc = pc, !.rev = rev, !.who = who, !.when = 0]

LEMMA Rereading ==
  ASSUME NEW r \in Call, NEW pc \in Pcs, NEW rev \in Nat, NEW who \in Approvers \cup {NoOne}
  PROVE  /\ Reread(r, pc, rev, who) \in Call
         /\ Reread(r, pc, rev, who).pc = pc /\ Reread(r, pc, rev, who).rev = rev
         /\ Reread(r, pc, rev, who).who = who
         /\ Reread(r, pc, rev, who).v = r.v /\ Reread(r, pc, rev, who).what = r.what
<1> DEFINE q1 == [r EXCEPT !.pc = pc]
           q2 == [q1 EXCEPT !.rev = rev]
           q3 == [q2 EXCEPT !.who = who]
           q4 == [q3 EXCEPT !.when = 0]
<1>1. q1 \in Call /\ q1.pc = pc /\ q1.v = r.v /\ q1.what = r.what
  BY DEF Call
<1>2. q2 \in Call /\ q2.pc = pc /\ q2.rev = rev /\ q2.v = r.v /\ q2.what = r.what
  <2> HIDE DEF q1
  <2> QED
    BY <1>1 DEF Call
<1>3. /\ q3 \in Call /\ q3.pc = pc /\ q3.rev = rev /\ q3.who = who
      /\ q3.v = r.v /\ q3.what = r.what
  <2> HIDE DEF q2
  <2> QED
    BY <1>2 DEF Call
<1>4. /\ q4 \in Call /\ q4.pc = pc /\ q4.rev = rev /\ q4.who = who
      /\ q4.v = r.v /\ q4.what = r.what
  <2> HIDE DEF q3
  <2> QED
    BY <1>3 DEF Call
<1> QED
  BY <1>4 DEF Reread

LEMMA Ending ==
  ASSUME TypeOK, NEW c \in Callers, End(c)
  PROVE  Takes(c, Idle)
BY IdleIsCall, Replaced DEF End

\* A call that ended says nothing of the case.
LEMMA IdleFits == Fits(Idle) /\ Fits(Idle)' /\ ~Bumping(Idle)
BY DEF Fits, Numbered, Carries, Pinned, Pinning, Deciding, Unnumbered, Idle, Bumping

LEMMA Starting ==
  ASSUME TypeOK, NEW c \in Callers, NEW r \in Call, Begin(c, r)
  PROVE  Takes(c, r) /\ call[c].pc = "idle"
BY Replaced DEF Begin, At

-----------------------------------------------------------------------------
(* Steps that leave versions and parts alone *)

Untouched == UNCHANGED <<version, stored, routed, time, admin>>

LEMMA Quiet ==
  ASSUME IInv, NEW c \in Callers, NEW r, Takes(c, r), Untouched,
         Fits(r), Bumping(r) => Bumping(call[c]),
         status' \in Statuses, active' \in BOOLEAN, timers' \subseteq Versions \X {1, 2}
  PROVE  IInv'
<1> USE DEF Untouched, stored, routed, admin
<1>1. TypeOK'
  BY DEF IInv, TypeOK, Takes
<1>2. Numbering'
  <2>1. \A d \in Callers : Bumping(call'[d]) => Bumping(call[d])
    BY DEF Takes
  <2> QED
    BY <2>1 DEF IInv, Numbering, Bumping
<1>3. \A v \in Versions : PartFits(v)'
  BY DEF IInv, PartFits, HasPart
<1>4. \A d \in Callers : Fits(call[d])'
  <2> SUFFICES ASSUME NEW d \in Callers PROVE Fits(call[d])'
    OBVIOUS
  <2>1. Fits(call'[d])
    BY DEF IInv, Takes
  <2> QED
    BY <2>1 DEF Fits, Numbered, Carries, Pinned, AsRead, Of, HasPart
<1> QED
  BY <1>1, <1>2, <1>3, <1>4 DEF IInv

\* The call ends and changes the case's status and claim at most.
LEMMA QuietEnd ==
  ASSUME IInv, NEW c \in Callers, End(c), Untouched,
         status' \in Statuses, active' \in BOOLEAN, timers' \subseteq Versions \X {1, 2}
  PROVE  IInv'
<1>1. Takes(c, Idle)
  BY Ending DEF IInv
<1> QED
  BY <1>1, IdleFits, Quiet

\* The call goes on with the values it has.
LEMMA QuietGo ==
  ASSUME IInv, NEW c \in Callers, NEW pc \in Pcs, Goto(c, pc), Untouched,
         Fits([call[c] EXCEPT !.pc = pc]), pc \notin {"bump", "bumpResized"},
         status' \in Statuses, active' \in BOOLEAN, timers' \subseteq Versions \X {1, 2}
  PROVE  IInv'
<1> DEFINE r == [call[c] EXCEPT !.pc = pc]
<1>1. Takes(c, r)
  BY Going DEF IInv
<1>2. ~Bumping(r)
  BY DEF IInv, TypeOK, Call, Bumping
<1> QED
  BY <1>1, <1>2, Quiet

\* Points where the call's version is all that matters.
Simple == {"resume", "solve", "verify", "route", "settle", "reminderTimer", "deadlineTimer",
           "reject", "escalate", "readParts", "authorize", "enter"} \cup Running

LEMMA GoOn ==
  ASSUME IInv, NEW c \in Callers, NEW pc \in Pcs, call[c].pc \notin Unnumbered,
         pc \in (Simple \ {"resume", "solve"})
           \/ (pc = "solve" /\ call[c].v <= version)
           \/ (pc \in {"readPart", "decide"} /\ call[c].pc \in {"readRoute", "checkLimit"}
                 /\ (pc = "decide" => call[c].pc = "checkLimit"))
           \/ (pc = "tick" /\ call[c].pc = "readPart")
  PROVE  Fits([call[c] EXCEPT !.pc = pc]) /\ pc \notin {"bump", "bumpResized"}
<1> DEFINE r == [call[c] EXCEPT !.pc = pc]
<1>1. /\ r.pc = pc /\ r.v = call[c].v /\ r.who = call[c].who /\ r.what = call[c].what
      /\ r.rev = call[c].rev
  BY DEF IInv, TypeOK, Call
<1>2. Fits(call[c])
  BY DEF IInv
<1>3. Fits(r)
  <2> HIDE DEF r
  <2>1. Numbered(r)
    BY <1>1, <1>2 DEF Fits, Numbered, Unnumbered, Simple, Running
  <2>2. Carries(r)
    BY <1>1, <1>2 DEF Fits, Carries, Deciding, Pinning, Unnumbered, Simple, Running
  <2>3. Pinned(r)
    BY <1>1, <1>2 DEF Fits, Pinned, AsRead, Of, Deciding, Pinning, Unnumbered, Simple, Running
  <2> QED
    BY <2>1, <2>2, <2>3 DEF Fits
<1> QED
  BY <1>3 DEF Simple, Running

\* What an invocation that starts says.
LEMMA Fresh ==
  ASSUME NEW r, r.pc \in {"claimRun", "solve", "resume", "readRoute", "tick", "readParts", "authorize"},
         r.pc # "claimRun" => r.v \in Versions,
         r.pc \in {"solve", "resume"} => r.v <= version,
         r.pc = "readRoute" => r.who \in Approvers /\ r.what \in {"APPROVED", "REJECTED"},
         r.pc \in {"readRoute", "tick"} => HasPart(r.v)
  PROVE  Fits(r) /\ ~Bumping(r)
BY DEF Fits, Numbered, Carries, Pinned, Pinning, Deciding, Unnumbered, Bumping

LEMMA Begun ==
  ASSUME IInv, NEW c \in Callers, NEW r \in Call, Begin(c, r), Fits(r), ~Bumping(r),
         Untouched, UNCHANGED <<status, active>>, timers' \subseteq Versions \X {1, 2}
  PROVE  IInv'
<1>1. Takes(c, r)
  BY Starting DEF IInv
<1>2. status' \in Statuses /\ active' \in BOOLEAN
  BY DEF IInv, TypeOK
<1> QED
  BY <1>1, <1>2, Quiet

-----------------------------------------------------------------------------
(* Runs *)

LEMMA Frame ==
  ASSUME IInv
  PROVE  /\ status \in Statuses /\ active \in BOOLEAN /\ timers \subseteq Versions \X {1, 2}
         /\ version \in Nat /\ version <= MaxVersion
         /\ \A c \in Callers : call[c] \in Call /\ Fits(call[c])
BY VersionsExist DEF IInv, TypeOK

LEMMA ReadCaseStep ==
  ASSUME IInv, NEW c \in Callers, ReadCase(c)
  PROVE  IInv'
<1> DEFINE q == [Idle EXCEPT !.pc = "claimRun", !.st = status]
           r == [Idle EXCEPT !.pc = "claimRun", !.st = status, !.v = version]
<1>1. r \in Call /\ r.pc = "claimRun"
  <2>1. q \in Call /\ q.pc = "claimRun" /\ r = [q EXCEPT !.v = version]
    BY IdleIsCall, Frame DEF Call, Idle, Pcs
  <2>2. version \in 0..MaxVersion
    BY DEF IInv, TypeOK
  <2> HIDE DEF q, r
  <2> QED
    BY <2>1, <2>2 DEF Call
<1>2. Begin(c, r) /\ Untouched /\ UNCHANGED <<status, active, timers>>
  BY DEF ReadCase, Untouched, case, clock
<1> HIDE DEF r
<1>3. Fits(r) /\ ~Bumping(r)
  BY <1>1, Fresh
<1> QED
  BY <1>1, <1>2, <1>3, Begun, Frame

LEMMA ClaimRunStep ==
  ASSUME IInv, NEW c \in Callers, ClaimRun(c)
  PROVE  IInv'
<1>1. Untouched /\ UNCHANGED <<status, timers>> /\ active' \in BOOLEAN
  BY DEF ClaimRun, Untouched, clock
<1>2. CASE End(c)
  BY <1>1, <1>2, QuietEnd, Frame
<1>3. CASE Goto(c, "enterRun")
  <2>1. Fits([call[c] EXCEPT !.pc = "enterRun"])
    BY Frame DEF Call, Fits, Numbered, Carries, Pinned, Pinning, Deciding, Unnumbered
  <2> QED
    BY <1>1, <1>3, <2>1, QuietGo, Frame DEF Pcs
<1> QED
  BY <1>2, <1>3 DEF ClaimRun

LEMMA EnterRunStep ==
  ASSUME IInv, NEW c \in Callers, EnterRun(c)
  PROVE  IInv'
<1>1. Untouched /\ UNCHANGED timers /\ active' \in BOOLEAN /\ status' \in Statuses
  BY Frame DEF EnterRun, Untouched, clock, Statuses
<1>2. CASE End(c)
  BY <1>1, <1>2, QuietEnd, Frame
<1>3. CASE Goto(c, "plan")
  <2>1. Fits([call[c] EXCEPT !.pc = "plan"])
    BY Frame DEF Call, Fits, Numbered, Carries, Pinned, Pinning, Deciding, Unnumbered
  <2> QED
    BY <1>1, <1>3, <2>1, QuietGo, Frame DEF Pcs
<1> QED
  BY <1>2, <1>3 DEF EnterRun

LEMMA EndRunStep ==
  ASSUME IInv, NEW c \in Callers, EndRun(c)
  PROVE  IInv'
<1>1. Untouched /\ UNCHANGED timers /\ active' \in BOOLEAN /\ status' \in Statuses
  BY Frame DEF EndRun, Untouched, clock, Statuses
<1> QED
  BY <1>1, QuietEnd, Frame DEF EndRun

-----------------------------------------------------------------------------
(* Verification *)

LEMMA HandleStep ==
  ASSUME IInv, NEW c \in Callers, NEW v \in Versions, Handle(c, v)
  PROVE  IInv'
<1>1. PICK pc \in {"solve", "resume"} : Begin(c, [Idle EXCEPT !.pc = pc, !.v = v])
  BY DEF Handle
<1> DEFINE r == [Idle EXCEPT !.pc = pc, !.v = v]
<1>2. Begin(c, r) /\ Untouched /\ UNCHANGED <<status, active, timers>> /\ version = v
  BY <1>1 DEF Handle, Untouched, case, clock
<1>3. pc \in Pcs /\ v \in 0..MaxVersion
  BY VersionsExist DEF Pcs, Versions
<1>4. r \in Call /\ r.pc = pc /\ r.v = v
  BY <1>3, IdleIsCall DEF Call, Idle
<1> HIDE DEF r
<1>5. Fits(r) /\ ~Bumping(r)
  <2>1. r.v \in Versions /\ r.v <= version
    BY <1>2, <1>3, <1>4, VersionsExist
  <2> QED
    BY <2>1, <1>4, Fresh
<1> QED
  BY <1>1, <1>2, <1>4, <1>5, Begun, Frame

LEMMA ResumeReallocatedStep ==
  ASSUME IInv, NEW c \in Callers, ResumeReallocated(c)
  PROVE  IInv'
<1>1. Untouched /\ UNCHANGED <<timers, active>> /\ status' \in Statuses
  BY Frame DEF ResumeReallocated, Untouched, clock, Statuses
<1>2. CASE End(c)
  BY <1>1, <1>2, QuietEnd, Frame
<1>3. CASE Goto(c, "solve")
  <2>1. call[c].pc \notin Unnumbered /\ call[c].v <= version
    BY Frame DEF ResumeReallocated, At, Unnumbered, Fits, Numbered
  <2> QED
    BY <1>1, <1>3, <2>1, GoOn, QuietGo, Frame DEF Pcs
<1> QED
  BY <1>2, <1>3 DEF ResumeReallocated

LEMMA SolveStep ==
  ASSUME IInv, NEW c \in Callers, Solve(c)
  PROVE  IInv'
<1>1. Untouched /\ UNCHANGED <<timers, active, status>>
  BY DEF Solve, Untouched, clock, case
<1>2. call[c].pc = "solve" /\ call[c].v \in Versions /\ call[c].v <= version
  BY Frame DEF Solve, At, Unnumbered, Fits, Numbered
<1>3. CASE Goto(c, "verify")
  BY <1>1, <1>2, <1>3, GoOn, QuietGo, Frame DEF Pcs, Unnumbered, Simple
<1>4. CASE call[c].v < bound.versions /\ Goto(c, "storeResized")
  <2>1. Fits([call[c] EXCEPT !.pc = "storeResized"])
    BY <1>2, <1>4, Frame DEF Call, Fits, Numbered, Carries, Pinned, Pinning, Deciding, Unnumbered
  <2> QED
    BY <1>1, <1>4, <2>1, QuietGo, Frame DEF Pcs
<1> QED
  BY <1>3, <1>4 DEF Solve

LEMMA MarkVerifiedStep ==
  ASSUME IInv, NEW c \in Callers, MarkVerified(c)
  PROVE  IInv'
<1>1. Untouched /\ UNCHANGED <<timers, active>> /\ status' \in Statuses
  BY Frame DEF MarkVerified, Untouched, clock, Statuses
<1>2. CASE End(c)
  BY <1>1, <1>2, QuietEnd, Frame
<1>3. CASE Goto(c, "route")
  BY <1>1, <1>3, GoOn, QuietGo, Frame DEF MarkVerified, At, Pcs, Unnumbered, Simple
<1> QED
  BY <1>2, <1>3 DEF MarkVerified

LEMMA RouteStep ==
  ASSUME IInv, NEW c \in Callers, Route(c)
  PROVE  IInv'
<1>1. Untouched /\ UNCHANGED <<timers, active, status>>
  BY DEF Route, Untouched, clock, case
<1>2. PICK tier \in {"1", "2", "3", "split"}, a \in Approvers \cup {NoOne} :
        call' = [call EXCEPT ![c] = [call[c] EXCEPT !.pc = "save", !.what = tier, !.who = a]]
  <2>1. CASE \E tier \in {"1", "3"} : call' = [call EXCEPT ![c].pc = "save", ![c].what = tier]
    <3>1. PICK tier \in {"1", "3"} : call' = [call EXCEPT ![c].pc = "save", ![c].what = tier]
      BY <2>1
    <3>2. call[c].who \in Approvers \cup {NoOne}
      BY Frame DEF Call
    <3>3. call' = [call EXCEPT ![c] = [call[c] EXCEPT !.pc = "save", !.what = tier, !.who = call[c].who]]
      BY <3>1, Frame DEF Call, IInv, TypeOK
    <3> QED
      BY <3>2, <3>3
  <2>2. CASE \E tier \in {"2", "split"}, a \in Approvers :
               call' = [call EXCEPT ![c].pc = "save", ![c].what = tier, ![c].who = a]
    <3>1. PICK tier \in {"2", "split"}, a \in Approvers :
            call' = [call EXCEPT ![c].pc = "save", ![c].what = tier, ![c].who = a]
      BY <2>2
    <3>2. call' = [call EXCEPT ![c] = [call[c] EXCEPT !.pc = "save", !.what = tier, !.who = a]]
      BY <3>1, Frame DEF Call, IInv, TypeOK
    <3> QED
      BY <3>2
  <2> QED
    BY <2>1, <2>2 DEF Route
<1> DEFINE r == [call[c] EXCEPT !.pc = "save", !.what = tier, !.who = a]
<1>3. r \in Call /\ r.pc = "save" /\ r.what = tier /\ r.v = call[c].v
  <2>1. "save" \in Pcs /\ call[c] \in Call
    BY Frame DEF Pcs
  <2> QED
    BY <2>1 DEF Call
<1>4. r.v \in Versions
  BY <1>3, Frame DEF Route, At, Fits, Numbered, Unnumbered
<1>5. Takes(c, r)
  BY <1>2, <1>3, Replaced DEF IInv
<1>6. Fits(r) /\ ~Bumping(r)
  BY <1>3, <1>4 DEF Fits, Numbered, Carries, Pinned, Pinning, Deciding, Unnumbered, Bumping
<1> QED
  BY <1>1, <1>5, <1>6, Quiet, Frame

LEMMA SettleStep ==
  ASSUME IInv, NEW c \in Callers, Settle(c)
  PROVE  IInv'
<1>1. Untouched /\ UNCHANGED <<timers, active>>
  BY DEF Settle, Untouched, clock
<1>2. status' \in Statuses
  BY Frame DEF Settle, Statuses, NextStatus
<1>3. CASE End(c)
  BY <1>1, <1>2, <1>3, QuietEnd, Frame
<1>4. CASE Goto(c, "reminderTimer")
  BY <1>1, <1>2, <1>4, GoOn, QuietGo, Frame DEF Settle, At, Pcs, Unnumbered, Simple
<1> QED
  BY <1>3, <1>4 DEF Settle

LEMMA SetTimerStep ==
  ASSUME IInv, NEW c \in Callers, SetTimer(c)
  PROVE  IInv'
<1>1. Untouched /\ UNCHANGED <<status, active>>
  BY DEF SetTimer, Untouched, case
<1>2. call[c].pc \notin Unnumbered /\ call[c].v \in Versions
  BY Frame DEF SetTimer, At, Unnumbered, Fits, Numbered
<1>3. timers' \subseteq Versions \X {1, 2}
  BY <1>2, Frame DEF SetTimer
<1>4. CASE End(c)
  BY <1>1, <1>3, <1>4, QuietEnd, Frame
<1>5. CASE Goto(c, "deadlineTimer")
  BY <1>1, <1>2, <1>3, <1>5, GoOn, QuietGo, Frame DEF Pcs, Simple
<1> QED
  BY <1>4, <1>5 DEF SetTimer

-----------------------------------------------------------------------------
(* Decisions *)

LEMMA ApproveStep ==
  ASSUME IInv, NEW c \in Callers, NEW v \in Versions, NEW a \in Approvers,
         NEW d \in {"APPROVED", "REJECTED"}, Approve(c, v, a, d)
  PROVE  IInv'
<1> DEFINE st == IF d = "REJECTED" /\ status = "AWAITING_APPROVAL" THEN status ELSE "NONE"
           r == [Idle EXCEPT !.pc = "readRoute", !.v = v, !.who = a, !.what = d,
                             !.when = time[v], !.st = st]
<1>1. /\ Begin(c, r) /\ Untouched /\ UNCHANGED <<status, active, timers>>
      /\ HasPart(v)
  BY DEF Approve, Untouched, case, clock
<1>2. /\ v \in 0..MaxVersion /\ time[v] \in 0..2 /\ st \in Statuses \cup {"NONE"}
      /\ "readRoute" \in Pcs
  BY VersionsExist DEF Pcs, Versions, IInv, TypeOK
<1>3. r \in Call /\ r.pc = "readRoute" /\ r.v = v /\ r.who = a /\ r.what = d
  <2> HIDE DEF st
  <2> QED
    BY <1>2, IdleIsCall DEF Call, Idle
<1> HIDE DEF r
<1>4. Fits(r) /\ ~Bumping(r)
  BY <1>1, <1>3, Fresh
<1> QED
  BY <1>1, <1>3, <1>4, Begun, Frame

LEMMA ReadRouteStep ==
  ASSUME IInv, NEW c \in Callers, ReadRoute(c)
  PROVE  IInv'
<1>1. Untouched /\ UNCHANGED <<timers, active, status>>
  BY DEF ReadRoute, Untouched, clock, case
<1>2. CASE End(c)
  BY <1>1, <1>2, QuietEnd, Frame
<1>3. CASE Goto(c, "readPart")
  BY <1>1, <1>3, GoOn, QuietGo, Frame DEF ReadRoute, At, Pcs, Unnumbered
<1> QED
  BY <1>2, <1>3 DEF ReadRoute

\* A call pins the part it has read.
LEMMA Pins ==
  ASSUME IInv, NEW c \in Callers, NEW r, Takes(c, r), Untouched,
         UNCHANGED <<status, active, timers>>,
         call[c].pc \in {"readPart", "tick", "readParts"}, HasPart(call[c].v),
         r.pc \in Pinning, r.pc \in Deciding => call[c].pc = "readPart" /\ r.who = call[c].who,
         r.v = call[c].v, r.what = call[c].what, r.rev = Of(r).rev, AsRead(r)
  PROVE  IInv'
<1>1. r.v \in Versions /\ r.rev \in Nat
  BY DEF HasPart, IInv, TypeOK, Part, Of
<1>2. Numbered(r) /\ ~Bumping(r)
  BY <1>1 DEF Numbered, Pinning, Deciding, Bumping
<1>3. Carries(r)
  BY Frame DEF Fits, Carries, Pinning, Deciding
<1>4. Pinned(r)
  BY <1>1 DEF Pinned
<1> QED
  BY <1>2, <1>3, <1>4, Quiet, Frame DEF Fits

LEMMA ReadPartStep ==
  ASSUME IInv, NEW c \in Callers, ReadPart(c)
  PROVE  IInv'
<1> DEFINE p == part[call[c].v]
<1>1. Untouched /\ UNCHANGED <<timers, active, status>> /\ call[c].pc = "readPart"
  BY DEF ReadPart, Untouched, clock, case, At
<1>2. CASE End(c)
  BY <1>1, <1>2, QuietEnd, Frame
<1>3. CASE Goto(c, "tick")
  BY <1>1, <1>3, GoOn, QuietGo, Frame DEF Pcs, Unnumbered
<1>4. CASE /\ p.decision = "NONE" /\ p.approver = call[c].who /\ ~p.expired
           /\ call' = [call EXCEPT ![c].pc = "checkLimit", ![c].rev = p.rev, ![c].when = 0]
  <2> DEFINE who == call[c].who
             r == Reread(call[c], "checkLimit", p.rev, who)
  <2>1. HasPart(call[c].v) /\ who \in Approvers /\ call[c].v \in Versions
    BY <1>1, Frame DEF Fits, Carries, HasPart
  <2>2. p.rev \in Nat /\ "checkLimit" \in Pcs
    BY <2>1 DEF IInv, TypeOK, Part, Pcs
  <2>3. /\ r \in Call /\ r.pc = "checkLimit" /\ r.rev = p.rev
        /\ r.v = call[c].v /\ r.who = who /\ r.what = call[c].what
    <3>1. call[c] \in Call /\ who \in Approvers \cup {NoOne}
      BY <2>1, Frame
    <3> QED
      BY <2>2, <3>1, Rereading
  <2>4. call' = [call EXCEPT ![c] = r]
    <3>1. call' = [call EXCEPT ![c] = [call[c] EXCEPT !.pc = "checkLimit", !.rev = p.rev, !.when = 0]]
      <4>1. call \in [Callers -> Call]
        BY DEF IInv, TypeOK
      <4> QED
        BY <1>4, <4>1, Zenon
    <3>2. r = [call[c] EXCEPT !.pc = "checkLimit", !.rev = p.rev, !.when = 0]
      BY Frame DEF Call, Reread
    <3> QED
      BY <3>1, <3>2
  <2>5. Takes(c, r)
    BY <2>3, <2>4, Replaced DEF IInv
  <2> HIDE DEF r
  <2>6. AsRead(r) /\ r.rev = Of(r).rev /\ r.pc \in Pinning
    BY <1>4, <2>3 DEF AsRead, Of, Pinning, Deciding
  <2> QED
    BY <1>1, <2>1, <2>3, <2>5, <2>6, Pins
<1> QED
  BY <1>2, <1>3, <1>4 DEF ReadPart

LEMMA CheckLimitStep ==
  ASSUME IInv, NEW c \in Callers, CheckLimit(c)
  PROVE  IInv'
<1>1. Untouched /\ UNCHANGED <<timers, active, status>>
  BY DEF CheckLimit, Untouched, clock, case
<1>2. CASE End(c)
  BY <1>1, <1>2, QuietEnd, Frame
<1>3. CASE Goto(c, "decide")
  BY <1>1, <1>3, GoOn, QuietGo, Frame DEF CheckLimit, At, Pcs, Unnumbered
<1> QED
  BY <1>2, <1>3 DEF CheckLimit

LEMMA RejectCaseStep ==
  ASSUME IInv, NEW c \in Callers, RejectCase(c)
  PROVE  IInv'
<1>1. Untouched /\ UNCHANGED <<timers, active>> /\ status' \in Statuses
  BY Frame DEF RejectCase, Untouched, clock, Statuses
<1> QED
  BY <1>1, QuietEnd, Frame DEF RejectCase

-----------------------------------------------------------------------------
(* Timers *)

LEMMA TimerStep ==
  ASSUME IInv, NEW c \in Callers, NEW v \in Versions, Timer(c, v)
  PROVE  IInv'
<1> DEFINE r == [Idle EXCEPT !.pc = "tick", !.v = v, !.when = time[v]]
<1>1. Begin(c, r) /\ Untouched /\ UNCHANGED <<status, active>>
  BY DEF Timer, Untouched, case
<1>2. timers' \subseteq Versions \X {1, 2}
  BY Frame DEF Timer
<1>3. v \in 0..MaxVersion /\ time[v] \in 0..2 /\ "tick" \in Pcs
  BY VersionsExist DEF Pcs, Versions, IInv, TypeOK
<1>4. r \in Call /\ r.pc = "tick" /\ r.v = v
  BY <1>3, IdleIsCall DEF Call, Idle
<1>5. HasPart(v)
  <2>1. time[v] # 0
    BY <1>3 DEF Timer
  <2> QED
    BY <2>1 DEF IInv, PartFits
<1> HIDE DEF r
<1>6. Fits(r) /\ ~Bumping(r)
  BY <1>4, <1>5, Fresh
<1> QED
  BY <1>1, <1>2, <1>4, <1>6, Begun, Frame

LEMMA TickStep ==
  ASSUME IInv, NEW c \in Callers, Tick(c)
  PROVE  IInv'
<1> DEFINE p == part[call[c].v]
           r(pc) == Reread(call[c], pc, p.rev, p.approver)
           To(pc) == call' = [call EXCEPT ![c].pc = pc, ![c].rev = p.rev,
                                          ![c].who = p.approver, ![c].when = 0]
<1>1. Untouched /\ UNCHANGED <<timers, active, status>> /\ call[c].pc = "tick"
  BY DEF Tick, Untouched, clock, case, At
<1>2. HasPart(call[c].v) /\ call[c].v \in Versions /\ p.approver \in Approvers \cup {NoOne}
        /\ p.rev \in Nat
  BY <1>1, Frame DEF Fits, Carries, HasPart, IInv, TypeOK, Part
<1>3. ASSUME NEW pc \in Pcs, To(pc)
      PROVE  /\ Takes(c, r(pc)) /\ r(pc).pc = pc /\ r(pc).rev = p.rev
             /\ r(pc).v = call[c].v /\ r(pc).what = call[c].what
  <2>1. /\ r(pc) \in Call /\ r(pc).pc = pc /\ r(pc).rev = p.rev
        /\ r(pc).v = call[c].v /\ r(pc).what = call[c].what
    <3>1. call[c] \in Call
      BY Frame
    <3> QED
      BY <1>2, <1>3, <3>1, Rereading
  <2>2. call' = [call EXCEPT ![c] = r(pc)]
    <3>1. call \in [Callers -> Call]
      BY DEF IInv, TypeOK
    <3> QED
      BY <1>3, <3>1, Zenon DEF Reread
  <2> QED
    BY <2>1, <2>2, Replaced DEF IInv
<1>4. CASE End(c)
  BY <1>1, <1>4, QuietEnd, Frame
<1>5. CASE To("escalate")
  <2> DEFINE q == r("escalate")
  <2>1. Takes(c, q) /\ q.pc = "escalate" /\ q.v = call[c].v
    BY <1>3, <1>5 DEF Pcs
  <2> HIDE DEF q
  <2>2. Fits(q) /\ ~Bumping(q)
    BY <1>2, <2>1 DEF Fits, Numbered, Carries, Pinned, Pinning, Deciding, Bumping
  <2> QED
    BY <1>1, <2>1, <2>2, Quiet, Frame
<1>6. ASSUME ~p.superseded, p.decision = "NONE", ~p.expired, NEW pc \in {"findBackup", "remind"},
             To(pc)
      PROVE  IInv'
  <2> DEFINE q == r(pc)
  <2>1. Takes(c, q) /\ q.pc = pc /\ q.v = call[c].v /\ q.rev = p.rev /\ q.what = call[c].what
    BY <1>3, <1>6 DEF Pcs
  <2> HIDE DEF q
  <2>2. AsRead(q) /\ q.rev = Of(q).rev /\ q.pc \in Pinning \ Deciding
    BY <1>6, <2>1 DEF AsRead, Of, Pinning, Deciding
  <2> QED
    BY <1>1, <1>2, <2>1, <2>2, Pins
<1> QED
  BY <1>4, <1>5, <1>6 DEF Tick

LEMMA FindBackupStep ==
  ASSUME IInv, NEW c \in Callers, FindBackup(c)
  PROVE  IInv'
<1>1. Untouched /\ UNCHANGED <<timers, active, status>> /\ call[c].pc = "findBackup"
  BY DEF FindBackup, Untouched, clock, case, At
<1>2. PICK a \in Approvers \cup {NoOne} : call' = [call EXCEPT ![c].pc = "expire", ![c].who = a]
  BY DEF FindBackup
<1> DEFINE r == [call[c] EXCEPT !.pc = "expire", !.who = a]
<1>3. /\ r \in Call /\ r.pc = "expire" /\ r.v = call[c].v /\ r.rev = call[c].rev
      /\ r.what = call[c].what
  <2>1. "expire" \in Pcs /\ call[c] \in Call
    BY Frame DEF Pcs
  <2> QED
    BY <2>1 DEF Call
<1>4. call' = [call EXCEPT ![c] = r]
  BY <1>2, Frame DEF Call, IInv, TypeOK
<1>5. Takes(c, r)
  BY <1>3, <1>4, Replaced DEF IInv
<1>6. Fits(r) /\ ~Bumping(r)
  <2> HIDE DEF r
  <2> QED
    BY <1>1, <1>3, Frame
       DEF Fits, Numbered, Carries, Pinned, AsRead, Of, Pinning, Deciding, Unnumbered, Bumping
<1> QED
  BY <1>1, <1>5, <1>6, Quiet, Frame

LEMMA EscalateStep ==
  ASSUME IInv, NEW c \in Callers, Escalate(c)
  PROVE  IInv'
<1>1. Untouched /\ UNCHANGED <<timers, active>> /\ status' \in Statuses
  BY Frame DEF Escalate, Untouched, clock, Statuses
<1> QED
  BY <1>1, QuietEnd, Frame DEF Escalate

-----------------------------------------------------------------------------
(* Portfolio solves of other cases; executions *)

LEMMA SeeMemberStep ==
  ASSUME IInv, NEW c \in Callers, SeeMember(c)
  PROVE  IInv'
<1> DEFINE r == [Idle EXCEPT !.pc = "readParts", !.v = version]
<1>1. /\ Begin(c, r) /\ Untouched /\ UNCHANGED <<status, active, timers>>
      /\ version \in Versions /\ version \in 0..MaxVersion /\ "readParts" \in Pcs
  BY DEF SeeMember, Untouched, case, clock, IInv, TypeOK, Pcs
<1>2. r \in Call /\ r.pc = "readParts" /\ r.v = version
  BY <1>1, IdleIsCall DEF Call, Idle
<1> HIDE DEF r
<1>3. Fits(r) /\ ~Bumping(r)
  BY <1>1, <1>2, Fresh
<1> QED
  BY <1>1, <1>2, <1>3, Begun, Frame

LEMMA ReadPartsStep ==
  ASSUME IInv, NEW c \in Callers, ReadParts(c)
  PROVE  IInv'
<1> DEFINE v == call[c].v
           r == [call[c] EXCEPT !.pc = "reallocate", !.rev = part[v].rev]
<1>1. Untouched /\ UNCHANGED <<timers, active, status>> /\ call[c].pc = "readParts"
  BY DEF ReadParts, Untouched, clock, case, At
<1>2. CASE End(c)
  BY <1>1, <1>2, QuietEnd, Frame
<1>3. CASE Pending(v) /\ call' = [call EXCEPT ![c].pc = "reallocate", ![c].rev = part[v].rev]
  <2>1. HasPart(v) /\ part[v].rev \in Nat
    BY <1>3 DEF Pending, HasPart, IInv, TypeOK, Part
  <2>2. /\ r \in Call /\ r.pc = "reallocate" /\ r.rev = part[v].rev
        /\ r.v = v /\ r.who = call[c].who /\ r.what = call[c].what
    <3>1. "reallocate" \in Pcs /\ call[c] \in Call
      BY Frame DEF Pcs
    <3> QED
      BY <2>1, <3>1 DEF Call
  <2>3. call' = [call EXCEPT ![c] = r]
    BY <1>3, Frame DEF Call, IInv, TypeOK
  <2>4. Takes(c, r)
    BY <2>2, <2>3, Replaced DEF IInv
  <2> HIDE DEF r
  <2>5. AsRead(r) /\ r.rev = Of(r).rev /\ r.pc \in Pinning \ Deciding
    BY <1>3, <2>2 DEF Pending, AsRead, Of, Pinning, Deciding
  <2> QED
    BY <1>1, <2>1, <2>2, <2>4, <2>5, Pins
<1> QED
  BY <1>2, <1>3 DEF ReadParts

LEMMA StartStep ==
  ASSUME IInv, NEW c \in Callers, NEW v \in Versions, NEW tier \in {1, 2}, Start(c, v, tier)
  PROVE  IInv'
<1> DEFINE what == IF tier = 1 THEN "1" ELSE "2"
           r == [Idle EXCEPT !.pc = "authorize", !.v = v, !.what = what]
<1>1. Begin(c, r) /\ Untouched /\ UNCHANGED <<status, active, timers>>
  BY DEF Start, Untouched, case, clock
<1>2. v \in 0..MaxVersion /\ what \in {"1", "2"} /\ "authorize" \in Pcs
  BY VersionsExist DEF Versions, Pcs
<1>3. r \in Call /\ r.pc = "authorize" /\ r.v = v
  <2> HIDE DEF what
  <2> QED
    BY <1>2, IdleIsCall DEF Call, Idle
<1> HIDE DEF r
<1>4. Fits(r) /\ ~Bumping(r)
  BY <1>3, Fresh
<1> QED
  BY <1>1, <1>3, <1>4, Begun, Frame

LEMMA AuthorizeStep ==
  ASSUME IInv, NEW c \in Callers, Authorize(c)
  PROVE  IInv'
<1>1. Untouched /\ UNCHANGED <<timers, active, status>>
  BY DEF Authorize, Untouched, clock, case
<1>2. CASE End(c)
  BY <1>1, <1>2, QuietEnd, Frame
<1>3. CASE Goto(c, "enter")
  BY <1>1, <1>3, GoOn, QuietGo, Frame DEF Authorize, At, Pcs, Unnumbered, Simple
<1> QED
  BY <1>2, <1>3 DEF Authorize

LEMMA EnterExecutionStep ==
  ASSUME IInv, NEW c \in Callers, EnterExecution(c)
  PROVE  IInv'
<1>1. Untouched /\ UNCHANGED <<timers, active, status>> /\ call[c].pc = "enter"
  BY DEF EnterExecution, Untouched, clock, case, At
<1>2. PICK pc \in Running : Goto(c, pc)
  BY DEF EnterExecution, Running
<1>3. pc \in Pcs /\ pc \in Simple \ {"resume", "solve"} /\ call[c].pc \notin Unnumbered
  BY <1>1 DEF Pcs, Simple, Unnumbered, Running
<1> QED
  BY <1>1, <1>2, <1>3, GoOn, QuietGo, Frame

LEMMA MoveInStep ==
  ASSUME IInv, NEW c \in Callers, MoveIn(c)
  PROVE  IInv'
<1>1. Untouched /\ UNCHANGED <<timers, active>> /\ call[c].pc \in Running
  BY DEF MoveIn, Untouched, clock, At, Running
<1>2. status' \in Statuses
  BY Frame DEF MoveIn, Move, Statuses
<1>3. PICK pc \in Running : Goto(c, pc)
  BY DEF MoveIn, Running
<1>4. pc \in Pcs /\ pc \in Simple \ {"resume", "solve"} /\ call[c].pc \notin Unnumbered
  BY <1>1 DEF Pcs, Simple, Unnumbered, Running
<1> QED
  BY <1>1, <1>2, <1>3, <1>4, GoOn, QuietGo, Frame

LEMMA FinishStep ==
  ASSUME IInv, NEW c \in Callers, Finish(c)
  PROVE  IInv'
<1>1. Untouched /\ UNCHANGED <<timers, active>>
  BY DEF Finish, Untouched, clock
<1>2. status' \in Statuses
  BY Frame DEF Finish, Move, Statuses
<1> QED
  BY <1>1, <1>2, QuietEnd, Frame DEF Finish

LEMMA StopStep ==
  ASSUME IInv, NEW c \in Callers, Stop(c)
  PROVE  IInv'
<1>1. Untouched /\ UNCHANGED <<timers, active, status>>
  BY DEF Stop, Untouched, clock, case
<1> QED
  BY <1>1, QuietEnd, Frame DEF Stop

-----------------------------------------------------------------------------
(* The clock and administrators *)

LEMMA TimePassesStep ==
  ASSUME IInv, NEW v \in Versions, TimePasses(v)
  PROVE  IInv'
<1> USE DEF TimePasses, case, stored, routed, admin
<1>1. TypeOK'
  BY DEF IInv, TypeOK
<1>2. Numbering'
  BY DEF IInv, Numbering, Bumping
<1>3. \A w \in Versions : PartFits(w)'
  BY DEF IInv, PartFits, HasPart, Pending, TypeOK
<1>4. \A d \in Callers : Fits(call[d])'
  BY DEF IInv, Fits, Numbered, Carries, Pinned, AsRead, Of, HasPart
<1> QED
  BY <1>1, <1>2, <1>3, <1>4 DEF IInv

LEMMA AdminStep ==
  ASSUME IInv, UNCHANGED <<case, stored, routed, clock, call, bound>>,
         limit' \in [Approvers -> Limits], kill' \in BOOLEAN
  PROVE  IInv'
<1> USE DEF case, stored, routed, clock
<1>1. TypeOK'
  BY DEF IInv, TypeOK
<1>2. Numbering'
  BY DEF IInv, Numbering, Bumping
<1>3. \A w \in Versions : PartFits(w)'
  BY DEF IInv, PartFits, HasPart
<1>4. \A d \in Callers : Fits(call[d])'
  BY DEF IInv, Fits, Numbered, Carries, Pinned, AsRead, Of, HasPart
<1> QED
  BY <1>1, <1>2, <1>3, <1>4 DEF IInv

LEMMA EditLimitStep ==
  ASSUME IInv, NEW a \in Approvers, EditLimit(a)
  PROVE  IInv'
<1>1. limit' \in [Approvers -> Limits] /\ kill' \in BOOLEAN
  BY DEF EditLimit, IInv, TypeOK, Limits
<1> QED
  BY <1>1, AdminStep DEF EditLimit

LEMMA SwitchKillStep ==
  ASSUME IInv, SwitchKill
  PROVE  IInv'
<1>1. limit' \in [Approvers -> Limits] /\ kill' \in BOOLEAN
  BY DEF SwitchKill, IInv, TypeOK
<1> QED
  BY <1>1, AdminStep DEF SwitchKill

-----------------------------------------------------------------------------
(* Steps that add versions or change a part *)

\* What another call knows stays true: versions are only added, and a part that
\* changes gets a new revision.
LEMMA Others ==
  ASSUME IInv, NEW d \in Callers, call'[d] = call[d], bound' = bound,
         plans \subseteq plans', version' \in Nat, version <= version',
         Bumping(call[d]) => version' = version,
         \A v \in Versions : HasPart(v) =>
            /\ HasPart(v)'
            /\ part'[v] = part[v] \/ (part'[v].rev \in Nat /\ part'[v].rev > part[v].rev)
  PROVE  Fits(call[d])'
<1>1. Fits(call[d]) /\ call[d] \in Call /\ version \in Nat /\ call[d].v \in Nat
  BY VersionsExist, Frame DEF Call
<1>2. Numbered(call[d])'
  BY <1>1, VersionsExist DEF Fits, Numbered, Bumping, Versions
<1>3. Carries(call[d])'
  BY <1>1 DEF Fits, Carries, HasPart
<1>4. Pinned(call[d])'
  <2> SUFFICES ASSUME call[d].pc \in Pinning
               PROVE  /\ call[d].rev <= part'[call[d].v].rev
                      /\ call[d].rev = part'[call[d].v].rev => AsRead(call[d])'
    BY DEF Pinned, Of
  <2>1. HasPart(call[d].v) /\ call[d].v \in Versions
    BY <1>1 DEF Fits, Carries, HasPart
  <2>2. call[d].rev \in Nat /\ part[call[d].v].rev \in Nat /\ call[d].rev <= part[call[d].v].rev
    BY <1>1, <2>1 DEF Fits, Pinned, Of, Call, IInv, TypeOK, Part
  <2>3. CASE part'[call[d].v] = part[call[d].v]
    BY <1>1, <2>2, <2>3 DEF Fits, Pinned, AsRead, Of
  <2>4. CASE part'[call[d].v].rev \in Nat /\ part'[call[d].v].rev > part[call[d].v].rev
    BY <2>2, <2>4
  <2> QED
    BY <2>1, <2>3, <2>4
<1> QED
  BY <1>2, <1>3, <1>4 DEF Fits

LEMMA VersionFacts ==
  ASSUME IInv
  PROVE  /\ version \in Nat /\ version <= MaxVersion /\ MaxVersion \in Nat
         /\ 1..version \subseteq plans /\ plans \subseteq 1..(version + 1)
         /\ plans \subseteq Versions
         /\ bound.versions \in Nat /\ bound.versions <= MaxVersion
BY BoundFacts, VersionsExist DEF IInv, TypeOK, Numbering

LEMMA StorePlanStep ==
  ASSUME IInv, NEW c \in Callers, StorePlan(c)
  PROVE  IInv'
<1> DEFINE next == version + 1
<1> USE DEF case, routed, clock, admin
<1>1. call[c].pc = "plan" /\ next \in Versions /\ next \in 0..MaxVersion
  BY VersionFacts DEF StorePlan, At, Versions
<1>2. CASE next \in plans /\ Goto(c, "endRun") /\ UNCHANGED plans
  <2>1. Fits([call[c] EXCEPT !.pc = "endRun"])
    BY Frame DEF Call, Fits, Numbered, Carries, Pinned, Pinning, Deciding, Unnumbered
  <2>2. Untouched /\ UNCHANGED <<status, active, timers>>
    BY <1>2 DEF StorePlan, Untouched, stored
  <2> QED
    BY <1>2, <2>1, <2>2, QuietGo, Frame DEF Pcs
<1>3. CASE /\ next \notin plans /\ plans' = plans \cup {next}
           /\ call' = [call EXCEPT ![c].pc = "bump", ![c].v = next]
  <2> DEFINE r == [call[c] EXCEPT !.pc = "bump", !.v = next]
  <2> HIDE DEF next
  <2>1. r \in Call /\ r.pc = "bump" /\ r.v = next
    <3>1. "bump" \in Pcs /\ call[c] \in Call
      BY Frame DEF Pcs
    <3> QED
      BY <1>1, <3>1 DEF Call
  <2>2. call' = [call EXCEPT ![c] = r]
    BY <1>3, Frame DEF Call, IInv, TypeOK
  <2>3. Takes(c, r)
    BY <2>1, <2>2, Replaced DEF IInv
  <2>4. UNCHANGED <<status, version, active, resized, reallocated, proposed, route, part,
                    approved, time, timers, limit, kill, bound>>
    BY DEF StorePlan
  <2> USE DEF next
  <2>5. TypeOK'
    BY <1>1, <1>3, <2>3, <2>4 DEF IInv, TypeOK, Takes
  <2>6. Numbering'
    <3>1. \A d \in Callers : Bumping(call[d]) => FALSE
      <4> SUFFICES ASSUME NEW d \in Callers, Bumping(call[d]) PROVE next \in plans
        BY <1>3
      <4>1. Fits(call[d])
        BY Frame
      <4>2. CASE call[d].pc = "bump"
        BY <4>1, <4>2 DEF Fits, Numbered
      <4>3. CASE call[d].pc = "bumpResized"
        BY <4>1, <4>3 DEF Fits, Numbered
      <4> QED
        BY <4>2, <4>3 DEF Bumping
    <3>2. \A d \in Callers : Bumping(call'[d]) => d = c
      BY <2>3, <3>1 DEF Takes
    <3> HIDE DEF next
    <3>3. \A d, e \in Callers : Bumping(call[d])' /\ Bumping(call[e])' => d = e
      BY <3>2 DEF Bumping
    <3>4. 1..version' \subseteq plans' /\ plans' \subseteq 1..(version' + 1)
      BY <1>3, <2>4, VersionFacts DEF next
    <3> QED
      BY <3>3, <3>4 DEF Numbering
  <2>7. \A v \in Versions : PartFits(v)'
    BY <2>4 DEF IInv, PartFits, HasPart
  <2>8. \A d \in Callers : Fits(call[d])'
    <3> SUFFICES ASSUME NEW d \in Callers PROVE Fits(call[d])'
      OBVIOUS
    <3>1. CASE d = c
      <4> HIDE DEF r, next
      <4>1. call'[d] = r /\ next \in plans' /\ next = version' + 1
        BY <1>3, <2>3, <2>4, <3>1 DEF Takes, next
      <4> QED
        BY <1>1, <2>1, <4>1
           DEF Fits, Numbered, Carries, Pinned, Pinning, Deciding, Unnumbered
    <3>2. CASE d # c
      BY <1>3, <2>3, <2>4, <3>2, Others, VersionFacts DEF Takes, HasPart
    <3> QED
      BY <3>1, <3>2
  <2> QED
    BY <2>5, <2>6, <2>7, <2>8 DEF IInv
<1> QED
  BY <1>2, <1>3 DEF StorePlan

\* The call that stored the next plan makes it the current version.
LEMMA Bumped ==
  ASSUME IInv, NEW c \in Callers, NEW r, Takes(c, r), Bumping(call[c]),
         Fits(call[c])', ~Bumping(r), version' = version + 1, version + 1 \in plans,
         UNCHANGED <<status, active, stored, routed, clock, admin>>
  PROVE  IInv'
<1> USE DEF stored, routed, clock, admin
<1>1. TypeOK'
  BY VersionFacts DEF IInv, TypeOK, Takes, Versions
<1>2. Numbering'
  <2>1. \A d \in Callers : ~Bumping(call'[d])
    BY DEF IInv, Numbering, Takes
  <2>2. 1..version' \subseteq plans' /\ plans' \subseteq 1..(version' + 1)
    BY VersionFacts
  <2> QED
    BY <2>1, <2>2 DEF Numbering, Bumping
<1>3. \A v \in Versions : PartFits(v)'
  BY VersionFacts DEF IInv, PartFits, HasPart, Versions
<1>4. \A d \in Callers : Fits(call[d])'
  <2> SUFFICES ASSUME NEW d \in Callers PROVE Fits(call[d])'
    OBVIOUS
  <2>1. CASE d = c
    BY <2>1
  <2>2. CASE d # c
    <3>1. ~Bumping(call[d])
      BY <2>2 DEF IInv, Numbering
    <3> QED
      BY <2>2, <3>1, Others, VersionFacts DEF Takes, HasPart
  <2> QED
    BY <2>1, <2>2
<1> QED
  BY <1>1, <1>2, <1>3, <1>4 DEF IInv

LEMMA BumpVersionStep ==
  ASSUME IInv, NEW c \in Callers, BumpVersion(c)
  PROVE  IInv'
<1> DEFINE r == [call[c] EXCEPT !.pc = "propose"]
<1>1. call[c].pc = "bump" /\ call[c].v = version + 1 /\ call[c].v \in plans
  BY Frame DEF BumpVersion, At, Fits, Numbered
<1>2. Takes(c, r)
  BY Going DEF BumpVersion, Pcs, IInv
<1>3. r.pc = "propose" /\ r.v = call[c].v
  BY Frame DEF Call
<1>4. UNCHANGED <<status, active, stored, routed, clock, admin>> /\ version' = version + 1
  BY <1>1 DEF BumpVersion
<1>5. ~Bumping(r) /\ Bumping(call[c])
  BY <1>1, <1>3 DEF Bumping
<1> HIDE DEF r
<1>6. Fits(call[c])'
  BY <1>1, <1>2, <1>3, <1>4, VersionFacts
     DEF Takes, Fits, Numbered, Carries, Pinned, Pinning, Deciding, Unnumbered, stored
<1> QED
  BY <1>1, <1>2, <1>4, <1>5, <1>6, Bumped

LEMMA BumpResizedStep ==
  ASSUME IInv, NEW c \in Callers, BumpResized(c)
  PROVE  IInv'
<1> DEFINE r == [call[c] EXCEPT !.pc = "emitResized"]
<1>1. call[c].pc = "bumpResized" /\ call[c].v = version /\ version + 1 \in plans
        /\ call[c].v \in Versions
  BY Frame DEF BumpResized, At, Fits, Numbered, Unnumbered
<1>2. Takes(c, r) /\ UNCHANGED <<status, active, stored, routed, clock, admin>>
        /\ version' = version + 1
  BY <1>1, Going DEF BumpResized, Pcs, IInv
<1>3. r.pc = "emitResized" /\ r.v = call[c].v
  BY Frame DEF Call
<1>4. ~Bumping(r) /\ Bumping(call[c])
  BY <1>1, <1>3 DEF Bumping
<1> HIDE DEF r
<1>5. Fits(call[c])'
  BY <1>1, <1>2, <1>3
     DEF Takes, Fits, Numbered, Carries, Pinned, Pinning, Deciding, Unnumbered, stored
<1> QED
  BY <1>1, <1>2, <1>4, <1>5, Bumped

LEMMA ProposedMore ==
  ASSUME IInv, NEW c \in Callers, NEW r, Takes(c, r), Fits(call[c])', ~Bumping(r),
         proposed' \subseteq plans, status' \in Statuses,
         UNCHANGED <<version, active, plans, resized, reallocated, routed, clock, admin>>
  PROVE  IInv'
<1> USE DEF routed, clock, admin
<1>1. TypeOK'
  BY DEF IInv, TypeOK, Takes
<1>2. Numbering'
  <2>1. \A d \in Callers : Bumping(call'[d]) => Bumping(call[d])
    BY DEF Takes
  <2> QED
    BY <2>1 DEF IInv, Numbering, Bumping
<1>3. \A v \in Versions : PartFits(v)'
  BY DEF IInv, PartFits, HasPart
<1>4. \A d \in Callers : Fits(call[d])'
  BY Others, VersionFacts DEF Takes, HasPart
<1> QED
  BY <1>1, <1>2, <1>3, <1>4 DEF IInv

LEMMA ProposePlanStep ==
  ASSUME IInv, NEW c \in Callers, ProposePlan(c)
  PROVE  IInv'
<1> DEFINE r == [call[c] EXCEPT !.pc = "endRun"]
<1>1. call[c].v \in plans
  BY Frame DEF ProposePlan, At, Fits, Numbered
<1>2. Takes(c, r)
  BY Going DEF ProposePlan, Pcs, IInv
<1>3. r.pc = "endRun"
  BY Frame DEF Call
<1> HIDE DEF r
<1>4. Fits(call[c])'
  BY <1>2, <1>3 DEF Takes, Fits, Numbered, Carries, Pinned, Pinning, Deciding, Unnumbered
<1>5. proposed' \subseteq plans /\ status' \in Statuses
  BY <1>1, Frame DEF ProposePlan, IInv, TypeOK, Statuses
<1> QED
  BY <1>2, <1>3, <1>4, <1>5, ProposedMore DEF ProposePlan, Bumping

LEMMA EmitResizedStep ==
  ASSUME IInv, NEW c \in Callers, EmitResized(c)
  PROVE  IInv'
<1>1. call[c].v + 1 \in plans
  BY Frame DEF EmitResized, At, Fits, Numbered
<1>2. Takes(c, Idle)
  BY Ending DEF EmitResized, IInv
<1>3. Fits(call[c])'
  BY <1>2, IdleFits DEF Takes, Fits, Numbered, Carries, Pinned, Pinning, Deciding, Unnumbered, Idle
<1>4. proposed' \subseteq plans /\ status' \in Statuses
  BY <1>1, Frame DEF EmitResized, IInv, TypeOK, case
<1> QED
  BY <1>2, <1>3, <1>4, IdleFits, ProposedMore DEF EmitResized, case

LEMMA StoreResizedStep ==
  ASSUME IInv, NEW c \in Callers, StoreResized(c)
  PROVE  IInv'
<1> DEFINE next == call[c].v + 1
<1> USE DEF case, routed, clock, admin
<1>1. /\ call[c].pc = "storeResized" /\ call[c].v \in Versions /\ call[c].v <= version
      /\ call[c].v < bound.versions /\ next \in Versions
  BY Frame, VersionFacts DEF StoreResized, At, Fits, Numbered, Unnumbered, Versions
<1>2. UNCHANGED <<status, version, active, reallocated, proposed, route, part,
                  approved, time, timers, limit, kill, bound>>
  BY DEF StoreResized
<1>3. CASE next \in plans
  <2>1. End(c) /\ Untouched
    BY <1>2, <1>3 DEF StoreResized, Untouched, stored
  <2> QED
    BY <1>2, <2>1, QuietEnd, Frame
<1>4. CASE next \notin plans
  <2> DEFINE r == [call[c] EXCEPT !.pc = "bumpResized"]
  <2>1. Takes(c, r) /\ plans' = plans \cup {next} /\ resized' = resized \cup {next}
    BY <1>4, Going DEF StoreResized, Pcs, IInv
  <2>2. r.pc = "bumpResized" /\ r.v = call[c].v
    BY Frame DEF Call
  <2> HIDE DEF r
  <2>3. call[c].v = version
    <3>1. ~(call[c].v < version)
      BY <1>1, <1>4, VersionFacts DEF Versions
    <3> QED
      BY <1>1, <3>1, VersionFacts DEF Versions
  <2>4. TypeOK'
    BY <1>1, <1>2, <2>1 DEF IInv, TypeOK, Takes
  <2>5. Numbering'
    <3>1. \A d \in Callers : ~Bumping(call[d])
      <4> SUFFICES ASSUME NEW d \in Callers, Bumping(call[d]) PROVE next \in plans
        BY <1>4
      <4>1. Fits(call[d])
        BY Frame
      <4>2. CASE call[d].pc = "bump"
        BY <2>3, <4>1, <4>2 DEF Fits, Numbered
      <4>3. CASE call[d].pc = "bumpResized"
        BY <2>3, <4>1, <4>3 DEF Fits, Numbered
      <4> QED
        BY <4>2, <4>3 DEF Bumping
    <3>2. \A d \in Callers : Bumping(call'[d]) => d = c
      BY <2>1, <3>1 DEF Takes
    <3> HIDE DEF next
    <3>3. \A d, e \in Callers : Bumping(call[d])' /\ Bumping(call[e])' => d = e
      BY <3>2 DEF Bumping
    <3>4. 1..version' \subseteq plans' /\ plans' \subseteq 1..(version' + 1)
      BY <1>2, <2>1, <2>3, VersionFacts DEF next
    <3> QED
      BY <3>3, <3>4 DEF Numbering
  <2>6. \A v \in Versions : PartFits(v)'
    BY <1>2 DEF IInv, PartFits, HasPart
  <2>7. Fits(call[c])'
    BY <1>1, <1>2, <2>1, <2>2, <2>3
       DEF Takes, Fits, Numbered, Carries, Pinned, Pinning, Deciding, Unnumbered
  <2>8. \A d \in Callers : Fits(call[d])'
    <3> SUFFICES ASSUME NEW d \in Callers, d # c PROVE Fits(call[d])'
      BY <2>7
    <3> QED
      BY <1>2, <2>1, Others, VersionFacts DEF Takes, HasPart
  <2> QED
    BY <2>4, <2>5, <2>6, <2>8 DEF IInv
<1> QED
  BY <1>3, <1>4

-----------------------------------------------------------------------------
(* Parts *)

\* Of the part of v, p is what a step makes: another revision, the rest as OneFate asks.
LEMMA PartStep ==
  ASSUME IInv, NEW c \in Callers, NEW v \in Versions, HasPart(v), NEW p \in Part, NEW r,
         part' = [part EXCEPT ![v] = p], p.rev > part[v].rev,
         p.decision # "NONE" => ~p.expired /\ (p.superseded => bound.canStarve),
         p.superseded => ~p.expired /\ (bound.canStarve \/ v < version'),
         Takes(c, r), ~Bumping(r), Fits(call[c])',
         version' \in 0..MaxVersion, version <= version',
         version' # version => \A d \in Callers : ~Bumping(call[d]),
         1..version' \subseteq plans', plans' \subseteq 1..(version' + 1),
         plans \subseteq plans', plans' \subseteq Versions,
         resized' \subseteq plans', reallocated' \subseteq resized', proposed' \subseteq plans',
         status' \in Statuses, approved' \subseteq Versions \X {1, 2},
         UNCHANGED <<active, route, clock, admin>>
  PROVE  IInv'
<1> USE DEF clock, admin
<1>1. part' \in [Versions -> Part] /\ part'[v] = p
        /\ \A w \in Versions \ {v} : part'[w] = part[w]
  BY DEF IInv, TypeOK
<1>2. TypeOK'
  BY <1>1 DEF IInv, TypeOK, Takes
<1>3. Numbering'
  <2>1. \A d \in Callers : Bumping(call'[d]) => Bumping(call[d])
    BY DEF Takes
  <2> QED
    BY <2>1 DEF IInv, Numbering, Bumping
<1>4. \A w \in Versions : PartFits(w)'
  <2> SUFFICES ASSUME NEW w \in Versions PROVE PartFits(w)'
    OBVIOUS
  <2>1. PartFits(w)
    BY DEF IInv
  <2>2. CASE w = v
    BY <1>1, <2>1, <2>2 DEF PartFits, HasPart
  <2>3. CASE w # v
    BY <1>1, <2>1, <2>3, VersionFacts DEF PartFits, HasPart, Versions
  <2> QED
    BY <2>2, <2>3
<1>5. \A d \in Callers : Fits(call[d])'
  <2> SUFFICES ASSUME NEW d \in Callers, d # c PROVE Fits(call[d])'
    OBVIOUS
  <2>1. \A w \in Versions : HasPart(w) =>
          /\ HasPart(w)'
          /\ part'[w] = part[w] \/ (part'[w].rev \in Nat /\ part'[w].rev > part[w].rev)
    BY <1>1 DEF HasPart, Part
  <2> QED
    BY <2>1, Others, VersionFacts DEF Takes
<1> QED
  BY <1>2, <1>3, <1>4, <1>5 DEF IInv

LEMMA NewPartIsPart ==
  ASSUME NEW a \in Approvers \cup {NoOne}
  PROVE  NewPart(a) \in Part /\ NewPart(a).decision = "NONE" /\ ~NewPart(a).superseded
BY DEF NewPart, Part, NoOne

LEMMA SaveStep ==
  ASSUME IInv, NEW c \in Callers, Save(c)
  PROVE  IInv'
<1> DEFINE v == call[c].v
           tier == call[c].what
<1>1. /\ call[c].pc = "save" /\ v \in Versions /\ tier \in {"1", "2", "3", "split"}
      /\ call[c].who \in Approvers \cup {NoOne}
  BY Frame DEF Save, At, Fits, Numbered, Carries, Unnumbered, Call
<1>2. UNCHANGED <<status, version, active, stored, clock, admin>>
  BY DEF Save, case
<1>3. CASE End(c) /\ UNCHANGED routed
  BY <1>2, <1>3, QuietEnd, Frame DEF Untouched, clock
<1>4. CASE /\ route[v] = "NONE"
           /\ route' = [route EXCEPT ![v] = tier]
           /\ part' = [part EXCEPT ![v] = NewPart(call[c].who)]
           /\ approved' = approved \cup (IF tier \in {"1", "split"} THEN {<<v, 1>>} ELSE {})
           /\ Goto(c, "settle")
  <2> DEFINE r == [call[c] EXCEPT !.pc = "settle"]
  <2> USE DEF stored, clock, admin
  <2>1. Takes(c, r)
    BY <1>4, Going DEF Pcs, IInv
  <2>2. r.pc = "settle" /\ r.v = v
    BY Frame DEF Call
  <2> HIDE DEF r
  <2>3. NewPart(call[c].who) \in Part /\ NewPart(call[c].who).decision = "NONE"
          /\ ~NewPart(call[c].who).superseded
    BY <1>1, NewPartIsPart
  <2>4. TypeOK'
    <3>1. approved' \subseteq Versions \X {1, 2}
      BY <1>1, <1>4 DEF IInv, TypeOK
    <3> QED
      BY <1>1, <1>2, <1>4, <2>1, <2>3, <3>1 DEF IInv, TypeOK, Takes
  <2>5. Numbering'
    <3>1. \A d \in Callers : Bumping(call'[d]) => Bumping(call[d])
      BY <2>1, <2>2 DEF Takes, Bumping
    <3> QED
      BY <1>2, <3>1 DEF IInv, Numbering, Bumping
  <2>6. \A w \in Versions : PartFits(w)'
    <3> SUFFICES ASSUME NEW w \in Versions PROVE PartFits(w)'
      OBVIOUS
    <3>1. PartFits(w)
      BY DEF IInv
    <3>2. CASE w = v
      <4>1. part'[w] = NewPart(call[c].who)
        BY <1>4, <3>2 DEF IInv, TypeOK
      <4>2. time'[w] = 0
        BY <1>2, <1>4, <3>1, <3>2 DEF PartFits, HasPart
      <4> QED
        BY <2>3, <4>1, <4>2 DEF PartFits
    <3>3. CASE w # v
      BY <1>1, <1>2, <1>4, <3>1, <3>3 DEF PartFits, HasPart, IInv, TypeOK
    <3> QED
      BY <3>2, <3>3
  <2>7. Fits(call[c])'
    BY <1>1, <2>1, <2>2 DEF Takes, Fits, Numbered, Carries, Pinned, Pinning, Deciding, Unnumbered
  <2>8. \A d \in Callers : Fits(call[d])'
    <3> SUFFICES ASSUME NEW d \in Callers, d # c PROVE Fits(call[d])'
      BY <2>7
    <3>1. \A w \in Versions : HasPart(w) => HasPart(w)' /\ part'[w] = part[w]
      BY <1>1, <1>4 DEF HasPart, IInv, TypeOK
    <3> QED
      BY <1>2, <2>1, <3>1, Others, VersionFacts DEF Takes
  <2> QED
    BY <2>4, <2>5, <2>6, <2>8 DEF IInv
<1>5. CASE Goto(c, "settle") /\ UNCHANGED routed
  BY <1>1, <1>2, <1>5, GoOn, QuietGo, Frame
     DEF Pcs, Unnumbered, Simple, Untouched, clock, IInv, TypeOK
<1> QED
  BY <1>3, <1>4, <1>5 DEF Save

\* A call that pinned its part and finds its revision finds it as it was.
LEMMA StillAsRead ==
  ASSUME IInv, NEW c \in Callers, call[c].pc \in Pinning
  PROVE  /\ call[c].v \in Versions /\ HasPart(call[c].v) /\ Of(call[c]) \in Part
         /\ Of(call[c]).rev = call[c].rev => AsRead(call[c])
BY Frame DEF Fits, Carries, Pinned, HasPart, IInv, TypeOK, Of

LEMMA DecideStep ==
  ASSUME IInv, NEW c \in Callers, Decide(c)
  PROVE  IInv'
<1> DEFINE v == call[c].v
           d == call[c].what
           p == [part[v] EXCEPT !.decision = d, !.rev = part[v].rev + 1]
<1>1. call[c].pc = "decide" /\ v \in Versions /\ d \in {"APPROVED", "REJECTED"} /\ HasPart(v)
        /\ part[v] \in Part
  BY Frame, StillAsRead DEF Decide, At, Fits, Carries, Pinning, Deciding, Of
<1>2. UNCHANGED <<status, version, active, stored, route, clock, admin>>
  BY DEF Decide, case
<1>3. CASE End(c) /\ UNCHANGED <<part, approved>>
  BY <1>2, <1>3, QuietEnd, Frame DEF Untouched, clock, routed
<1>4. CASE /\ StillDecidable(c)
           /\ part' = [part EXCEPT ![v].decision = d, ![v].rev = @ + 1]
           /\ approved' = approved \cup (IF d = "APPROVED" THEN {<<v, 2>>} ELSE {})
           /\ Goto(c, "reject") \/ End(c)
  <2>1. part[v].decision = "NONE" /\ ~part[v].expired /\ version = v
    BY <1>1, <1>4, StillAsRead DEF StillDecidable, AsRead, Pinning, Deciding, Of
  <2>2. /\ p \in Part /\ p.decision = d /\ p.rev > part[v].rev
        /\ p.expired = part[v].expired /\ p.superseded = part[v].superseded
    <3> DEFINE q == part[v]  n == q.rev + 1
    <3>1. q \in Part /\ n \in Nat /\ n > q.rev
      BY <1>1 DEF Part
    <3> HIDE DEF q, n, d
    <3>2. LET s == [q EXCEPT !.decision = d, !.rev = n] IN
          /\ s \in Part /\ s.decision = d /\ s.rev = n
          /\ s.expired = q.expired /\ s.superseded = q.superseded
      BY <1>1, <3>1 DEF Part, d
    <3> QED
      BY <3>1, <3>2 DEF q, n, d
  <2>3. part' = [part EXCEPT ![v] = p]
    <3>1. part \in [Versions -> Part]
      BY DEF IInv, TypeOK
    <3> QED
      BY <1>1, <1>4, <3>1, Zenon
  <2> HIDE DEF p
  <2>4. PICK r : Takes(c, r) /\ (r = Idle \/ (r.pc = "reject" /\ r.v = v))
    <3>1. CASE End(c)
      BY <3>1, Ending DEF IInv
    <3>2. CASE Goto(c, "reject")
      <4> DEFINE q == [call[c] EXCEPT !.pc = "reject"]
      <4>1. Takes(c, q)
        BY <3>2, Going DEF Pcs, IInv
      <4>2. q.pc = "reject" /\ q.v = v
        BY Frame DEF Call
      <4> QED
        BY <4>1, <4>2
    <3> QED
      BY <1>4, <3>1, <3>2
  <2>5. Fits(call[c])' /\ ~Bumping(r)
    BY <1>1, <2>4
       DEF Takes, Fits, Numbered, Carries, Pinned, Pinning, Deciding, Unnumbered, Bumping, Idle
  <2>6. PartFits(v)
    BY <1>1 DEF IInv
  <2>7. ~p.expired /\ (p.superseded => bound.canStarve)
    BY <1>1, <2>1, <2>2, <2>6, VersionFacts DEF PartFits, Part
  <2>8. approved' \subseteq Versions \X {1, 2}
    BY <1>1, <1>4 DEF IInv, TypeOK
  <2>9. /\ version' \in 0..MaxVersion /\ version <= version' /\ version' = version
        /\ 1..version' \subseteq plans' /\ plans' \subseteq 1..(version' + 1)
        /\ plans \subseteq plans' /\ plans' \subseteq Versions
        /\ resized' \subseteq plans' /\ reallocated' \subseteq resized' /\ proposed' \subseteq plans'
        /\ status' \in Statuses
    BY <1>2, VersionFacts DEF stored, IInv, TypeOK
  <2> QED
    BY <1>1, <1>2, <2>2, <2>3, <2>4, <2>5, <2>7, <2>8, <2>9, PartStep
<1> QED
  BY <1>3, <1>4 DEF Decide

LEMMA ExpireStep ==
  ASSUME IInv, NEW c \in Callers, Expire(c)
  PROVE  IInv'
<1> DEFINE v == call[c].v
           who == call[c].who
           q == part[v]
           n == q.rev + 1
           p1 == [q EXCEPT !.expired = TRUE]
           p2 == [p1 EXCEPT !.missed = q.approver]
           p3 == [p2 EXCEPT !.approver = who]
           p == [p3 EXCEPT !.rev = n]
<1>1. /\ call[c].pc = "expire" /\ v \in Versions /\ HasPart(v) /\ q \in Part
      /\ who \in Approvers \cup {NoOne}
  BY Frame, StillAsRead DEF Expire, At, Pinning, Of, Call
<1>2. UNCHANGED <<status, version, active, stored, route, approved, clock, admin>>
  BY DEF Expire, case
<1>3. CASE End(c) /\ UNCHANGED part
  BY <1>2, <1>3, QuietEnd, Frame DEF Untouched, clock, routed
<1>4. CASE /\ part[v].rev = call[c].rev
           /\ part' = [part EXCEPT ![v].expired = TRUE, ![v].missed = part[v].approver,
                                   ![v].approver = call[c].who, ![v].rev = @ + 1]
           /\ Goto(c, "escalate") \/ End(c)
  <2>1. q.decision = "NONE" /\ ~q.expired /\ ~q.superseded
    BY <1>1, <1>4, StillAsRead DEF AsRead, Pinning, Deciding, Of
  <2>2. part' = [part EXCEPT ![v] = p]
    <3>1. part \in [Versions -> Part]
      BY DEF IInv, TypeOK
    <3> QED
      BY <1>1, <1>4, <3>1, Zenon
  <2>3. p \in Part /\ p.decision = "NONE" /\ p.rev > q.rev /\ ~p.superseded
    <3>1. n \in Nat /\ n > q.rev /\ q.approver \in Approvers \cup {NoOne}
      BY <1>1 DEF Part
    <3> HIDE DEF n, q
    <3>2. /\ p1 \in Part /\ p1.decision = q.decision /\ p1.superseded = q.superseded
      BY <1>1 DEF Part
    <3> HIDE DEF p1
    <3>3. /\ p2 \in Part /\ p2.decision = q.decision /\ p2.superseded = q.superseded
      BY <3>1, <3>2 DEF Part
    <3> HIDE DEF p2
    <3>4. /\ p3 \in Part /\ p3.decision = q.decision /\ p3.superseded = q.superseded
      BY <1>1, <3>3 DEF Part
    <3> HIDE DEF p3
    <3>5. /\ p \in Part /\ p.decision = q.decision /\ p.superseded = q.superseded /\ p.rev = n
      BY <3>1, <3>4 DEF Part
    <3> QED
      BY <2>1, <3>1, <3>5
  <2> HIDE DEF p
  <2>4. PICK r : Takes(c, r) /\ (r = Idle \/ (r.pc = "escalate" /\ r.v = v))
    <3>1. CASE End(c)
      BY <3>1, Ending DEF IInv
    <3>2. CASE Goto(c, "escalate")
      <4> DEFINE s == [call[c] EXCEPT !.pc = "escalate"]
      <4>1. Takes(c, s)
        BY <3>2, Going DEF Pcs, IInv
      <4>2. s.pc = "escalate" /\ s.v = v
        BY Frame DEF Call
      <4> QED
        BY <4>1, <4>2
    <3> QED
      BY <1>4, <3>1, <3>2
  <2>5. Fits(call[c])' /\ ~Bumping(r)
    BY <1>1, <2>4
       DEF Takes, Fits, Numbered, Carries, Pinned, Pinning, Deciding, Unnumbered, Bumping, Idle
  <2>6. /\ version' \in 0..MaxVersion /\ version <= version' /\ version' = version
        /\ 1..version' \subseteq plans' /\ plans' \subseteq 1..(version' + 1)
        /\ plans \subseteq plans' /\ plans' \subseteq Versions
        /\ resized' \subseteq plans' /\ reallocated' \subseteq resized' /\ proposed' \subseteq plans'
        /\ status' \in Statuses /\ approved' \subseteq Versions \X {1, 2}
    BY <1>2, VersionFacts DEF stored, IInv, TypeOK
  <2> QED
    BY <1>1, <1>2, <2>2, <2>3, <2>4, <2>5, <2>6, PartStep
<1> QED
  BY <1>3, <1>4 DEF Expire

LEMMA RemindStep ==
  ASSUME IInv, NEW c \in Callers, Remind(c)
  PROVE  IInv'
<1> DEFINE v == call[c].v
           q == part[v]
           n == q.rev + 1
           p == [q EXCEPT !.reminded = TRUE, !.rev = n]
<1>1. call[c].pc = "remind" /\ v \in Versions /\ HasPart(v) /\ q \in Part
  BY Frame, StillAsRead DEF Remind, At, Pinning, Of
<1>2. UNCHANGED <<status, version, active, stored, route, approved, clock, admin>> /\ End(c)
  BY DEF Remind, case
<1>3. CASE UNCHANGED part
  BY <1>2, <1>3, QuietEnd, Frame DEF Untouched, clock, routed
<1>4. CASE /\ part[v].rev = call[c].rev
           /\ part' = [part EXCEPT ![v].reminded = TRUE, ![v].rev = @ + 1]
  <2>1. q.decision = "NONE" /\ ~q.expired /\ ~q.superseded
    BY <1>1, <1>4, StillAsRead DEF AsRead, Pinning, Deciding, Of
  <2>2. part' = [part EXCEPT ![v] = p]
    <3>1. part \in [Versions -> Part]
      BY DEF IInv, TypeOK
    <3> QED
      BY <1>1, <1>4, <3>1, Zenon
  <2>3. p \in Part /\ p.decision = "NONE" /\ p.rev > q.rev /\ ~p.superseded
    <3>1. n \in Nat /\ n > q.rev
      BY <1>1 DEF Part
    <3> HIDE DEF n, q
    <3>2. p \in Part /\ p.decision = q.decision /\ p.superseded = q.superseded /\ p.rev = n
      BY <1>1, <3>1 DEF Part
    <3> QED
      BY <2>1, <3>1, <3>2
  <2> HIDE DEF p
  <2>4. Takes(c, Idle) /\ Fits(call[c])' /\ ~Bumping(Idle)
    BY <1>2, Ending
       DEF IInv, Takes, Fits, Numbered, Carries, Pinned, Pinning, Deciding, Unnumbered, Bumping, Idle
  <2>5. /\ version' \in 0..MaxVersion /\ version <= version' /\ version' = version
        /\ 1..version' \subseteq plans' /\ plans' \subseteq 1..(version' + 1)
        /\ plans \subseteq plans' /\ plans' \subseteq Versions
        /\ resized' \subseteq plans' /\ reallocated' \subseteq resized' /\ proposed' \subseteq plans'
        /\ status' \in Statuses /\ approved' \subseteq Versions \X {1, 2}
    BY <1>2, VersionFacts DEF stored, IInv, TypeOK
  <2> QED
    BY <1>1, <1>2, <2>2, <2>3, <2>4, <2>5, PartStep
<1> QED
  BY <1>3, <1>4 DEF Remind

\* What superseding makes of a part that is as it was read.
LEMMA Superseding ==
  ASSUME IInv, NEW c \in Callers, call[c].pc = "reallocate", Unchanged(c), Supersede(call[c].v)
  PROVE  \E p \in Part :
           /\ part' = [part EXCEPT ![call[c].v] = p] /\ p.rev > part[call[c].v].rev
           /\ p.decision = "NONE" /\ ~p.expired
<1> DEFINE v == call[c].v
           q == part[v]
           n == q.rev + 1
           p == [q EXCEPT !.superseded = TRUE, !.rev = n]
<1>1. v \in Versions /\ q \in Part /\ q.decision = "NONE" /\ ~q.expired
  BY StillAsRead DEF Unchanged, AsRead, Pinning, Of
<1>2. part' = [part EXCEPT ![v] = p]
  <2>1. part \in [Versions -> Part]
    BY DEF IInv, TypeOK
  <2> QED
    BY <1>1, <2>1, Zenon DEF Supersede
<1>3. n \in Nat /\ n > q.rev
  BY <1>1 DEF Part
<1>4. p \in Part /\ p.decision = q.decision /\ p.expired = q.expired /\ p.rev = n
  <2> HIDE DEF n, q
  <2> QED
    BY <1>1, <1>3 DEF Part
<1> HIDE DEF p
<1> QED
  BY <1>1, <1>2, <1>3, <1>4

LEMMA ReallocateStep ==
  ASSUME IInv, NEW c \in Callers, Reallocate(c)
  PROVE  IInv'
<1> DEFINE v == call[c].v
<1>1. call[c].pc = "reallocate" /\ v \in Versions /\ HasPart(v) /\ v < bound.versions /\ End(c)
  BY StillAsRead DEF Reallocate, At, Pinning
<1>2. UNCHANGED <<active, route, approved, clock, admin>>
  BY DEF Reallocate
<1>3. CASE UNCHANGED <<status, version, stored, part>>
  BY <1>1, <1>2, <1>3, QuietEnd, Frame DEF Untouched, clock, routed
<1>4. CASE /\ Unchanged(c) /\ v + 1 \notin plans /\ Supersede(v)
           /\ status' = "INVESTIGATING" /\ version' = v + 1
           /\ plans' = plans \cup {v + 1} /\ resized' = resized \cup {v + 1}
           /\ reallocated' = reallocated \cup {v + 1} /\ proposed' = proposed \cup {v + 1}
  <2>1. version = v /\ v \in Nat
    BY <1>4, VersionFacts DEF Unchanged
  <2>2. PICK p \in Part : /\ part' = [part EXCEPT ![v] = p] /\ p.rev > part[v].rev
                          /\ p.decision = "NONE" /\ ~p.expired
    BY <1>1, <1>4, Superseding
  <2>3. Takes(c, Idle) /\ Fits(call[c])' /\ ~Bumping(Idle)
    BY <1>1, Ending
       DEF IInv, Takes, Fits, Numbered, Carries, Pinned, Pinning, Deciding, Unnumbered, Bumping, Idle
  <2>4. \A d \in Callers : ~Bumping(call[d])
    <3> SUFFICES ASSUME NEW d \in Callers, Bumping(call[d]) PROVE v + 1 \in plans
      BY <1>4
    <3> QED
      BY <2>1, Frame DEF Bumping, Fits, Numbered
  <2>5. /\ version' \in 0..MaxVersion /\ version <= version' /\ v < version'
        /\ 1..version' \subseteq plans' /\ plans' \subseteq 1..(version' + 1)
        /\ plans \subseteq plans' /\ plans' \subseteq Versions
    BY <1>1, <1>4, <2>1, VersionFacts DEF Versions
  <2>6. /\ resized' \subseteq plans' /\ reallocated' \subseteq resized' /\ proposed' \subseteq plans'
        /\ status' \in Statuses /\ approved' \subseteq Versions \X {1, 2}
    BY <1>2, <1>4 DEF IInv, TypeOK, Statuses
  <2> QED
    BY <1>1, <1>2, <2>2, <2>3, <2>4, <2>5, <2>6, PartStep
<1> QED
  BY <1>3, <1>4 DEF Reallocate

LEMMA StarveStep ==
  ASSUME IInv, NEW c \in Callers, Starve(c)
  PROVE  IInv'
<1> DEFINE v == call[c].v
<1>1. call[c].pc = "reallocate" /\ v \in Versions /\ HasPart(v) /\ bound.canStarve /\ End(c)
  BY StillAsRead DEF Starve, At, Pinning
<1>2. UNCHANGED <<version, active, stored, route, approved, clock, admin>>
  BY DEF Starve
<1>3. CASE UNCHANGED <<status, part>>
  BY <1>1, <1>2, <1>3, QuietEnd, Frame DEF Untouched, clock, routed
<1>4. CASE Unchanged(c) /\ Supersede(v) /\ status' = "ESCALATED"
  <2>1. PICK p \in Part : /\ part' = [part EXCEPT ![v] = p] /\ p.rev > part[v].rev
                          /\ p.decision = "NONE" /\ ~p.expired
    BY <1>1, <1>4, Superseding
  <2>2. Takes(c, Idle) /\ Fits(call[c])' /\ ~Bumping(Idle)
    BY <1>1, Ending
       DEF IInv, Takes, Fits, Numbered, Carries, Pinned, Pinning, Deciding, Unnumbered, Bumping, Idle
  <2>3. /\ version' \in 0..MaxVersion /\ version <= version' /\ version' = version
        /\ 1..version' \subseteq plans' /\ plans' \subseteq 1..(version' + 1)
        /\ plans \subseteq plans' /\ plans' \subseteq Versions
        /\ resized' \subseteq plans' /\ reallocated' \subseteq resized' /\ proposed' \subseteq plans'
        /\ status' \in Statuses /\ approved' \subseteq Versions \X {1, 2}
    BY <1>2, <1>4, VersionFacts DEF stored, IInv, TypeOK, Statuses
  <2> QED
    BY <1>1, <1>2, <2>1, <2>2, <2>3, PartStep
<1> QED
  BY <1>3, <1>4 DEF Starve

-----------------------------------------------------------------------------
(* The invariant is inductive *)

LEMMA PlansStep ==
  ASSUME IInv, NEW c \in Callers, Plans(c)
  PROVE  IInv'
BY ReadCaseStep, ClaimRunStep, EnterRunStep, StorePlanStep, BumpVersionStep, ProposePlanStep,
   EndRunStep DEF Plans

LEMMA VerifiesStep ==
  ASSUME IInv, NEW c \in Callers, Verifies(c)
  PROVE  IInv'
BY HandleStep, ResumeReallocatedStep, SolveStep, StoreResizedStep, BumpResizedStep,
   EmitResizedStep, MarkVerifiedStep, RouteStep, SaveStep, SettleStep, SetTimerStep DEF Verifies

LEMMA DecidesStep ==
  ASSUME IInv, NEW c \in Callers, Decides(c)
  PROVE  IInv'
BY ApproveStep, ReadRouteStep, ReadPartStep, CheckLimitStep, DecideStep, RejectCaseStep DEF Decides

LEMMA ExpiresStep ==
  ASSUME IInv, NEW c \in Callers, Expires(c)
  PROVE  IInv'
BY TimerStep, TickStep, FindBackupStep, ExpireStep, RemindStep, EscalateStep DEF Expires

LEMMA ReallocatesStep ==
  ASSUME IInv, NEW c \in Callers, Reallocates(c)
  PROVE  IInv'
BY SeeMemberStep, ReadPartsStep, ReallocateStep, StarveStep DEF Reallocates

LEMMA ExecutesStep ==
  ASSUME IInv, NEW c \in Callers, Executes(c)
  PROVE  IInv'
BY StartStep, AuthorizeStep, EnterExecutionStep, MoveInStep, FinishStep DEF Executes

LEMMA InitHolds == Init => IInv
<1> SUFFICES ASSUME Init PROVE IInv
  OBVIOUS
<1> USE DEF Init
<1>1. NewPart(NoOne) \in Part /\ NewPart(NoOne).decision = "NONE" /\ ~NewPart(NoOne).superseded
  BY NewPartIsPart
<1>2. TypeOK
  <2>1. call \in [Callers -> Call]
    BY IdleIsCall
  <2>2. limit \in [Approvers -> Limits]
    BY DEF Limits
  <2>3. part \in [Versions -> Part] /\ time \in [Versions -> 0..2]
          /\ route \in [Versions -> {"NONE", "1", "2", "3", "split"}]
    BY <1>1
  <2>4. status \in Statuses /\ version \in 0..MaxVersion
    BY VersionsExist DEF Statuses
  <2> QED
    BY <2>1, <2>2, <2>3, <2>4 DEF TypeOK
<1>3. Numbering
  <2>1. \A c \in Callers : call[c].pc = "idle"
    BY DEF Idle
  <2> QED
    BY <2>1 DEF Numbering, Bumping
<1>4. \A v \in Versions : PartFits(v)
  BY <1>1 DEF PartFits
<1>5. \A c \in Callers : Fits(call[c])
  BY IdleFits
<1> QED
  BY <1>2, <1>3, <1>4, <1>5 DEF IInv

LEMMA NextKeeps == IInv /\ [Next]_vars => IInv'
<1> SUFFICES ASSUME IInv, [Next]_vars PROVE IInv'
  OBVIOUS
<1>1. CASE UNCHANGED vars
  <2> USE <1>1 DEF vars
  <2>1. TypeOK'
    BY DEF IInv, TypeOK
  <2>2. Numbering'
    BY DEF IInv, Numbering, Bumping
  <2>3. \A v \in Versions : PartFits(v)'
    BY DEF IInv, PartFits, HasPart
  <2>4. \A c \in Callers : Fits(call[c])'
    BY DEF IInv, Fits, Numbered, Carries, Pinned, AsRead, Of, HasPart
  <2> QED
    BY <2>1, <2>2, <2>3, <2>4 DEF IInv
<1>2. ASSUME NEW c \in Callers, Act(c) PROVE IInv'
  BY <1>2, PlansStep, VerifiesStep, DecidesStep, ExpiresStep, ReallocatesStep, ExecutesStep DEF Act
<1>3. ASSUME NEW c \in Callers, Stop(c) PROVE IInv'
  BY <1>3, StopStep
<1>4. ASSUME NEW v \in Versions, TimePasses(v) PROVE IInv'
  BY <1>4, TimePassesStep
<1>5. ASSUME NEW a \in Approvers, EditLimit(a) PROVE IInv'
  BY <1>5, EditLimitStep
<1>6. CASE SwitchKill
  BY <1>6, SwitchKillStep
<1> QED
  BY <1>1, <1>2, <1>3, <1>4, <1>5, <1>6 DEF Next

\* The inductive invariant holds of every reachable state: what a call will write under
\* the revision of a part it read, it has read of that part.
THEOREM Invariance == Spec => []IInv
<1> QED
  BY InitHolds, NextKeeps, PTL DEF Spec

-----------------------------------------------------------------------------
(* The properties *)

\* The items, events and calls of a case are of their types, for any invocations, approvers
\* and versions and whatever the bounds allow to happen.
THEOREM TypeCorrect == Spec => []TypeOK
<1>1. IInv => TypeOK
  BY DEF IInv
<1> QED
  BY <1>1, Invariance, PTL

\* decide, tick and reallocate race on an approval and at most one of them decides what
\* becomes of it, unless a solve superseded it without giving the case another version.
THEOREM OneFateEach == Spec => []OneFate
<1>1. IInv => OneFate
  BY DEF IInv, OneFate, PartFits
<1> QED
  BY <1>1, Invariance, PTL

LEMMA WhoWritesParts ==
  ASSUME Next
  PROVE  \/ UNCHANGED part
         \/ \E c \in Callers : Save(c) \/ Decide(c) \/ Expire(c) \/ Remind(c)
                               \/ Reallocate(c) \/ Starve(c)
<1> USE DEF routed
<1>1. ASSUME NEW c \in Callers, Plans(c) PROVE UNCHANGED part
  BY <1>1 DEF Plans, ReadCase, ClaimRun, EnterRun, StorePlan, BumpVersion, ProposePlan, EndRun
<1>2. ASSUME NEW c \in Callers, Verifies(c) PROVE UNCHANGED part \/ Save(c)
  BY <1>2 DEF Verifies, Handle, ResumeReallocated, Solve, StoreResized, BumpResized, EmitResized,
              MarkVerified, Route, Settle, SetTimer
<1>3. ASSUME NEW c \in Callers, Decides(c) PROVE UNCHANGED part \/ Decide(c)
  BY <1>3 DEF Decides, Approve, ReadRoute, ReadPart, CheckLimit, RejectCase
<1>4. ASSUME NEW c \in Callers, Expires(c) PROVE UNCHANGED part \/ Expire(c) \/ Remind(c)
  BY <1>4 DEF Expires, Timer, Tick, FindBackup, Escalate
<1>5. ASSUME NEW c \in Callers, Reallocates(c)
      PROVE  UNCHANGED part \/ Reallocate(c) \/ Starve(c)
  BY <1>5 DEF Reallocates, SeeMember, ReadParts
<1>6. ASSUME NEW c \in Callers, Executes(c) PROVE UNCHANGED part
  BY <1>6 DEF Executes, Start, Authorize, EnterExecution, MoveIn, Finish
<1>7. ASSUME NEW c \in Callers, Act(c)
      PROVE  \/ UNCHANGED part
             \/ Save(c) \/ Decide(c) \/ Expire(c) \/ Remind(c) \/ Reallocate(c) \/ Starve(c)
  BY <1>1, <1>2, <1>3, <1>4, <1>5, <1>6, <1>7 DEF Act
<1>8. ASSUME NEW c \in Callers, Stop(c) PROVE UNCHANGED part
  BY <1>8 DEF Stop
<1>9. ASSUME NEW v \in Versions, TimePasses(v) PROVE UNCHANGED part
  BY <1>9 DEF TimePasses
<1>10. ASSUME NEW a \in Approvers, EditLimit(a) PROVE UNCHANGED part
  BY <1>10 DEF EditLimit
<1>11. CASE SwitchKill
  BY <1>11 DEF SwitchKill
<1> QED
  BY <1>7, <1>8, <1>9, <1>10, <1>11 DEF Next

\* A decision changes nothing but an undecided, unexpired part of the current version, and
\* only while the kill switch is off and the limit of the part's approver is enough.
Fresh1(v) ==
  part[v].decision # part'[v].decision =>
    /\ part[v].decision = "NONE" /\ ~part[v].expired
    /\ version = v /\ ~kill /\ Sufficient(part[v].approver)

LEMMA DecidesFresh ==
  ASSUME IInv, NEW c \in Callers, Decide(c), NEW v \in Versions
  PROVE  Fresh1(v)
<1>1. CASE v # call[c].v \/ ~StillDecidable(c)
  BY <1>1, Frame DEF Decide, Fresh1, IInv, TypeOK
<1>2. CASE v = call[c].v /\ StillDecidable(c)
  <2>1. AsRead(call[c]) /\ call[c].pc = "decide"
    BY <1>2, StillAsRead DEF Decide, At, StillDecidable, Pinning, Deciding, Of
  <2> QED
    BY <1>2, <2>1 DEF StillDecidable, Fresh1, AsRead, Deciding, Of
<1> QED
  BY <1>1, <1>2

LEMMA OthersDecideNothing ==
  ASSUME IInv, NEW c \in Callers, NEW v \in Versions,
         Save(c) \/ Expire(c) \/ Remind(c) \/ Reallocate(c) \/ Starve(c)
  PROVE  part'[v].decision = part[v].decision
<1> DEFINE w == call[c].v
<1>1. part \in [Versions -> Part]
  BY DEF IInv, TypeOK
<1>2. CASE Save(c)
  <2>1. w \in Versions /\ call[c].who \in Approvers \cup {NoOne}
    BY <1>2, Frame DEF Save, At, Fits, Numbered, Unnumbered, Call
  <2>2. NewPart(call[c].who).decision = "NONE"
    BY <2>1, NewPartIsPart
  <2>3. route[w] = "NONE" => part[w].decision = "NONE"
    BY <2>1 DEF IInv, PartFits
  <2> QED
    BY <1>1, <1>2, <2>1, <2>2, <2>3 DEF Save, routed
<1>3. CASE Expire(c)
  <2>1. \/ part' = [part EXCEPT ![w].expired = TRUE, ![w].missed = part[w].approver,
                                ![w].approver = call[c].who, ![w].rev = @ + 1]
        \/ part' = part
    BY <1>3 DEF Expire
  <2> HIDE DEF w
  <2> QED
    BY <1>1, <2>1 DEF Part
<1>4. CASE Remind(c)
  BY <1>1, <1>4 DEF Remind, Part
<1>5. CASE Reallocate(c)
  BY <1>1, <1>5 DEF Reallocate, Supersede, Part
<1>6. CASE Starve(c)
  BY <1>1, <1>6 DEF Starve, Supersede, Part
<1> QED
  BY <1>2, <1>3, <1>4, <1>5, <1>6

LEMMA DecisionsFresh ==
  ASSUME IInv, Next, NEW v \in Versions
  PROVE  Fresh1(v)
<1>1. CASE UNCHANGED part
  BY <1>1 DEF Fresh1
<1>2. ASSUME NEW c \in Callers, Decide(c) PROVE Fresh1(v)
  BY <1>2, DecidesFresh
<1>3. ASSUME NEW c \in Callers,
             Save(c) \/ Expire(c) \/ Remind(c) \/ Reallocate(c) \/ Starve(c)
      PROVE  Fresh1(v)
  BY <1>3, OthersDecideNothing DEF Fresh1
<1> QED
  BY <1>1, <1>2, <1>3, WhoWritesParts

\* A decision is taken on what is still so when it is written, whatever changed since the
\* invocation read it: the version, the expiry, the kill switch, the approver's limit.
THEOREM DecisionsAreFresh == Spec => DecisionIsFresh
<1>1. IInv /\ [Next]_vars => [\A v \in Versions : Fresh1(v)]_vars
  BY DecisionsFresh
<1> QED
  BY <1>1, Invariance, PTL DEF Spec, DecisionIsFresh, Fresh1

-----------------------------------------------------------------------------
(* What executes was approved *)

Entering == {"enter"} \cup Running

\* What the policy cleared or an approver approved, of a version up to the current one.
Cleared(r) ==
  /\ r.v \in 1..version
  /\ r.what = "1" => <<r.v, 1>> \in approved
  /\ r.what # "1" => Decided(r.v)

\* An execution that was started was announced; one that was authorized is cleared, and takes
\* the way through the approval only as the approved part.
Entitled(r) ==
  /\ r.pc = "authorize" => r.v \in Versions /\ (r.what = "1" => <<r.v, 1>> \in approved)
  /\ r.pc \in Entering => Cleared(r)
  /\ r.pc = "moveApproved" => r.what # "1"

EInv ==
  /\ \A c \in Callers : Entitled(call[c])
  /\ OnlyApprovedEnters

\* Nothing that was approved or cleared is taken back.
Grows ==
  /\ version <= version'
  /\ approved \subseteq approved'
  /\ \A v \in Versions : Decided(v) => Decided(v)'

\* Of one call's step: it is no step of an execution.
Apart ==
  /\ \A d \in Callers : call'[d] = call[d] \/ call'[d].pc \notin {"authorize"} \cup Entering
  /\ status' = status \/ status' \notin {"APPROVED", "EXECUTING"}

LEMMA VersionGrows ==
  ASSUME IInv, Next
  PROVE  version <= version' /\ approved \subseteq approved'
<1> DEFINE Same == UNCHANGED <<version, approved>>
           Writes(c) == \/ BumpVersion(c) \/ BumpResized(c) \/ Save(c) \/ Decide(c)
                        \/ Reallocate(c) \/ Starve(c)
<1> USE DEF case, routed
<1>1. ASSUME NEW c \in Callers, Plans(c) PROVE Same \/ Writes(c)
  BY <1>1 DEF Plans, ReadCase, ClaimRun, EnterRun, StorePlan, ProposePlan, EndRun
<1>2. ASSUME NEW c \in Callers, Verifies(c) PROVE Same \/ Writes(c)
  BY <1>2 DEF Verifies, Handle, ResumeReallocated, Solve, StoreResized, EmitResized,
              MarkVerified, Route, Settle, SetTimer
<1>3. ASSUME NEW c \in Callers, Decides(c) PROVE Same \/ Writes(c)
  BY <1>3 DEF Decides, Approve, ReadRoute, ReadPart, CheckLimit, RejectCase
<1>4. ASSUME NEW c \in Callers, Expires(c) PROVE Same
  BY <1>4 DEF Expires, Timer, Tick, FindBackup, Expire, Remind, Escalate
<1>5. ASSUME NEW c \in Callers, Reallocates(c) PROVE Same \/ Writes(c)
  BY <1>5 DEF Reallocates, SeeMember, ReadParts
<1>6. ASSUME NEW c \in Callers, Executes(c) PROVE Same
  BY <1>6 DEF Executes, Start, Authorize, EnterExecution, MoveIn, Finish
<1>7. ASSUME NEW c \in Callers, Stop(c) PROVE Same
  BY <1>7 DEF Stop
<1>8. ASSUME NEW v \in Versions, TimePasses(v) PROVE Same
  BY <1>8 DEF TimePasses
<1>9. ASSUME NEW a \in Approvers, EditLimit(a) PROVE Same
  BY <1>9 DEF EditLimit
<1>10. ASSUME SwitchKill PROVE Same
  BY <1>10 DEF SwitchKill
<1>11. ASSUME NEW c \in Callers, Writes(c)
       PROVE  version <= version' /\ approved \subseteq approved'
  <2>1. CASE BumpVersion(c)
    BY <2>1, Frame DEF BumpVersion, At, Fits, Numbered
  <2>2. CASE BumpResized(c)
    BY <2>2, Frame DEF BumpResized
  <2>3. CASE Save(c)
    BY <2>3, Frame DEF Save
  <2>4. CASE Decide(c)
    BY <2>4, Frame DEF Decide
  <2>5. CASE Reallocate(c)
    BY <2>5, Frame DEF Reallocate, Unchanged
  <2>6. CASE Starve(c)
    BY <2>6, Frame DEF Starve
  <2> QED
    BY <1>11, <2>1, <2>2, <2>3, <2>4, <2>5, <2>6
<1>12. Same => version <= version' /\ approved \subseteq approved'
  BY Frame
<1> HIDE DEF Same, Writes, case, routed
<1>13. ASSUME NEW c \in Callers, Act(c) PROVE Same \/ Writes(c)
  BY <1>1, <1>2, <1>3, <1>4, <1>5, <1>6, <1>13 DEF Act
<1> QED
  BY <1>7, <1>8, <1>9, <1>10, <1>11, <1>12, <1>13 DEF Next

LEMMA ApprovalsStay ==
  ASSUME IInv, Next
  PROVE  Grows
<1>1. IInv'
  BY NextKeeps
<1>2. ASSUME NEW v \in Versions, Decided(v) PROVE Decided(v)'
  <2>1. Fresh1(v)
    BY DecisionsFresh
  <2>2. part'[v].decision = "APPROVED"
    BY <1>2, <2>1 DEF Fresh1, Decided
  <2>3. ~part'[v].expired
    BY <1>1, <2>2 DEF IInv, PartFits
  <2> QED
    BY <2>2, <2>3 DEF Decided
<1> QED
  BY <1>2, VersionGrows DEF Grows

LEMMA EntitledStays ==
  ASSUME IInv, IInv', EInv, Grows, NEW c \in Callers, call'[c] = call[c]
  PROVE  Entitled(call[c])'
<1>1. Entitled(call[c]) /\ version \in Nat /\ version' \in Nat /\ version <= MaxVersion
  BY VersionsExist DEF EInv, IInv, TypeOK
<1>2. \A v \in 1..version : v \in Versions /\ v \in 1..version'
  BY <1>1, VersionsExist DEF Grows, Versions
<1> QED
  BY <1>1, <1>2 DEF Entitled, Cleared, Grows, Decided

LEMMA StatusStays ==
  ASSUME IInv, IInv', EInv, Grows, status' = status \/ status' \notin {"APPROVED", "EXECUTING"}
  PROVE  OnlyApprovedEnters'
<1>1. version \in Nat /\ version' \in Nat /\ version <= MaxVersion
  BY VersionsExist DEF IInv, TypeOK
<1>2. \A v \in 1..version : v \in Versions /\ v \in 1..version'
  BY <1>1, VersionsExist DEF Grows, Versions
<1> QED
  BY <1>2 DEF EInv, Grows, OnlyApprovedEnters, Decided

\* A call goes to a point that is none of an execution's.
Elsewhere(c) ==
  /\ \A d \in Callers \ {c} : call'[d] = call[d]
  /\ call'[c].pc \notin {"authorize"} \cup Entering

LEMMA GoesElsewhere ==
  ASSUME IInv, NEW c \in Callers
  PROVE  /\ \A pc : Goto(c, pc) /\ pc \notin {"authorize"} \cup Entering => Elsewhere(c)
         /\ End(c) => Elsewhere(c)
<1>1. call \in [Callers -> Call]
  BY DEF IInv, TypeOK
<1> QED
  BY <1>1 DEF Goto, End, Idle, Call, Elsewhere, Entering, Running

LEMMA ApartSteps ==
  ASSUME IInv, Next
  PROVE  Apart \/ \E c \in Callers : Executes(c)
<1> DEFINE Calm == status' = status \/ status' \notin {"APPROVED", "EXECUTING"}
<1> USE DEF Entering, Running, case
<1>1. call \in [Callers -> Call]
  BY DEF IInv, TypeOK
<1>2. ASSUME NEW c \in Callers, Plans(c) PROVE Elsewhere(c) /\ Calm
  <2>1. CASE ReadCase(c)
    BY <1>1, <2>1, GoesElsewhere DEF ReadCase, Begin, Idle, Elsewhere
  <2>2. CASE ClaimRun(c)
    BY <1>1, <2>2, GoesElsewhere DEF ClaimRun
  <2>3. CASE EnterRun(c)
    BY <1>1, <2>3, GoesElsewhere DEF EnterRun
  <2>4. CASE StorePlan(c)
    BY <1>1, <2>4, GoesElsewhere DEF StorePlan, Call, Elsewhere
  <2>5. CASE BumpVersion(c)
    BY <1>1, <2>5, GoesElsewhere DEF BumpVersion
  <2>6. CASE ProposePlan(c)
    BY <1>1, <2>6, GoesElsewhere DEF ProposePlan
  <2>7. CASE EndRun(c)
    BY <1>1, <2>7, GoesElsewhere DEF EndRun
  <2> QED
    BY <1>2, <2>1, <2>2, <2>3, <2>4, <2>5, <2>6, <2>7 DEF Plans
<1>3. ASSUME NEW c \in Callers, Verifies(c) PROVE Elsewhere(c) /\ Calm
  <2>1. CASE \E v \in Versions : Handle(c, v)
    <3>1. PICK v \in Versions, pc \in {"solve", "resume"} :
            Begin(c, [Idle EXCEPT !.pc = pc, !.v = v]) /\ status' = status
      BY <2>1 DEF Handle
    <3> QED
      BY <1>1, <3>1 DEF Begin, Idle, Elsewhere
  <2>2. CASE ResumeReallocated(c)
    BY <1>1, <2>2, GoesElsewhere DEF ResumeReallocated
  <2>3. CASE Solve(c)
    BY <1>1, <2>3, GoesElsewhere DEF Solve
  <2>4. CASE StoreResized(c)
    BY <1>1, <2>4, GoesElsewhere DEF StoreResized
  <2>5. CASE BumpResized(c)
    BY <1>1, <2>5, GoesElsewhere DEF BumpResized
  <2>6. CASE EmitResized(c)
    BY <1>1, <2>6, GoesElsewhere DEF EmitResized
  <2>7. CASE MarkVerified(c)
    BY <1>1, <2>7, GoesElsewhere DEF MarkVerified
  <2>8. CASE Route(c)
    BY <1>1, <2>8, GoesElsewhere DEF Route, Call, Elsewhere
  <2>9. CASE Save(c)
    BY <1>1, <2>9, GoesElsewhere DEF Save
  <2>10. CASE Settle(c)
    BY <1>1, <2>10, GoesElsewhere DEF Settle, NextStatus
  <2>11. CASE SetTimer(c)
    BY <1>1, <2>11, GoesElsewhere DEF SetTimer
  <2> QED
    BY <1>3, <2>1, <2>2, <2>3, <2>4, <2>5, <2>6, <2>7, <2>8, <2>9, <2>10, <2>11 DEF Verifies
<1>4. ASSUME NEW c \in Callers, Decides(c) PROVE Elsewhere(c) /\ Calm
  <2>1. CASE \E v \in Versions, a \in Approvers, d \in {"APPROVED", "REJECTED"} : Approve(c, v, a, d)
    BY <1>1, <2>1, GoesElsewhere DEF Approve, Begin, Idle, Elsewhere
  <2>2. CASE ReadRoute(c)
    BY <1>1, <2>2, GoesElsewhere DEF ReadRoute
  <2>3. CASE ReadPart(c)
    BY <1>1, <2>3, GoesElsewhere DEF ReadPart, Call, Elsewhere
  <2>4. CASE CheckLimit(c)
    BY <1>1, <2>4, GoesElsewhere DEF CheckLimit
  <2>5. CASE Decide(c)
    BY <1>1, <2>5, GoesElsewhere DEF Decide
  <2>6. CASE RejectCase(c)
    BY <1>1, <2>6, GoesElsewhere DEF RejectCase
  <2> QED
    BY <1>4, <2>1, <2>2, <2>3, <2>4, <2>5, <2>6 DEF Decides
<1>5. ASSUME NEW c \in Callers, Expires(c) PROVE Elsewhere(c) /\ Calm
  <2>1. CASE \E v \in Versions : Timer(c, v)
    BY <1>1, <2>1, GoesElsewhere DEF Timer, Begin, Idle, Elsewhere
  <2>2. CASE Tick(c)
    BY <1>1, <2>2, GoesElsewhere DEF Tick, Call, Elsewhere
  <2>3. CASE FindBackup(c)
    BY <1>1, <2>3, GoesElsewhere DEF FindBackup, Call, Elsewhere
  <2>4. CASE Expire(c)
    BY <1>1, <2>4, GoesElsewhere DEF Expire
  <2>5. CASE Remind(c)
    BY <1>1, <2>5, GoesElsewhere DEF Remind
  <2>6. CASE Escalate(c)
    BY <1>1, <2>6, GoesElsewhere DEF Escalate
  <2> QED
    BY <1>5, <2>1, <2>2, <2>3, <2>4, <2>5, <2>6 DEF Expires
<1>6. ASSUME NEW c \in Callers, Reallocates(c) PROVE Elsewhere(c) /\ Calm
  <2>1. CASE SeeMember(c)
    BY <1>1, <2>1, GoesElsewhere DEF SeeMember, Begin, Idle, Elsewhere
  <2>2. CASE ReadParts(c)
    BY <1>1, <2>2, GoesElsewhere DEF ReadParts, Call, Elsewhere
  <2>3. CASE Reallocate(c)
    BY <1>1, <2>3, GoesElsewhere DEF Reallocate
  <2>4. CASE Starve(c)
    BY <1>1, <2>4, GoesElsewhere DEF Starve
  <2> QED
    BY <1>6, <2>1, <2>2, <2>3, <2>4 DEF Reallocates
<1>7. ASSUME NEW c \in Callers, Stop(c) PROVE Elsewhere(c) /\ Calm
  BY <1>7, GoesElsewhere DEF Stop
<1>8. (\E v \in Versions : TimePasses(v)) \/ (\E a \in Approvers : EditLimit(a)) \/ SwitchKill => Apart
  BY DEF TimePasses, EditLimit, SwitchKill, Apart
<1>9. ASSUME NEW c \in Callers, Elsewhere(c), Calm PROVE Apart
  BY <1>9 DEF Elsewhere, Apart
<1> HIDE DEF Calm, Entering, Running, case
<1> QED
  BY <1>2, <1>3, <1>4, <1>5, <1>6, <1>7, <1>8, <1>9 DEF Next, Act

\* Only an execution's own steps could enter on what was not approved.
LEMMA ExecutionEntitled ==
  ASSUME IInv, IInv', EInv, Grows, NEW c \in Callers, Executes(c)
  PROVE  EInv'
<1> DEFINE r == call[c]  r1 == call'[c]
<1>1. /\ call \in [Callers -> Call] /\ version \in Nat /\ version <= MaxVersion /\ Entitled(r)
      /\ OnlyApprovedEnters
  BY VersionsExist DEF IInv, TypeOK, EInv
<1>2. UNCHANGED <<version, approved, part>> /\ \A d \in Callers \ {c} : call'[d] = call[d]
  BY <1>1 DEF Executes, Start, Authorize, EnterExecution, MoveIn, Finish, case, routed,
              Begin, Goto, End
<1>3. Entitled(call[c])' /\ OnlyApprovedEnters'
  <2>1. CASE \E v \in Versions, tier \in {1, 2} : Start(c, v, tier)
    <3>1. PICK v \in Versions, tier \in {1, 2} : Start(c, v, tier)
      BY <2>1
    <3>2. /\ r1.pc = "authorize" /\ r1.v = v /\ r1.what = (IF tier = 1 THEN "1" ELSE "2")
          /\ <<v, tier>> \in approved /\ status' = status
      BY <1>1, <3>1 DEF Start, Begin, Idle, case
    <3>3. Entitled(call[c])'
      BY <1>2, <3>1, <3>2 DEF Entitled, Entering, Running
    <3> QED
      BY <3>2, <3>3, StatusStays
  <2>2. CASE Authorize(c)
    <3>1. /\ r.pc = "authorize" /\ status' = status
          /\ \/ r1 = Idle
             \/ /\ r1 = [r EXCEPT !.pc = "enter"] /\ version = r.v
                /\ r.what = "1" \/ Decided(r.v)
      BY <1>1, <2>2 DEF Authorize, At, Goto, End, case, Decided
    <3>2. CASE r1 = Idle
      BY <3>1, <3>2, StatusStays DEF Entitled, Entering, Running, Idle
    <3>3. CASE r1 = [r EXCEPT !.pc = "enter"] /\ version = r.v /\ (r.what = "1" \/ Decided(r.v))
      <4>1. r1.pc = "enter" /\ r1.v = r.v /\ r1.what = r.what
        BY <1>1, <3>3 DEF Call
      <4>2. r.v \in 1..version
        BY <1>1, <3>1, <3>3 DEF Entitled, Versions
      <4>3. Cleared(call[c])'
        BY <1>1, <1>2, <3>1, <3>3, <4>1, <4>2 DEF Cleared, Entitled, Decided
      <4> QED
        BY <3>1, <4>1, <4>3, StatusStays DEF Entitled
    <3> QED
      BY <3>1, <3>2, <3>3
  <2>3. CASE EnterExecution(c)
    <3>1. /\ r.pc = "enter" /\ status' = status
          /\ r1.pc \in Running /\ r1.v = r.v /\ r1.what = r.what
          /\ r1.pc = "moveApproved" => r.what = "2"
      BY <1>1, <2>3 DEF EnterExecution, At, Goto, case, Running, Call
    <3>2. Entitled(call[c])'
      BY <1>1, <1>2, <3>1 DEF Entitled, Cleared, Decided, Entering, Running
    <3> QED
      BY <3>1, <3>2, StatusStays
  <2>4. CASE MoveIn(c)
    <3>1. /\ r.pc \in Running /\ Cleared(r)
          /\ r1.pc \in {"moveExecuting", "running"} /\ r1.v = r.v /\ r1.what = r.what
          /\ status' = "APPROVED" => status = "APPROVED" \/ r.pc = "moveApproved"
      BY <1>1, <2>4 DEF MoveIn, At, Goto, Move, Running, Entitled, Entering, Call
    <3>2. Entitled(call[c])'
      BY <1>1, <1>2, <3>1 DEF Entitled, Cleared, Decided, Entering, Running
    <3>3. OnlyApprovedEnters'
      BY <1>1, <1>2, <3>1 DEF OnlyApprovedEnters, Entitled, Cleared, Decided
    <3> QED
      BY <3>2, <3>3
  <2>5. CASE Finish(c)
    <3>1. r1 = Idle /\ (status' = status \/ status' \notin {"APPROVED", "EXECUTING"})
      BY <1>1, <2>5 DEF Finish, End, Move
    <3> QED
      BY <3>1, StatusStays DEF Entitled, Entering, Running, Idle
  <2> QED
    BY <2>1, <2>2, <2>3, <2>4, <2>5 DEF Executes
<1>4. ASSUME NEW d \in Callers PROVE Entitled(call[d])'
  BY <1>2, <1>3, EntitledStays
<1> QED
  BY <1>3, <1>4 DEF EInv

\* No case is approved, and none executes, without an approver's decision in time or the
\* policy's on one of its versions, whatever starts, repeats, stops or is decided meanwhile.
THEOREM OnlyApprovedExecutes == Spec => []OnlyApprovedEnters
<1>1. Init => EInv
  BY DEF Init, Idle, EInv, Entitled, Entering, Running, OnlyApprovedEnters
<1>2. IInv /\ EInv /\ [Next]_vars => EInv'
  <2> SUFFICES ASSUME IInv, EInv, [Next]_vars PROVE EInv'
    OBVIOUS
  <2>1. CASE UNCHANGED vars
    BY <2>1 DEF vars, EInv, Entitled, Cleared, Decided, OnlyApprovedEnters
  <2>2. CASE Next
    <3>1. IInv' /\ Grows
      BY <2>2, NextKeeps, ApprovalsStay
    <3>2. CASE Apart
      <4>1. ASSUME NEW d \in Callers PROVE Entitled(call[d])'
        <5>1. CASE call'[d] = call[d]
          BY <3>1, <5>1, EntitledStays
        <5>2. CASE call'[d].pc \notin {"authorize"} \cup Entering
          BY <5>2 DEF Entitled, Entering, Running
        <5> QED
          BY <3>2, <5>1, <5>2 DEF Apart
      <4>2. OnlyApprovedEnters'
        BY <3>1, <3>2, StatusStays DEF Apart
      <4> QED
        BY <4>1, <4>2 DEF EInv
    <3> QED
      BY <2>2, <3>1, <3>2, ApartSteps, ExecutionEntitled
  <2> QED
    BY <2>1, <2>2
<1>3. EInv => OnlyApprovedEnters
  BY DEF EInv
<1> QED
  BY <1>1, <1>2, <1>3, Invariance, PTL DEF Spec

-----------------------------------------------------------------------------
(* Nobody is asked again *)

\* What the property excepts: no execution takes the case from a pending approval, and no
\* invocation is late.
Prompt == "execute" \notin bound.roles /\ ~bound.late

Verifying == {"route", "save", "settle"}

\* An approval that was decided or has expired; it is never pending again.
Lapsed(v) == HasPart(v) /\ (part[v].decision # "NONE" \/ part[v].expired)

NonePending == \A v \in Versions : ~Pending(v)

NeverMissed(a) == a = NoOne \/ \A v \in Versions : part[v].missed # a

\* Only versions up to the current one are routed, and only a routed one has an approver.
RoutedSoFar ==
  \A v \in Versions :
    IF route[v] = "NONE" THEN part[v].approver = NoOne /\ part[v].missed = NoOne
    ELSE v <= version

\* While an approval is pending the case waits for it, or is about to, and no later version
\* is routed: there is one pending approval at most.
CaseWaits ==
  \A v \in Versions :
    Pending(v) => /\ status \in {"VERIFIED", "AWAITING_APPROVAL"}
                  /\ \A w \in Versions : v < w => route[w] = "NONE"

OneVerifies == \A c, d \in Callers : call[c].pc \in Verifying /\ call[d].pc \in Verifying => c = d

\* What a call that may route, expire or leave an approval has seen, and what it still is.
Seen(r) ==
  /\ r.pc \in Verifying => status = "VERIFIED"
  /\ r.pc \in {"route", "save"} => NonePending
  /\ r.pc = "settle" => \A v \in Versions : Pending(v) => v = r.v /\ r.what \in {"2", "split"}
  /\ r.pc \in {"claimRun", "enterRun"} =>
       r.st # "VERIFIED" /\ (r.st = "AWAITING_APPROVAL" => Lapsed(r.v))
  /\ r.pc \in {"escalate", "reject"} => Lapsed(r.v)
  /\ r.pc \in {"resume", "solve", "verify", "route"} => r.who = NoOne
  /\ r.pc = "save" => NeverMissed(r.who)
  /\ r.pc = "expire" /\ r.rev = Of(r).rev => NeverMissed(r.who)

Asked(v, w) == v < w /\ part[v].missed # NoOne => part[w].approver # part[v].missed

AInv ==
  /\ RoutedSoFar
  /\ CaseWaits
  /\ OneVerifies
  /\ \A c \in Callers : Seen(call[c])
  /\ \A v, w \in Versions : Asked(v, w)

\* How the approvals go on in a step: versions only grow, one that lapsed stays so, none
\* becomes pending, a part that changes gets a higher revision, and only one that is pending
\* is missed, to be offered to an approver who missed none.
Offered(v) ==
  /\ Pending(v)
  /\ part'[v].missed = part[v].approver
  /\ NeverMissed(part'[v].approver)
  /\ \A w \in Versions \ {v} :
       part'[w].missed = part[w].missed /\ part'[w].approver = part[w].approver

Advances ==
  /\ UNCHANGED route /\ version <= version'
  /\ \A v \in Versions :
       /\ Pending(v)' => Pending(v)
       /\ Lapsed(v) => Lapsed(v)'
       /\ part'[v] = part[v] \/ (HasPart(v) /\ part'[v].rev > part[v].rev)
  /\ \/ \A v \in Versions : part'[v].missed = part[v].missed /\ part'[v].approver = part[v].approver
     \/ \E v \in Versions : Offered(v)

LEMMA OnePending ==
  ASSUME IInv, AInv, NEW v \in Versions, NEW w \in Versions, Pending(v), HasPart(w),
         w >= v \/ Pending(w)
  PROVE  w = v
<1>1. v \in Nat /\ w \in Nat
  BY DEF Versions
<1>2. route[w] # "NONE" /\ route[v] # "NONE"
  BY DEF Pending, HasPart
<1> QED
  BY <1>1, <1>2 DEF AInv, CaseWaits

LEMMA AskedStays ==
  ASSUME IInv, AInv, Advances, NEW v \in Versions, NEW w \in Versions
  PROVE  Asked(v, w)'
<1>1. \A x, y \in Versions : Asked(x, y)
  BY DEF AInv
<1>2. CASE \A x \in Versions : part'[x].missed = part[x].missed /\ part'[x].approver = part[x].approver
  BY <1>1, <1>2 DEF Asked
<1>3. ASSUME NEW x \in Versions, Offered(x) PROVE Asked(v, w)'
  <2>1. CASE v = x
    <3>1. v < w => part[w].approver = NoOne /\ w # x
      BY <1>3, <2>1 DEF Offered, AInv, CaseWaits, RoutedSoFar, Versions
    <3> QED
      BY <1>3, <2>1, <3>1 DEF Offered, Asked
  <2>2. CASE v # x /\ w = x
    BY <1>3, <2>2 DEF Offered, Asked, NeverMissed
  <2>3. CASE v # x /\ w # x
    BY <1>1, <1>3, <2>3 DEF Offered, Asked
  <2> QED
    BY <2>1, <2>2, <2>3
<1> QED
  BY <1>2, <1>3 DEF Advances

\* Another call still sees what it saw.
LEMMA SeenStays ==
  ASSUME IInv, AInv, Advances, NEW d \in Callers, call'[d] = call[d],
         status' = status \/ call[d].pc \notin Verifying
  PROVE  Seen(call[d])'
<1> DEFINE r == call[d]
<1>1. Seen(r) /\ Fits(r) /\ r \in Call
  BY Frame DEF AInv
<1>2. /\ r.pc \in Verifying => status' = "VERIFIED"
      /\ r.pc \in {"route", "save"} => NonePending'
      /\ r.pc = "settle" => \A v \in Versions : Pending(v)' => v = r.v /\ r.what \in {"2", "split"}
  BY <1>1 DEF Seen, Advances, NonePending, Verifying
<1>3. /\ r.pc \in {"claimRun", "enterRun"} =>
           r.st # "VERIFIED" /\ (r.st = "AWAITING_APPROVAL" => Lapsed(r.v)')
      /\ r.pc \in {"escalate", "reject"} => Lapsed(r.v)'
      /\ r.pc \in {"resume", "solve", "verify", "route"} => r.who = NoOne
  <2>1. Lapsed(r.v) => Lapsed(r.v)'
    BY DEF Advances, Lapsed, HasPart
  <2> QED
    BY <1>1, <2>1 DEF Seen
<1>4. r.pc = "save" => NeverMissed(r.who)'
  <2>1. CASE \A x \in Versions : part'[x].missed = part[x].missed /\ part'[x].approver = part[x].approver
    BY <1>1, <2>1 DEF Seen, NeverMissed
  <2>2. ASSUME NEW x \in Versions, Offered(x) PROVE r.pc # "save"
    BY <1>1, <2>2 DEF Seen, Offered, NonePending
  <2> QED
    BY <2>1, <2>2 DEF Advances
<1>5. ASSUME r.pc = "expire", r.rev = part'[r.v].rev PROVE NeverMissed(r.who)'
  <2>1. r.v \in Versions /\ HasPart(r.v) /\ r.rev <= part[r.v].rev
    BY <1>1, <1>5 DEF Fits, Numbered, Carries, Pinned, Pinning, Unnumbered, Of
  <2>2. part[r.v].rev \in Nat /\ r.rev \in Nat
    BY <1>1, <2>1 DEF IInv, TypeOK, Part, Call
  <2>3. part'[r.v] = part[r.v]
    BY <1>5, <2>1, <2>2 DEF Advances
  <2>4. AsRead(r) /\ NeverMissed(r.who)
    BY <1>1, <1>5, <2>3 DEF Fits, Pinned, Pinning, Of, Seen
  <2>5. Pending(r.v)
    BY <1>5, <2>1, <2>4 DEF Pending, AsRead, Of, Deciding
  <2>6. CASE \A x \in Versions : part'[x].missed = part[x].missed /\ part'[x].approver = part[x].approver
    BY <2>4, <2>6 DEF NeverMissed
  <2>7. ASSUME NEW x \in Versions, Offered(x) PROVE NeverMissed(r.who)'
    <3>1. x = r.v
      BY <2>1, <2>5, <2>7, OnePending DEF Offered, Pending
    <3>2. part'[x].missed = part[x].missed
      BY <2>3, <3>1
    <3> QED
      BY <2>4, <2>7, <3>2 DEF Offered, NeverMissed
  <2> QED
    BY <2>6, <2>7 DEF Advances
<1> QED
  BY <1>2, <1>3, <1>4, <1>5 DEF Seen, Of

\* A step of one call that advances the approvals. It takes the case out of its status only
\* where no approval is pending or the case still waits, and no other call verifies.
LEMMA Advancing ==
  ASSUME IInv, IInv', AInv, NEW c \in Callers, Advances,
         \A d \in Callers \ {c} : call'[d] = call[d],
         \/ status' = status
         \/ /\ NonePending' \/ status' \in {"VERIFIED", "AWAITING_APPROVAL"}
            /\ \A d \in Callers \ {c} : call[d].pc \notin Verifying,
         Seen(call[c])',
         \/ call'[c].pc \notin Verifying
         \/ call[c].pc \in Verifying
         \/ \A d \in Callers \ {c} : call[d].pc \notin Verifying
  PROVE  AInv'
<1>1. RoutedSoFar'
  <2> SUFFICES ASSUME NEW v \in Versions
               PROVE  IF route[v] = "NONE" THEN part'[v].approver = NoOne /\ part'[v].missed = NoOne
                      ELSE v <= version'
    BY DEF RoutedSoFar, Advances
  <2>1. IF route[v] = "NONE" THEN part[v].approver = NoOne /\ part[v].missed = NoOne
        ELSE v <= version
    BY DEF AInv, RoutedSoFar
  <2>2. v \in Nat /\ version \in Nat /\ version' \in Nat
    BY VersionsExist DEF IInv, TypeOK, Versions
  <2> QED
    BY <2>1, <2>2 DEF Advances, HasPart
<1>2. CaseWaits'
  BY DEF CaseWaits, AInv, Advances, NonePending
<1>3. OneVerifies'
  BY DEF OneVerifies, AInv
<1>4. ASSUME NEW d \in Callers PROVE Seen(call[d])'
  <2>1. CASE d = c
    BY <2>1
  <2>2. CASE d # c
    BY <2>2, SeenStays
  <2> QED
    BY <2>1, <2>2
<1>5. \A v, w \in Versions : Asked(v, w)'
  BY AskedStays
<1> QED
  BY <1>1, <1>2, <1>3, <1>4, <1>5 DEF AInv

\* Parts that stay as they are advance.
LEMMA PartsStay ==
  ASSUME IInv, UNCHANGED <<route, part>>, version <= version'
  PROVE  Advances
BY DEF Advances, Pending, Lapsed, HasPart

Watched == Verifying \cup {"claimRun", "enterRun", "escalate", "reject", "resume", "solve",
                           "verify", "expire"}

LEMMA Unwatched ==
  ASSUME NEW r, r.pc \notin Watched
  PROVE  Seen(r) /\ Seen(r)'
BY DEF Seen, Watched, Verifying

\* A case that waits for no approval has none pending and no call verifies it.
LEMMA Settled ==
  ASSUME AInv, status # "VERIFIED"
  PROVE  /\ \A c \in Callers : call[c].pc \notin Verifying
         /\ status # "AWAITING_APPROVAL" => NonePending
BY DEF AInv, Seen, CaseWaits, NonePending

\* A call goes to a point where nothing is asked of it, parts stay as they are, and the case
\* leaves no status in which an approval may be pending.
LEMMA Passing ==
  ASSUME IInv, IInv', AInv, NEW c \in Callers, UNCHANGED <<route, part>>, version <= version',
         \A d \in Callers \ {c} : call'[d] = call[d], call'[c].pc \notin Watched,
         status' = status \/ status \notin {"VERIFIED", "AWAITING_APPROVAL"}
  PROVE  AInv'
<1>1. Advances
  BY PartsStay
<1>2. Seen(call[c])' /\ call'[c].pc \notin Verifying
  BY Unwatched DEF Watched
<1>3. \/ status' = status
      \/ NonePending' /\ \A d \in Callers \ {c} : call[d].pc \notin Verifying
  BY <1>1, Settled DEF Advances, NonePending
<1> QED
  BY <1>1, <1>2, <1>3, Advancing

\* A call goes on with what it knows to a point where it must have seen something.
LEMMA Seeing ==
  ASSUME IInv, IInv', AInv, NEW c \in Callers, UNCHANGED <<route, part>>, version <= version',
         \A d \in Callers \ {c} : call'[d] = call[d], Seen(call'[c]),
         call'[c].pc \in Verifying => call[c].pc \in Verifying /\ status' = status,
         status' = status \/ status \notin {"VERIFIED", "AWAITING_APPROVAL"}
  PROVE  AInv'
<1>1. Advances
  BY PartsStay
<1>2. Seen(call[c])'
  BY DEF Seen, Lapsed, NonePending, NeverMissed, Pending, HasPart, Of
<1>3. \/ status' = status
      \/ NonePending' /\ \A d \in Callers \ {c} : call[d].pc \notin Verifying
  BY <1>1, Settled DEF Advances, NonePending
<1> QED
  BY <1>1, <1>2, <1>3, Advancing

\* What becomes of the calls when c goes to a point, ends or begins.
LEMMA OneGoes ==
  ASSUME IInv, NEW c \in Callers
  PROVE  /\ \A pc : Goto(c, pc) => /\ call'[c] = [call[c] EXCEPT !.pc = pc]
                                   /\ call'[c].pc = pc /\ call'[c].v = call[c].v
                                   /\ call'[c].who = call[c].who /\ call'[c].what = call[c].what
                                   /\ call'[c].st = call[c].st /\ call'[c].rev = call[c].rev
                                   /\ \A d \in Callers \ {c} : call'[d] = call[d]
         /\ End(c) => call'[c].pc = "idle" /\ \A d \in Callers \ {c} : call'[d] = call[d]
         /\ \A r : Begin(c, r) => call'[c] = r /\ \A d \in Callers \ {c} : call'[d] = call[d]
BY Frame DEF IInv, TypeOK, Call, Goto, End, Begin, Idle

\* What lapsed of the current version leaves nothing to wait for.
LEMMA LapsedLeavesNone ==
  ASSUME IInv, AInv, Lapsed(version)
  PROVE  NonePending
<1> SUFFICES ASSUME NEW v \in Versions, Pending(v) PROVE FALSE
  BY DEF NonePending
<1>1. version \in Versions /\ HasPart(version)
  BY DEF Lapsed, HasPart
<1>2. v <= version
  BY DEF AInv, RoutedSoFar, Pending, HasPart
<1>3. version = v
  BY <1>1, <1>2, OnePending
<1> QED
  BY <1>3 DEF Lapsed, Pending

\* The case leaves the state in which it waits, with nothing pending.
LEMMA Leaving ==
  ASSUME IInv, IInv', AInv, NEW c \in Callers, UNCHANGED <<version, route, part>>,
         \A d \in Callers \ {c} : call'[d] = call[d], call'[c].pc \notin Watched,
         NonePending, status # "VERIFIED"
  PROVE  AInv'
<1>1. Advances
  BY PartsStay DEF IInv, TypeOK
<1>2. Seen(call[c])' /\ call'[c].pc \notin Verifying
  BY Unwatched DEF Watched
<1>3. NonePending' /\ \A d \in Callers \ {c} : call[d].pc \notin Verifying
  BY <1>1, Settled DEF Advances, NonePending
<1> QED
  BY <1>1, <1>2, <1>3, Advancing

\* Who is not late and acts on a case that waits acts on the plan it waits for.
LEMMA Timely ==
  ASSUME IInv, AInv, Prompt, NEW c \in Callers, InTime(c), status = "AWAITING_APPROVAL",
         Lapsed(call[c].v)
  PROVE  NonePending
BY LapsedLeavesNone DEF InTime, Prompt

LEMMA PlansAsked ==
  ASSUME IInv, IInv', AInv, Prompt, NEW c \in Callers, Plans(c), version <= version'
  PROVE  AInv'
<1> USE DEF case, routed
<1>1. CASE ReadCase(c)
  <2>1. /\ UNCHANGED <<version, status, route, part>>
        /\ Begin(c, [Idle EXCEPT !.pc = "claimRun", !.st = status, !.v = version])
    BY <1>1 DEF ReadCase
  <2>2. call'[c].pc = "claimRun" /\ call'[c].st = status /\ call'[c].v = version
    <3>1. call'[c] = [Idle EXCEPT !.pc = "claimRun", !.st = status, !.v = version]
      BY <2>1, OneGoes
    <3> QED
      BY <3>1 DEF Idle
  <2>3. status # "VERIFIED" /\ (status = "AWAITING_APPROVAL" => Lapsed(version))
    BY <1>1 DEF ReadCase, Startable, ExpiredPending, Lapsed
  <2>4. Seen(call'[c])
    BY <2>2, <2>3 DEF Seen, Verifying
  <2> QED
    BY <2>1, <2>2, <2>4, Seeing, OneGoes DEF Verifying
<1>2. CASE ClaimRun(c)
  <2>1. call[c].pc = "claimRun" /\ Seen(call[c]) /\ UNCHANGED <<status, version, route, part>>
    BY <1>2 DEF ClaimRun, At, AInv
  <2>2. CASE End(c)
    BY <2>1, <2>2, Passing, OneGoes DEF Watched, Verifying
  <2>3. CASE Goto(c, "enterRun")
    <3>1. call'[c].pc = "enterRun" /\ call'[c].st = call[c].st /\ call'[c].v = call[c].v
      BY <2>3, OneGoes
    <3>2. Seen(call'[c])
      BY <2>1, <3>1 DEF Seen, Verifying
    <3> QED
      BY <2>1, <2>3, <3>1, <3>2, Seeing, OneGoes DEF Verifying
  <2> QED
    BY <1>2, <2>2, <2>3 DEF ClaimRun
<1>3. CASE EnterRun(c)
  <2>1. call[c].pc = "enterRun" /\ Seen(call[c]) /\ InTime(c) /\ UNCHANGED <<version, route, part>>
    BY <1>3 DEF EnterRun, At, AInv
  <2>2. CASE End(c) /\ UNCHANGED status
    BY <2>1, <2>2, Passing, OneGoes DEF Watched, Verifying
  <2>3. CASE status = call[c].st /\ Goto(c, "plan")
    <3>1. status # "VERIFIED" /\ (status = "AWAITING_APPROVAL" => Lapsed(call[c].v))
      BY <2>1, <2>3 DEF Seen
    <3>2. NonePending
      BY <2>1, <3>1, Settled, Timely
    <3>3. call'[c].pc = "plan" /\ \A d \in Callers \ {c} : call'[d] = call[d]
      BY <2>3, OneGoes
    <3>4. call'[c].pc \notin Watched
      BY <3>3 DEF Watched, Verifying
    <3> QED
      BY <2>1, <3>1, <3>2, <3>3, <3>4, Leaving
  <2> QED
    BY <1>3, <2>2, <2>3 DEF EnterRun
<1>4. CASE StorePlan(c)
  <2>1. /\ UNCHANGED <<status, route, part>> /\ call'[c].pc \in {"endRun", "bump"}
        /\ \A d \in Callers \ {c} : call'[d] = call[d]
    BY <1>4, OneGoes, Frame DEF StorePlan, IInv, TypeOK, Call
  <2> QED
    BY <2>1, Passing DEF Watched, Verifying
<1>5. CASE BumpVersion(c)
  <2>1. /\ UNCHANGED <<status, route, part>> /\ call'[c].pc = "propose"
        /\ \A d \in Callers \ {c} : call'[d] = call[d]
    BY <1>5, OneGoes DEF BumpVersion
  <2> QED
    BY <2>1, Passing DEF Watched, Verifying
<1>6. CASE ProposePlan(c)
  <2>1. /\ UNCHANGED <<route, part>> /\ call'[c].pc = "endRun"
        /\ \A d \in Callers \ {c} : call'[d] = call[d]
        /\ status' = status \/ status = "INVESTIGATING"
    BY <1>6, OneGoes DEF ProposePlan
  <2> QED
    BY <2>1, Passing DEF Watched, Verifying
<1>7. CASE EndRun(c)
  BY <1>7, Passing, OneGoes DEF EndRun, Watched, Verifying
<1> QED
  BY <1>1, <1>2, <1>3, <1>4, <1>5, <1>6, <1>7 DEF Plans

LEMMA SaveAsked ==
  ASSUME IInv, IInv', AInv, NEW c \in Callers, Save(c)
  PROVE  AInv'
<1> DEFINE v == call[c].v
           tier == call[c].what
<1>1. /\ call[c].pc = "save" /\ v \in Versions /\ UNCHANGED <<status, version>>
      /\ tier \in {"1", "2", "3", "split"}
  BY Frame DEF Save, At, Fits, Numbered, Carries, Unnumbered, case
<1>2. Seen(call[c]) /\ status = "VERIFIED" /\ NonePending /\ NeverMissed(call[c].who)
  BY <1>1 DEF AInv, Seen, Verifying
<1>3. CASE End(c) /\ UNCHANGED routed
  <2>1. call'[c].pc = "idle" /\ \A d \in Callers \ {c} : call'[d] = call[d]
    BY <1>3, OneGoes
  <2> QED
    BY <1>1, <1>3, <2>1, Passing DEF routed, Watched, Verifying, IInv, TypeOK
<1>4. CASE /\ route[v] = "NONE" /\ version = v
           /\ route' = [route EXCEPT ![v] = tier]
           /\ part' = [part EXCEPT ![v] = NewPart(call[c].who)]
           /\ Goto(c, "settle")
  <2>1. /\ call'[c].pc = "settle" /\ call'[c].v = v /\ call'[c].what = tier
        /\ \A d \in Callers \ {c} : call'[d] = call[d]
    BY <1>4, OneGoes
  <2>2. /\ route'[v] = tier /\ part'[v].approver = call[c].who /\ part'[v].missed = NoOne
        /\ \A w \in Versions \ {v} : route'[w] = route[w] /\ part'[w] = part[w]
    BY <1>1, <1>4 DEF IInv, TypeOK, NewPart
  <2> HIDE DEF v, tier
  <2>3. \A w \in Versions : Pending(w)' => w = v /\ tier \in {"2", "split"}
    BY <1>2, <2>2 DEF Pending, HasPart, NonePending
  <2>4. \A w \in Versions : HasPart(w) => w # v /\ HasPart(w)' /\ part'[w] = part[w]
    BY <1>4, <2>2 DEF HasPart
  <2>5. \A w \in Versions : w \in Nat /\ (v < w => route[w] = "NONE")
    <3> SUFFICES ASSUME NEW w \in Versions, route[w] # "NONE", v < w PROVE FALSE
      BY DEF Versions
    <3> QED
      BY <1>1, <1>4 DEF AInv, RoutedSoFar, Versions
  <2>6. RoutedSoFar'
    BY <1>1, <1>4, <2>2 DEF AInv, RoutedSoFar, Versions
  <2>7. CaseWaits'
    <3> SUFFICES ASSUME NEW w \in Versions, NEW x \in Versions, Pending(w)', w < x
                 PROVE  route'[x] = "NONE"
      BY <1>1, <1>2 DEF CaseWaits
    <3> QED
      BY <2>2, <2>3, <2>5
  <2>8. OneVerifies'
    BY <1>1, <2>1 DEF AInv, OneVerifies, Verifying
  <2>9. ASSUME NEW d \in Callers PROVE Seen(call[d])'
    <3>1. CASE d = c
      BY <1>1, <1>2, <2>1, <2>3, <3>1 DEF Seen, Verifying
    <3>2. CASE d # c
      <4>1. call'[d] = call[d] /\ Seen(call[d]) /\ call[d].pc \notin Verifying /\ Fits(call[d])
        BY <1>1, <2>1, <3>2, Frame DEF AInv, OneVerifies, Verifying
      <4>2. Lapsed(call[d].v) => Lapsed(call[d].v)'
        <5>1. HasPart(call[d].v) => call[d].v \in Versions
          BY DEF HasPart
        <5> QED
          BY <2>4, <4>1, <5>1 DEF Lapsed
      <4>3. call[d].pc = "expire" => call[d].rev # part'[call[d].v].rev
        <5> SUFFICES ASSUME call[d].pc = "expire", call[d].rev = part'[call[d].v].rev PROVE FALSE
          OBVIOUS
        <5>1. /\ call[d].v \in Versions /\ HasPart(call[d].v)
              /\ call[d].rev = part[call[d].v].rev => AsRead(call[d])
          BY <4>1 DEF Fits, Numbered, Carries, Pinned, Pinning, Unnumbered, Of
        <5>2. AsRead(call[d])
          BY <2>4, <5>1
        <5> QED
          BY <1>2, <5>1, <5>2 DEF AsRead, NonePending, Pending, Deciding, Of
      <4> QED
        BY <4>1, <4>2, <4>3 DEF Seen, Verifying, Of
    <3> QED
      BY <3>1, <3>2
  <2>10. ASSUME NEW x \in Versions, NEW y \in Versions PROVE Asked(x, y)'
    <3>1. Asked(x, y)
      BY DEF AInv
    <3>2. CASE x = v
      BY <2>2, <3>2 DEF Asked
    <3>3. CASE x # v /\ y = v
      BY <1>2, <2>2, <3>3 DEF Asked, NeverMissed
    <3>4. CASE x # v /\ y # v
      BY <2>2, <3>1, <3>4 DEF Asked
    <3> QED
      BY <3>2, <3>3, <3>4
  <2> QED
    BY <2>6, <2>7, <2>8, <2>9, <2>10 DEF AInv
<1>5. CASE Goto(c, "settle") /\ UNCHANGED routed
  <2>1. call'[c].pc = "settle" /\ \A d \in Callers \ {c} : call'[d] = call[d]
    BY <1>5, OneGoes
  <2>2. Seen(call'[c])
    BY <1>1, <1>2, <2>1 DEF Seen, NonePending, Verifying
  <2> QED
    BY <1>1, <1>5, <2>1, <2>2, Seeing DEF routed, Verifying, IInv, TypeOK
<1> QED
  BY <1>3, <1>4, <1>5 DEF Save

LEMMA VerifiesAsked ==
  ASSUME IInv, IInv', AInv, NEW c \in Callers, Verifies(c), version <= version'
  PROVE  AInv'
<1> DEFINE Others2 == \A d \in Callers \ {c} : call'[d] = call[d]
<1> USE DEF case, routed
<1>1. CASE \E v \in Versions : Handle(c, v)
  <2>1. PICK v \in Versions, pc \in {"solve", "resume"} :
          /\ Begin(c, [Idle EXCEPT !.pc = pc, !.v = v])
          /\ UNCHANGED <<version, status, route, part>>
    BY <1>1 DEF Handle
  <2>2. call'[c] = [Idle EXCEPT !.pc = pc, !.v = v] /\ Others2
    BY <2>1, OneGoes
  <2>3. call'[c].pc \in {"solve", "resume"} /\ call'[c].who = NoOne
    BY <2>2 DEF Idle
  <2>4. Seen(call'[c])
    BY <2>3 DEF Seen, Verifying
  <2> QED
    BY <2>1, <2>2, <2>3, <2>4, Seeing DEF Verifying
<1>2. CASE ResumeReallocated(c)
  <2>1. /\ call[c].pc = "resume" /\ Seen(call[c]) /\ UNCHANGED <<version, route, part>>
        /\ status' = status \/ status = "INVESTIGATING"
        /\ Goto(c, "solve") \/ End(c)
    BY <1>2 DEF ResumeReallocated, At, AInv
  <2>2. CASE End(c)
    BY <2>1, <2>2, Passing, OneGoes DEF Watched, Verifying
  <2>3. CASE Goto(c, "solve")
    <3>1. call'[c].pc = "solve" /\ call'[c].who = call[c].who /\ Others2
      BY <2>3, OneGoes
    <3>2. Seen(call'[c])
      BY <2>1, <3>1 DEF Seen, Verifying
    <3> QED
      BY <2>1, <3>1, <3>2, Seeing DEF Verifying
  <2> QED
    BY <2>1, <2>2, <2>3
<1>3. CASE Solve(c)
  <2>1. /\ call[c].pc = "solve" /\ Seen(call[c]) /\ UNCHANGED <<status, version, route, part>>
        /\ Goto(c, "verify") \/ Goto(c, "storeResized")
    BY <1>3 DEF Solve, At, AInv
  <2>2. PICK pc \in {"verify", "storeResized"} :
          call'[c].pc = pc /\ call'[c].who = call[c].who /\ Others2
    BY <2>1, OneGoes
  <2>3. Seen(call'[c])
    BY <2>1, <2>2 DEF Seen, Verifying
  <2> QED
    BY <2>1, <2>2, <2>3, Seeing DEF Verifying
<1>4. CASE StoreResized(c) \/ BumpResized(c) \/ EmitResized(c) \/ SetTimer(c)
  <2>1. /\ UNCHANGED <<status, route, part>>
        /\ \/ End(c)
           \/ \E pc \in {"bumpResized", "emitResized", "deadlineTimer"} : Goto(c, pc)
    BY <1>4 DEF StoreResized, BumpResized, EmitResized, SetTimer
  <2>2. call'[c].pc \in {"idle", "bumpResized", "emitResized", "deadlineTimer"} /\ Others2
    BY <2>1, OneGoes
  <2> QED
    BY <2>1, <2>2, Passing DEF Watched, Verifying
<1>5. CASE MarkVerified(c)
  <2>1. call[c].pc = "verify" /\ Seen(call[c]) /\ UNCHANGED <<version, route, part>>
    BY <1>5 DEF MarkVerified, At, AInv
  <2>2. CASE End(c) /\ UNCHANGED status
    BY <2>1, <2>2, Passing, OneGoes DEF Watched, Verifying
  <2>3. CASE status = "PLAN_PROPOSED" /\ status' = "VERIFIED" /\ Goto(c, "route")
    <3>1. call'[c].pc = "route" /\ call'[c].who = call[c].who /\ Others2
      BY <2>3, OneGoes
    <3>2. NonePending /\ \A d \in Callers : call[d].pc \notin Verifying
      BY <2>3, Settled
    <3>3. Advances
      BY <2>1, PartsStay DEF IInv, TypeOK
    <3>4. NonePending'
      BY <3>2, <3>3 DEF Advances, NonePending
    <3>5. Seen(call[c])'
      BY <2>1, <2>3, <3>1, <3>4 DEF Seen, Verifying
    <3> QED
      BY <2>3, <3>1, <3>2, <3>3, <3>5, Advancing
  <2> QED
    BY <1>5, <2>2, <2>3 DEF MarkVerified
<1>6. CASE Route(c)
  <2>1. /\ call[c].pc = "route" /\ Seen(call[c]) /\ UNCHANGED <<status, version, route, part>>
        /\ call \in [Callers -> Call]
    BY <1>6 DEF Route, At, AInv, IInv, TypeOK
  <2>2. call'[c].pc = "save" /\ NeverMissed(call'[c].who) /\ Others2
    <3>1. CASE \E tier \in {"1", "3"} : call' = [call EXCEPT ![c].pc = "save", ![c].what = tier]
      <4>1. call'[c].pc = "save" /\ call'[c].who = call[c].who /\ Others2
        BY <2>1, <3>1 DEF Call
      <4> QED
        BY <2>1, <4>1 DEF Seen, NeverMissed
    <3>2. ASSUME NEW tier \in {"2", "split"}, NEW a \in Approvers, First(Backups, a),
                 call' = [call EXCEPT ![c].pc = "save", ![c].what = tier, ![c].who = a]
          PROVE  call'[c].pc = "save" /\ NeverMissed(call'[c].who) /\ Others2
      <4>1. call'[c].pc = "save" /\ call'[c].who = a /\ Others2
        BY <2>1, <3>2 DEF Call
      <4> QED
        BY <3>2, <4>1 DEF First, Backups, NeverMissed
    <3> QED
      BY <1>6, <3>1, <3>2 DEF Route
  <2>3. Seen(call'[c])
    BY <2>1, <2>2 DEF Seen, Verifying
  <2> QED
    BY <2>1, <2>2, <2>3, Seeing DEF Verifying
<1>7. CASE Settle(c)
  <2>1. /\ call[c].pc = "settle" /\ Seen(call[c]) /\ UNCHANGED <<version, route, part>>
        /\ Goto(c, "reminderTimer") \/ End(c)
        /\ status = "VERIFIED" /\ status' = NextStatus(call[c].what)
    BY <1>7 DEF Settle, At, AInv, Seen, Verifying
  <2>2. call'[c].pc \in {"reminderTimer", "idle"} /\ Others2
    BY <2>1, OneGoes
  <2>3. Advances
    BY <2>1, PartsStay DEF IInv, TypeOK
  <2>4. NonePending' \/ status' = "AWAITING_APPROVAL"
    BY <2>1, <2>3 DEF Seen, NextStatus, Advances, NonePending
  <2>5. \A d \in Callers \ {c} : call[d].pc \notin Verifying
    BY <2>1 DEF AInv, OneVerifies, Verifying
  <2>6. Seen(call[c])' /\ call'[c].pc \notin Verifying
    BY <2>2, Unwatched DEF Watched, Verifying
  <2> QED
    BY <2>2, <2>3, <2>4, <2>5, <2>6, Advancing
<1>8. CASE Save(c)
  BY <1>8, SaveAsked
<1> QED
  BY <1>1, <1>2, <1>3, <1>4, <1>5, <1>6, <1>7, <1>8 DEF Verifies

\* What a step makes of one part, the case's versions and routes staying as they are.
LEMMA OnePartMoves ==
  ASSUME IInv, AInv, UNCHANGED route, version <= version', NEW v \in Versions, HasPart(v),
         \A w \in Versions \ {v} : part'[w] = part[w],
         part'[v].rev > part[v].rev,
         Pending(v)' => Pending(v), Lapsed(v) => Lapsed(v)',
         \/ part'[v].missed = part[v].missed /\ part'[v].approver = part[v].approver
         \/ Offered(v)
  PROVE  Advances
<1>1. ASSUME NEW w \in Versions
      PROVE  /\ Pending(w)' => Pending(w)
             /\ Lapsed(w) => Lapsed(w)'
             /\ part'[w] = part[w] \/ (HasPart(w) /\ part'[w].rev > part[w].rev)
  BY DEF Pending, Lapsed, HasPart
<1>2. \/ \A w \in Versions : part'[w].missed = part[w].missed /\ part'[w].approver = part[w].approver
      \/ \E w \in Versions : Offered(w)
  OBVIOUS
<1> QED
  BY <1>1, <1>2 DEF Advances

LEMMA DecidesAsked ==
  ASSUME IInv, IInv', AInv, Prompt, NEW c \in Callers, Decides(c)
  PROVE  AInv'
<1> DEFINE Others2 == \A d \in Callers \ {c} : call'[d] = call[d]
<1> USE DEF case, routed
<1>0. version \in Nat
  BY DEF IInv, TypeOK
<1>1. CASE \E v \in Versions, a \in Approvers, d \in {"APPROVED", "REJECTED"} : Approve(c, v, a, d)
  <2>1. UNCHANGED <<status, version, route, part>> /\ call'[c].pc = "readRoute" /\ Others2
    BY <1>1, Frame DEF Approve, Begin, Idle, IInv, TypeOK
  <2> QED
    BY <1>0, <2>1, Passing DEF Watched, Verifying
<1>2. CASE ReadRoute(c) \/ ReadPart(c) \/ CheckLimit(c)
  <2>1. UNCHANGED <<status, version, route, part>>
    BY <1>2 DEF ReadRoute, ReadPart, CheckLimit
  <2>2. call'[c].pc \in {"idle", "readPart", "tick", "checkLimit", "decide"} /\ Others2
    BY <1>2, OneGoes, Frame DEF ReadRoute, ReadPart, CheckLimit, IInv, TypeOK, Call
  <2> QED
    BY <1>0, <2>1, <2>2, Passing DEF Watched, Verifying
<1>3. CASE Decide(c)
  <2> DEFINE d == call[c].what
  <2>0. PICK v \in Versions : v = call[c].v
    BY <1>3, StillAsRead DEF Decide, At, Pinning, Deciding
  <2>1. /\ call[c].pc = "decide" /\ HasPart(v) /\ d # "NONE"
        /\ part \in [Versions -> Part] /\ UNCHANGED <<status, version, route>>
    BY <1>3, <2>0, Frame, StillAsRead
       DEF Decide, At, Fits, Carries, Pinning, Deciding, IInv, TypeOK
  <2>2. CASE End(c) /\ UNCHANGED part
    <3>1. call'[c].pc = "idle" /\ Others2
      BY <2>2, OneGoes
    <3> QED
      BY <1>0, <2>1, <2>2, <3>1, Passing DEF Watched, Verifying
  <2>3. CASE /\ part' = [part EXCEPT ![v].decision = d, ![v].rev = @ + 1]
             /\ Goto(c, "reject") \/ End(c)
    <3>1. call'[c].pc \in {"reject", "idle"} /\ Others2 /\ (call'[c].pc = "reject" => call'[c].v = v)
      BY <2>0, <2>3, OneGoes
    <3> HIDE DEF d
    <3>2. /\ part'[v].decision = d /\ part'[v].rev > part[v].rev
          /\ part'[v].missed = part[v].missed /\ part'[v].approver = part[v].approver
          /\ \A w \in Versions \ {v} : part'[w] = part[w]
      BY <2>1, <2>3 DEF Part
    <3>3. Lapsed(v)' /\ ~Pending(v)'
      BY <2>1, <3>2 DEF Lapsed, Pending, HasPart
    <3>4. Advances
      BY <1>0, <2>1, <3>2, <3>3, OnePartMoves
    <3>5. Seen(call[c])' /\ call'[c].pc \notin Verifying
      BY <3>1, <3>3 DEF Seen, Verifying
    <3> QED
      BY <2>1, <3>1, <3>4, <3>5, Advancing
  <2> QED
    BY <1>3, <2>0, <2>2, <2>3 DEF Decide
<1>4. CASE RejectCase(c)
  <2>1. /\ call[c].pc = "reject" /\ Lapsed(call[c].v) /\ InTime(c)
        /\ UNCHANGED <<version, route, part>>
        /\ status' = status \/ status = "AWAITING_APPROVAL"
    BY <1>4 DEF RejectCase, At, AInv, Seen
  <2>2. call'[c].pc \notin Watched /\ Others2
    BY <1>4, OneGoes DEF RejectCase, Watched, Verifying
  <2>3. CASE status' = status
    BY <1>0, <2>1, <2>2, <2>3, Passing
  <2>4. CASE status = "AWAITING_APPROVAL"
    BY <2>1, <2>2, <2>4, Timely, Leaving
  <2> QED
    BY <2>1, <2>3, <2>4
<1> QED
  BY <1>1, <1>2, <1>3, <1>4 DEF Decides

LEMMA ExpireAsked ==
  ASSUME IInv, IInv', AInv, NEW c \in Callers, Expire(c)
  PROVE  AInv'
<1> DEFINE who == call[c].who
           Others2 == \A d \in Callers \ {c} : call'[d] = call[d]
<1>0. PICK v \in Versions : v = call[c].v
  BY StillAsRead DEF Expire, At, Pinning
<1>1. /\ call[c].pc = "expire" /\ HasPart(v) /\ Seen(call[c])
      /\ part \in [Versions -> Part] /\ UNCHANGED <<status, version, route>> /\ version \in Nat
  BY <1>0, StillAsRead DEF Expire, At, Pinning, case, AInv, IInv, TypeOK
<1>2. CASE End(c) /\ UNCHANGED part
  <2>1. call'[c].pc = "idle" /\ Others2
    BY <1>2, OneGoes
  <2> QED
    BY <1>1, <1>2, <2>1, Passing DEF Watched, Verifying
<1>3. CASE /\ part[v].rev = call[c].rev
           /\ part' = [part EXCEPT ![v].expired = TRUE, ![v].missed = part[v].approver,
                                   ![v].approver = call[c].who, ![v].rev = @ + 1]
           /\ Goto(c, "escalate") \/ End(c)
  <2>1. NeverMissed(who) /\ Pending(v)
    <3>1. AsRead(call[c])
      BY <1>0, <1>1, <1>3, StillAsRead DEF Pinning, Of
    <3> QED
      BY <1>0, <1>1, <1>3, <3>1 DEF Seen, Of, AsRead, Deciding, Pending
  <2>2. call'[c].pc \in {"escalate", "idle"} /\ Others2 /\ (call'[c].pc = "escalate" => call'[c].v = v)
    BY <1>0, <1>3, OneGoes
  <2> HIDE DEF who
  <2>3. /\ part'[v].expired /\ part'[v].rev > part[v].rev
        /\ \A w \in Versions \ {v} : part'[w] = part[w]
    BY <1>1, <1>3 DEF Part
  <2>4. part'[v].missed = part[v].approver /\ part'[v].approver = who
    BY <1>1, <1>3 DEF Part, who
  <2>5. Lapsed(v)' /\ ~Pending(v)'
    BY <1>1, <2>3 DEF Lapsed, Pending, HasPart
  <2>6. Offered(v)
    BY <2>1, <2>3, <2>4 DEF Offered, NeverMissed
  <2>7. Advances
    BY <1>1, <2>3, <2>5, <2>6, OnePartMoves
  <2>8. Seen(call[c])' /\ call'[c].pc \notin Verifying
    BY <2>2, <2>5 DEF Seen, Verifying
  <2> QED
    BY <1>1, <2>2, <2>7, <2>8, Advancing
<1> QED
  BY <1>0, <1>2, <1>3 DEF Expire

LEMMA RemindAsked ==
  ASSUME IInv, IInv', AInv, NEW c \in Callers, Remind(c)
  PROVE  AInv'
<1> DEFINE Others2 == \A d \in Callers \ {c} : call'[d] = call[d]
<1>0. PICK v \in Versions : v = call[c].v
  BY StillAsRead DEF Remind, At, Pinning
<1>1. /\ call[c].pc = "remind" /\ HasPart(v) /\ version \in Nat
      /\ part \in [Versions -> Part] /\ UNCHANGED <<status, version, route>>
      /\ call'[c].pc = "idle" /\ Others2
  BY <1>0, StillAsRead, OneGoes DEF Remind, At, Pinning, case, IInv, TypeOK
<1>2. CASE UNCHANGED part
  BY <1>1, <1>2, Passing DEF Watched, Verifying
<1>3. CASE part' = [part EXCEPT ![v].reminded = TRUE, ![v].rev = @ + 1]
  <2>1. /\ part'[v].rev > part[v].rev
        /\ part'[v].missed = part[v].missed /\ part'[v].approver = part[v].approver
        /\ \A w \in Versions \ {v} : part'[w] = part[w]
    BY <1>1, <1>3 DEF Part
  <2>2. /\ part'[v].decision = part[v].decision /\ part'[v].expired = part[v].expired
        /\ part'[v].superseded = part[v].superseded
    BY <1>1, <1>3 DEF Part
  <2>3. Pending(v)' = Pending(v) /\ Lapsed(v)' = Lapsed(v)
    BY <1>1, <2>2 DEF Lapsed, Pending, HasPart
  <2>4. Advances
    BY <1>1, <2>1, <2>3, OnePartMoves
  <2>5. Seen(call[c])' /\ call'[c].pc \notin Verifying
    BY <1>1 DEF Seen, Verifying
  <2> QED
    BY <1>1, <2>4, <2>5, Advancing
<1> QED
  BY <1>0, <1>2, <1>3 DEF Remind

LEMMA ExpiresAsked ==
  ASSUME IInv, IInv', AInv, Prompt, NEW c \in Callers, Expires(c)
  PROVE  AInv'
<1> DEFINE Others2 == \A d \in Callers \ {c} : call'[d] = call[d]
<1> USE DEF case, routed
<1>0. version \in Nat /\ call \in [Callers -> Call]
  BY DEF IInv, TypeOK
<1>1. CASE \E v \in Versions : Timer(c, v)
  <2>1. UNCHANGED <<status, version, route, part>> /\ call'[c].pc = "tick" /\ Others2
    BY <1>0, <1>1 DEF Timer, Begin, Idle
  <2> QED
    BY <1>0, <2>1, Passing DEF Watched, Verifying
<1>2. CASE Tick(c)
  <2>1. call[c].pc = "tick" /\ HasPart(call[c].v) /\ UNCHANGED <<status, version, route, part>>
    BY <1>2, Frame DEF Tick, At, Fits, Carries
  <2>2. /\ call'[c].pc \in {"idle", "escalate", "findBackup", "remind"} /\ Others2
        /\ call'[c].pc = "escalate" => call'[c].v = call[c].v /\ part[call[c].v].expired
    BY <1>0, <1>2 DEF Tick, End, Idle, Call
  <2>3. Seen(call'[c])
    BY <2>1, <2>2 DEF Seen, Lapsed, Verifying
  <2> QED
    BY <1>0, <2>1, <2>2, <2>3, Seeing DEF Verifying
<1>3. CASE FindBackup(c)
  <2>1. UNCHANGED <<status, version, route, part>>
    BY <1>3 DEF FindBackup
  <2>2. call'[c].pc = "expire" /\ Others2 /\ NeverMissed(call'[c].who)
    <3>1. ASSUME NEW a \in Approvers, First(Backups \ {call[c].who}, a),
                 call' = [call EXCEPT ![c].pc = "expire", ![c].who = a]
          PROVE  call'[c].pc = "expire" /\ Others2 /\ NeverMissed(call'[c].who)
      <4>1. call'[c].pc = "expire" /\ call'[c].who = a /\ Others2
        BY <1>0, <3>1 DEF Call
      <4> QED
        BY <3>1, <4>1 DEF First, Backups, NeverMissed
    <3>2. CASE call' = [call EXCEPT ![c].pc = "expire", ![c].who = NoOne]
      <4>1. call'[c].pc = "expire" /\ call'[c].who = NoOne /\ Others2
        BY <1>0, <3>2 DEF Call
      <4> QED
        BY <4>1 DEF NeverMissed
    <3> QED
      BY <1>3, <3>1, <3>2 DEF FindBackup
  <2>3. Seen(call'[c])
    BY <2>2 DEF Seen, Verifying
  <2> QED
    BY <1>0, <2>1, <2>2, <2>3, Seeing DEF Verifying
<1>4. CASE Expire(c)
  BY <1>4, ExpireAsked
<1>5. CASE Remind(c)
  BY <1>5, RemindAsked
<1>6. CASE Escalate(c)
  <2>1. /\ call[c].pc = "escalate" /\ Lapsed(call[c].v) /\ InTime(c)
        /\ UNCHANGED <<version, route, part>>
        /\ status' = status \/ status = "AWAITING_APPROVAL"
    BY <1>6 DEF Escalate, At, AInv, Seen
  <2>2. call'[c].pc \notin Watched /\ Others2
    BY <1>6, OneGoes DEF Escalate, Watched, Verifying
  <2>3. CASE status' = status
    BY <1>0, <2>1, <2>2, <2>3, Passing
  <2>4. CASE status = "AWAITING_APPROVAL"
    BY <2>1, <2>2, <2>4, Timely, Leaving
  <2> QED
    BY <2>1, <2>3, <2>4
<1> QED
  BY <1>1, <1>2, <1>3, <1>4, <1>5, <1>6 DEF Expires

LEMMA ReallocatesAsked ==
  ASSUME IInv, IInv', AInv, NEW c \in Callers, Reallocates(c), version <= version'
  PROVE  AInv'
<1> DEFINE Others2 == \A d \in Callers \ {c} : call'[d] = call[d]
<1> USE DEF case, routed
<1>0. call \in [Callers -> Call] /\ part \in [Versions -> Part]
  BY DEF IInv, TypeOK
<1>1. CASE SeeMember(c) \/ ReadParts(c)
  <2>1. /\ UNCHANGED <<status, version, route, part>> /\ Others2
        /\ call'[c].pc \in {"readParts", "reallocate", "idle"}
    <3>1. CASE SeeMember(c)
      BY <1>0, <3>1 DEF SeeMember, Begin, Idle
    <3>2. CASE ReadParts(c)
      BY <1>0, <3>2 DEF ReadParts, End, Idle, Call
    <3> QED
      BY <1>1, <3>1, <3>2
  <2> QED
    BY <2>1, Passing DEF Watched, Verifying
<1>2. CASE Reallocate(c) \/ Starve(c)
  <2>0. PICK v \in Versions : v = call[c].v
    BY <1>2, StillAsRead DEF Reallocate, Starve, At, Pinning
  <2>1. /\ call[c].pc = "reallocate" /\ HasPart(v) /\ UNCHANGED route
        /\ call'[c].pc = "idle" /\ Others2
    BY <1>2, <2>0, StillAsRead, OneGoes DEF Reallocate, Starve, At, Pinning
  <2>2. CASE UNCHANGED <<status, part>>
    BY <2>1, <2>2, Passing DEF Watched, Verifying
  <2>3. CASE Unchanged(c) /\ Supersede(v)
    <3>1. Pending(v) /\ status = "AWAITING_APPROVAL"
      BY <2>0, <2>1, <2>3, StillAsRead DEF Unchanged, AsRead, Pinning, Deciding, Of, Pending
    <3>2. /\ part'[v].rev > part[v].rev /\ part'[v].superseded
          /\ part'[v].missed = part[v].missed /\ part'[v].approver = part[v].approver
          /\ \A w \in Versions \ {v} : part'[w] = part[w]
      BY <1>0, <2>3 DEF Supersede, Part
    <3>3. ~Pending(v)' /\ ~Lapsed(v)
      BY <3>1, <3>2 DEF Pending, Lapsed
    <3>4. Advances
      BY <2>1, <3>2, <3>3, OnePartMoves
    <3>5. NonePending'
      <4> SUFFICES ASSUME NEW w \in Versions, Pending(w)' PROVE FALSE
        BY DEF NonePending
      <4>1. Pending(w) /\ HasPart(w)
        BY <3>4 DEF Advances, Pending
      <4>2. w = v
        BY <2>1, <3>1, <4>1, OnePending
      <4> QED
        BY <3>3, <4>2
    <3>6. \A d \in Callers : call[d].pc \notin Verifying
      BY <3>1, Settled
    <3>7. Seen(call[c])' /\ call'[c].pc \notin Verifying
      BY <2>1, Unwatched DEF Watched, Verifying
    <3> QED
      BY <2>1, <3>4, <3>5, <3>6, <3>7, Advancing
  <2> QED
    BY <1>2, <2>0, <2>2, <2>3 DEF Reallocate, Starve
<1> QED
  BY <1>1, <1>2 DEF Reallocates

\* A step of no call leaves what the approvals are.
LEMMA ElseAsked ==
  ASSUME AInv, UNCHANGED <<status, version, route, part, call>>
  PROVE  AInv'
<1>1. RoutedSoFar' /\ CaseWaits' /\ OneVerifies'
  BY DEF AInv, RoutedSoFar, CaseWaits, OneVerifies, Pending, HasPart
<1>2. \A c \in Callers : Seen(call[c])'
  BY DEF AInv, Seen, Lapsed, NonePending, NeverMissed, Pending, HasPart, Of
<1>3. \A v, w \in Versions : Asked(v, w)'
  BY DEF AInv, Asked
<1> QED
  BY <1>1, <1>2, <1>3 DEF AInv

LEMMA NextAsked ==
  ASSUME IInv, IInv', AInv, Prompt, Next
  PROVE  AInv'
<1>0. version <= version' /\ version \in Nat
  BY VersionGrows DEF IInv, TypeOK
<1>1. ASSUME NEW c \in Callers, Act(c) PROVE AInv'
  BY <1>0, <1>1, PlansAsked, VerifiesAsked, DecidesAsked, ExpiresAsked, ReallocatesAsked
     DEF Act, Prompt
<1>2. ASSUME NEW c \in Callers, Stop(c) PROVE AInv'
  <2>1. /\ UNCHANGED <<status, version, route, part>> /\ call'[c].pc = "idle"
        /\ \A d \in Callers \ {c} : call'[d] = call[d]
    BY <1>2, OneGoes DEF Stop, case, routed
  <2> QED
    BY <1>0, <2>1, Passing DEF Watched, Verifying
<1>3. ASSUME NEW v \in Versions, TimePasses(v) PROVE AInv'
  BY <1>3, ElseAsked DEF TimePasses, case, routed
<1>4. ASSUME NEW a \in Approvers, EditLimit(a) PROVE AInv'
  BY <1>4, ElseAsked DEF EditLimit, case, routed
<1>5. CASE SwitchKill
  BY <1>5, ElseAsked DEF SwitchKill, case, routed
<1> QED
  BY <1>1, <1>2, <1>3, <1>4, <1>5 DEF Next

LEMMA BoundStays ==
  ASSUME Next
  PROVE  bound' = bound
<1> USE DEF admin
<1>1. ASSUME NEW c \in Callers, Plans(c) PROVE bound' = bound
  BY <1>1 DEF Plans, ReadCase, ClaimRun, EnterRun, StorePlan, BumpVersion, ProposePlan, EndRun
<1>2. ASSUME NEW c \in Callers, Verifies(c) PROVE bound' = bound
  BY <1>2 DEF Verifies, Handle, ResumeReallocated, Solve, StoreResized, BumpResized, EmitResized,
              MarkVerified, Route, Save, Settle, SetTimer
<1>3. ASSUME NEW c \in Callers, Decides(c) PROVE bound' = bound
  BY <1>3 DEF Decides, Approve, ReadRoute, ReadPart, CheckLimit, Decide, RejectCase
<1>4. ASSUME NEW c \in Callers, Expires(c) PROVE bound' = bound
  BY <1>4 DEF Expires, Timer, Tick, FindBackup, Expire, Remind, Escalate
<1>5. ASSUME NEW c \in Callers, Reallocates(c) PROVE bound' = bound
  BY <1>5 DEF Reallocates, SeeMember, ReadParts, Reallocate, Starve
<1>6. ASSUME NEW c \in Callers, Executes(c) PROVE bound' = bound
  BY <1>6 DEF Executes, Start, Authorize, EnterExecution, MoveIn, Finish
<1>7. ASSUME NEW c \in Callers, Act(c) PROVE bound' = bound
  BY <1>1, <1>2, <1>3, <1>4, <1>5, <1>6, <1>7 DEF Act
<1>8. ASSUME NEW c \in Callers, Stop(c) PROVE bound' = bound
  BY <1>8 DEF Stop
<1>9. CASE (\E v \in Versions : TimePasses(v)) \/ (\E a \in Approvers : EditLimit(a)) \/ SwitchKill
  BY <1>9 DEF TimePasses, EditLimit, SwitchKill
<1> QED
  BY <1>7, <1>8, <1>9 DEF Next

\* BR-23: with no execution and no late invocation, whoever let an approval of the case expire
\* is asked for no later version, whatever stops, is decided, expires or is sized meanwhile.
THEOREM NobodyIsAskedAgain == Spec => []NeverAskedAgain
<1>1. Init => (Prompt => AInv)
  <2> SUFFICES ASSUME Init PROVE AInv
    OBVIOUS
  <2>1. \A v \in Versions : /\ route[v] = "NONE" /\ ~Pending(v)
                            /\ part[v].approver = NoOne /\ part[v].missed = NoOne
    BY DEF Init, NewPart, Pending, HasPart
  <2>2. \A c \in Callers : call[c].pc = "idle"
    BY DEF Init, Idle
  <2>3. RoutedSoFar /\ CaseWaits /\ OneVerifies
    BY <2>1, <2>2 DEF RoutedSoFar, CaseWaits, OneVerifies, Verifying
  <2>4. \A c \in Callers : Seen(call[c])
    BY <2>2, Unwatched DEF Watched, Verifying
  <2>5. \A v, w \in Versions : Asked(v, w)
    BY <2>1 DEF Asked
  <2> QED
    BY <2>3, <2>4, <2>5 DEF AInv
<1>2. IInv /\ IInv' /\ (Prompt => AInv) /\ [Next]_vars => (Prompt => AInv)'
  <2> SUFFICES ASSUME IInv, IInv', Prompt => AInv, [Next]_vars, Prompt' PROVE AInv'
    OBVIOUS
  <2>1. CASE UNCHANGED vars
    BY <2>1, ElseAsked DEF vars, Prompt
  <2>2. CASE Next
    BY <2>2, BoundStays, NextAsked DEF Prompt
  <2> QED
    BY <2>1, <2>2
<1>3. (Prompt => AInv) => NeverAskedAgain
  BY DEF Prompt, AInv, Asked, NeverAskedAgain
<1> QED
  BY <1>1, <1>2, <1>3, Invariance, PTL DEF Spec
=============================================================================
