----------------------------- MODULE MCApproval -----------------------------
(* Small instances of Approval: one case, one or two plan versions and         *)
(* approvers, two invocations at a time.                                       *)
EXTENDS Approval, TLC

CONSTANTS c1, c2

Calm(roles, versions) ==
  [roles |-> roles, versions |-> versions, crashes |-> FALSE, adminsAct |-> FALSE,
   canStarve |-> FALSE, late |-> TRUE]

Decisions == {"plan", "verify", "decide", "reject"}

\* Two plan versions under the clock, with late invocations and without, and two where
\* the first may be rejected; one with everything under the clock; one while invocations
\* stop; one while administrators act; one whose case a portfolio solve may leave nothing
\* to run.
MCBounds ==
  {[Calm({"plan", "verify", "decide", "expire", "reallocate"}, 2) EXCEPT !.late = l] :
     l \in BOOLEAN}
    \cup
  {Calm(Decisions \cup {"reallocate"}, 2),
    Calm(Decisions \cup {"expire", "reallocate"}, 1),
    [Calm(Decisions \cup {"execute"}, 1) EXCEPT !.crashes = TRUE],
    [Calm(Decisions \cup {"execute"}, 1) EXCEPT !.adminsAct = TRUE],
    [Calm(Decisions \cup {"reallocate"}, 1) EXCEPT !.canStarve = TRUE]}

\* Nobody decides.
MCUndecided == {Calm({"plan", "verify", "expire", "execute"}, 1)}

\* A plan may turn out stale when it is executed.
MCExecuted == {Calm({"plan", "verify", "execute"}, 1)}

\* Invocations are interchangeable; not used where a run checks liveness.
MCSymmetry == Permutations(Callers)
=============================================================================
