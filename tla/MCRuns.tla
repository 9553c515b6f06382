------------------------------- MODULE MCRuns -------------------------------
(* Runs for model checking: the constants' values are in the .cfg files. *)
EXTENDS Runs, TLC

MCWorld(f, a, n) == [fault |-> f, asked |-> a, acts |-> n, status |-> "TRIAGED"]

\* The planner starts a second run; questions are answered; one fault each.
MCWorlds ==
  {MCWorld("none", {NoField}, 1), MCWorld("none", Fields, 0)}
    \cup {MCWorld(f, {}, 1) : f \in {"stop", "lost", "again", "lag", "busy"}}
MCSymmetry == Permutations(Starters) \cup Permutations(Loops) \cup Permutations(Fields)
=============================================================================
