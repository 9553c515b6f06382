----------------------------- MODULE MCDialogue -----------------------------
(* Dialogue for model checking: the constants' values are in the .cfg file. *)
EXTENDS Dialogue

CONSTANTS w1, w2

\* A run asks, the planner starts another meanwhile; an invocation stops, or an
\* event comes twice to two of them.
MCWorld(f, n, h) == [fault |-> f, asked |-> {}, acts |-> n, hands |-> h]
MCWorlds == {MCWorld("none", 1, {w1}), MCWorld("crash", 0, {w1}), MCWorld("twice", 0, {w1, w2})}
=============================================================================
