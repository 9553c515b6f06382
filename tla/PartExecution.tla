--------------------------- MODULE PartExecution ---------------------------
(***************************************************************************)
(* What executing one approved plan part promises the people who approved  *)
(* it, seen from SAP: its writes appear in order, each once; once one of   *)
(* them is taken back no further write appears, and they go last first; a  *)
(* part reported complete has every write, one reported rolled back has    *)
(* none that could be undone. Workflow implements this specification.      *)
(***************************************************************************)
EXTENDS Naturals

CONSTANTS
  N,      \* number of steps, in execution order
  Kind    \* [1..N -> {"sto", "change", "irreversible"}]

Steps == 1..N

Reversible == {i \in Steps : Kind[i] # "irreversible"}

VARIABLES
  phase,  \* how far the part is
  live,   \* steps whose write stands in SAP
  gone    \* steps whose write was taken back

pvars == <<phase, live, gone>>

PInit == phase = "open" /\ live = {} /\ gone = {}

Start ==
  /\ phase = "open"
  /\ phase' = "writing"
  /\ UNCHANGED <<live, gone>>

Write(i) ==
  /\ phase = "writing"
  /\ gone = {}
  /\ live = 1..(i - 1)
  /\ live' = live \cup {i}
  /\ UNCHANGED <<phase, gone>>

Undo(i) ==
  /\ phase \in {"writing", "withdrawing"}
  /\ i \in live \cap Reversible
  /\ \A j \in gone : j > i
  /\ live' = live \ {i}
  /\ gone' = gone \cup {i}
  /\ UNCHANGED phase

Complete ==
  /\ phase = "writing"
  /\ live = Steps
  /\ phase' = "completed"
  /\ UNCHANGED <<live, gone>>

Withdraw ==
  /\ phase = "completed"
  /\ phase' = "withdrawing"
  /\ UNCHANGED <<live, gone>>

Withdrawn ==
  /\ phase = "withdrawing"
  /\ live \cap Reversible = {}
  /\ phase' = "withdrawn"
  /\ UNCHANGED <<live, gone>>

PNext ==
  \/ Start
  \/ \E i \in Steps : Write(i) \/ Undo(i)
  \/ Complete
  \/ Withdraw
  \/ Withdrawn

PSpec == PInit /\ [][PNext]_pvars
=============================================================================
