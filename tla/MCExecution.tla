----------------------------- MODULE MCExecution -----------------------------
(* Small instances of Execution: the three kinds of route, two machines and a   *)
(* repeated invocation, so that announcements, retries and rollbacks overlap.   *)
EXTENDS Execution, TLC

AllRoutes == {<<1>>, <<2>>, <<1, 2>>}
OnePart == {<<1>>, <<2>>}

MCSymmetry == Permutations(Machines)
=============================================================================
