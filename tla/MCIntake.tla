------------------------------ MODULE MCIntake ------------------------------
(* Intake for model checking: the constants' values are in the .cfg files. *)
EXTENDS Intake, TLC

CONSTANTS s1, s2, s3, w1, w2, p1, p2

MCServes == w1 :> {s1} @@ w2 :> {s1, s2, s3, Mrp}

Scene(v1, v2, v3, o2, m, nstops, ncloses, nepoch) ==
  [verdict |-> s1 :> v1 @@ s2 :> v2 @@ s3 :> v3, order |-> s1 :> p1 @@ s2 :> o2 @@ s3 :> p1 @@ Mrp :> m,
   bound |-> [stops |-> nstops, closes |-> ncloses, epoch |-> nepoch]]

\* One signal on its whole way beside the MRP feed; two about one order, which
\* may stop anywhere, or days apart; two about two orders; three of
\* which one names no order, days apart.
MCScenes ==
  {Scene(v, "silent", "silent", p1, p1, 1, 0, 0) : v \in {"good", "refused", "blocked"}}
    \cup {Scene("extracted", "extracted", "silent", p1, m, 1, 0, 0) : m \in {p1, NoOrder}}
    \cup {Scene("extracted", "extracted", "silent", p1, p1, 0, 1, 1),
           Scene("extracted", "extracted", "silent", p2, NoOrder, 0, 1, 0),
           Scene("extracted", "extracted", "extracted", NoOrder, NoOrder, 0, 0, 1)}
=============================================================================
