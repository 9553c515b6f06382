--------------------------- MODULE DialogueProofs ---------------------------
(***************************************************************************)
(* Proofs about Runs and Dialogue for any starters, loops, fields, notifier *)
(* invocations, questions, worlds and bounds.                              *)
(*                                                                         *)
(* Runs needs two arguments, and which one holds depends on what went      *)
(* wrong. As long as no run began that the starter believes it did not     *)
(* reach, the claim on the case excludes: one starter or one loop has it.  *)
(* As long as nothing stops or comes again, the names of the runs do: each *)
(* is in one event, one starter and one loop at a time, so whoever releases *)
(* releases its own run. An investigation is owned by either argument.     *)
(*                                                                         *)
(* What keeps a question from going out twice is not its status,           *)
(* which a late save may overwrite, but its send claim, which is never     *)
(* given back: whoever works between the claim and the save is alone, and  *)
(* before it nobody sends, reminds or times out.                           *)
(***************************************************************************)
EXTENDS Dialogue, FiniteSetTheorems, TLAPS

-----------------------------------------------------------------------------
(* Runs: the inductive invariant *)

Fresh == {"events", "enter", "invoke"}
Holding == {"enter", "invoke", "unreached", "give up"}
StarterSteps == Fresh \cup Holding
  \cup {"idle", "started", "publish started", "ended", "publish ended"}
Charged == {"begin", "work", "tool", "ended", "failed"}
LoopSteps == Charged \cup {"idle", "after failure"}
Events == [run : Nat, kind : {"RunStarted", "RunEnded"}]
Start == [step : StarterSteps, event : Nat, run : Nat, seen : Statuses, held : Nat,
          todo : SUBSET Events]
Turn == [step : LoopSteps, run : Nat, tool : Asks \cup {"none"}, ended : BOOLEAN, moved : BOOLEAN]

RTypes ==
  /\ status \in Statuses /\ active \in Nat /\ minted \in Nat
  /\ ready \subseteq Nat /\ pending \subseteq Events
  /\ starter \in [Starters -> Start] /\ loop \in [Loops -> Turn]
  /\ \A s \in Starters :
       /\ starter[s].step \in Holding => starter[s].run # None
       /\ starter[s].step = "enter" => starter[s].seen # "INVESTIGATING"
  /\ \A l \in Loops :
       /\ loop[l].step \in Charged => loop[l].run # None
       /\ loop[l].step = "tool" => loop[l].tool \in Asks
  /\ suffered # "none" => fault = "none"

\* Run ids are made before they are used.
Minted ==
  /\ \A r \in ready : r <= minted
  /\ \A s \in Starters : starter[s].event <= minted /\ starter[s].run <= minted
  /\ \A l \in Loops : loop[l].run <= minted

\* A starter enters with the claim in its hand.
Enters == \A s \in Starters : starter[s].step \in {"enter", "invoke"} => active = starter[s].run

\* Nothing but the claim lets a starter or a loop work.
Exclusive ==
  /\ \A s \in Starters : starter[s].step \in Holding =>
       /\ active = starter[s].run
       /\ \A t \in Starters : starter[t].step \in Holding => t = s
       /\ \A l \in Loops : loop[l].step \notin Charged
  /\ \A l \in Loops : loop[l].step \in Charged =>
       active = loop[l].run /\ \A k \in Loops : loop[k].step \in Charged => k = l

\* A run is named once among the events, the starters and the loops, until its loop began.
Unique ==
  /\ \A r \in ready : r # None =>
       /\ \A s \in Starters : starter[s].run # r
       /\ \A l \in Loops : loop[l].run # r
  /\ \A s \in Starters : starter[s].run # None =>
       /\ \A t \in Starters : starter[t].run = starter[s].run => t = s
       /\ starter[s].step \in Fresh => \A l \in Loops : loop[l].run # starter[s].run
  /\ \A l, k \in Loops : loop[l].run # None /\ loop[k].run = loop[l].run => k = l

\* Somebody will end the investigation if there is one.
Owned == status # "INVESTIGATING" \/ \E l \in Loops : loop[l].step = "after failure"
Investigated ==
  /\ active # None \/ Owned
  /\ \A s \in Starters :
       (starter[s].step = "enter" \/ (starter[s].step = "give up" /\ active = starter[s].run))
         => Owned
  /\ \A l \in Loops :
       (loop[l].step \in Charged /\ active = loop[l].run /\ (loop[l].step = "ended" \/ loop[l].ended))
         => Owned

RInv ==
  /\ RTypes /\ Minted /\ Enters
  /\ suffered # "lost" => Exclusive
  /\ suffered \in {"none", "lost"} => Unique
  /\ suffered \notin {"stop", "busy"} => Investigated

-----------------------------------------------------------------------------
(* Steps *)

\* A fault is suffered once.
Suffers == suffered' = suffered \/ (suffered = "none" /\ suffered' # "none" /\ fault' = "none")

LEMMA FaultsAreSuffered ==
  ASSUME RTypes, NEW f \in {"stop", "lost", "again"}, Suffer(f) \/ Sound
  PROVE  Suffers /\ (suffered' # "none" => fault' = "none")
BY DEF RTypes, Suffer, Sound, Suffers

\* A query that lags and a META that is busy leave what the claim and the names are good for.
Endures == Sound \/ Suffer("lag") \/ Suffer("busy")

LEMMA Endured ==
  ASSUME RInv, Endures
  PROVE  /\ suffered' # "none" => fault' = "none"
         /\ suffered' # "lost" => Exclusive
         /\ suffered' \in {"none", "lost"} => Unique
         /\ suffered' \notin {"stop", "busy"} => Investigated
BY DEF RInv, RTypes, Endures, Sound, Suffer

\* What the starters know stays true when the status moves and the case is not investigated.
Leaves == status' \in Statuses /\ (status' = status \/ status' # "INVESTIGATING")

\* A starter goes on, with the run it had or with none, and takes nothing up.
Passes(s, r) ==
  /\ starter' = [starter EXCEPT ![s] = r]
  /\ r.run = starter[s].run \/ r.run = None
  /\ r.event = starter[s].event \/ r.event = None
  /\ r.step \in Fresh \cup Holding => r.run = starter[s].run
  /\ r.step \in Fresh => r.step = starter[s].step
  /\ r.step \in Holding => starter[s].step \in Holding
  /\ r.step = "enter" => r.step = starter[s].step /\ r.seen = starter[s].seen
  /\ r.step = "give up" => r.step = starter[s].step \/ status' # "INVESTIGATING"

LEMMA PassesStep ==
  ASSUME RInv, NEW s \in Starters, NEW r \in Start, Passes(s, r), Leaves,
         UNCHANGED <<active, minted, loop>>, Endures,
         ready' \subseteq ready \cup {None}, pending' \subseteq Events
  PROVE  RInv'
<1>1. /\ starter' \in [Starters -> Start] /\ starter'[s] = r
      /\ \A t \in Starters \ {s} : starter'[t] = starter[t]
  BY DEF RInv, RTypes, Passes
<1>2. RTypes'
  <2>1. RTypes /\ None \in Nat
    BY DEF RInv, None
  <2> QED
    BY <1>1, <2>1, Endured DEF RTypes, Passes, Leaves, Holding
<1>3. Minted'
  <2>1. minted \in Nat /\ None <= minted
    BY DEF RInv, RTypes, None
  <2>2. Minted /\ r.event <= minted /\ r.run <= minted
    BY <2>1 DEF RInv, Minted, Passes
  <2> QED
    BY <1>1, <2>1, <2>2 DEF Minted
<1>4. Enters'
  BY <1>1 DEF RInv, Enters, Passes, Fresh, Holding
<1>5. Exclusive => Exclusive'
  BY <1>1 DEF Exclusive, Passes
<1>6. Unique => Unique'
  <2>1. \A t \in Starters :
          /\ starter'[t].run # None => starter'[t].run = starter[t].run
          /\ starter'[t].step \in Fresh => starter'[t].step = starter[t].step
    BY <1>1 DEF Passes
  <2>2. \A e \in ready' : e # None => e \in ready
    OBVIOUS
  <2>3. \A t, u : starter'[t].run # None /\ starter'[u].run = starter'[t].run => starter'[u].run # None
    OBVIOUS
  <2> QED
    BY <2>1, <2>2, <2>3 DEF Unique
<1>7. Owned => Owned'
  BY DEF Owned, Leaves
<1>8. ASSUME Investigated PROVE Investigated'
  <2>1. CASE status' # "INVESTIGATING"
    BY <2>1 DEF Investigated, Owned
  <2>2. CASE status' = "INVESTIGATING"
    <3>1. \A t \in Starters :
            starter'[t].step = "enter" \/ (starter'[t].step = "give up" /\ active = starter'[t].run) =>
              starter[t].step = "enter" \/ (starter[t].step = "give up" /\ active = starter[t].run)
      BY <1>1, <2>2 DEF Passes, Holding
    <3> QED
      BY <1>7, <1>8, <3>1 DEF Investigated
  <2> QED
    BY <2>1, <2>2
<1> QED
  BY <1>2, <1>3, <1>4, <1>5, <1>6, <1>8, Endured DEF RInv

\* A loop goes on with its run, and has not ended it unless the case is not investigated.
Turns(l, x) ==
  /\ loop' = [loop EXCEPT ![l] = x]
  /\ x.run = loop[l].run /\ loop[l].step \in Charged /\ x.step \in Charged
  /\ x.step = "ended" \/ x.ended =>
       status' # "INVESTIGATING" \/ loop[l].step = "ended" \/ loop[l].ended
  /\ x.step = "tool" => x.tool \in Asks

LEMMA TurnsStep ==
  ASSUME RInv, NEW l \in Loops, NEW x \in Turn, Turns(l, x), Leaves,
         UNCHANGED <<active, minted, ready, pending, starter>>, Sound
  PROVE  RInv'
<1>1. /\ loop' \in [Loops -> Turn] /\ loop'[l] = x /\ loop[l].step \in Charged /\ x.step \in Charged
      /\ \A k \in Loops \ {l} : loop'[k] = loop[k]
  BY DEF RInv, RTypes, Turns
<1>2. RTypes'
  BY <1>1 DEF RInv, RTypes, Turns, Leaves, Sound
<1>3. Minted'
  BY <1>1 DEF RInv, Minted, Turns
<1>4. Enters'
  BY DEF RInv, Enters
<1>5. Exclusive => Exclusive'
  BY <1>1 DEF Exclusive, Turns
<1>6. Unique => Unique'
  BY <1>1 DEF Unique, Turns
<1>7. Owned => Owned'
  BY <1>1 DEF Owned, Leaves, Charged
<1>8. Investigated => Investigated'
  <2>1. Investigated => \/ status' # "INVESTIGATING"
                        \/ ~(loop[l].step = "ended" \/ loop[l].ended) /\ ~(x.step = "ended" \/ x.ended)
                        \/ (active = loop[l].run => Owned)
    BY <1>1 DEF Investigated, Turns
  <2> QED
    BY <1>1, <1>7, <2>1 DEF Investigated, Turns, Owned
<1> QED
  BY <1>2, <1>3, <1>4, <1>5, <1>6, <1>8 DEF RInv, Sound

\* Neither starters nor loops move.
LEMMA CaseMoves ==
  ASSUME RInv, Leaves, UNCHANGED <<active, minted, pending, starter, loop>>, Endures,
         ready' \subseteq ready \cup {None}
  PROVE  RInv'
<1>1. RTypes'
  BY Endured DEF RInv, RTypes, Leaves, None
<1>2. Minted'
  BY DEF RInv, RTypes, Minted, None
<1>3. Enters' /\ (Exclusive => Exclusive')
  BY DEF RInv, Enters, Exclusive
<1>4. Unique => Unique'
  BY DEF Unique
<1>5. Investigated => Investigated'
  BY DEF Investigated, Owned, Leaves
<1> QED
  BY <1>1, <1>2, <1>3, <1>4, <1>5, Endured DEF RInv

LEMMA IdleIsStart == Idle \in Start /\ Idle.step = "idle" /\ Idle.run = None /\ Idle.event = None
BY DEF Idle, Start, StarterSteps, Statuses, STARTABLE, None

LEMMA AwayIsTurn ==
  Away \in Turn /\ Away.step = "idle" /\ Away.run = None /\ ~Away.ended
BY DEF Away, Turn, LoopSteps, None, Asks

\* A starter takes an event.
LEMMA DeliverStep ==
  ASSUME RInv, NEW s \in Starters, Deliver(s)
  PROVE  RInv'
<1>1. PICK run \in ready :
        /\ \/ ready' = ready \ {run} /\ Sound
           \/ UNCHANGED ready /\ Suffer("again")
        /\ starter' = [starter EXCEPT ![s] =
                         [step |-> "events", event |-> run, run |-> run, seen |-> status,
                          held |-> active, todo |-> pending]]
  BY DEF Deliver
<1>2. /\ starter[s].step = "idle" /\ UNCHANGED <<status, active, pending, loop, minted>>
      /\ RTypes /\ Minted /\ ready' \subseteq ready
  BY <1>1 DEF Deliver, At, store, RInv
<1>3. PICK r : r = [step |-> "events", event |-> run, run |-> run, seen |-> status,
                    held |-> active, todo |-> pending]
  OBVIOUS
<1>4. r \in Start /\ r.step = "events" /\ r.event = run /\ r.run = run
  BY <1>2, <1>3 DEF RTypes, Start, StarterSteps, Fresh
<1>5. /\ starter' \in [Starters -> Start] /\ starter'[s] = r
      /\ \A t \in Starters \ {s} : starter'[t] = starter[t]
  BY <1>1, <1>2, <1>3, <1>4 DEF RTypes
<1>6. Suffers /\ (suffered' # "none" => fault' = "none")
  BY <1>1, <1>2, FaultsAreSuffered
<1>7. RTypes'
  BY <1>2, <1>4, <1>5, <1>6 DEF RTypes, Holding
<1>8. Minted'
  BY <1>2, <1>4, <1>5 DEF Minted
<1>9. Enters' /\ (Exclusive => Exclusive') /\ (Investigated => Investigated')
  <2>1. \A t \in Starters : starter'[t] = starter[t] \/ starter'[t].step = "events"
    BY <1>4, <1>5
  <2>2. UNCHANGED <<status, active, loop>>
    BY <1>2
  <2>3. Enters'
    BY <2>1, <2>2 DEF RInv, Enters
  <2>4. Exclusive => Exclusive'
    BY <1>2, <1>4, <1>5 DEF Exclusive, Holding
  <2>5. Investigated => Investigated'
    BY <2>1, <2>2 DEF Investigated, Owned
  <2> QED
    BY <2>3, <2>4, <2>5
<1>10. CASE Suffer("again")
  <2>1. suffered' = "again" /\ suffered \notin {"lost", "stop", "busy"}
    BY <1>2, <1>10 DEF Suffer, RTypes
  <2> QED
    BY <1>7, <1>8, <1>9, <2>1 DEF RInv
<1>11. CASE ready' = ready \ {run} /\ Sound
  <2>1. Unique => Unique'
    <3> SUFFICES ASSUME Unique PROVE Unique'
      OBVIOUS
    <3>1. \A t \in Starters \ {s} : run # None => starter[t].run # run
      BY DEF Unique
    <3>2. run # None => \A l \in Loops : loop[l].run # run
      BY DEF Unique
    <3>3. \A e \in ready' : e \in ready /\ e # run
      BY <1>11
    <3> QED
      BY <1>2, <1>4, <1>5, <3>1, <3>2, <3>3 DEF Unique
  <2> QED
    BY <1>7, <1>8, <1>9, <1>11, <2>1 DEF RInv, Sound
<1> QED
  BY <1>1, <1>10, <1>11

\* The claim is free: no loop works by it, and the run has a name of its own.
LEMMA ClaimStep ==
  ASSUME RInv, NEW s \in Starters, Claim(s), Sound, active = None
  PROVE  RInv'
<1>1. PICK run : run = IF starter[s].run = None THEN minted + 1 ELSE starter[s].run
  OBVIOUS
<1>2. /\ starter[s].step = "events" /\ starter[s].seen \in STARTABLE
      /\ run \in Runs /\ minted' = (IF run > minted THEN run ELSE minted) /\ active' = run
      /\ starter' = [starter EXCEPT ![s].step = "enter", ![s].run = run, ![s].held = None]
      /\ UNCHANGED <<status, ready, pending, loop>>
      /\ RTypes /\ Minted
  BY <1>1 DEF Claim, At, RInv
<1>3. /\ starter[s] \in Start /\ minted \in Nat /\ minted' \in Nat /\ minted <= minted' /\ run <= minted'
      /\ run \in Nat /\ run # None /\ starter[s].run <= minted
      /\ run = starter[s].run \/ (starter[s].run = None /\ run > minted)
  BY <1>1, <1>2, RunsAreBounded DEF RTypes, Runs, None, Minted, Start
<1>4. PICK r : r = [starter[s] EXCEPT !.step = "enter", !.run = run, !.held = None]
  OBVIOUS
<1>5. r.step = "enter" /\ r.run = run /\ r.event = starter[s].event /\ r.seen = starter[s].seen /\ r \in Start
  BY <1>3, <1>4 DEF Start, StarterSteps, Fresh, None
<1>6. /\ starter' \in [Starters -> Start] /\ starter'[s] = r
      /\ \A t \in Starters \ {s} : starter'[t] = starter[t]
  BY <1>2, <1>4, <1>5 DEF RTypes
<1>7. RTypes'
  BY <1>2, <1>3, <1>5, <1>6 DEF RTypes, STARTABLE, Sound
<1>8. Minted'
  <2>1. \A n \in Nat : n <= minted => n <= minted'
    BY <1>3
  <2>2. /\ \A e \in ready : e \in Nat
        /\ \A t \in Starters : starter[t].event \in Nat /\ starter[t].run \in Nat
        /\ \A l \in Loops : loop[l].run \in Nat
    BY <1>2 DEF RTypes, Start, Turn
  <2> QED
    BY <1>2, <1>3, <1>5, <1>6, <2>1, <2>2 DEF Minted
<1>9. \A t \in Starters : starter[t].step \notin {"enter", "invoke"}
  BY <1>2 DEF RInv, Enters, RTypes, Holding
<1>10. Enters'
  BY <1>2, <1>5, <1>6, <1>9 DEF Enters
<1>11. Exclusive => Exclusive'
  <2> SUFFICES ASSUME Exclusive PROVE Exclusive'
    OBVIOUS
  <2>1. /\ \A t \in Starters : starter[t].step \notin Holding
        /\ \A l \in Loops : loop[l].step \notin Charged
    BY <1>2 DEF Exclusive, RTypes
  <2> QED
    BY <1>2, <1>5, <1>6, <2>1 DEF Exclusive
<1>12. Unique => /\ \A t \in Starters \ {s} : starter[t].run # run
                 /\ \A l \in Loops : loop[l].run # run
                 /\ \A e \in ready : e # run
  <2>1. CASE run = starter[s].run
    BY <1>2, <1>3, <2>1 DEF Unique, Fresh
  <2>2. CASE run > minted
    <3>1. /\ \A t \in Starters : starter[t].run <= minted /\ starter[t].run \in Nat
          /\ \A l \in Loops : loop[l].run <= minted /\ loop[l].run \in Nat
          /\ \A e \in ready : e <= minted /\ e \in Nat
      BY <1>2 DEF Minted, RTypes, Start, Turn
    <3> QED
      BY <1>3, <2>2, <3>1
  <2> QED
    BY <1>3, <2>1, <2>2
<1>13. Unique => Unique'
  BY <1>2, <1>3, <1>5, <1>6, <1>12 DEF Unique
<1>14. ASSUME Investigated
       PROVE  Investigated'
  <2>1. Owned /\ Owned'
    BY <1>2, <1>14 DEF Investigated, Owned
  <2> QED
    BY <2>1 DEF Investigated
<1> QED
  BY <1>7, <1>8, <1>10, <1>11, <1>13, <1>14 DEF RInv, Sound

\* Whichever argument holds, the starter whose run has the claim has it for itself.
LEMMA Alone ==
  ASSUME RInv, NEW s \in Starters, starter[s].step \in Holding, active = starter[s].run
  PROVE  /\ \A t \in Starters \ {s} :
              /\ starter[t].step \notin {"enter", "invoke"}
              /\ starter[t].step \in Holding => active # starter[t].run
         /\ starter[s].step \in {"enter", "invoke"} =>
              \A l \in Loops : ~(loop[l].step \in Charged /\ active = loop[l].run)
         /\ active # None
<1>1. active # None /\ Enters /\ (Exclusive \/ Unique)
  BY DEF RInv, RTypes
<1>2. CASE Exclusive
  BY <1>1, <1>2 DEF Exclusive, Holding
<1>3. CASE Unique
  BY <1>1, <1>3 DEF Unique, Enters, Fresh
<1> QED
  BY <1>1, <1>2, <1>3

LEMMA EnterStep ==
  ASSUME RInv, NEW s \in Starters, Enter(s)
  PROVE  RInv'
<1>1. /\ starter[s].step = "enter" /\ active = starter[s].run /\ starter[s] \in Start
      /\ UNCHANGED <<loop, minted>> /\ RTypes /\ Minted
      /\ starter[s].step \in Holding
  BY DEF Enter, At, RInv, Enters, RTypes, Holding
<1>2. /\ active # None
      /\ \A t \in Starters \ {s} :
           /\ starter[t].step \notin {"enter", "invoke"}
           /\ starter[t].step \in Holding => active # starter[t].run
      /\ \A l \in Loops : ~(loop[l].step \in Charged /\ active = loop[l].run)
  BY <1>1, Alone
<1>3. CASE status' = "INVESTIGATING" /\ Go(s, "invoke") /\ Sound /\ UNCHANGED <<active, ready, pending>>
  <2>1. PICK r : r = [starter[s] EXCEPT !.step = "invoke"]
    OBVIOUS
  <2>2. /\ r \in Start /\ r.step = "invoke" /\ r.run = starter[s].run /\ r.event = starter[s].event
    BY <1>1, <2>1 DEF Start, StarterSteps, Fresh
  <2>3. /\ starter' = [starter EXCEPT ![s] = r] /\ status' = "INVESTIGATING"
        /\ UNCHANGED <<active, ready, pending>>
    BY <1>3, <2>1 DEF Go
  <2>4. /\ starter' \in [Starters -> Start] /\ starter'[s] = r
        /\ \A t \in Starters \ {s} : starter'[t] = starter[t]
    BY <1>1, <2>2, <2>3 DEF RTypes
  <2>5. RTypes'
    BY <1>1, <1>3, <2>2, <2>3, <2>4 DEF RTypes, Sound, Statuses
  <2>6. Minted' /\ Enters'
    BY <1>1, <2>2, <2>3, <2>4 DEF RInv, Minted, Enters
  <2>7. Exclusive => Exclusive'
    BY <1>1, <2>2, <2>3, <2>4 DEF Exclusive, Holding
  <2>8. Unique => Unique'
    BY <1>1, <2>2, <2>3, <2>4 DEF Unique, Fresh
  <2>9. Investigated'
    BY <1>1, <1>2, <2>2, <2>3, <2>4 DEF Investigated, Holding
  <2> QED
    BY <1>3, <2>5, <2>6, <2>7, <2>8, <2>9 DEF RInv, Sound
<1>4. CASE Release(starter[s].run, TRUE) /\ Quit(s) /\ Endures /\ status' = status
  <2>1. /\ starter' = [starter EXCEPT ![s] = Idle] /\ active' = None
        /\ UNCHANGED <<ready, pending, status>>
    BY <1>1, <1>4 DEF Release, Quit, Return
  <2>2. /\ starter' \in [Starters -> Start] /\ starter'[s] = Idle
        /\ \A t \in Starters \ {s} : starter'[t] = starter[t]
    BY <1>1, <2>1, IdleIsStart DEF RTypes
  <2>3. RTypes'
    BY <1>1, <1>4, <2>1, <2>2, IdleIsStart, Endured DEF RTypes, None, Holding
  <2>4. Minted'
    BY <1>1, <2>1, <2>2, IdleIsStart DEF RTypes, Minted, None
  <2>5. Enters'
    BY <1>2, <2>2, IdleIsStart DEF Enters
  <2>6. Exclusive => Exclusive'
    BY <1>1, <2>1, <2>2, IdleIsStart DEF Exclusive, Holding
  <2>7. Unique => Unique'
    BY <1>1, <2>1, <2>2, IdleIsStart DEF Unique, Fresh
  <2>8. Investigated => Owned'
    BY <1>1, <2>1 DEF Investigated, Owned
  <2> QED
    BY <1>4, <2>3, <2>4, <2>5, <2>6, <2>7, <2>8, Endured DEF RInv, Investigated
<1> QED
  BY <1>3, <1>4 DEF Enter, Endures

\* A loop begins; the starter knows of it or believes it did not reach the runtime.
LEMMA SpawnStep ==
  ASSUME RInv, NEW s \in Starters, Invoke(s), Spawn(starter[s].run)
  PROVE  RInv'
<1>1. PICK l \in Loops : /\ loop[l].step = "idle"
                         /\ loop' = [loop EXCEPT ![l] = [Away EXCEPT !.step = "begin",
                                                                     !.run = starter[s].run]]
  BY DEF Spawn
<1>2. PICK step : /\ \/ step = "started" /\ Sound
                     \/ step = "unreached" /\ Suffer("lost")
                     \/ step = "unreached" /\ Sound /\ UNCHANGED loop
                  /\ starter' = [starter EXCEPT ![s].step = step]
  BY DEF Invoke, Go
<1>3. /\ starter[s].step = "invoke" /\ active = starter[s].run /\ starter[s] \in Start
      /\ UNCHANGED <<status, active, minted, ready, pending>> /\ RTypes /\ Minted
      /\ starter[s].step \in Holding
  BY DEF Invoke, At, RInv, Enters, RTypes, Holding, store
<1>4. PICK x : x = [Away EXCEPT !.step = "begin", !.run = starter[s].run]
  OBVIOUS
<1>5. x \in Turn /\ x.step = "begin" /\ x.run = starter[s].run /\ ~x.ended
  BY <1>3, <1>4 DEF Away, Turn, LoopSteps, Charged, Start
<1>6. PICK r : r = [starter[s] EXCEPT !.step = step]
  OBVIOUS
<1>7. /\ r \in Start /\ r.step = step /\ r.run = starter[s].run /\ r.event = starter[s].event
      /\ step \in {"started", "unreached"}
  BY <1>2, <1>3, <1>6 DEF Start, StarterSteps, Holding
<1>8. /\ starter' \in [Starters -> Start] /\ starter'[s] = r
      /\ \A t \in Starters \ {s} : starter'[t] = starter[t]
  BY <1>2, <1>3, <1>6, <1>7 DEF RTypes
<1>9. /\ loop' \in [Loops -> Turn] /\ loop'[l] = x
      /\ \A k \in Loops \ {l} : loop'[k] = loop[k]
  BY <1>1, <1>3, <1>4, <1>5 DEF RTypes
<1>10. Suffers /\ (suffered' # "none" => fault' = "none")
  BY <1>2, <1>3, FaultsAreSuffered
<1>11. active # None /\ starter[s].run # None
  BY <1>3, Alone
<1>12. RTypes'
  BY <1>3, <1>5, <1>7, <1>8, <1>9, <1>10, <1>11 DEF RTypes
<1>13. Minted'
  BY <1>3, <1>5, <1>7, <1>8, <1>9 DEF Minted
<1>14. Enters'
  BY <1>3, <1>7, <1>8 DEF RInv, Enters
<1>15. Unique => Unique'
  BY <1>3, <1>5, <1>7, <1>8, <1>9, <1>11 DEF Unique, Fresh
<1>16. Investigated => Investigated'
  <2>1. Owned => Owned'
    BY <1>1, <1>3, <1>9 DEF Owned
  <2> QED
    BY <1>3, <1>5, <1>7, <1>8, <1>9, <1>11, <2>1 DEF Investigated, Charged
<1>17. CASE step = "started" /\ Sound
  <2>1. ASSUME Exclusive PROVE Exclusive'
    <3>1. /\ \A t \in Starters : starter[t].step \in Holding => t = s
          /\ \A k \in Loops : loop[k].step \notin Charged
      BY <1>3, <2>1 DEF Exclusive
    <3>2. \A t \in Starters : starter'[t].step \notin Holding
      BY <1>7, <1>8, <1>17, <3>1 DEF Holding
    <3>3. \A k \in Loops : loop'[k].step \in Charged => k = l
      BY <1>9, <3>1
    <3> QED
      BY <1>3, <1>5, <1>9, <3>2, <3>3 DEF Exclusive
  <2> QED
    BY <1>12, <1>13, <1>14, <1>15, <1>16, <1>17, <2>1 DEF RInv, Sound
<1>18. CASE Suffer("lost")
  <2>1. suffered = "none" /\ suffered' = "lost"
    BY <1>3, <1>18 DEF Suffer, RTypes
  <2> QED
    BY <1>12, <1>13, <1>14, <1>15, <1>16, <2>1 DEF RInv
<1>19. ~UNCHANGED loop
  BY <1>1, <1>5, <1>9
<1> QED
  BY <1>2, <1>17, <1>18, <1>19

\* The starter gives its run up: the claim is its own, or another's and stays.
LEMMA GiveUpStep ==
  ASSUME RInv, NEW s \in Starters, GiveUp(s), Sound
  PROVE  RInv'
<1>1. /\ starter[s].step = "give up" /\ starter[s] \in Start
      /\ active' = (IF active = starter[s].run THEN None ELSE active)
      /\ starter' = [starter EXCEPT ![s].step = "ended"]
      /\ UNCHANGED <<status, loop, minted, ready, pending>> /\ RTypes /\ Minted
      /\ starter[s].step \in Holding
  BY DEF GiveUp, At, Go, Release, RInv, RTypes, Holding
<1>2. PICK r : r = [starter[s] EXCEPT !.step = "ended"]
  OBVIOUS
<1>3. r \in Start /\ r.step = "ended" /\ r.run = starter[s].run /\ r.event = starter[s].event
  BY <1>1, <1>2 DEF Start, StarterSteps
<1>4. /\ starter' \in [Starters -> Start] /\ starter'[s] = r
      /\ \A t \in Starters \ {s} : starter'[t] = starter[t]
  BY <1>1, <1>2, <1>3 DEF RTypes
<1>5. RTypes'
  BY <1>1, <1>3, <1>4 DEF RTypes, Sound, None, Holding
<1>6. Minted'
  BY <1>1, <1>3, <1>4 DEF Minted
<1>7. Enters'
  <2>1. active = starter[s].run =>
          \A t \in Starters \ {s} : starter[t].step \notin {"enter", "invoke"}
    BY <1>1, Alone
  <2> QED
    BY <1>1, <1>3, <1>4, <2>1 DEF RInv, Enters
<1>8. Exclusive => Exclusive'
  BY <1>1, <1>3, <1>4 DEF Exclusive, Holding
<1>9. Unique => Unique'
  <2>1. \A t \in Starters :
          /\ starter'[t].run = starter[t].run
          /\ starter'[t].step \in Fresh => starter'[t].step = starter[t].step
    BY <1>3, <1>4 DEF Fresh
  <2>2. UNCHANGED <<loop, ready>>
    BY <1>1
  <2> QED
    BY <2>1, <2>2 DEF Unique
<1>10. ASSUME Investigated PROVE Investigated'
  <2>1. CASE active = starter[s].run
    BY <1>1, <1>10, <2>1 DEF Investigated, Owned
  <2>2. CASE active # starter[s].run
    BY <1>1, <1>3, <1>4, <1>10, <2>2 DEF Investigated, Owned
  <2> QED
    BY <2>1, <2>2
<1> QED
  BY <1>5, <1>6, <1>7, <1>8, <1>9, <1>10 DEF RInv, Sound

\* A stopped starter or loop leaves the claim behind, which excludes as before.
LEMMA StopSteps ==
  ASSUME RInv, (\E s \in Starters : Stop(s)) \/ (\E l \in Loops : Die(l))
  PROVE  RInv'
<1>1. /\ suffered' = "stop" /\ fault' = "none" /\ suffered = "none" /\ RTypes /\ Minted /\ Enters
      /\ Exclusive
  BY DEF Stop, Die, Suffer, RInv, RTypes
<1>2. ASSUME NEW s \in Starters, Stop(s) PROVE RTypes' /\ Minted' /\ Enters' /\ Exclusive'
  <2>1. /\ starter' = [starter EXCEPT ![s] = Idle] /\ ready' = ready \cup {starter[s].event}
        /\ UNCHANGED <<status, active, pending, loop, minted>>
    BY <1>2 DEF Stop, store
  <2>2. /\ starter' \in [Starters -> Start] /\ starter'[s] = Idle
        /\ \A t \in Starters \ {s} : starter'[t] = starter[t]
    BY <1>1, <2>1, IdleIsStart DEF RTypes
  <2>3. starter[s].event \in Nat /\ starter[s].event <= minted
    BY <1>1 DEF RTypes, Start, Minted
  <2>4. RTypes'
    BY <1>1, <2>1, <2>2, <2>3, IdleIsStart DEF RTypes, Holding
  <2>5. Minted'
    BY <1>1, <2>1, <2>2, <2>3, IdleIsStart DEF RTypes, Minted, None
  <2>6. Enters' /\ Exclusive'
    BY <1>1, <2>1, <2>2, IdleIsStart DEF Enters, Exclusive, Holding
  <2> QED
    BY <2>4, <2>5, <2>6
<1>3. ASSUME NEW l \in Loops, Die(l) PROVE RTypes' /\ Minted' /\ Enters' /\ Exclusive'
  <2>1. /\ loop' = [loop EXCEPT ![l] = Away]
        /\ UNCHANGED <<status, active, pending, starter, minted, ready>>
    BY <1>3 DEF Die, Leave, store
  <2>2. /\ loop' \in [Loops -> Turn] /\ loop'[l] = Away
        /\ \A k \in Loops \ {l} : loop'[k] = loop[k]
    BY <1>1, <2>1, AwayIsTurn DEF RTypes
  <2>3. RTypes'
    BY <1>1, <2>1, <2>2, AwayIsTurn DEF RTypes, Charged
  <2>4. Minted'
    BY <1>1, <2>1, <2>2, AwayIsTurn DEF RTypes, Minted, None
  <2>5. Enters' /\ Exclusive'
    BY <1>1, <2>1, <2>2, AwayIsTurn DEF Enters, Exclusive, Charged
  <2> QED
    BY <2>3, <2>4, <2>5
<1> QED
  BY <1>1, <1>2, <1>3 DEF RInv

\* A loop releases its run: a failed one has a last transition to make, an ended one has made it.
LEMMA ReleaseRunStep ==
  ASSUME RInv, NEW l \in Loops, ReleaseRun(l), Sound
  PROVE  RInv'
<1>1. /\ loop[l].step \in {"ended", "failed"} /\ loop[l] \in Turn
      /\ active' = (IF active = loop[l].run THEN None ELSE active)
      /\ UNCHANGED <<status, starter, minted, ready, pending>> /\ RTypes /\ Minted
      /\ loop[l].step \in Charged /\ loop[l].run # None
  BY DEF ReleaseRun, In, Release, RInv, RTypes, Charged
<1>2. PICK x \in Turn :
        /\ loop' = [loop EXCEPT ![l] = x]
        /\ x.run \in {None, loop[l].run} /\ x.step \in {"idle", "after failure"}
        /\ x.step = "after failure" \/ loop[l].step = "ended"
  <2>1. CASE In(l, "ended") /\ Leave(l)
    BY <2>1, AwayIsTurn DEF In, Leave
  <2>2. CASE In(l, "failed") /\ LoopGo(l, "after failure")
    <3>1. PICK x : x = [loop[l] EXCEPT !.step = "after failure"]
      OBVIOUS
    <3>2. x \in Turn /\ x.run = loop[l].run /\ x.step = "after failure"
      BY <1>1, <3>1 DEF Turn, LoopSteps
    <3> QED
      BY <2>2, <3>1, <3>2 DEF LoopGo
  <2> QED
    BY <2>1, <2>2 DEF ReleaseRun
<1>3. /\ loop' \in [Loops -> Turn] /\ loop'[l] = x
      /\ \A k \in Loops \ {l} : loop'[k] = loop[k]
      /\ x.step \notin Charged
  BY <1>1, <1>2 DEF RTypes, Charged
<1>4. RTypes'
  BY <1>1, <1>2, <1>3 DEF RTypes, Sound, None
<1>5. Minted'
  <2>0. None <= minted /\ \A k \in Loops : loop[k].run <= minted
    <3>1. minted \in Nat
      BY <1>1 DEF RTypes
    <3>2. Minted
      BY <1>1
    <3> QED
      BY <3>1, <3>2 DEF Minted, None
  <2>1. \A k \in Loops : loop'[k].run <= minted
    BY <1>2, <1>3, <2>0
  <2>2. UNCHANGED <<ready, starter, minted>>
    BY <1>1
  <2> QED
    BY <1>1, <2>1, <2>2 DEF Minted
<1>6. Enters'
  <2>1. Exclusive \/ Unique
    BY DEF RInv
  <2>2. \A t \in Starters : starter[t].step \in {"enter", "invoke"} => starter[t].run # loop[l].run
    <3>1. CASE Exclusive
      BY <1>1, <3>1 DEF Exclusive, Holding
    <3>2. CASE Unique
      BY <1>1, <3>2 DEF Unique, Fresh
    <3> QED
      BY <2>1, <3>1, <3>2
  <2> QED
    BY <1>1, <2>2 DEF RInv, Enters
<1>7. Exclusive => Exclusive'
  BY <1>1, <1>3 DEF Exclusive
<1>8. ASSUME Unique PROVE Unique'
  <2>1. \A k \in Loops : loop'[k].run # None => loop'[k].run = loop[k].run
    BY <1>2, <1>3
  <2> QED
    BY <1>1, <1>8, <2>1 DEF Unique
<1>9. ASSUME Investigated PROVE Investigated'
  <2>1. Owned => Owned'
    BY <1>1, <1>2, <1>3 DEF Owned
  <2>2. CASE x.step = "after failure"
    BY <1>3, <2>2 DEF Investigated, Owned
  <2>3. CASE loop[l].step = "ended" /\ active = loop[l].run
    BY <1>1, <1>9, <2>1, <2>3 DEF Investigated
  <2>4. CASE active # loop[l].run
    BY <1>1, <1>3, <1>9, <2>1, <2>4 DEF Investigated
  <2> QED
    BY <1>2, <2>2, <2>3, <2>4
<1> QED
  BY <1>4, <1>5, <1>6, <1>7, <1>8, <1>9 DEF RInv, Sound

\* The last transition of a failed run ends the investigation, whoever's it is, unless META is busy.
LEMMA AfterFailureStep ==
  ASSUME RInv, NEW l \in Loops, AfterFailure(l)
  PROVE  RInv'
<1>1. /\ loop[l].step = "after failure" /\ loop' = [loop EXCEPT ![l] = Away]
      /\ status' \in Statuses /\ Endures /\ (status' # "INVESTIGATING" \/ Suffer("busy"))
      /\ UNCHANGED <<active, starter, minted, ready, pending>> /\ RTypes /\ Minted
  BY DEF AfterFailure, Known, In, Leave, RInv, RTypes, Statuses, STARTABLE, Endures
<1>2. /\ loop' \in [Loops -> Turn] /\ loop'[l] = Away
      /\ \A k \in Loops \ {l} : loop'[k] = loop[k]
  BY <1>1, AwayIsTurn DEF RTypes
<1>3. RTypes'
  BY <1>1, <1>2, AwayIsTurn, Endured DEF RTypes, Charged
<1>4. Minted'
  <2>0. None <= minted /\ \A k \in Loops : loop[k].run <= minted
    <3>1. minted \in Nat
      BY <1>1 DEF RTypes
    <3>2. Minted
      BY <1>1
    <3> QED
      BY <3>1, <3>2 DEF Minted, None
  <2>1. \A k \in Loops : loop'[k].run <= minted
    BY <1>2, AwayIsTurn, <2>0
  <2>2. UNCHANGED <<ready, starter, minted>>
    BY <1>1
  <2> QED
    BY <1>1, <2>1, <2>2 DEF Minted
<1>5. Enters' /\ (Exclusive => Exclusive')
  BY <1>1, <1>2, AwayIsTurn DEF RInv, Enters, Exclusive, Charged
<1>6. ASSUME Unique PROVE Unique'
  <2>1. \A k \in Loops : loop'[k].run # None => loop'[k].run = loop[k].run
    BY <1>2, AwayIsTurn
  <2>2. UNCHANGED <<ready, starter>>
    BY <1>1
  <2> QED
    BY <1>6, <2>1, <2>2 DEF Unique
<1>7. Investigated' \/ suffered' = "busy"
  BY <1>1 DEF Investigated, Owned, Suffer
<1> QED
  BY <1>1, <1>3, <1>4, <1>5, <1>6, <1>7, Endured DEF RInv

\* The planner's run has a new name.
LEMMA StartRunStep ==
  ASSUME RInv, StartRun, Sound
  PROVE  RInv'
<1>1. /\ minted' = minted + 1 /\ ready' = ready \cup {minted + 1} /\ minted \in Nat
      /\ UNCHANGED <<status, active, pending, starter, loop>> /\ RTypes /\ Minted
  BY DEF StartRun, store, RInv, RTypes
<1>2. RTypes'
  <2>1. minted + 1 \in Nat
    BY <1>1
  <2> QED
    BY <1>1, <2>1 DEF RTypes, Sound
<1>3. /\ \A e \in ready : e \in Nat /\ e <= minted
      /\ \A s \in Starters : /\ starter[s].event \in Nat /\ starter[s].event <= minted
                             /\ starter[s].run \in Nat /\ starter[s].run <= minted
      /\ \A l \in Loops : loop[l].run \in Nat /\ loop[l].run <= minted
  BY <1>1 DEF RTypes, Minted, Start, Turn
<1>4. Minted'
  BY <1>1, <1>3 DEF Minted
<1>5. Enters' /\ (Exclusive => Exclusive') /\ (Investigated => Investigated')
  BY <1>1 DEF RInv, Enters, Exclusive, Investigated, Owned
<1>6. Unique => Unique'
  BY <1>1, <1>3 DEF Unique
<1> QED
  BY <1>2, <1>4, <1>5, <1>6 DEF RInv, Sound

\* The starter's other steps.
LEMMA StarterSteps1 ==
  ASSUME RInv, NEW s \in Starters, Sound,
         PublishPending(s) \/ Refuse(s) \/ (Claim(s) /\ active # None) \/ PutEvent(s) \/ Publish(s)
  PROVE  RInv'
<1>1. /\ UNCHANGED <<status, active, minted, loop, ready>> /\ RTypes /\ starter[s] \in Start
  BY DEF PublishPending, Refuse, Claim, PutEvent, Publish, Quit, Return, store, RInv, RTypes
<1>2. /\ Leaves /\ pending \subseteq Events
  BY <1>1 DEF Leaves, RTypes
<1>3. ASSUME Return(s), pending' \subseteq Events PROVE RInv'
  <2>1. Passes(s, Idle)
    BY <1>3, IdleIsStart DEF Passes, Return, Fresh, Holding
  <2> QED
    BY <1>1, <1>2, <1>3, <2>1, IdleIsStart, PassesStep DEF Endures
<1>4. ASSUME NEW r \in Start, starter' = [starter EXCEPT ![s] = r], pending' \subseteq Events,
             r.run = starter[s].run, r.event = starter[s].event, r.seen = starter[s].seen,
             r.step = starter[s].step \/ r.step \notin Fresh \cup Holding
      PROVE  RInv'
  <2>1. Passes(s, r)
    BY <1>4 DEF Passes, Fresh, Holding
  <2> QED
    BY <1>1, <1>2, <1>4, <2>1, PassesStep DEF Endures
<1>5. CASE PublishPending(s)
  <2>1. /\ pending' \subseteq Events
        /\ \/ Return(s)
           \/ \E p : starter' = [starter EXCEPT ![s].todo = @ \ {p}]
    BY <1>2, <1>5 DEF PublishPending
  <2>2. CASE \E p : starter' = [starter EXCEPT ![s].todo = @ \ {p}]
    <3>1. PICK p : starter' = [starter EXCEPT ![s].todo = @ \ {p}]
      BY <2>2
    <3>2. PICK r : r = [starter[s] EXCEPT !.todo = @ \ {p}]
      OBVIOUS
    <3>3. /\ r \in Start /\ r.step = starter[s].step /\ r.run = starter[s].run
          /\ r.event = starter[s].event /\ r.seen = starter[s].seen
      BY <1>1, <3>2 DEF Start
    <3> QED
      BY <1>4, <2>1, <3>1, <3>2, <3>3
  <2> QED
    BY <1>3, <2>1, <2>2
<1>6. CASE Refuse(s) \/ (Claim(s) /\ active # None)
  BY <1>2, <1>3, <1>6 DEF Refuse, Claim, Quit
<1>7. CASE PutEvent(s)
  <2>1. PICK step \in {"publish started", "publish ended"} : starter' = [starter EXCEPT ![s].step = step]
    BY <1>7 DEF PutEvent, Go
  <2>2. PICK r : r = [starter[s] EXCEPT !.step = step]
    OBVIOUS
  <2>3. /\ r \in Start /\ r.step = step /\ r.run = starter[s].run
        /\ r.event = starter[s].event /\ r.seen = starter[s].seen
    BY <1>1, <2>1, <2>2 DEF Start, StarterSteps
  <2>4. pending' \subseteq Events
    <3>1. PICK kind \in {"RunStarted", "RunEnded"} :
            pending' = {p \in pending : p.run # starter[s].run}
                         \cup {[run |-> starter[s].run, kind |-> kind]}
      BY <1>7 DEF PutEvent
    <3>2. [run |-> starter[s].run, kind |-> kind] \in Events
      BY <1>1 DEF Events, Start
    <3> QED
      BY <1>2, <3>1, <3>2
  <2>5. r.step \notin Fresh \cup Holding
    BY <2>1, <2>3 DEF Fresh, Holding
  <2> QED
    BY <1>4, <2>1, <2>2, <2>3, <2>4, <2>5
<1>8. CASE Publish(s)
  BY <1>2, <1>3, <1>8 DEF Publish
<1> QED
  BY <1>5, <1>6, <1>7, <1>8

\* The runtime is not reached: the case leaves the investigation before the claim is given up.
LEMMA UnreachedSteps ==
  ASSUME RInv, NEW s \in Starters,
         Unreached(s) \/ (Invoke(s) /\ UNCHANGED loop /\ Go(s, "unreached") /\ Sound)
  PROVE  RInv'
<1>1. /\ UNCHANGED <<active, minted, loop, ready, pending>> /\ RTypes /\ starter[s] \in Start
      /\ starter[s].step \in Holding /\ Endures
  BY DEF Unreached, Known, Invoke, At, store, RInv, RTypes, Holding, Endures
<1>2. PICK step : /\ Go(s, step)
                  /\ \/ step = "give up" /\ status' \in Statuses /\ status' # "INVESTIGATING"
                     \/ step = "unreached" /\ status' = status
  BY <1>1 DEF Unreached, Invoke, store, RTypes, Statuses, STARTABLE
<1>3. PICK r : r = [starter[s] EXCEPT !.step = step]
  OBVIOUS
<1>4. /\ r \in Start /\ r.step = step /\ r.run = starter[s].run
      /\ r.event = starter[s].event /\ r.seen = starter[s].seen
  BY <1>1, <1>2, <1>3 DEF Start, StarterSteps, Holding
<1>5. Passes(s, r)
  BY <1>1, <1>2, <1>3, <1>4 DEF Passes, Go, Fresh, Holding
<1>6. Leaves
  BY <1>1, <1>2 DEF Leaves, RTypes
<1> QED
  BY <1>1, <1>4, <1>5, <1>6, PassesStep DEF RTypes

\* What a loop does while it works.
LEMMA LoopWorks ==
  ASSUME RInv, NEW l \in Loops, Sound,
         \/ BeginRun(l) \/ EndTool(l) \/ EndRun(l) \/ FailRun(l)
         \/ \E t \in Asks : CallTool(l, t)
  PROVE  RInv'
<1>1. /\ UNCHANGED <<active, minted, ready, pending, starter>> /\ RTypes /\ loop[l] \in Turn
  BY DEF BeginRun, EndTool, EndRun, FailRun, CallTool, store, RInv, RTypes
<1>2. ASSUME NEW x \in Turn, Turns(l, x), Leaves PROVE RInv'
  BY <1>1, <1>2, TurnsStep
<1>3. CASE BeginRun(l) \/ FailRun(l)
  <2>1. PICK step \in {"work", "failed"} : loop' = [loop EXCEPT ![l].step = step]
    BY <1>3 DEF BeginRun, FailRun, LoopGo
  <2>2. PICK x : x = [loop[l] EXCEPT !.step = step]
    OBVIOUS
  <2>3. x \in Turn /\ x.step = step /\ x.run = loop[l].run /\ x.ended = loop[l].ended
    BY <1>1, <2>1, <2>2 DEF Turn, LoopSteps, Charged
  <2>4. loop[l].step \in Charged /\ status' = status
    BY <1>3 DEF BeginRun, FailRun, In, Charged, store
  <2>5. Turns(l, x)
    BY <2>1, <2>2, <2>3, <2>4 DEF Turns, Charged
  <2> QED
    BY <1>1, <1>2, <2>3, <2>4, <2>5 DEF Leaves, RTypes
<1>4. CASE EndTool(l)
  <2>1. PICK moved \in {FALSE, status = "INVESTIGATING"} : \E ended \in {FALSE, moved} :
          /\ status' = IF moved THEN Target(loop[l].tool) ELSE status
          /\ loop' = [loop EXCEPT ![l].step = "work", ![l].tool = "none", ![l].ended = ended,
                                  ![l].moved = @ \/ moved]
    BY <1>4 DEF EndTool
  <2>0. PICK ended \in {FALSE, moved} :
          loop' = [loop EXCEPT ![l].step = "work", ![l].tool = "none", ![l].ended = ended,
                               ![l].moved = @ \/ moved]
    BY <2>1
  <2>2. PICK y : y = [loop[l] EXCEPT !.step = "work", !.tool = "none"]
    OBVIOUS
  <2>3. y \in Turn /\ y.step = "work" /\ y.run = loop[l].run
    BY <1>1, <2>2 DEF Turn, LoopSteps, Charged
  <2>4. PICK x : x = [y EXCEPT !.ended = ended, !.moved = @ \/ moved]
    OBVIOUS
  <2>5. x \in Turn /\ x.step = "work" /\ x.run = loop[l].run /\ x.ended = ended
    BY <2>0, <2>1, <2>3, <2>4 DEF Turn
  <2>6. loop' = [loop EXCEPT ![l] = x]
    BY <1>1, <2>0, <2>2, <2>4 DEF RTypes, Turn
  <2>7. loop[l].step \in Charged /\ loop[l].tool \in Asks
    BY <1>1, <1>4 DEF EndTool, In, Charged, RTypes
  <2>8. Leaves /\ (moved => status' # "INVESTIGATING")
    BY <1>1, <2>1, <2>7 DEF Leaves, Target, Asks, Statuses, STARTABLE, RTypes
  <2>9. Turns(l, x)
    BY <2>0, <2>5, <2>6, <2>7, <2>8 DEF Turns, Charged
  <2> QED
    BY <1>2, <2>5, <2>8, <2>9
<1>5. CASE EndRun(l)
  <2>1. PICK moved \in BOOLEAN : loop' = [loop EXCEPT ![l].step = "ended", ![l].moved = moved]
    BY <1>1, <1>5 DEF EndRun, Turn
  <2>2. PICK x : x = [loop[l] EXCEPT !.step = "ended", !.moved = moved]
    OBVIOUS
  <2>3. x \in Turn /\ x.step = "ended" /\ x.run = loop[l].run /\ x.ended = loop[l].ended
    BY <1>1, <2>1, <2>2 DEF Turn, LoopSteps, Charged
  <2>4. /\ loop[l].step \in Charged
        /\ status' \in Statuses /\ (status' = status \/ status' # "INVESTIGATING")
        /\ loop[l].ended \/ status' # "INVESTIGATING"
    BY <1>1, <1>5 DEF EndRun, In, Charged, RTypes, Statuses, STARTABLE
  <2>5. Turns(l, x)
    BY <2>1, <2>2, <2>3, <2>4 DEF Turns, Charged
  <2> QED
    BY <1>2, <2>3, <2>4, <2>5 DEF Leaves
<1>6. ASSUME NEW t \in Asks, CallTool(l, t) PROVE RInv'
  <2>1. PICK x : x = [loop[l] EXCEPT !.step = "tool", !.tool = t]
    OBVIOUS
  <2>2. /\ x \in Turn /\ x.step = "tool" /\ x.tool = t /\ x.run = loop[l].run
        /\ x.ended = loop[l].ended
    BY <1>1, <2>1 DEF Turn, LoopSteps, Charged
  <2>3. /\ loop[l].step \in Charged /\ status' = status /\ ~loop[l].ended
        /\ loop' = [loop EXCEPT ![l] = x]
    BY <1>6, <2>1 DEF CallTool, In, Charged
  <2>4. Turns(l, x)
    BY <2>2, <2>3 DEF Turns, Charged
  <2> QED
    BY <1>1, <1>2, <2>2, <2>3, <2>4 DEF Leaves, RTypes
<1> QED
  BY <1>3, <1>4, <1>5, <1>6

\* People and the verifier.
LEMMA CaseSteps ==
  ASSUME RInv, (Verify /\ Sound) \/ \E f \in Fields : Confirm(f) \/ (Resume(f) /\ Sound)
  PROVE  RInv'
<1>1. /\ UNCHANGED <<active, minted, pending, starter, loop>> /\ Endures
      /\ ready' \subseteq ready \cup {None}
      /\ status' = status \/ status' = "VERIFIED"
  BY DEF Verify, Confirm, Resume, store, Endures
<1>2. Leaves
  BY <1>1 DEF Leaves, RInv, RTypes, Statuses
<1> QED
  BY <1>1, <1>2, CaseMoves

-----------------------------------------------------------------------------
(* Theorems *)

LEMMA RInit_RInv ==
  ASSUME RInit
  PROVE  RInv
<1>1. /\ status \in STARTABLE /\ suffered = "none"
      /\ active = None /\ ready = {None} /\ pending = {} /\ minted = 0
      /\ starter = [s \in Starters |-> Idle] /\ loop = [l \in Loops |-> Away]
  BY DEF RInit, Begin
<1>2. /\ \A s \in Starters : starter[s] = Idle
      /\ \A l \in Loops : loop[l] = Away
      /\ starter \in [Starters -> Start] /\ loop \in [Loops -> Turn]
  BY <1>1, IdleIsStart, AwayIsTurn
<1>3. RTypes
  <2>1. \A s \in Starters : starter[s].step = "idle"
    BY <1>2, IdleIsStart
  <2>2. \A l \in Loops : loop[l].step = "idle"
    BY <1>2, AwayIsTurn
  <2>3. status \in Statuses /\ active \in Nat /\ ready \subseteq Nat /\ pending \subseteq Events /\ minted \in Nat
    BY <1>1 DEF Statuses, None
  <2> QED
    BY <1>1, <1>2, <2>1, <2>2, <2>3 DEF RTypes, Holding, Charged
<1>4. Minted
  BY <1>1, <1>2, IdleIsStart, AwayIsTurn DEF Minted, None
<1>5. Enters /\ Exclusive /\ Unique
  BY <1>1, <1>2, IdleIsStart, AwayIsTurn DEF Enters, Exclusive, Unique, Holding, Charged
<1>6. Investigated
  BY <1>1, <1>2 DEF Investigated, Owned, STARTABLE
<1> QED
  BY <1>3, <1>4, <1>5, <1>6 DEF RInv

LEMMA RInv_Next ==
  ASSUME RInv, [RStep]_vars
  PROVE  RInv'
<1>1. CASE UNCHANGED vars
  BY <1>1 DEF vars, store, RInv, RTypes, Minted, Enters, Exclusive, Unique, Investigated, Owned
<1>2. ASSUME NEW s \in Starters, StarterNext(s) PROVE RInv'
  <2>1. CASE Deliver(s)
    BY <2>1, DeliverStep
  <2>2. CASE Invoke(s)
    <3>1. \/ Spawn(starter[s].run)
          \/ UNCHANGED loop /\ Go(s, "unreached") /\ Sound
      BY <2>2 DEF Invoke
    <3> QED
      BY <2>2, <3>1, SpawnStep, UnreachedSteps
  <2>3. CASE (PublishPending(s) \/ Refuse(s) \/ PutEvent(s) \/ Publish(s)) /\ Sound
    BY <2>3, StarterSteps1
  <2>4. CASE Claim(s) /\ Sound
    BY <2>4, ClaimStep, StarterSteps1
  <2>5. CASE Enter(s) \/ Unreached(s) \/ (GiveUp(s) /\ Sound)
    BY <2>5, EnterStep, UnreachedSteps, GiveUpStep
  <2> QED
    BY <1>2, <2>1, <2>2, <2>3, <2>4, <2>5 DEF StarterNext
<1>3. ASSUME NEW l \in Loops, LoopNext(l) \/ ((\E t \in Asks : CallTool(l, t)) /\ Sound) PROVE RInv'
  BY <1>3, LoopWorks, ReleaseRunStep, AfterFailureStep DEF LoopNext
<1>4. CASE (\E s \in Starters : Stop(s)) \/ (\E l \in Loops : Die(l))
  BY <1>4, StopSteps
<1>5. CASE (Verify /\ Sound) \/ \E f \in Fields : Confirm(f) \/ (Resume(f) /\ Sound)
  BY <1>5, CaseSteps
<1>6. CASE StartRun /\ Sound
  BY <1>6, StartRunStep
<1> QED
  BY <1>1, <1>2, <1>3, <1>4, <1>5, <1>6 DEF RStep, RNext

\* The invariant of the run starter, the loops and the planner, in every behaviour.
THEOREM RunsInvariance == RSpec => []RInv
<1>1. RInit => RInv
  BY RInit_RInv
<1>2. RInv /\ [RStep]_vars => RInv'
  BY RInv_Next
<1> QED
  BY <1>1, <1>2, PTL DEF RSpec

\* However starters, events and loops overlap, the agent that works on a case holds its claim,
\* and no other does: unless the runtime began a run the starter believes it did not reach.
THEOREM OneAgentAtATime == RSpec => []OneRun
<1>1. RInv => OneRun
  <2> SUFFICES ASSUME RInv, suffered # "lost", NEW l \in InCharge
               PROVE  active = loop[l].run /\ InCharge = {l}
    BY DEF OneRun
  <2>1. Exclusive /\ l \in Loops /\ loop[l].step \in Charged
    BY DEF RInv, InCharge, Charged
  <2>2. \A k \in Loops : loop[k].step \in Charged => k = l
    BY <2>1 DEF Exclusive
  <2> QED
    BY <2>1, <2>2 DEF Exclusive, InCharge, Charged
<1> QED
  BY <1>1, RunsInvariance, PTL

\* As long as no invocation stops and META is not busy at a failed run's last move, a case that is
\* investigated has a claim on it or an agent that is about to end the investigation.
THEOREM InvestigationsAreOwned == RSpec => []InvestigationIsOwned
<1>1. RInv => InvestigationIsOwned
  BY DEF RInv, Investigated, Owned, InvestigationIsOwned, In
<1> QED
  BY <1>1, RunsInvariance, PTL

-----------------------------------------------------------------------------
(* Failures in a row: the inductive invariant                              *)
(*                                                                         *)
(* As long as nothing goes wrong a run leaves one record and the query     *)
(* knows it, so every failure that moved nothing is among the records that *)
(* consecutive_failures counts; and once there is one, only a run's own    *)
(* steps move the case it investigates.                                    *)

\* The run is requested, being started or at work: it has no record yet.
Current(r) ==
  \/ r \in ready
  \/ \E s \in Starters : starter[s].step \in Fresh \cup Holding /\ starter[s].run = r
  \/ \E l \in Loops : loop[l].step \in Charged /\ loop[l].run = r

Records == history \in Seq([run : Nat, failed : BOOLEAN]) /\ idleFailures \in Nat
RecordedOnce ==
  \A i \in 1..Len(history) :
    /\ history[i].run \in 1..minted /\ ~Current(history[i].run)
    /\ \A j \in 1..Len(history) : history[j].run = history[i].run => j = i
\* The records that stand and the failures in a row where every put is known
Stands == Standing(Len(history))
InARow == Failures(Len(history))
AllCounted == idleFailures <= InARow
OwnMoves ==
  idleFailures > 0 =>
    /\ \A s \in Starters :
         /\ starter[s].step \in {"invoke", "unreached"} => status = "INVESTIGATING"
         /\ starter[s].step = "give up" => status = "ESCALATED"
    /\ \A l \in Loops : loop[l].step \in Charged /\ ~loop[l].moved => status = "INVESTIGATING"
WaitIsAsked ==
  idleFailures > 1 /\ status = "WAITING_PLANNER" =>
    \E l \in Loops : loop[l].step \in Charged /\ loop[l].moved
Escalates == RecordedOnce /\ AllCounted /\ OwnMoves /\ WaitIsAsked
FInv == suffered = "none" => Records /\ Escalates

\* The names of the runs that have no record are old ones or new.
OldNames == \A r \in Nat : r # None /\ Current(r)' => Current(r) \/ r > minted

LEMMA NamesKept ==
  ASSUME Records, RecordedOnce, OldNames, UNCHANGED history,
         minted \in Nat, minted' \in Nat, minted <= minted'
  PROVE  RecordedOnce'
<1> SUFFICES ASSUME NEW i \in 1..Len(history)
             PROVE  /\ history[i].run \in 1..minted' /\ ~Current(history[i].run)'
                    /\ \A j \in 1..Len(history) : history[j].run = history[i].run => j = i
  BY DEF RecordedOnce, Current
<1>1. PICK r : r = history[i].run
  OBVIOUS
<1>2. r \in 1..minted /\ ~Current(r)
  BY <1>1 DEF RecordedOnce
<1>3. r \in Nat /\ r # None /\ ~(r > minted) /\ r \in 1..minted'
  BY <1>2 DEF None
<1>4. ~Current(r)'
  BY <1>2, <1>3 DEF OldNames
<1> QED
  BY <1>1, <1>3, <1>4 DEF RecordedOnce, Current

LEMMA NamesStay ==
  ASSUME Records, RecordedOnce, OldNames, UNCHANGED <<history, minted>>, minted \in Nat
  PROVE  RecordedOnce'
<1>1. minted' \in Nat /\ minted <= minted'
  OBVIOUS
<1> QED
  BY <1>1, NamesKept

\* The records from the last that did not fail on
Failing == {i \in Stands : \A j \in Stands : i <= j => history[j].failed}

LEMMA FailingIsFinite ==
  ASSUME Records
  PROVE  IsFiniteSet(Failing) /\ InARow \in Nat /\ InARow = Cardinality(Failing)
         /\ Failing \subseteq 1..Len(history) /\ Len(history) \in Nat
<1>1. Len(history) \in Nat
  BY DEF Records
<1>2. IsFiniteSet(1..Len(history))
  BY <1>1, FS_Interval
<1>3. Failing \subseteq 1..Len(history)
  BY DEF Failing, Stands, Standing
<1>4. IsFiniteSet(Failing)
  BY <1>2, <1>3, FS_Subset
<1>5. InARow = Cardinality(Failing)
  BY DEF InARow, Failures, Failing, Stands
<1> QED
  BY <1>1, <1>3, <1>4, <1>5, FS_CardinalityType

LEMMA FailuresPrimed ==
  ASSUME Records'
  PROVE  InARow' \in Nat
<1>1. Len(history') \in Nat
  BY DEF Records
<1>2. IsFiniteSet(1..Len(history'))
  BY <1>1, FS_Interval
<1>3. Failing' \subseteq 1..Len(history')
  BY DEF Failing, Stands, Standing
<1>4. IsFiniteSet(Failing')
  BY <1>2, <1>3, FS_Subset
<1>5. InARow' = Cardinality(Failing')
  BY DEF InARow, Failures, Failing, Stands
<1> QED
  BY <1>4, <1>5, FS_CardinalityType

\* When each run has one record they all stand.
LEMMA OneRecordEach ==
  ASSUME Len(history) \in Nat, RecordedOnce
  PROVE  Stands = 1..Len(history)
<1>1. ASSUME NEW i \in 1..Len(history), NEW j \in (i + 1)..Len(history)
      PROVE  history[j].run # history[i].run
  <2>1. j \in 1..Len(history) /\ j # i
    BY <1>1
  <2> QED
    BY <1>1, <2>1 DEF RecordedOnce
<1> QED
  BY <1>1 DEF Stands, Standing

\* A failure recorded for the first time is one more in a row.
LEMMA RecordedStep ==
  ASSUME Records, RecordedOnce, OldNames, NEW run \in Nat, NEW failed \in BOOLEAN,
         minted \in Nat, UNCHANGED minted, run \in 1..minted, Current(run), ~Current(run)',
         history' = Recorded(run, failed)
  PROVE  /\ history' \in Seq([run : Nat, failed : BOOLEAN])
         /\ RecordedOnce'
         /\ failed => InARow' = InARow + 1
<1>1. PICK n \in Nat : n = Len(history)
  BY DEF Records
<1>2. /\ history' \in Seq([run : Nat, failed : BOOLEAN]) /\ Len(history') = n + 1
      /\ history'[n + 1].run = run /\ history'[n + 1].failed = failed
      /\ \A i \in 1..n : history'[i] = history[i]
  BY <1>1 DEF Records, Recorded
<1>3. \A i \in 1..n : history[i].run # run
  BY <1>1 DEF RecordedOnce
<1>4. \A i \in 1..(n + 1) : i \in 1..n \/ i = n + 1
  BY <1>1
<1>5. ASSUME NEW i \in 1..(n + 1)
      PROVE  /\ history'[i].run \in 1..minted' /\ ~Current(history[i].run)'
             /\ \A j \in 1..(n + 1) : history'[j].run = history'[i].run => j = i
  <2>1. CASE i = n + 1
    <3>1. \A j \in 1..(n + 1) : history'[j].run = run => j = n + 1
      BY <1>2, <1>3, <1>4
    <3>2. ~Current(history[i].run)'
      BY <1>2, <2>1 DEF Current
    <3> QED
      BY <1>2, <2>1, <3>1, <3>2
  <2>2. CASE i \in 1..n
    <3>1. PICK r : r = history[i].run
      OBVIOUS
    <3>2. r \in 1..minted /\ ~Current(r) /\ \A j \in 1..n : history[j].run = r => j = i
      BY <1>1, <2>2, <3>1 DEF RecordedOnce
    <3>3. r \in Nat /\ r # None /\ ~(r > minted)
      BY <3>2 DEF None
    <3>4. ~Current(r)'
      BY <3>2, <3>3 DEF OldNames
    <3>5. history'[i].run = r /\ r # run
      BY <1>2, <1>3, <2>2, <3>1
    <3>6. \A j \in 1..(n + 1) : history'[j].run = r => j = i
      BY <1>2, <1>4, <3>2, <3>5
    <3>7. ~Current(history[i].run)'
      BY <3>4, <3>5 DEF Current
    <3> QED
      BY <3>2, <3>5, <3>6, <3>7
  <2> QED
    BY <1>4, <2>1, <2>2
<1>6. RecordedOnce'
  BY <1>2, <1>5 DEF RecordedOnce
<1>7. ASSUME failed PROVE InARow' = InARow + 1
  <2>1. Stands = 1..n
    BY <1>1, OneRecordEach
  <2>2. Stands' = 1..(n + 1)
    <3>1. ASSUME NEW i \in 1..(n + 1), NEW j \in (i + 1)..(n + 1)
          PROVE  history'[j].run # history'[i].run
      <4>1. j \in 1..(n + 1) /\ j # i
        BY <3>1
      <4> QED
        BY <1>5, <4>1
    <3> QED
      BY <1>2, <3>1 DEF Stands, Standing
  <2>3. Failing' = Failing \cup {n + 1}
    <3>1. \A i \in 1..n : i \in Failing' <=> i \in Failing
      <4> SUFFICES ASSUME NEW i \in 1..n PROVE i \in Failing' <=> i \in Failing
        OBVIOUS
      <4>1. i \in Failing <=> \A j \in 1..n : i <= j => history[j].failed
        BY <2>1 DEF Failing
      <4>2. i \in Failing' <=> \A j \in 1..(n + 1) : i <= j => history'[j].failed
        BY <2>2, <1>4 DEF Failing
      <4>3. (\A j \in 1..n : i <= j => history[j].failed)
              => \A j \in 1..(n + 1) : i <= j => history'[j].failed
        BY <1>2, <1>4, <1>7
      <4>4. (\A j \in 1..(n + 1) : i <= j => history'[j].failed)
              => \A j \in 1..n : i <= j => history[j].failed
        BY <1>2
      <4> QED
        BY <4>1, <4>2, <4>3, <4>4
    <3>2. n + 1 \in Failing'
      <4>1. \A j \in 1..(n + 1) : n + 1 <= j => j = n + 1
        OBVIOUS
      <4>2. \A j \in 1..(n + 1) : n + 1 <= j => history'[j].failed
        BY <1>2, <1>7, <4>1
      <4> QED
        BY <2>2, <4>2 DEF Failing
    <3>3. Failing \subseteq 1..n /\ Failing' \subseteq 1..(n + 1)
      BY <2>1, <2>2 DEF Failing
    <3> QED
      BY <1>4, <3>1, <3>2, <3>3
  <2>4. IsFiniteSet(Failing) /\ InARow = Cardinality(Failing) /\ n + 1 \notin Failing
    <3>1. Failing \subseteq 1..n
      BY <2>1 DEF Failing
    <3> QED
      BY <3>1, FailingIsFinite
  <2>5. Cardinality(Failing \cup {n + 1}) = Cardinality(Failing) + 1
    BY <2>4, FS_AddElement
  <2>6. InARow' = Cardinality(Failing')
    BY DEF InARow, Failures, Failing, Stands
  <2> QED
    BY <2>3, <2>4, <2>5, <2>6
<1> QED
  BY <1>2, <1>6, <1>7

LEMMA StarterMoves ==
  ASSUME RTypes, NEW s \in Starters, NEW e, starter' = [starter EXCEPT ![s].step = e]
  PROVE  /\ starter'[s].step = e /\ starter'[s].run = starter[s].run
         /\ \A t \in Starters \ {s} : starter'[t] = starter[t]
<1>1. starter[s] \in Start
  BY DEF RTypes
<1>2. PICK r : r = [starter[s] EXCEPT !.step = e]
  OBVIOUS
<1>3. r.step = e /\ r.run = starter[s].run
  BY <1>1, <1>2 DEF Start
<1> QED
  BY <1>2, <1>3 DEF RTypes

LEMMA LoopMoves ==
  ASSUME RTypes, NEW l \in Loops, NEW e, loop' = [loop EXCEPT ![l].step = e]
  PROVE  /\ loop'[l].step = e /\ loop'[l].run = loop[l].run /\ loop'[l].moved = loop[l].moved
         /\ \A k \in Loops \ {l} : loop'[k] = loop[k]
<1>1. loop[l] \in Turn
  BY DEF RTypes
<1>2. PICK x : x = [loop[l] EXCEPT !.step = e]
  OBVIOUS
<1>3. x.step = e /\ x.run = loop[l].run /\ x.moved = loop[l].moved
  BY <1>1, <1>2 DEF Turn
<1> QED
  BY <1>2, <1>3 DEF RTypes

LEMMA StarterReturns ==
  ASSUME RTypes, NEW s \in Starters, starter' = [starter EXCEPT ![s] = Idle]
  PROVE  starter'[s] = Idle /\ \A t \in Starters \ {s} : starter'[t] = starter[t]
BY DEF RTypes

LEMMA LoopLeaves ==
  ASSUME RTypes, NEW l \in Loops, Leave(l)
  PROVE  loop'[l] = Away /\ \A k \in Loops \ {l} : loop'[k] = loop[k]
BY DEF RTypes, Leave

\* A step that neither records nor moves the case: who works on it goes on with it.
GoesOn ==
  /\ UNCHANGED <<status, history, idleFailures>>
  /\ \A s \in Starters :
       /\ starter'[s].step \in {"invoke", "unreached"} => starter[s].step \in {"invoke", "unreached"}
       /\ starter'[s].step = "give up" => starter[s].step = "give up"
  /\ \A l \in Loops :
       /\ loop'[l].step \in Charged /\ ~loop'[l].moved =>
            \/ loop[l].step \in Charged /\ ~loop[l].moved
            \/ \E s \in Starters : starter[s].step = "invoke"
       /\ loop[l].step \in Charged /\ loop[l].moved => loop'[l].step \in Charged /\ loop'[l].moved

LEMMA GoesOnStep ==
  ASSUME Records, Escalates, GoesOn, OldNames, minted \in Nat, minted' \in Nat, minted <= minted'
  PROVE  Escalates'
<1>1. RecordedOnce'
  BY NamesKept DEF Escalates, GoesOn
<1>2. AllCounted'
  BY DEF Escalates, AllCounted, GoesOn, InARow, Failures, Standing
<1>3. OwnMoves'
  BY DEF Escalates, OwnMoves, GoesOn
<1>4. WaitIsAsked'
  BY DEF Escalates, WaitIsAsked, GoesOn
<1> QED
  BY <1>1, <1>2, <1>3, <1>4 DEF Escalates

LEMMA NothingWorks ==
  ASSUME RInv, suffered = "none"
  PROVE  /\ Exclusive /\ Unique /\ RTypes /\ Minted /\ Enters
         /\ active = None => /\ \A s \in Starters : starter[s].step \notin Holding
                             /\ \A l \in Loops : loop[l].step \notin Charged
BY DEF RInv, Exclusive, RTypes

LEMMA StarterGoesOn ==
  ASSUME RInv, Records, Escalates, suffered = "none", NEW s \in Starters, Sound,
         Deliver(s) \/ PublishPending(s) \/ Refuse(s) \/ Claim(s) \/ Invoke(s) \/ PutEvent(s) \/ Publish(s)
  PROVE  Escalates'
<1>1. /\ RTypes /\ Minted /\ Exclusive /\ Unique /\ minted \in Nat /\ starter[s] \in Start
      /\ starter[s].run \in Nat
  BY NothingWorks DEF RTypes, Start
<1>2. UNCHANGED <<status, history, idleFailures>>
  BY DEF Deliver, PublishPending, Refuse, Claim, Invoke, PutEvent, Publish, store
<1>3. ASSUME Return(s), UNCHANGED <<loop, minted>> PROVE Escalates'
  <2>1. /\ starter'[s] = Idle /\ \A t \in Starters \ {s} : starter'[t] = starter[t]
        /\ UNCHANGED ready
    BY <1>1, <1>3, StarterReturns DEF Return
  <2>2. OldNames
    BY <1>3, <2>1, IdleIsStart DEF OldNames, Current, Fresh, Holding
  <2>3. GoesOn
    BY <1>2, <1>3, <2>1, IdleIsStart DEF GoesOn
  <2> QED
    BY <1>1, <1>3, <2>2, <2>3, GoesOnStep
<1>4. CASE Deliver(s)
  <2>1. PICK run \in ready :
          /\ ready' \subseteq ready
          /\ starter' = [starter EXCEPT ![s] =
                           [step |-> "events", event |-> run, run |-> run, seen |-> status,
                            held |-> active, todo |-> pending]]
          /\ UNCHANGED <<loop, minted>>
    BY <1>4 DEF Deliver
  <2>2. /\ starter'[s].step = "events" /\ starter'[s].run = run
        /\ \A t \in Starters \ {s} : starter'[t] = starter[t]
    BY <1>1, <2>1 DEF RTypes
  <2>3. OldNames
    BY <2>1, <2>2 DEF OldNames, Current
  <2>4. GoesOn
    BY <1>2, <2>1, <2>2 DEF GoesOn
  <2> QED
    BY <1>1, <2>1, <2>3, <2>4, GoesOnStep
<1>5. CASE PublishPending(s)
  <2>1. CASE Return(s)
    BY <1>3, <1>5, <2>1 DEF PublishPending
  <2>2. CASE ~Return(s)
    <3>1. PICK p : starter' = [starter EXCEPT ![s].todo = @ \ {p}]
      BY <1>5, <2>2 DEF PublishPending
    <3>2. UNCHANGED <<ready, loop, minted>>
      BY <1>5, <2>2 DEF PublishPending
    <3>3. PICK r : r = [starter[s] EXCEPT !.todo = @ \ {p}]
      OBVIOUS
    <3>4. r.step = starter[s].step /\ r.run = starter[s].run
      BY <1>1, <3>3 DEF Start
    <3>5. starter'[s] = r /\ \A t \in Starters \ {s} : starter'[t] = starter[t]
      BY <1>1, <3>1, <3>3 DEF RTypes
    <3>6. OldNames
      BY <3>2, <3>4, <3>5 DEF OldNames, Current
    <3>7. GoesOn
      BY <1>2, <3>2, <3>4, <3>5 DEF GoesOn
    <3> QED
      BY <1>1, <3>2, <3>6, <3>7, GoesOnStep
  <2> QED
    BY <2>1, <2>2
<1>6. CASE Refuse(s) \/ Publish(s) \/ (Claim(s) /\ active # None)
  BY <1>3, <1>6 DEF Refuse, Publish, Claim, Quit
<1>7. CASE Claim(s) /\ active = None
  <2>1. PICK run : run = IF starter[s].run = None THEN minted + 1 ELSE starter[s].run
    OBVIOUS
  <2>2. /\ starter[s].step = "events" /\ run \in Runs
        /\ minted' = (IF run > minted THEN run ELSE minted)
        /\ starter' = [starter EXCEPT ![s].step = "enter", ![s].run = run, ![s].held = None]
        /\ UNCHANGED <<ready, loop>>
    BY <1>7, <2>1 DEF Claim, At
  <2>3. PICK r : r = [starter[s] EXCEPT !.step = "enter", !.run = run, !.held = None]
    OBVIOUS
  <2>4. r.step = "enter" /\ r.run = run
    BY <1>1, <2>3 DEF Start
  <2>5. starter'[s] = r /\ \A t \in Starters \ {s} : starter'[t] = starter[t]
    BY <1>1, <2>2, <2>3 DEF RTypes
  <2>6. run \in Nat /\ minted' \in Nat /\ minted <= minted'
    BY <1>1, <2>2, RunsAreBounded DEF Runs
  <2>7. run = starter[s].run \/ run > minted
    BY <1>1, <2>1
  <2>8. OldNames
    BY <2>2, <2>4, <2>5, <2>7 DEF OldNames, Current, Fresh
  <2>9. GoesOn
    BY <1>2, <2>2, <2>4, <2>5 DEF GoesOn
  <2> QED
    BY <1>1, <2>6, <2>8, <2>9, GoesOnStep
<1>8. CASE PutEvent(s)
  <2>1. UNCHANGED <<ready, loop, minted>>
    BY <1>8 DEF PutEvent
  <2>2. minted' \in Nat /\ minted <= minted'
    BY <1>1, <2>1
  <2>3. PICK step : /\ starter' = [starter EXCEPT ![s].step = step]
                    /\ step \notin Fresh \cup Holding
    BY <1>8 DEF PutEvent, Go, Fresh, Holding
  <2>4. /\ starter'[s].step = step /\ starter'[s].run = starter[s].run
        /\ \A t \in Starters \ {s} : starter'[t] = starter[t]
    BY <1>1, <2>3, StarterMoves
  <2>5. OldNames
    BY <2>1, <2>3, <2>4 DEF OldNames, Current
  <2>6. GoesOn
    BY <1>2, <2>1, <2>3, <2>4 DEF GoesOn, Fresh, Holding
  <2> QED
    BY <1>1, <2>2, <2>5, <2>6, GoesOnStep
<1>9. CASE Invoke(s)
  <2>1. PICK step \in {"started", "unreached"} : starter' = [starter EXCEPT ![s].step = step]
    BY <1>9 DEF Invoke, Go
  <2>2. /\ UNCHANGED <<ready, minted>> /\ starter[s].step = "invoke"
        /\ Spawn(starter[s].run) \/ UNCHANGED loop
    BY <1>9 DEF Invoke, At
  <2>3. /\ starter'[s].step = step /\ starter'[s].run = starter[s].run
        /\ \A t \in Starters \ {s} : starter'[t] = starter[t]
    BY <1>1, <2>1, StarterMoves
  <2>4. \A l \in Loops : \/ loop'[l] = loop[l]
                         \/ /\ loop[l].step = "idle" /\ loop'[l].step = "begin"
                            /\ loop'[l].run = starter[s].run /\ ~loop'[l].moved
    <3>1. CASE UNCHANGED loop
      BY <3>1
    <3>2. CASE Spawn(starter[s].run)
      <4>1. PICK l \in Loops : /\ loop[l].step = "idle"
                               /\ loop' = [loop EXCEPT ![l] = [Away EXCEPT !.step = "begin",
                                                                           !.run = starter[s].run]]
        BY <3>2 DEF Spawn
      <4>2. PICK x : x = [Away EXCEPT !.step = "begin", !.run = starter[s].run]
        OBVIOUS
      <4>3. x.step = "begin" /\ x.run = starter[s].run /\ ~x.moved
        BY <4>2 DEF Away
      <4>4. loop'[l] = x /\ \A k \in Loops \ {l} : loop'[k] = loop[k]
        BY <1>1, <4>1, <4>2 DEF RTypes
      <4> QED
        BY <4>1, <4>3, <4>4
    <3> QED
      BY <2>2, <3>1, <3>2
  <2>5. OldNames
    BY <2>1, <2>2, <2>3, <2>4 DEF OldNames, Current, Fresh, Holding
  <2>6. GoesOn
    <3>1. \A l \in Loops : /\ loop'[l].step \in Charged /\ ~loop'[l].moved =>
                                \/ loop[l].step \in Charged /\ ~loop[l].moved
                                \/ \E t \in Starters : starter[t].step = "invoke"
                           /\ loop[l].step \in Charged /\ loop[l].moved =>
                                loop'[l].step \in Charged /\ loop'[l].moved
      BY <2>2, <2>4 DEF Charged
    <3> QED
      BY <1>2, <2>1, <2>2, <2>3, <3>1 DEF GoesOn
  <2> QED
    BY <1>1, <2>2, <2>5, <2>6, GoesOnStep
<1> QED
  BY <1>4, <1>5, <1>6, <1>7, <1>8, <1>9

\* A run that is released leaves the only record of it.
LEMMA Released ==
  ASSUME Records, Escalates, minted \in Nat, UNCHANGED <<minted, ready>>,
         NEW run \in 1..minted, NEW failed \in BOOLEAN, history' = Recorded(run, failed),
         Current(run), run \notin ready,
         \A s \in Starters :
           \/ starter'[s].step \notin Fresh \cup Holding
           \/ starter'[s] = starter[s] /\ starter[s].run # run
           \/ starter'[s] = starter[s] /\ starter[s].step \notin Fresh \cup Holding,
         \A l \in Loops :
           \/ loop'[l].step \notin Charged
           \/ loop'[l] = loop[l] /\ loop[l].run # run
           \/ loop'[l] = loop[l] /\ loop[l].step \notin Charged
  PROVE  /\ history' \in Seq([run : Nat, failed : BOOLEAN])
         /\ RecordedOnce'
         /\ failed => InARow' = InARow + 1
         /\ InARow \in Nat
<1>1. OldNames
  BY DEF OldNames, Current
<1>2. ~Current(run)'
  BY DEF Current
<1>3. run \in Nat
  OBVIOUS
<1> QED
  BY <1>1, <1>2, <1>3, RecordedStep, FailingIsFinite DEF Escalates

\* A starter that enters works on the case alone; one that finds it changed records a failure.
LEMMA EnterCounts ==
  ASSUME RInv, Records, Escalates, suffered = "none", NEW s \in Starters, Enter(s)
  PROVE  Records' /\ Escalates'
<1>1. PICK run : run = starter[s].run
  OBVIOUS
<1>2. /\ RTypes /\ Minted /\ Exclusive /\ Unique /\ starter[s].step = "enter"
      /\ UNCHANGED <<loop, minted, idleFailures>>
  BY NothingWorks DEF Enter, At
<1>3. minted \in Nat /\ run \in 1..minted /\ run # None
  <2>1. minted \in Nat /\ run \in Nat /\ run # 0 /\ run <= minted
    BY <1>1, <1>2 DEF RTypes, Start, Minted, Holding, None
  <2> QED
    BY <2>1 DEF None
<1>4. /\ \A t \in Starters : starter[t].step \in Holding => t = s
      /\ \A l \in Loops : loop[l].step \notin Charged
      /\ Current(run)
  BY <1>1, <1>2 DEF Exclusive, Current, Holding
<1>5. CASE status' = "INVESTIGATING" /\ Go(s, "invoke") /\ UNCHANGED <<history, ready>>
  <2>1. /\ status' = "INVESTIGATING" /\ UNCHANGED <<ready, history>>
        /\ starter' = [starter EXCEPT ![s].step = "invoke"]
    BY <1>5 DEF Go
  <2>2. /\ starter'[s].step = "invoke" /\ starter'[s].run = starter[s].run
        /\ \A t \in Starters \ {s} : starter'[t] = starter[t]
    BY <1>2, <2>1, StarterMoves
  <2>3. OldNames
    BY <1>2, <2>1, <2>2 DEF OldNames, Current, Fresh, Holding
  <2>4. RecordedOnce'
    BY <1>2, <1>3, <2>1, <2>3, NamesKept DEF Escalates
  <2>5. AllCounted'
    BY <1>2, <2>1 DEF Escalates, AllCounted, InARow, Failures, Standing
  <2>6. OwnMoves'
    <3>1. \A t \in Starters : starter'[t].step # "give up"
      BY <1>4, <2>2 DEF Holding
    <3> QED
      BY <2>1, <3>1 DEF OwnMoves
  <2>7. WaitIsAsked'
    BY <2>1 DEF WaitIsAsked
  <2> QED
    BY <1>2, <2>1, <2>4, <2>5, <2>6, <2>7 DEF Records, Escalates
<1>6. CASE Release(starter[s].run, TRUE) /\ Quit(s) /\ UNCHANGED status
  <2>1. /\ history' = Recorded(run, TRUE) /\ UNCHANGED <<status, ready>>
        /\ starter' = [starter EXCEPT ![s] = Idle]
    BY <1>1, <1>6 DEF Release, Quit, Return
  <2>2. starter'[s] = Idle /\ \A t \in Starters \ {s} : starter'[t] = starter[t]
    BY <1>2, <2>1, StarterReturns
  <2>3. run \notin ready /\ \A t \in Starters \ {s} : starter[t].run # run
    BY <1>1, <1>2, <1>3 DEF Unique
  <2>4. /\ history' \in Seq([run : Nat, failed : BOOLEAN]) /\ RecordedOnce'
        /\ InARow' = InARow + 1 /\ InARow \in Nat
    <3>1. \A t \in Starters : \/ starter'[t].step \notin Fresh \cup Holding
                              \/ starter'[t] = starter[t] /\ starter[t].run # run
      BY <2>2, <2>3, IdleIsStart DEF Fresh, Holding
    <3>2. \A l \in Loops : loop'[l].step \notin Charged
      BY <1>2, <1>4
    <3> QED
      BY <1>2, <1>3, <1>4, <2>1, <2>3, <3>1, <3>2, Released
  <2>5. AllCounted'
    BY <1>2, <2>4 DEF Records, Escalates, AllCounted
  <2>6. OwnMoves'
    BY <1>2, <1>4, <2>1, <2>2, IdleIsStart DEF Escalates, OwnMoves, Holding
  <2>7. WaitIsAsked'
    BY <1>2, <2>1 DEF Escalates, WaitIsAsked
  <2> QED
    BY <1>2, <2>4, <2>5, <2>6, <2>7 DEF Records, Escalates
<1> QED
  BY <1>5, <1>6 DEF Enter

\* A runtime that is not reached after a failure: the failures count two with this one.
LEMMA UnreachedCounts ==
  ASSUME RInv, Records, Escalates, suffered = "none", suffered' = "none", NEW s \in Starters, Unreached(s)
  PROVE  Escalates'
<1>1. /\ RTypes /\ Exclusive /\ starter[s].step = "unreached" /\ minted \in Nat
      /\ starter' = [starter EXCEPT ![s].step = "give up"]
      /\ UNCHANGED <<loop, minted, ready, history, idleFailures>>
  BY NothingWorks DEF Unreached, At, Go, RTypes
<1>2. /\ starter'[s].step = "give up" /\ starter'[s].run = starter[s].run
      /\ \A t \in Starters \ {s} : starter'[t] = starter[t]
  BY <1>1, StarterMoves
<1>3. /\ \A t \in Starters : starter[t].step \in Holding => t = s
      /\ \A l \in Loops : loop[l].step \notin Charged
  BY <1>1 DEF Exclusive, Holding
<1>4. idleFailures > 0 => status' = "ESCALATED"
  <2>1. idleFailures \in Nat /\ InARow \in Nat /\ idleFailures <= InARow
    BY FailingIsFinite DEF Records, Escalates, AllCounted
  <2>2. idleFailures > 0 => status = "INVESTIGATING"
    BY <1>1 DEF Escalates, OwnMoves
  <2>3. status' = IF status # "INVESTIGATING" THEN status
                  ELSE IF InARow >= 1 THEN "ESCALATED" ELSE "WAITING_PLANNER"
    <3>1. PICK n \in 0..Len(history) :
            /\ Known(n)
            /\ status' = IF status # "INVESTIGATING" THEN status
                         ELSE IF Failures(n) >= 1 THEN "ESCALATED" ELSE "WAITING_PLANNER"
      BY DEF Unreached
    <3>2. n = Len(history)
      BY <3>1 DEF Known, Suffer
    <3> QED
      BY <3>1, <3>2 DEF InARow
  <2> QED
    BY <2>1, <2>2, <2>3
<1>5. RecordedOnce'
  <2>1. OldNames
    BY <1>1, <1>2 DEF OldNames, Current, Fresh, Holding
  <2> QED
    BY <1>1, <2>1, NamesStay DEF Escalates
<1>6. AllCounted'
  BY <1>1 DEF Escalates, AllCounted, InARow, Failures, Standing
<1>7. OwnMoves'
  BY <1>1, <1>2, <1>3, <1>4 DEF OwnMoves, Holding
<1>8. WaitIsAsked'
  <2>1. idleFailures > 1 => idleFailures > 0
    BY DEF Records
  <2> QED
    BY <1>1, <1>4, <2>1 DEF WaitIsAsked
<1> QED
  BY <1>5, <1>6, <1>7, <1>8 DEF Escalates

LEMMA GiveUpCounts ==
  ASSUME RInv, Records, Escalates, suffered = "none", NEW s \in Starters, GiveUp(s)
  PROVE  Records' /\ Escalates'
<1>1. PICK run : run = starter[s].run
  OBVIOUS
<1>2. /\ RTypes /\ Minted /\ Exclusive /\ Unique /\ starter[s].step = "give up"
      /\ starter' = [starter EXCEPT ![s].step = "ended"]
      /\ idleFailures' = idleFailures + 1 /\ history' = Recorded(run, TRUE)
      /\ UNCHANGED <<loop, minted, ready, status>>
  BY <1>1, NothingWorks DEF GiveUp, At, Go, Count, Release
<1>3. minted \in Nat /\ run \in 1..minted /\ run # None
  <2>1. minted \in Nat /\ run \in Nat /\ run # 0 /\ run <= minted
    BY <1>1, <1>2 DEF RTypes, Start, Minted, Holding, None
  <2> QED
    BY <2>1 DEF None
<1>4. /\ starter'[s].step = "ended" /\ \A t \in Starters \ {s} : starter'[t] = starter[t]
  BY <1>2, StarterMoves
<1>5. /\ \A t \in Starters : starter[t].step \in Holding => t = s
      /\ \A l \in Loops : loop[l].step \notin Charged
      /\ Current(run) /\ run \notin ready
      /\ \A t \in Starters \ {s} : starter[t].run # run
  BY <1>1, <1>2, <1>3 DEF Exclusive, Unique, Current, Holding
<1>6. /\ history' \in Seq([run : Nat, failed : BOOLEAN]) /\ RecordedOnce'
      /\ InARow' = InARow + 1 /\ InARow \in Nat
  <2>1. \A t \in Starters : \/ starter'[t].step \notin Fresh \cup Holding
                            \/ starter'[t] = starter[t] /\ starter[t].run # run
    BY <1>4, <1>5 DEF Fresh, Holding
  <2>2. \A l \in Loops : loop'[l].step \notin Charged
    BY <1>2, <1>5
  <2> QED
    BY <1>2, <1>3, <1>5, <2>1, <2>2, Released
<1>7. AllCounted' /\ idleFailures' \in Nat
  <2>1. idleFailures' = idleFailures + 1
    BY <1>2
  <2> QED
    BY <1>6, <2>1 DEF Records, Escalates, AllCounted
<1>8. OwnMoves'
  BY <1>2, <1>4, <1>5 DEF OwnMoves, Holding
<1>9. WaitIsAsked'
  <2>0. idleFailures' = idleFailures + 1
    BY <1>2
  <2>1. idleFailures' > 1 => idleFailures > 0
    BY <2>0 DEF Records
  <2> QED
    BY <1>2, <2>1 DEF Escalates, OwnMoves, WaitIsAsked
<1> QED
  BY <1>6, <1>7, <1>8, <1>9 DEF Records, Escalates

LEMMA LoopGoesOn ==
  ASSUME RInv, Records, Escalates, suffered = "none", NEW l \in Loops,
         BeginRun(l) \/ FailRun(l) \/ (\E t \in Asks : CallTool(l, t))
  PROVE  Escalates'
<1>1. /\ RTypes /\ minted \in Nat /\ loop[l] \in Turn
      /\ UNCHANGED <<status, history, idleFailures, minted, starter, ready>>
  BY NothingWorks DEF BeginRun, FailRun, CallTool, RTypes, store
<1>2. PICK x : /\ loop' = [loop EXCEPT ![l] = x]
               /\ x.run = loop[l].run /\ x.moved = loop[l].moved
               /\ x.step \in Charged /\ loop[l].step \in Charged
  <2>1. CASE BeginRun(l) \/ FailRun(l)
    <3>1. PICK step \in {"work", "failed"} : loop' = [loop EXCEPT ![l].step = step]
      BY <2>1 DEF BeginRun, FailRun, LoopGo
    <3>2. PICK x : x = [loop[l] EXCEPT !.step = step]
      OBVIOUS
    <3>3. x.run = loop[l].run /\ x.moved = loop[l].moved /\ x.step = step
      BY <1>1, <3>2 DEF Turn
    <3> QED
      BY <2>1, <3>1, <3>2, <3>3 DEF BeginRun, FailRun, In, Charged
  <2>2. ASSUME NEW t \in Asks, CallTool(l, t)
        PROVE  \E x : /\ loop' = [loop EXCEPT ![l] = x]
                      /\ x.run = loop[l].run /\ x.moved = loop[l].moved
                      /\ x.step \in Charged /\ loop[l].step \in Charged
    <3>1. PICK x : x = [loop[l] EXCEPT !.step = "tool", !.tool = t]
      OBVIOUS
    <3>2. x.run = loop[l].run /\ x.moved = loop[l].moved /\ x.step = "tool"
      BY <1>1, <3>1 DEF Turn
    <3> QED
      BY <2>2, <3>1, <3>2 DEF CallTool, In, Charged
  <2> QED
    BY <2>1, <2>2
<1>3. loop'[l] = x /\ \A k \in Loops \ {l} : loop'[k] = loop[k]
  BY <1>1, <1>2 DEF RTypes
<1>4. OldNames
  BY <1>1, <1>2, <1>3 DEF OldNames, Current
<1>5. GoesOn
  BY <1>1, <1>2, <1>3 DEF GoesOn
<1>6. minted' \in Nat /\ minted <= minted'
  BY <1>1
<1> QED
  BY <1>1, <1>4, <1>5, <1>6, GoesOnStep

\* The loop that may move the case is the only one at work: it says so when it did.
LEMMA LoopCounts ==
  ASSUME RInv, Records, Escalates, suffered = "none", NEW l \in Loops, EndTool(l) \/ EndRun(l)
  PROVE  Escalates'
<1>1. /\ RTypes /\ Exclusive /\ minted \in Nat /\ loop[l] \in Turn /\ loop[l].step \in Charged
      /\ UNCHANGED <<history, idleFailures, minted, starter, ready>>
  BY NothingWorks DEF EndTool, EndRun, In, Charged, RTypes
<1>2. /\ \A s \in Starters : starter[s].step \notin Holding
      /\ \A k \in Loops : loop[k].step \in Charged => k = l
  BY <1>1 DEF Exclusive
<1>3. PICK x : /\ loop' = [loop EXCEPT ![l] = x]
               /\ x.run = loop[l].run /\ x.step \in Charged
               /\ x.moved = loop[l].moved \/ x.moved
               /\ x.moved \/ status' = status
  <2>1. CASE EndTool(l)
    <3>0. PICK does \in {FALSE, status = "INVESTIGATING"} : \E ended \in {FALSE, does} :
            /\ status' = IF does THEN Target(loop[l].tool) ELSE status
            /\ loop' = [loop EXCEPT ![l].step = "work", ![l].tool = "none", ![l].ended = ended,
                                    ![l].moved = @ \/ does]
      BY <2>1 DEF EndTool
    <3>1. PICK ended : loop' = [loop EXCEPT ![l].step = "work", ![l].tool = "none", ![l].ended = ended,
                                            ![l].moved = @ \/ does]
      BY <3>0
    <3>2. PICK y : y = [loop[l] EXCEPT !.step = "work", !.tool = "none", !.ended = ended]
      OBVIOUS
    <3>3. y.step = "work" /\ y.run = loop[l].run /\ y.moved = loop[l].moved
          /\ DOMAIN y = {"step", "run", "tool", "ended", "moved"}
      BY <1>1, <3>2 DEF Turn
    <3>4. PICK moved : moved = (loop[l].moved \/ does)
      OBVIOUS
    <3>5. PICK x : x = [y EXCEPT !.moved = moved]
      OBVIOUS
    <3>6. x.step = "work" /\ x.run = loop[l].run /\ x.moved = moved
      BY <3>3, <3>5
    <3>7. loop' = [loop EXCEPT ![l] = x]
      BY <1>1, <3>1, <3>2, <3>4, <3>5 DEF RTypes, Turn
    <3>8. moved \/ status' = status
      BY <3>0, <3>4
    <3>9. moved = loop[l].moved \/ moved
      BY <1>1, <3>0, <3>4 DEF Turn
    <3> QED
      BY <3>6, <3>7, <3>8, <3>9 DEF Charged
  <2>2. CASE EndRun(l)
    <3>1. PICK moved : /\ moved = (loop[l].moved \/ (~loop[l].ended /\ status = "INVESTIGATING"))
      OBVIOUS
    <3>2. PICK x : x = [loop[l] EXCEPT !.step = "ended", !.moved = moved]
      OBVIOUS
    <3>3. x.step = "ended" /\ x.run = loop[l].run /\ x.moved = moved
      BY <1>1, <3>2 DEF Turn
    <3>4. loop' = [loop EXCEPT ![l] = x]
      BY <1>1, <2>2, <3>1, <3>2 DEF EndRun, RTypes, Turn
    <3>5. moved \/ status' = status
      BY <2>2, <3>1 DEF EndRun
    <3>6. moved = loop[l].moved \/ moved
      BY <1>1, <3>1 DEF Turn
    <3> QED
      BY <3>3, <3>4, <3>5, <3>6 DEF Charged
  <2> QED
    BY <2>1, <2>2
<1>4. loop'[l] = x /\ \A k \in Loops \ {l} : loop'[k] = loop[k]
  BY <1>1, <1>3 DEF RTypes
<1>5. RecordedOnce'
  <2>1. OldNames
    BY <1>1, <1>3, <1>4 DEF OldNames, Current
  <2> QED
    BY <1>1, <2>1, NamesStay DEF Escalates
<1>6. AllCounted'
  BY <1>1 DEF Escalates, AllCounted, InARow, Failures, Standing
<1>7. OwnMoves'
  BY <1>1, <1>2, <1>3, <1>4 DEF Escalates, OwnMoves, Holding
<1>8. WaitIsAsked'
  BY <1>1, <1>2, <1>3, <1>4 DEF Escalates, WaitIsAsked
<1> QED
  BY <1>5, <1>6, <1>7, <1>8 DEF Escalates

LEMMA ReleaseCounts ==
  ASSUME RInv, Records, Escalates, suffered = "none", NEW l \in Loops, ReleaseRun(l)
  PROVE  Records' /\ Escalates'
<1>1. PICK run : run = loop[l].run
  OBVIOUS
<1>2. PICK failed \in BOOLEAN : failed = (loop[l].step = "failed")
  OBVIOUS
<1>3. /\ RTypes /\ Minted /\ Exclusive /\ Unique /\ loop[l].step \in {"ended", "failed"}
      /\ history' = Recorded(run, failed)
      /\ idleFailures' = IF failed /\ ~loop[l].moved THEN idleFailures + 1 ELSE 0
      /\ UNCHANGED <<starter, minted, ready, status>>
  BY <1>1, <1>2, NothingWorks DEF ReleaseRun, In, Count, Release
<1>4. minted \in Nat /\ run \in 1..minted /\ run # None /\ loop[l].step \in Charged
  <2>1. loop[l].step \in Charged
    BY <1>3 DEF Charged
  <2>2. minted \in Nat /\ run \in Nat /\ run # 0 /\ run <= minted
    BY <1>1, <1>3, <2>1 DEF RTypes, Turn, Minted, None
  <2> QED
    BY <2>1, <2>2 DEF None
<1>5. loop'[l].step \notin Charged /\ \A k \in Loops \ {l} : loop'[k] = loop[k]
  <2>1. CASE Leave(l)
    BY <1>3, <2>1, LoopLeaves, AwayIsTurn DEF Charged
  <2>2. CASE LoopGo(l, "after failure")
    <3>1. PICK step : loop' = [loop EXCEPT ![l].step = step] /\ step \notin Charged
      <4>1. loop' = [loop EXCEPT ![l].step = "after failure"]
        BY <2>2 DEF LoopGo
      <4>2. "after failure" \notin Charged
        BY DEF Charged
      <4> QED
        BY <4>1, <4>2
    <3> QED
      BY <1>3, <3>1, LoopMoves
  <2> QED
    BY <2>1, <2>2 DEF ReleaseRun
<1>6. /\ \A t \in Starters : starter[t].step \notin Holding
      /\ \A k \in Loops : loop[k].step \in Charged => k = l
      /\ Current(run) /\ run \notin ready
      /\ \A t \in Starters : starter[t].step \in Fresh => starter[t].run # run
  BY <1>1, <1>3, <1>4 DEF Exclusive, Unique, Current
<1>7. /\ history' \in Seq([run : Nat, failed : BOOLEAN]) /\ RecordedOnce'
      /\ failed => InARow' = InARow + 1
      /\ InARow \in Nat
  <2>1. \A t \in Starters : \/ starter'[t].step \notin Fresh \cup Holding
                            \/ starter'[t] = starter[t] /\ starter[t].run # run
    BY <1>3, <1>6
  <2>2. \A k \in Loops : loop'[k].step \notin Charged
    BY <1>5, <1>6
  <2>3. /\ history' \in Seq([run : Nat, failed : BOOLEAN]) /\ RecordedOnce'
        /\ failed => InARow' = InARow + 1
        /\ InARow \in Nat
    BY <1>3, <1>4, <1>6, <2>1, <2>2, Released
  <2> QED
    BY <2>3
<1>8. AllCounted' /\ idleFailures' \in Nat
  <2>1. CASE failed /\ ~loop[l].moved
    BY <1>3, <1>7, <2>1 DEF Records, Escalates, AllCounted
  <2>2. CASE ~(failed /\ ~loop[l].moved)
    <3>1. idleFailures' = 0
      BY <1>3, <2>2
    <3>2. Records'
      BY <1>7, <3>1 DEF Records
    <3>3. InARow' \in Nat
      BY <3>2, FailuresPrimed
    <3> QED
      BY <3>1, <3>3 DEF AllCounted
  <2> QED
    BY <2>1, <2>2
<1>9. OwnMoves'
  BY <1>3, <1>5, <1>6 DEF OwnMoves, Holding
<1>10. WaitIsAsked'
  <2>1. idleFailures' > 1 => idleFailures > 0 /\ ~loop[l].moved
    BY <1>3 DEF Records
  <2>2. idleFailures' > 1 => status = "INVESTIGATING"
    BY <1>4, <2>1 DEF Escalates, OwnMoves
  <2> QED
    BY <1>3, <2>2 DEF WaitIsAsked
<1> QED
  BY <1>7, <1>8, <1>9, <1>10 DEF Records, Escalates

\* The last call of a failed run: another run's investigation, which starts the count anew, or one
\* that nobody carries on, which the failures of the count end.
LEMMA AfterFailureCounts ==
  ASSUME RInv, Records, Escalates, suffered = "none", suffered' = "none",
         NEW l \in Loops, AfterFailure(l)
  PROVE  Records' /\ Escalates'
<1>1. /\ RTypes /\ Exclusive /\ Enters /\ minted \in Nat /\ loop[l].step = "after failure"
      /\ UNCHANGED <<history, minted, starter, ready, active>>
      /\ idleFailures' = IF Overtaken THEN 0 ELSE idleFailures
  BY NothingWorks DEF AfterFailure, In, RTypes
<1>0. status' = IF status # "INVESTIGATING" THEN status
                ELSE IF InARow >= 2 THEN "ESCALATED" ELSE "WAITING_PLANNER"
  <2>1. PICK n \in 0..Len(history) :
          /\ Known(n)
          /\ status' = IF status # "INVESTIGATING" THEN status
                       ELSE IF Failures(n) >= 2 THEN "ESCALATED" ELSE "WAITING_PLANNER"
    BY DEF AfterFailure, Suffer
  <2>2. n = Len(history)
    BY <2>1 DEF Known, Suffer
  <2> QED
    BY <2>1, <2>2 DEF InARow
<1>2. loop'[l] = Away /\ \A k \in Loops \ {l} : loop'[k] = loop[k]
  BY <1>1, LoopLeaves DEF AfterFailure
<1>3. /\ idleFailures \in Nat /\ idleFailures' \in Nat /\ idleFailures' <= idleFailures
      /\ InARow \in Nat /\ idleFailures <= InARow
  <2>1. idleFailures' = idleFailures \/ idleFailures' = 0
    BY <1>1
  <2> QED
    BY <2>1, FailingIsFinite DEF Records, Escalates, AllCounted
<1>4. RecordedOnce'
  <2>1. OldNames
    BY <1>1, <1>2, AwayIsTurn DEF OldNames, Current, Charged
  <2> QED
    BY <1>1, <2>1, NamesStay DEF Escalates
<1>5. AllCounted'
  <2>1. InARow' = InARow
    BY <1>1 DEF InARow, Failures, Standing
  <2> QED
    BY <1>3, <2>1 DEF AllCounted
<1>6. loop'[l].step \notin Charged /\ loop[l].step \notin Charged
  BY <1>1, <1>2, AwayIsTurn DEF Charged
<1>7. CASE status # "INVESTIGATING"
  <2>1. status' = status /\ idleFailures' = idleFailures
    BY <1>0, <1>1, <1>7 DEF Overtaken
  <2>2. OwnMoves'
    BY <1>1, <1>2, <1>6, <2>1 DEF Escalates, OwnMoves
  <2>3. WaitIsAsked'
    BY <1>1, <1>2, <1>6, <2>1 DEF Escalates, WaitIsAsked
  <2> QED
    BY <1>1, <1>3, <1>4, <1>5, <2>2, <2>3 DEF Records, Escalates
<1>8. CASE Overtaken
  <2>1. idleFailures' = 0
    BY <1>1, <1>8
  <2>2. ~(idleFailures' > 0) /\ ~(idleFailures' > 1)
    BY <2>1
  <2>3. OwnMoves' /\ WaitIsAsked'
    BY <2>2 DEF OwnMoves, WaitIsAsked
  <2> QED
    BY <1>1, <1>3, <1>4, <1>5, <2>3 DEF Records, Escalates
<1>9. CASE status = "INVESTIGATING" /\ ~Overtaken
  <2>1. idleFailures' = idleFailures /\ (idleFailures > 1 => status' = "ESCALATED")
    <3>1. /\ idleFailures' = idleFailures
          /\ status' = IF InARow >= 2 THEN "ESCALATED" ELSE "WAITING_PLANNER"
      BY <1>0, <1>1, <1>9
    <3> QED
      BY <1>3, <3>1
  <2>2. /\ \A s \in Starters : starter[s].step \notin {"invoke", "unreached", "give up"}
        /\ \A k \in Loops : loop[k].step \notin Charged
    <3>1. CASE active = None
      BY <3>1, NothingWorks DEF Holding
    <3>2. CASE \E s \in Starters : starter[s].step = "enter"
      BY <1>1, <3>2 DEF Exclusive, Holding
    <3> QED
      BY <1>9, <3>1, <3>2 DEF Overtaken, At
  <2>3. OwnMoves'
    BY <1>1, <1>2, <1>6, <2>2 DEF OwnMoves
  <2>4. WaitIsAsked'
    BY <2>1 DEF WaitIsAsked
  <2> QED
    BY <1>1, <1>3, <1>4, <1>5, <2>3, <2>4 DEF Records, Escalates
<1> QED
  BY <1>7, <1>8, <1>9

LEMMA CaseGoesOn ==
  ASSUME RInv, Records, Escalates, suffered = "none",
         StartRun \/ \E f \in Fields : Confirm(f) \/ Resume(f)
  PROVE  Escalates'
<1>1. /\ minted \in Nat /\ UNCHANGED <<status, history, idleFailures, starter, loop>>
      /\ ready' \subseteq ready \cup {None, minted + 1}
      /\ minted' = minted \/ minted' = minted + 1
  BY NothingWorks DEF StartRun, Confirm, Resume, RTypes, store
<1>2. OldNames
  <2>1. minted + 1 > minted
    BY <1>1
  <2> QED
    BY <1>1, <2>1 DEF OldNames, Current
<1>3. GoesOn
  BY <1>1 DEF GoesOn
<1>4. minted' \in Nat /\ minted <= minted'
  BY <1>1
<1> QED
  BY <1>1, <1>2, <1>3, <1>4, GoesOnStep

LEMMA VerifyCounts ==
  ASSUME RInv, Records, Escalates, suffered = "none", Verify
  PROVE  Escalates'
<1>1. /\ minted \in Nat /\ UNCHANGED <<history, idleFailures, starter, loop, ready, minted>>
      /\ status = "PLAN_PROPOSED" /\ status' = "VERIFIED"
  BY NothingWorks DEF Verify, RTypes
<1>2. OldNames
  BY <1>1 DEF OldNames, Current
<1>3. RecordedOnce'
  BY <1>1, <1>2, NamesStay DEF Escalates
<1>4. AllCounted'
  BY <1>1 DEF Escalates, AllCounted, InARow, Failures, Standing
<1>5. OwnMoves' /\ WaitIsAsked'
  BY <1>1 DEF Escalates, OwnMoves, WaitIsAsked
<1> QED
  BY <1>3, <1>4, <1>5 DEF Escalates

LEMMA FInit ==
  ASSUME RInit
  PROVE  FInv
<1>1. history = <<>> /\ idleFailures = 0
  BY DEF RInit, Begin
<1>2. Len(history) = 0 /\ Records
  BY <1>1 DEF Records
<1>3. RecordedOnce
  BY <1>2 DEF RecordedOnce
<1>4. AllCounted
  BY <1>1, <1>2, FailingIsFinite DEF AllCounted
<1>5. ~(idleFailures > 0) /\ ~(idleFailures > 1)
  BY <1>1
<1>6. OwnMoves /\ WaitIsAsked
  BY <1>5 DEF OwnMoves, WaitIsAsked
<1> QED
  BY <1>2, <1>3, <1>4, <1>6 DEF FInv, Escalates

\* What went wrong stays known.
LEMMA NothingWentWrong ==
  ASSUME [RStep]_vars, suffered' = "none"
  PROVE  /\ suffered = "none"
         /\ ~\E s \in Starters : Stop(s)
         /\ ~\E l \in Loops : Die(l)
         /\ ~UNCHANGED vars => Sound
<1>1. ASSUME NEW f \in {"stop", "lost", "again", "lag", "busy"}, Suffer(f) PROVE FALSE
  BY <1>1 DEF Suffer
<1>2. ASSUME Sound PROVE suffered = "none"
  BY <1>2 DEF Sound
<1>3. UNCHANGED vars => suffered = "none"
  BY DEF vars
<1>4. (~\E s \in Starters : Stop(s)) /\ ~\E l \in Loops : Die(l)
  BY <1>1 DEF Stop, Die
<1>5. ASSUME NEW s \in Starters, StarterNext(s) PROVE Sound
  BY <1>1, <1>5 DEF StarterNext, Deliver, Invoke, Enter, Unreached, Known
<1>6. ASSUME NEW l \in Loops, LoopNext(l) PROVE Sound
  BY <1>1, <1>6 DEF LoopNext, AfterFailure, Known
<1>7. ASSUME NEW f \in Fields, Confirm(f) PROVE Sound
  BY <1>1, <1>7 DEF Confirm
<1> QED
  BY <1>2, <1>3, <1>4, <1>5, <1>6, <1>7 DEF RStep, RNext

LEMMA FInv_Next ==
  ASSUME RInv, FInv, [RStep]_vars
  PROVE  FInv'
<1> SUFFICES ASSUME suffered' = "none" PROVE Records' /\ Escalates'
  BY DEF FInv
<1>1. /\ suffered = "none" /\ Records /\ Escalates
      /\ ~\E s \in Starters : Stop(s)
      /\ ~\E l \in Loops : Die(l)
      /\ ~UNCHANGED vars => Sound
  BY NothingWentWrong DEF FInv
<1>2. CASE UNCHANGED vars
  <2>1. UNCHANGED <<status, history, idleFailures, minted, starter, loop, ready>>
    BY <1>2 DEF vars, store
  <2>2. OldNames /\ GoesOn
    BY <2>1 DEF OldNames, Current, GoesOn
  <2>3. minted \in Nat
    BY DEF RInv, RTypes
  <2>4. minted' \in Nat /\ minted <= minted'
    BY <2>1, <2>3
  <2> QED
    BY <1>1, <2>1, <2>2, <2>3, <2>4, GoesOnStep DEF Records
<1>3. ASSUME NEW s \in Starters, StarterNext(s), Sound PROVE Records' /\ Escalates'
  <2>1. CASE \/ Deliver(s) \/ PublishPending(s) \/ Refuse(s) \/ Claim(s) \/ Invoke(s)
             \/ PutEvent(s) \/ Publish(s)
    <3>1. UNCHANGED <<history, idleFailures>>
      BY <2>1 DEF Deliver, PublishPending, Refuse, Claim, Invoke, PutEvent, Publish, store
    <3>2. Records'
      BY <1>1, <3>1 DEF Records
    <3> QED
      BY <1>1, <1>3, <2>1, <3>2, StarterGoesOn
  <2>2. CASE Enter(s) \/ GiveUp(s)
    BY <1>1, <2>2, EnterCounts, GiveUpCounts
  <2>3. CASE Unreached(s)
    <3>1. UNCHANGED <<history, idleFailures>>
      BY <2>3 DEF Unreached
    <3>2. Records'
      BY <1>1, <3>1 DEF Records
    <3> QED
      BY <1>1, <2>3, <3>2, UnreachedCounts
  <2> QED
    BY <1>3, <2>1, <2>2, <2>3 DEF StarterNext
<1>4. ASSUME NEW l \in Loops, LoopNext(l) \/ (\E t \in Asks : CallTool(l, t)), Sound
      PROVE  Records' /\ Escalates'
  <2>1. CASE ReleaseRun(l) \/ AfterFailure(l)
    BY <1>1, <2>1, ReleaseCounts, AfterFailureCounts
  <2>2. CASE \/ BeginRun(l) \/ FailRun(l) \/ EndTool(l) \/ EndRun(l)
             \/ \E t \in Asks : CallTool(l, t)
    <3>1. UNCHANGED <<history, idleFailures>>
      BY <2>2 DEF BeginRun, FailRun, EndTool, EndRun, CallTool, store
    <3>2. Records'
      BY <1>1, <3>1 DEF Records
    <3>3. Escalates'
      BY <1>1, <2>2, LoopGoesOn, LoopCounts
    <3> QED
      BY <3>2, <3>3
  <2> QED
    BY <1>4, <2>1, <2>2 DEF LoopNext
<1>5. CASE Verify \/ StartRun \/ \E f \in Fields : Confirm(f) \/ Resume(f)
  <2>1. UNCHANGED <<history, idleFailures>>
    BY <1>5 DEF Verify, StartRun, Confirm, Resume, store
  <2>2. Records'
    BY <1>1, <2>1 DEF Records
  <2>3. Escalates'
    BY <1>1, <1>5, VerifyCounts, CaseGoesOn
  <2> QED
    BY <2>2, <2>3
<1> QED
  BY <1>1, <1>2, <1>3, <1>4, <1>5 DEF RStep, RNext

\* As long as nothing stops, is lost or comes again, no query lags and META is not busy, two runs in
\* a row that failed and moved nothing leave the case with the planner only if a later run asked:
\* with nobody at work it is not WAITING_PLANNER. What is proved before it: every such failure is
\* among those that consecutive_failures counts where its query knows every record.
THEOREM TwoFailuresEscalate == RSpec => []FailuresEscalate
<1>1. RInit => RInv /\ FInv
  BY RInit_RInv, FInit
<1>2. (RInv /\ FInv) /\ [RStep]_vars => (RInv /\ FInv)'
  BY RInv_Next, FInv_Next
<1>3. RInv /\ FInv => FailuresEscalate
  <2> SUFFICES ASSUME RInv, FInv, suffered = "none", idleFailures >= 2,
                      \A l \in Loops : In(l, "idle"), status = "WAITING_PLANNER"
               PROVE  FALSE
    BY DEF FailuresEscalate
  <2>1. Records /\ WaitIsAsked
    BY DEF FInv, Escalates
  <2>2. idleFailures > 1
    BY <2>1 DEF Records
  <2>3. PICK l \in Loops : loop[l].step \in Charged
    BY <2>1, <2>2 DEF WaitIsAsked
  <2> QED
    BY <2>3 DEF In, Charged
<1> QED
  BY <1>1, <1>2, <1>3, PTL DEF RSpec

-----------------------------------------------------------------------------
(* The dialogue: the inductive invariant *)

Fates == {"NONE", "DRAFT", "BLOCKED", "SENT", "TIMED_OUT", "REPLIED"}
Letter == [status : Fates, claimed : BOOLEAN, reminded : BOOLEAN, done : BOOLEAN]
WorkSteps == {"idle", "check", "block", "claim", "send", "save", "unsent", "remind", "escalate",
              "to tier 3", "mark"}
Hand == [step : WorkSteps, m : Messages \cup {0}]

DTypes ==
  /\ hands \subseteq Workers /\ drafted \in 0..MaxMessages
  /\ msg \in [Messages -> Letter]
  /\ worker \in [Workers -> Hand]
  /\ \A w \in Workers : worker[w].step # "idle" => worker[w].m \in Messages
  /\ requests \subseteq Messages
  /\ mailed \in [Messages -> Nat] /\ nudged \in [Messages -> Nat]

Out(m) == msg[m].status \in {"SENT", "TIMED_OUT", "REPLIED"}
Sends(w, m) == worker[w].m = m /\ worker[w].step \in {"send", "save", "unsent"}
Reminds(w, m) == worker[w].m = m /\ worker[w].step = "remind"

Unclaimed(m) ==
  /\ m > drafted => msg[m].status = "NONE" /\ ~msg[m].claimed
  /\ ~msg[m].claimed => mailed[m] = 0 /\ ~Out(m) /\ \A w \in Workers : ~Sends(w, m)
SendsOnce(m) ==
  \A w \in Workers : Sends(w, m) =>
    /\ ~Out(m)
    /\ worker[w].step = "send" => mailed[m] = 0
    /\ worker[w].step = "save" => mailed[m] = 1
    /\ \A v \in Workers : Sends(v, m) => v = w
RemindsOnce(m) ==
  \A w \in Workers : Reminds(w, m) =>
    /\ Out(m) /\ msg[m].reminded /\ nudged[m] = 0
    /\ \A v \in Workers : Reminds(v, m) => v = w
Counted(m) ==
  /\ mailed[m] \in {0, 1} /\ nudged[m] \in {0, 1}
  /\ Out(m) => mailed[m] = 1
  /\ nudged[m] = 1 => Out(m) /\ msg[m].reminded
Kept(m) == Unclaimed(m) /\ SendsOnce(m) /\ RemindsOnce(m) /\ Counted(m)

\* A tool that asks has drafted its question.
AskingHasDraft == \A l \in Loops : Asking(l) => drafted # 0

DInv == DTypes /\ AskingHasDraft /\ \A m \in Messages : Kept(m)

-----------------------------------------------------------------------------
(* Steps *)

LEMMA MessagesAreNumbered == Messages \subseteq Nat /\ 0 \notin Messages
BY QuestionsAreBounded DEF Messages

\* What a step that works on question m leaves alone
OnlyOf(m) ==
  /\ \A v \in Workers : worker'[v] = worker[v] \/
       /\ worker[v].step = "idle" \/ worker[v].m = m
       /\ worker'[v].step = "idle" \/ worker'[v].m = m
  /\ \A n \in Messages \ {m} :
       msg'[n] = msg[n] /\ mailed'[n] = mailed[n] /\ nudged'[n] = nudged[n]
  /\ drafted <= drafted'

LEMMA OthersKept ==
  ASSUME DInv, DTypes', NEW m \in Messages, OnlyOf(m), AskingHasDraft', Kept(m)'
  PROVE  DInv'
<1>1. ASSUME NEW n \in Messages \ {m} PROVE Kept(n)'
  <2>1. /\ msg'[n] = msg[n] /\ mailed'[n] = mailed[n] /\ nudged'[n] = nudged[n]
        /\ Kept(n) /\ n # 0 /\ (n > drafted' => n > drafted)
    <3>1. n \in Nat /\ n # 0
      BY MessagesAreNumbered
    <3>2. drafted \in Int /\ drafted' \in Int
      BY DEF DInv, DTypes
    <3>3. n > drafted' => n > drafted
      BY <3>1, <3>2 DEF OnlyOf
    <3> QED
      BY <3>1, <3>3 DEF DInv, OnlyOf
  <2>2. \A v \in Workers : Sends(v, n)' => Sends(v, n) /\ worker'[v] = worker[v]
    BY DEF Sends, OnlyOf
  <2>3. \A v \in Workers : Reminds(v, n)' => Reminds(v, n) /\ worker'[v] = worker[v]
    BY DEF Reminds, OnlyOf
  <2>4. Out(n)' <=> Out(n)
    BY <2>1 DEF Out
  <2>5. Unclaimed(n)'
    BY <2>1, <2>2, <2>4 DEF Kept, Unclaimed
  <2>6. SendsOnce(n)'
    BY <2>1, <2>2, <2>4 DEF Kept, SendsOnce
  <2>7. RemindsOnce(n)'
    BY <2>1, <2>3, <2>4 DEF Kept, RemindsOnce
  <2>8. Counted(n)'
    BY <2>1, <2>4 DEF Kept, Counted
  <2> QED
    BY <2>5, <2>6, <2>7, <2>8 DEF Kept
<1> QED
  BY <1>1 DEF DInv

\* An invocation neither sends nor reminds next, and the question stays where it is between
\* its claim, its message and its end.
Steady(w, m, r, x) ==
  /\ worker' = [worker EXCEPT ![w] = r] /\ msg' = [msg EXCEPT ![m] = x]
  /\ worker[w].step = "idle" \/ worker[w].m = m
  /\ r.step = "idle" \/ r.m = m
  /\ r.step \notin {"send", "save", "unsent", "remind"}
  /\ x.claimed = msg[m].claimed /\ x.reminded = msg[m].reminded
  /\ x.status \in {"SENT", "TIMED_OUT", "REPLIED"} <=> Out(m)
  /\ x.status = msg[m].status \/ msg[m].status # "NONE"
  /\ UNCHANGED <<hands, drafted, mailed, nudged, loop>> /\ requests' \subseteq Messages

LEMMA SteadyStep ==
  ASSUME DInv, NEW w \in Workers, NEW m \in Messages, NEW r \in Hand, NEW x \in Letter,
         Steady(w, m, r, x)
  PROVE  DInv'
<1>1. /\ worker' \in [Workers -> Hand] /\ worker'[w] = r
      /\ \A v \in Workers \ {w} : worker'[v] = worker[v]
  BY DEF DInv, DTypes, Steady
<1>2. /\ msg' \in [Messages -> Letter] /\ msg'[m] = x
      /\ \A n \in Messages \ {m} : msg'[n] = msg[n]
  BY DEF DInv, DTypes, Steady
<1>3. DTypes'
  BY <1>1, <1>2 DEF DInv, DTypes, Steady
<1>4. OnlyOf(m)
  BY <1>1, <1>2, QuestionsAreBounded DEF OnlyOf, DInv, DTypes, Steady
<1>5. \A v \in Workers : /\ Sends(v, m)' => Sends(v, m) /\ worker'[v] = worker[v]
                         /\ Reminds(v, m)' => Reminds(v, m) /\ worker'[v] = worker[v]
  BY <1>1 DEF Sends, Reminds, Steady
<1>6. (Out(m)' <=> Out(m)) /\ Kept(m)
  BY <1>2 DEF Out, DInv, Steady
<1>7. Unclaimed(m)'
  BY <1>2, <1>5, <1>6 DEF Steady, Kept, Unclaimed
<1>8. SendsOnce(m)' /\ RemindsOnce(m)'
  BY <1>2, <1>5, <1>6 DEF Steady, Kept, SendsOnce, RemindsOnce
<1>9. Counted(m)'
  BY <1>2, <1>6 DEF Steady, Kept, Counted
<1>a. AskingHasDraft'
  BY DEF DInv, AskingHasDraft, Asking, Steady
<1> QED
  BY <1>3, <1>4, <1>a, <1>7, <1>8, <1>9, OthersKept DEF Kept

\* Letters and hands
LEMMA Written ==
  ASSUME DInv, NEW m \in Messages, NEW s \in Fates
  PROVE  /\ [msg[m] EXCEPT !.status = s] \in Letter
         /\ [msg[m] EXCEPT !.status = s].status = s
         /\ [msg[m] EXCEPT !.status = s].claimed = msg[m].claimed
         /\ [msg[m] EXCEPT !.status = s].reminded = msg[m].reminded
BY DEF DInv, DTypes, Letter

LEMMA HandGoesOn ==
  ASSUME DInv, NEW w \in Workers, NEW step \in WorkSteps
  PROVE  /\ [worker[w] EXCEPT !.step = step] \in Hand
         /\ [worker[w] EXCEPT !.step = step].step = step
         /\ [worker[w] EXCEPT !.step = step].m = worker[w].m
         /\ worker[w].step # "idle" => worker[w].m \in Messages
BY DEF DInv, DTypes, Hand

LEMMA FreeIsHand == Free \in Hand /\ Free.step = "idle"
BY DEF Free, Hand, WorkSteps

LEMMA CheckStep ==
  ASSUME DInv, NEW w \in Workers, CheckDraft(w) \/ Block(w) \/ Unsent(w)
  PROVE  DInv'
<1>1. PICK m : m = worker[w].m
  OBVIOUS
<1>2. /\ m \in Messages /\ worker[w].m = m /\ UNCHANGED <<hands, drafted, requests, mailed, nudged, loop>>
      /\ msg[m] \in Letter /\ msg \in [Messages -> Letter]
  BY <1>1 DEF DInv, DTypes, CheckDraft, Block, Unsent, Doing, Quiet, Unmailed, vars, Of
<1>3. PICK s, step, r :
        /\ s \in Fates /\ step \in WorkSteps
        /\ worker' = [worker EXCEPT ![w] = r]
        /\ r = Free \/ (r = [worker[w] EXCEPT !.step = step] /\ step \in {"claim", "block", "escalate"})
        /\ msg' = [msg EXCEPT ![m].status = s]
        /\ s = msg[m].status \/ (s = "BLOCKED" /\ msg[m].status = "DRAFT")
  <2>1. msg = [msg EXCEPT ![m].status = msg[m].status] /\ msg[m].status \in Fates
    BY <1>2 DEF Letter
  <2>2. "BLOCKED" \in Fates /\ {"claim", "block", "escalate"} \subseteq WorkSteps
    BY DEF Fates, WorkSteps
  <2>3. worker \in [Workers -> Hand]
    BY DEF DInv, DTypes
  <2> QED
    BY <1>1, <1>2, <2>1, <2>2, <2>3
       DEF CheckDraft, Block, Unsent, Now, Over, Write, Sending, Of, Quiet
<1>4. /\ r \in Hand /\ r.step \in {"idle", "claim", "block", "escalate"}
      /\ r.step = "idle" \/ r.m = m
  <2>1. CASE r = Free
    BY <2>1, FreeIsHand
  <2>2. CASE r = [worker[w] EXCEPT !.step = step] /\ step \in {"claim", "block", "escalate"}
    <3>1. r \in Hand /\ r.step = step /\ r.m = worker[w].m
      BY <1>3, <2>2, HandGoesOn
    <3> QED
      BY <1>1, <2>2, <3>1
  <2> QED
    BY <1>3, <2>1, <2>2
<1>5. PICK x : x = [msg[m] EXCEPT !.status = s]
  OBVIOUS
<1>6. x \in Letter /\ x.status = s /\ x.claimed = msg[m].claimed /\ x.reminded = msg[m].reminded
  BY <1>2, <1>3, <1>5, Written
<1>7. msg' = [msg EXCEPT ![m] = x]
  BY <1>3, <1>5
<1>8. requests' \subseteq Messages
  BY <1>2 DEF DInv, DTypes
<1>9. /\ x.status \in {"SENT", "TIMED_OUT", "REPLIED"} <=> Out(m)
      /\ x.status = msg[m].status \/ msg[m].status # "NONE"
  BY <1>3, <1>6 DEF Out
<1>10. Steady(w, m, r, x)
  BY <1>2, <1>3, <1>4, <1>6, <1>7, <1>8, <1>9 DEF Steady
<1> QED
  BY <1>2, <1>4, <1>6, <1>10, SteadyStep

\* Nothing happens to a question or to those who work on it.
LEMMA Unmoved ==
  ASSUME DInv, UNCHANGED <<hands, msg, worker, drafted, mailed, nudged>>,
         requests' \subseteq Messages, AskingHasDraft'
  PROVE  DInv'
<1>1. DTypes'
  BY DEF DInv, DTypes
<1>2. ASSUME NEW m \in Messages PROVE Kept(m)'
  <2>1. Kept(m)
    BY DEF DInv
  <2> QED
    BY <2>1 DEF Kept, Unclaimed, SendsOnce, RemindsOnce, Counted, Sends, Reminds, Out
<1> QED
  BY <1>1, <1>2 DEF DInv

LEMMA NotifyStep ==
  ASSUME DInv, NEW w \in Workers, Notify(w)
  PROVE  DInv'
<1>1. PICK m \in requests :
        /\ worker' = IF msg[m].status # "DRAFT" THEN worker
                     ELSE [worker EXCEPT ![w] = [step |-> "check", m |-> m]]
        /\ requests' \subseteq requests
  BY DEF Notify, Suffer
<1>2. /\ worker[w].step = "idle" /\ m \in Messages /\ requests' \subseteq Messages
      /\ UNCHANGED <<hands, msg, drafted, mailed, nudged, loop>>
      /\ msg \in [Messages -> Letter]
  BY <1>1 DEF Notify, Doing, Unmailed, rest, DInv, DTypes
<1>3. AskingHasDraft'
  BY <1>2 DEF DInv, AskingHasDraft, Asking
<1>4. CASE msg[m].status # "DRAFT"
  BY <1>1, <1>2, <1>3, <1>4, Unmoved
<1>5. CASE msg[m].status = "DRAFT"
  <2>1. PICK r : r = [step |-> "check", m |-> m]
    OBVIOUS
  <2>2. r \in Hand /\ r.step = "check" /\ r.m = m
    BY <1>2, <2>1 DEF Hand, WorkSteps
  <2>3. worker' = [worker EXCEPT ![w] = r] /\ msg' = [msg EXCEPT ![m] = msg[m]] /\ msg[m] \in Letter
    BY <1>1, <1>2, <1>5, <2>1
  <2>4. Steady(w, m, r, msg[m])
    BY <1>2, <2>2, <2>3 DEF Steady, Out
  <2> QED
    BY <1>2, <2>2, <2>3, <2>4, SteadyStep
<1> QED
  BY <1>4, <1>5

LEMMA EscalateStep ==
  ASSUME DInv, NEW w \in Workers, LeaveWait(w) \/ ToTier3(w) \/ Mark(w) \/ Crash(w)
  PROVE  DInv'
<1>1. PICK m : m = worker[w].m
  OBVIOUS
<1>2. /\ m \in Messages /\ worker[w].m = m /\ UNCHANGED <<hands, drafted, mailed, nudged, loop>>
      /\ requests' \subseteq Messages /\ msg[m] \in Letter /\ msg \in [Messages -> Letter]
  BY <1>1 DEF DInv, DTypes, LeaveWait, ToTier3, Mark, Crash, Doing, Quiet, Unmailed, StatusOnly, vars,
              rest, Of
<1>3. PICK step, r :
        /\ step \in {"to tier 3", "mark"} /\ worker' = [worker EXCEPT ![w] = r]
        /\ (r = Free \/ r = [worker[w] EXCEPT !.step = step])
  BY DEF LeaveWait, ToTier3, Mark, Crash, Now, Over
<1>4. r \in Hand /\ r.step \notin {"send", "save", "unsent", "remind"} /\ (r.step = "idle" \/ r.m = m)
  <2>1. CASE r = Free
    BY <2>1, FreeIsHand
  <2>2. CASE r = [worker[w] EXCEPT !.step = step]
    <3>1. step \in WorkSteps
      BY <1>3 DEF WorkSteps
    <3>2. r \in Hand /\ r.step = step /\ r.m = worker[w].m
      BY <2>2, <3>1, HandGoesOn
    <3> QED
      BY <1>1, <1>3, <3>2
  <2> QED
    BY <1>3, <2>1, <2>2
<1>5. PICK x : msg' = [msg EXCEPT ![m] = x] /\ x \in Letter /\ x.status = msg[m].status
               /\ x.claimed = msg[m].claimed /\ x.reminded = msg[m].reminded
  <2>1. CASE UNCHANGED msg
    <3>1. msg' = [msg EXCEPT ![m] = msg[m]]
      BY <1>2, <2>1
    <3> QED
      BY <1>2, <3>1
  <2>2. CASE Mark(w)
    <3>1. PICK x : x = [msg[m] EXCEPT !.done = @ \/ status = "ESCALATED"]
      OBVIOUS
    <3>2. msg' = [msg EXCEPT ![m] = x]
      BY <1>1, <1>2, <2>2, <3>1 DEF Mark, Of
    <3>3. (msg[m].done \/ status = "ESCALATED") \in BOOLEAN
      OBVIOUS
    <3>4. x \in Letter /\ x.status = msg[m].status /\ x.claimed = msg[m].claimed
          /\ x.reminded = msg[m].reminded
      BY <1>2, <3>1, <3>3 DEF Letter
    <3> QED
      BY <3>2, <3>4
  <2> QED
    BY <2>1, <2>2 DEF LeaveWait, ToTier3, Crash
<1>6. Steady(w, m, r, x)
  BY <1>2, <1>3, <1>4, <1>5 DEF Steady, Out
<1> QED
  BY <1>2, <1>4, <1>5, <1>6, SteadyStep

LEMMA TickStep ==
  ASSUME DInv, NEW w \in Workers, Tick(w)
  PROVE  DInv'
<1>1. PICK m \in Messages :
        /\ \/ Sending(m) /\ m \in stale /\ Write(m, "BLOCKED")
           \/ msg[m].status \in {"BLOCKED", "TIMED_OUT"} /\ ~msg[m].done /\ UNCHANGED msg
           \/ msg[m].status = "SENT" /\ phase[m] = 2 /\ Write(m, "TIMED_OUT")
        /\ worker' = [worker EXCEPT ![w] = [step |-> "escalate", m |-> m]]
  BY DEF Tick
<1>2. /\ worker[w].step = "idle" /\ UNCHANGED <<hands, drafted, requests, mailed, nudged, loop>>
      /\ msg[m] \in Letter /\ msg \in [Messages -> Letter] /\ requests' \subseteq Messages
  BY DEF Tick, Doing, Quiet, Unmailed, vars, DInv, DTypes
<1>3. PICK s \in Fates : /\ msg' = [msg EXCEPT ![m].status = s]
                        /\ \/ s = msg[m].status
                           \/ s = "BLOCKED" /\ msg[m].status = "DRAFT"
                           \/ s = "TIMED_OUT" /\ msg[m].status = "SENT"
  <2>1. msg = [msg EXCEPT ![m].status = msg[m].status] /\ msg[m].status \in Fates
    BY <1>2 DEF Letter
  <2>2. "BLOCKED" \in Fates /\ "TIMED_OUT" \in Fates
    BY DEF Fates
  <2> QED
    BY <1>1, <2>1, <2>2 DEF Write, Sending
<1>4. PICK x : x = [msg[m] EXCEPT !.status = s]
  OBVIOUS
<1>5. x \in Letter /\ x.status = s /\ x.claimed = msg[m].claimed /\ x.reminded = msg[m].reminded
  BY <1>4, Written
<1>6. PICK r : r = [step |-> "escalate", m |-> m]
  OBVIOUS
<1>7. r \in Hand /\ r.step = "escalate" /\ r.m = m
  BY <1>6 DEF Hand, WorkSteps
<1>8. msg' = [msg EXCEPT ![m] = x] /\ worker' = [worker EXCEPT ![w] = r]
  BY <1>1, <1>3, <1>4, <1>6
<1>9. Steady(w, m, r, x)
  BY <1>2, <1>3, <1>5, <1>7, <1>8 DEF Steady, Out
<1> QED
  BY <1>5, <1>7, <1>9, SteadyStep

\* An invocation works on question m and the tallies of its messages.
Works(w, m, r, x, c, n) ==
  /\ worker' = [worker EXCEPT ![w] = r] /\ msg' = [msg EXCEPT ![m] = x]
  /\ worker[w].step = "idle" \/ worker[w].m = m
  /\ r.step = "idle" \/ r.m = m
  /\ mailed' = [mailed EXCEPT ![m] = c] /\ nudged' = [nudged EXCEPT ![m] = n]
  /\ UNCHANGED <<hands, drafted, requests, loop>>

LEMMA WorksStep ==
  ASSUME DInv, NEW w \in Workers, NEW m \in Messages, NEW r \in Hand, NEW x \in Letter,
         NEW c \in Nat, NEW n \in Nat, Works(w, m, r, x, c, n), Kept(m)'
  PROVE  DInv'
<1>1. /\ worker' \in [Workers -> Hand] /\ worker'[w] = r
      /\ \A v \in Workers \ {w} : worker'[v] = worker[v]
  BY DEF DInv, DTypes, Works
<1>2. /\ msg' \in [Messages -> Letter] /\ \A k \in Messages \ {m} : msg'[k] = msg[k]
  BY DEF DInv, DTypes, Works
<1>3. /\ mailed' \in [Messages -> Nat] /\ \A k \in Messages \ {m} : mailed'[k] = mailed[k]
      /\ nudged' \in [Messages -> Nat] /\ \A k \in Messages \ {m} : nudged'[k] = nudged[k]
  BY DEF DInv, DTypes, Works
<1>4. DTypes'
  BY <1>1, <1>2, <1>3 DEF DInv, DTypes, Works
<1>5. OnlyOf(m)
  BY <1>1, <1>2, <1>3, QuestionsAreBounded DEF OnlyOf, DInv, DTypes, Works
<1>6. AskingHasDraft'
  BY DEF DInv, AskingHasDraft, Asking, Works
<1> QED
  BY <1>4, <1>5, <1>6, OthersKept

\* Nobody has claimed the question, so the claim leaves w alone with it.
LEMMA ClaimSendStep ==
  ASSUME DInv, NEW w \in Workers, ClaimSend(w)
  PROVE  DInv'
<1>1. PICK m : m = worker[w].m
  OBVIOUS
<1>2. /\ m \in Messages /\ worker[w].m = m /\ worker[w].step = "claim" /\ msg[m] \in Letter
      /\ UNCHANGED <<hands, drafted, requests, mailed, nudged, loop>> /\ requests' \subseteq Messages
      /\ msg \in [Messages -> Letter] /\ mailed \in [Messages -> Nat] /\ nudged \in [Messages -> Nat]
      /\ Kept(m) /\ worker \in [Workers -> Hand]
  BY <1>1 DEF DInv, DTypes, ClaimSend, Doing, Quiet, Unmailed, vars
<1>3. CASE ~(msg[m].status = "DRAFT" /\ ~msg[m].claimed)
  <2>1. worker' = [worker EXCEPT ![w] = Free] /\ msg' = [msg EXCEPT ![m] = msg[m]]
    BY <1>1, <1>2, <1>3 DEF ClaimSend, Over, Of
  <2>2. Steady(w, m, Free, msg[m])
    BY <1>2, <2>1, FreeIsHand DEF Steady, Out
  <2> QED
    BY <1>2, <2>2, FreeIsHand, SteadyStep
<1>4. CASE msg[m].status = "DRAFT" /\ ~msg[m].claimed
  <2>1. PICK x : x = [msg[m] EXCEPT !.claimed = TRUE]
    OBVIOUS
  <2>2. x \in Letter /\ x.status = "DRAFT" /\ x.claimed
    BY <1>2, <1>4, <2>1 DEF Letter
  <2>3. PICK r : r = [worker[w] EXCEPT !.step = "send"]
    OBVIOUS
  <2>4. r \in Hand /\ r.step = "send" /\ r.m = m
    BY <1>1, <1>2, <2>3 DEF Hand, WorkSteps
  <2>5. worker' = [worker EXCEPT ![w] = r] /\ msg' = [msg EXCEPT ![m] = x]
    BY <1>1, <1>4, <2>1, <2>3 DEF ClaimSend, Now, Of
  <2>6. /\ msg'[m] = x /\ worker'[w] = r /\ \A v \in Workers \ {w} : worker'[v] = worker[v]
        /\ mailed' = [mailed EXCEPT ![m] = mailed[m]] /\ nudged' = [nudged EXCEPT ![m] = nudged[m]]
    BY <1>2, <2>5
  <2>7. /\ ~Out(m) /\ ~Out(m)' /\ \A v \in Workers : ~Sends(v, m) /\ ~Reminds(v, m)
        /\ mailed[m] = 0 /\ nudged[m] = 0 /\ mailed'[m] = 0 /\ nudged'[m] = 0
        /\ drafted' = drafted /\ ~(m > drafted)
    BY <1>2, <1>4, <2>2, <2>6 DEF Kept, Unclaimed, RemindsOnce, Counted, Out
  <2>8. \A v \in Workers : ~Reminds(v, m)' /\ (Sends(v, m)' => v = w)
    BY <2>4, <2>6, <2>7 DEF Sends, Reminds
  <2>9. Kept(m)'
    BY <2>2, <2>4, <2>6, <2>7, <2>8 DEF Kept, Unclaimed, SendsOnce, RemindsOnce, Counted
  <2>10. mailed[m] \in Nat /\ nudged[m] \in Nat
    BY <1>2
  <2>11. Works(w, m, r, x, mailed[m], nudged[m])
    BY <1>2, <2>4, <2>5, <2>6 DEF Works
  <2> QED
    BY <1>2, <2>2, <2>4, <2>9, <2>10, <2>11, WorksStep
<1> QED
  BY <1>3, <1>4

LEMMA SendStep ==
  ASSUME DInv, NEW w \in Workers, Send(w)
  PROVE  DInv'
<1>1. PICK m : m = worker[w].m
  OBVIOUS
<1>2. /\ m \in Messages /\ worker[w].m = m /\ worker[w].step = "send" /\ msg[m] \in Letter
      /\ UNCHANGED <<hands, drafted, requests, msg, nudged, loop>>
      /\ msg \in [Messages -> Letter] /\ mailed \in [Messages -> Nat] /\ nudged \in [Messages -> Nat]
      /\ Kept(m) /\ worker \in [Workers -> Hand]
  BY <1>1 DEF DInv, DTypes, Send, Doing, Quiet, vars
<1>3. /\ Sends(w, m) /\ ~Out(m) /\ mailed[m] = 0 /\ nudged[m] = 0 /\ msg[m].claimed
      /\ \A v \in Workers : ~Reminds(v, m) /\ (Sends(v, m) => v = w)
      /\ ~(m > drafted)
  <2>1. Sends(w, m)
    BY <1>2 DEF Sends
  <2> QED
    BY <1>2, <2>1 DEF Kept, Unclaimed, SendsOnce, RemindsOnce, Counted
<1>4. PICK step \in {"save", "unsent"}, c \in {0, 1} :
        /\ worker' = [worker EXCEPT ![w] = [worker[w] EXCEPT !.step = step]]
        /\ mailed' = [mailed EXCEPT ![m] = c] /\ (step = "save" => c = 1)
  BY <1>1, <1>2, <1>3 DEF Send, Now, Of
<1>5. PICK r : r = [worker[w] EXCEPT !.step = step]
  OBVIOUS
<1>6. r \in Hand /\ r.step = step /\ r.m = m
  BY <1>1, <1>2, <1>5 DEF Hand, WorkSteps
<1>7. /\ worker' = [worker EXCEPT ![w] = r] /\ worker'[w] = r
      /\ \A v \in Workers \ {w} : worker'[v] = worker[v] /\ mailed'[m] = c /\ c \in Nat
      /\ msg' = [msg EXCEPT ![m] = msg[m]] /\ nudged' = [nudged EXCEPT ![m] = nudged[m]]
      /\ nudged[m] \in Nat
  BY <1>2, <1>4, <1>5
<1>8. mailed'[m] = c /\ c \in Nat
  BY <1>2, <1>4
<1>9. /\ ~Out(m)' /\ \A v \in Workers : ~Reminds(v, m)' /\ (Sends(v, m)' => v = w)
  BY <1>2, <1>3, <1>6, <1>7 DEF Out, Sends, Reminds
<1>10. Kept(m)'
  BY <1>2, <1>3, <1>4, <1>6, <1>7, <1>8, <1>9
     DEF Kept, Unclaimed, SendsOnce, RemindsOnce, Counted
<1>11. Works(w, m, r, msg[m], c, nudged[m])
  BY <1>2, <1>4, <1>6, <1>7 DEF Works
<1> QED
  BY <1>2, <1>6, <1>7, <1>8, <1>10, <1>11, WorksStep

LEMMA SaveSentStep ==
  ASSUME DInv, NEW w \in Workers, SaveSent(w)
  PROVE  DInv'
<1>1. PICK m : m = worker[w].m
  OBVIOUS
<1>2. /\ m \in Messages /\ worker[w].m = m /\ worker[w].step = "save" /\ msg[m] \in Letter
      /\ UNCHANGED <<hands, drafted, requests, mailed, nudged, loop>>
      /\ msg \in [Messages -> Letter] /\ mailed \in [Messages -> Nat] /\ nudged \in [Messages -> Nat]
      /\ Kept(m) /\ worker \in [Workers -> Hand]
  BY <1>1 DEF DInv, DTypes, SaveSent, Doing, Quiet, Unmailed, vars
<1>3. /\ Sends(w, m) /\ ~Out(m) /\ mailed[m] = 1 /\ nudged[m] = 0 /\ msg[m].claimed
      /\ \A v \in Workers : ~Reminds(v, m) /\ (Sends(v, m) => v = w)
      /\ ~(m > drafted)
  <2>1. Sends(w, m)
    BY <1>2 DEF Sends
  <2> QED
    BY <1>2, <2>1 DEF Kept, Unclaimed, SendsOnce, RemindsOnce, Counted
<1>4. PICK x : x = [msg[m] EXCEPT !.status = "SENT", !.reminded = FALSE]
  OBVIOUS
<1>5. x \in Letter /\ x.status = "SENT" /\ x.claimed
  BY <1>2, <1>3, <1>4 DEF Letter, Fates
<1>6. worker' = [worker EXCEPT ![w] = Free] /\ msg' = [msg EXCEPT ![m] = x]
  BY <1>1, <1>2, <1>4 DEF SaveSent, Over, Of
<1>7. /\ msg'[m] = x /\ worker'[w] = Free /\ \A v \in Workers \ {w} : worker'[v] = worker[v]
      /\ mailed' = [mailed EXCEPT ![m] = mailed[m]] /\ nudged' = [nudged EXCEPT ![m] = nudged[m]]
      /\ mailed[m] \in Nat /\ nudged[m] \in Nat
  BY <1>2, <1>6
<1>8. Out(m)' /\ \A v \in Workers : ~Reminds(v, m)' /\ ~Sends(v, m)'
  BY <1>3, <1>5, <1>7, FreeIsHand DEF Out, Sends, Reminds
<1>9. Kept(m)'
  BY <1>2, <1>3, <1>5, <1>7, <1>8 DEF Kept, Unclaimed, SendsOnce, RemindsOnce, Counted
<1>10. Works(w, m, Free, x, mailed[m], nudged[m])
  BY <1>2, <1>6, <1>7, FreeIsHand DEF Works
<1> QED
  BY <1>2, <1>5, <1>7, <1>9, <1>10, FreeIsHand, WorksStep

LEMMA ClaimReminderStep ==
  ASSUME DInv, NEW w \in Workers, ClaimReminder(w)
  PROVE  DInv'
<1>1. PICK m \in Messages :
        /\ msg[m].status = "SENT" /\ ~msg[m].reminded
        /\ msg' = [msg EXCEPT ![m].reminded = TRUE]
        /\ worker' = [worker EXCEPT ![w] = [step |-> "remind", m |-> m]]
  BY DEF ClaimReminder
<1>2. /\ worker[w].step = "idle" /\ msg[m] \in Letter
      /\ UNCHANGED <<hands, drafted, requests, mailed, nudged, loop>>
      /\ msg \in [Messages -> Letter] /\ mailed \in [Messages -> Nat] /\ nudged \in [Messages -> Nat]
      /\ Kept(m) /\ worker \in [Workers -> Hand]
  BY DEF DInv, DTypes, ClaimReminder, Doing, Quiet, Unmailed, vars
<1>3. /\ Out(m) /\ mailed[m] = 1 /\ nudged[m] = 0 /\ msg[m].claimed
      /\ \A v \in Workers : ~Reminds(v, m) /\ ~Sends(v, m)
      /\ ~(m > drafted)
  <2>1. Out(m)
    BY <1>1 DEF Out
  <2> QED
    BY <1>1, <1>2, <2>1 DEF Kept, Unclaimed, SendsOnce, RemindsOnce, Counted
<1>4. PICK x : x = [msg[m] EXCEPT !.reminded = TRUE]
  OBVIOUS
<1>5. x \in Letter /\ x.status = "SENT" /\ x.claimed /\ x.reminded
  BY <1>1, <1>2, <1>3, <1>4 DEF Letter
<1>6. PICK r : r = [step |-> "remind", m |-> m]
  OBVIOUS
<1>7. r \in Hand /\ r.step = "remind" /\ r.m = m
  BY <1>6 DEF Hand, WorkSteps
<1>8. worker' = [worker EXCEPT ![w] = r] /\ msg' = [msg EXCEPT ![m] = x]
  BY <1>1, <1>4, <1>6
<1>9. /\ msg'[m] = x /\ worker'[w] = r /\ \A v \in Workers \ {w} : worker'[v] = worker[v]
      /\ mailed' = [mailed EXCEPT ![m] = mailed[m]] /\ nudged' = [nudged EXCEPT ![m] = nudged[m]]
      /\ mailed[m] \in Nat /\ nudged[m] \in Nat
  BY <1>2, <1>8
<1>10. Out(m)' /\ \A v \in Workers : ~Sends(v, m)' /\ (Reminds(v, m)' => v = w)
  BY <1>3, <1>5, <1>7, <1>9 DEF Out, Sends, Reminds
<1>11. Kept(m)'
  BY <1>2, <1>3, <1>5, <1>9, <1>10 DEF Kept, Unclaimed, SendsOnce, RemindsOnce, Counted
<1>12. Works(w, m, r, x, mailed[m], nudged[m])
  BY <1>2, <1>7, <1>8, <1>9 DEF Works
<1> QED
  BY <1>5, <1>7, <1>9, <1>11, <1>12, WorksStep

LEMMA RemindStep ==
  ASSUME DInv, NEW w \in Workers, Remind(w)
  PROVE  DInv'
<1>1. PICK m : m = worker[w].m
  OBVIOUS
<1>2. /\ m \in Messages /\ worker[w].m = m /\ worker[w].step = "remind" /\ msg[m] \in Letter
      /\ UNCHANGED <<hands, drafted, requests, mailed, msg, loop>>
      /\ msg \in [Messages -> Letter] /\ mailed \in [Messages -> Nat] /\ nudged \in [Messages -> Nat]
      /\ Kept(m) /\ worker \in [Workers -> Hand]
  BY <1>1 DEF DInv, DTypes, Remind, Doing, Quiet, vars
<1>3. /\ Out(m) /\ mailed[m] = 1 /\ nudged[m] = 0 /\ msg[m].claimed /\ msg[m].reminded
      /\ \A v \in Workers : (Reminds(v, m) => v = w) /\ ~Sends(v, m)
      /\ ~(m > drafted)
  <2>1. Reminds(w, m)
    BY <1>2 DEF Reminds
  <2> QED
    BY <1>2, <2>1 DEF Kept, Unclaimed, SendsOnce, RemindsOnce, Counted
<1>4. PICK n \in {0, 1} : nudged' = [nudged EXCEPT ![m] = n]
  BY <1>1, <1>2, <1>3 DEF Remind, Of
<1>5. worker' = [worker EXCEPT ![w] = Free] /\ n \in Nat
  BY DEF Remind, Over
<1>6. /\ msg'[m] = msg[m] /\ worker'[w] = Free /\ \A v \in Workers \ {w} : worker'[v] = worker[v]
      /\ mailed' = [mailed EXCEPT ![m] = mailed[m]] /\ msg' = [msg EXCEPT ![m] = msg[m]]
      /\ mailed[m] \in Nat /\ nudged'[m] = n
  BY <1>2, <1>4, <1>5
<1>7. Out(m)' /\ \A v \in Workers : ~Sends(v, m)' /\ ~Reminds(v, m)'
  BY <1>3, <1>6, FreeIsHand DEF Out, Sends, Reminds
<1>8. Kept(m)'
  BY <1>2, <1>3, <1>6, <1>7 DEF Kept, Unclaimed, SendsOnce, RemindsOnce, Counted
<1>9. Works(w, m, Free, msg[m], mailed[m], n)
  BY <1>2, <1>4, <1>5, <1>6, FreeIsHand DEF Works
<1> QED
  BY <1>2, <1>5, <1>6, <1>8, <1>9, FreeIsHand, WorksStep

\* A tool drafts the next question, which nobody knows of yet.
LEMMA DraftStep ==
  ASSUME DInv, NEW l \in Loops, Draft(l)
  PROVE  DInv'
<1>1. PICK m : m = drafted + 1
  OBVIOUS
<1>2. /\ m \in Messages /\ drafted \in Nat /\ drafted' = m /\ drafted' \in 0..MaxMessages
      /\ drafted < m /\ msg[m] \in Letter /\ UNCHANGED <<hands, requests, worker, mailed, nudged>>
      /\ msg \in [Messages -> Letter] /\ Kept(m)
  <2>1. drafted \in 0..MaxMessages /\ drafted < MaxMessages /\ drafted' = drafted + 1
    BY DEF Draft, DInv, DTypes
  <2>2. drafted \in Nat /\ m \in 1..MaxMessages /\ m \in 0..MaxMessages /\ drafted < m
    BY <1>1, <2>1, QuestionsAreBounded
  <2> QED
    BY <1>1, <2>1, <2>2 DEF Draft, DInv, DTypes, Messages
<1>3. PICK x : x = [msg[m] EXCEPT !.status = "DRAFT"]
  OBVIOUS
<1>4. x \in Letter /\ x.status = "DRAFT" /\ x.claimed = msg[m].claimed
  BY <1>2, <1>3 DEF Letter, Fates
<1>5. msg' = [msg EXCEPT ![m] = x]
  BY <1>1, <1>3 DEF Draft
<1>6. /\ msg' \in [Messages -> Letter] /\ msg'[m] = x
      /\ \A n \in Messages \ {m} : msg'[n] = msg[n]
  BY <1>2, <1>4, <1>5
<1>7. DTypes'
  BY <1>2, <1>6 DEF DInv, DTypes
<1>8. /\ ~Out(m) /\ ~Out(m)' /\ \A v \in Workers : ~Sends(v, m) /\ ~Reminds(v, m)
      /\ mailed[m] = 0 /\ nudged[m] = 0 /\ ~msg[m].claimed
  BY <1>2, <1>4, <1>6 DEF Kept, Unclaimed, RemindsOnce, Counted, Out
<1>9. \A v \in Workers : ~Sends(v, m)' /\ ~Reminds(v, m)'
  BY <1>2, <1>8 DEF Sends, Reminds
<1>10. Kept(m)'
  BY <1>2, <1>4, <1>6, <1>8, <1>9 DEF Kept, Unclaimed, SendsOnce, RemindsOnce, Counted
<1>11. OnlyOf(m)
  BY <1>2, <1>6 DEF OnlyOf
<1>12. AskingHasDraft'
  BY <1>2 DEF AskingHasDraft
<1> QED
  BY <1>2, <1>7, <1>10, <1>11, <1>12, OthersKept

LEMMA RequestStep ==
  ASSUME DInv, NEW l \in Loops, Request(l)
  PROVE  DInv'
<1>1. drafted # 0 /\ UNCHANGED <<hands, msg, worker, drafted, mailed, nudged>>
  BY DEF Request, DInv, AskingHasDraft
<1>2. drafted \in Messages /\ requests' \subseteq requests \cup {drafted}
  BY <1>1, QuestionsAreBounded DEF Request, DInv, DTypes, Messages
<1> QED
  BY <1>1, <1>2, Unmoved DEF DInv, DTypes, AskingHasDraft

LEMMA AcceptStep ==
  ASSUME DInv, NEW m \in Messages, Accept(m)
  PROVE  DInv'
<1>1. UNCHANGED <<hands, drafted, requests, worker, mailed, nudged, loop>> /\ Kept(m)
      /\ msg \in [Messages -> Letter] /\ msg[m] \in Letter
  BY DEF Accept, vars, DInv, DTypes
<1>2. AskingHasDraft'
  BY <1>1 DEF DInv, AskingHasDraft, Asking
<1>3. CASE msg[m].status # "SENT"
  BY <1>1, <1>2, <1>3, Unmoved DEF Accept, DInv, DTypes
<1>4. CASE msg[m].status = "SENT"
  <2>1. PICK x : x = [msg[m] EXCEPT !.status = "REPLIED"]
    OBVIOUS
  <2>2. x \in Letter /\ x.status = "REPLIED" /\ x.claimed = msg[m].claimed
        /\ x.reminded = msg[m].reminded
    BY <1>1, <2>1 DEF Letter, Fates
  <2>3. /\ msg' \in [Messages -> Letter] /\ msg'[m] = x
        /\ \A n \in Messages \ {m} : msg'[n] = msg[n]
    BY <1>1, <1>4, <2>1, <2>2 DEF Accept, Write
  <2>4. DTypes'
    BY <1>1, <2>3 DEF DInv, DTypes
  <2>5. OnlyOf(m)
    BY <1>1, <2>3, QuestionsAreBounded DEF OnlyOf, DInv, DTypes
  <2>6. Out(m) /\ Out(m)'
    BY <1>4, <2>2, <2>3 DEF Out
  <2>7. \A v \in Workers : (Sends(v, m)' <=> Sends(v, m)) /\ (Reminds(v, m)' <=> Reminds(v, m))
    BY <1>1 DEF Sends, Reminds
  <2>8. Unclaimed(m)'
    BY <1>1, <1>4, <2>2, <2>3, <2>6, <2>7 DEF Kept, Unclaimed
  <2>9. SendsOnce(m)' /\ RemindsOnce(m)'
    BY <1>1, <2>2, <2>3, <2>6, <2>7 DEF Kept, SendsOnce, RemindsOnce
  <2>10. Counted(m)'
    BY <1>1, <2>2, <2>3, <2>6 DEF Kept, Counted
  <2> QED
    BY <1>2, <2>4, <2>5, <2>8, <2>9, <2>10, OthersKept DEF Kept
<1> QED
  BY <1>3, <1>4

LEMMA DStep ==
  ASSUME DInv, [DNext]_dvars
  PROVE  DInv'
<1>1. CASE RunsNext
  <2>1. UNCHANGED dialogue /\ \A l \in Loops : Asking(l)' => Asking(l)
    BY <1>1 DEF RunsNext, Asking
  <2> QED
    BY <2>1, Unmoved DEF dialogue, DInv, DTypes, AskingHasDraft
<1>2. CASE \E m \in Messages : Elapse(m) \/ Reply(m) \/ Match(m) \/ Relay(m)
  <2>1. /\ UNCHANGED <<hands, msg, worker, drafted, mailed, nudged, requests, loop>>
    BY <1>2 DEF Elapse, Reply, Match, Relay, vars, Unmailed, rest
  <2> QED
    BY <2>1, Unmoved DEF DInv, DTypes, AskingHasDraft, Asking
<1>3. CASE UNCHANGED dvars
  BY <1>3, Unmoved DEF dvars, vars, dialogue, DInv, DTypes, AskingHasDraft, Asking
<1>4. ASSUME NEW w \in hands, NotifierNext(w) \/ Crash(w)
      PROVE  DInv'
  <2>1. w \in Workers
    BY DEF DInv, DTypes
  <2> QED
    BY <1>4, <2>1, NotifyStep, CheckStep, ClaimSendStep, SendStep, SaveSentStep, TickStep,
       ClaimReminderStep, RemindStep, EscalateStep DEF NotifierNext
<1> QED
  BY <1>1, <1>2, <1>3, <1>4, DraftStep, RequestStep, AcceptStep DEF DNext

LEMMA DInitHolds == ASSUME DInit PROVE DInv
<1>1. /\ hands \subseteq Workers /\ drafted = 0 /\ requests = {}
      /\ msg = [m \in Messages |-> Unwritten] /\ worker = [w \in Workers |-> Free]
      /\ mailed = [m \in Messages |-> 0] /\ nudged = [m \in Messages |-> 0]
  BY HandsAreWorkers DEF DInit
<1>2. Unwritten \in Letter /\ Unwritten.status = "NONE" /\ ~Unwritten.claimed
  BY DEF Unwritten, Letter, Fates
<1>3. DTypes
  BY <1>1, <1>2, FreeIsHand, QuestionsAreBounded DEF DTypes
<1>4. AskingHasDraft
  <2>1. \A l \in Loops : loop[l] \in {Away, [Away EXCEPT !.step = "work", !.run = 1]}
    BY DEF DInit
  <2>2. Away.tool = "none" /\ [Away EXCEPT !.step = "work", !.run = 1].tool = "none"
    BY DEF Away
  <2> QED
    BY <2>1, <2>2 DEF AskingHasDraft, Asking
<1>5. ASSUME NEW m \in Messages PROVE Kept(m)
  BY <1>1, <1>2, FreeIsHand
     DEF Kept, Unclaimed, SendsOnce, RemindsOnce, Counted, Sends, Reminds, Out
<1> QED
  BY <1>3, <1>4, <1>5 DEF DInv

\* The invariant below the two theorems that follow: what each question's record and each worker
\* that reads, sends or reminds for it know of one another.
THEOREM DialogueInvariance == DSpec => []DInv
<1> QED
  BY DInitHolds, DStep, PTL DEF DSpec

-----------------------------------------------------------------------------
(* Theorems *)

\* A supplier gets a question once and its reminder at most once, whatever is delivered
\* again, raises or stops.
THEOREM QuestionsGoOutOnce == DSpec => []AskedOnce
<1>1. DInv => AskedOnce
  <2> SUFFICES ASSUME DInv, NEW m \in Messages
               PROVE  mailed[m] \in {0, 1} /\ nudged[m] <= mailed[m]
    BY DEF AskedOnce
  <2>1. Kept(m)
    BY DEF DInv
  <2> QED
    BY <2>1 DEF Kept, Counted
<1> QED
  BY <1>1, DialogueInvariance, PTL

\* An answered question never times out, and one that timed out is never answered or asked
\* again: of the writes without a condition, the save comes before both ends, and the draft
\* writes a question nobody has.
THEOREM QuestionsEndOnce == DSpec => OneEnd
<1> DEFINE Ended(m) == msg[m].status \in {"TIMED_OUT", "REPLIED"}
           Stays == \A m \in Messages : Ended(m) => msg'[m].status = msg[m].status
<1>1. ASSUME DInv, [DNext]_dvars PROVE Stays
  <2> SUFFICES ASSUME NEW m \in Messages, Ended(m), msg' # msg
               PROVE  msg'[m].status = msg[m].status
    OBVIOUS
  <2>0. /\ msg \in [Messages -> Letter] /\ Kept(m) /\ Out(m)
        /\ \A w \in Workers : ~Sends(w, m)
    BY <1>1 DEF DInv, DTypes, Kept, SendsOnce, Out
  <2>1. ASSUME NEW l \in Loops, Draft(l) PROVE msg'[m].status = msg[m].status
    <3>1. ~(m > drafted) /\ m \in Nat /\ drafted \in Nat
      BY <1>1, <2>0, MessagesAreNumbered, QuestionsAreBounded DEF Kept, Unclaimed, Out, DInv, DTypes
    <3>2. m # drafted + 1
      BY <3>1
    <3> QED
      BY <2>0, <2>1, <3>2 DEF Draft
  <2>2. ASSUME NEW n \in Messages, Accept(n) PROVE msg'[m].status = msg[m].status
    BY <2>0, <2>2 DEF Accept, Write
  <2>3. ASSUME NEW w \in hands, NotifierNext(w) \/ Crash(w) PROVE msg'[m].status = msg[m].status
    <3>1. w \in Workers
      BY <1>1 DEF DInv, DTypes
    <3>2. CASE SaveSent(w)
      <4>1. worker[w].m # m
        BY <2>0, <3>1, <3>2 DEF Sends, SaveSent, Doing
      <4> QED
        BY <2>0, <3>2, <4>1 DEF SaveSent, Of
    <3>3. CASE Block(w) \/ Unsent(w)
      BY <2>0, <3>3 DEF Block, Unsent, Write, Sending
    <3>4. CASE ClaimSend(w)
      BY <2>0, <3>4 DEF ClaimSend, Letter
    <3>5. CASE Tick(w)
      BY <2>0, <3>5 DEF Tick, Write, Sending
    <3>6. CASE ClaimReminder(w) \/ Mark(w)
      BY <2>0, <3>6 DEF ClaimReminder, Mark, Letter
    <3>7. CASE Notify(w) \/ CheckDraft(w) \/ Send(w) \/ Remind(w) \/ LeaveWait(w) \/ ToTier3(w)
                 \/ Crash(w)
      BY <3>7 DEF Notify, CheckDraft, Send, Remind, LeaveWait, ToTier3, Crash
    <3> QED
      BY <2>3, <3>2, <3>3, <3>4, <3>5, <3>6, <3>7 DEF NotifierNext
  <2>4. CASE RunsNext \/ UNCHANGED dvars \/ (\E l \in Loops : Request(l))
             \/ \E n \in Messages : Elapse(n) \/ Reply(n) \/ Match(n) \/ Relay(n)
    BY <2>4 DEF RunsNext, dvars, dialogue, Request, Elapse, Reply, Match, Relay
  <2> QED
    BY <1>1, <2>1, <2>2, <2>3, <2>4 DEF DNext
<1>2. DInv /\ [DNext]_dvars => [Stays]_dvars
  BY <1>1
<1> QED
  BY <1>2, DialogueInvariance, PTL DEF DSpec, OneEnd
=============================================================================
