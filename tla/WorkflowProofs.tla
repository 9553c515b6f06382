--------------------------- MODULE WorkflowProofs ---------------------------
(***************************************************************************)
(* Proofs about Workflow for any set of executors, any number and kinds of *)
(* steps, any donors and quantities, with and without lost answers.        *)
(***************************************************************************)
EXTENDS Workflow, FiniteSetTheorems, TLAPS

-----------------------------------------------------------------------------
(* The inductive invariant: whose turn it is *)

\* Points that only the executor that won a claim reaches: the claim on the
\* execution, or later the one on its rollback.
Owning == Active \ {"prepareExec", "claimExec", "commitExec",
                    "prepareRollback", "claimRollback", "commitRollback"}

Owns(e) == run[e].pc \in Owning

\* One executor at most touches the steps.
Alone == \A e, f \in Executors : Owns(e) /\ Owns(f) => e = f

ForRollback == {"prepareRollback", "claimRollback", "commitRollback", "scan", "completeRollback"}

\* What an executor's own record says at each point, whatever the others do.
RecordFits(e) ==
  /\ run[e].pc \in ForRollback => run[e].mode = "rollback"
  /\ run[e].pc \notin ForRollback \cup Undoing \cup {"release"} => run[e].mode = "run"
  /\ run[e].pc \in {"new", "prepareExec", "claimExec", "commitExec", "records", "revalidate", "reserve"} =>
       run[e].i = 1 /\ run[e].done = {} /\ (run[e].pc # "reserve" => run[e].mine = {})

\* What the claims say of an executor that holds one.
Claimed(e) ==
  /\ run[e].pc \in ForRollback => exec = "SUCCEEDED"
  /\ Owns(e) => IF run[e].mode = "run" THEN exec = "PENDING"
                ELSE exec = "SUCCEEDED" /\ rollback = "PENDING"

-----------------------------------------------------------------------------
(* The inductive invariant: journal, SAP and ledger *)

Irreversible(i) == Kind[i] = "irreversible"

\* What the journal's entries for a step say of its document in SAP. Only an
\* entry left PENDING does not tell.
StepShape(i) ==
  /\ step[i] \in {"NONE", "READY"} => writes[i] = 0 /\ sap[i] = "absent"
  /\ step[i] = "PENDING" => \/ writes[i] = 0 /\ sap[i] = "absent"
                            \/ writes[i] = 1 /\ sap[i] = "live"
  /\ step[i] \in {"SUCCEEDED", "UNDONE"} => writes[i] = 1
  /\ step[i] \in {"NONE", "READY", "PENDING"} => undo[i] = "NONE"
  /\ step[i] = "UNDONE" => undo[i] = "SUCCEEDED"
  /\ undo[i] \in {"NONE", "READY"} => undos[i] = 0
  /\ step[i] = "SUCCEEDED" /\ undo[i] \in {"NONE", "READY"} => sap[i] = "live"
  /\ undo[i] = "PENDING" => \/ undos[i] = 0 /\ sap[i] = "live"
                            \/ undos[i] = 1 /\ sap[i] = "undone"
  /\ undo[i] = "SUCCEEDED" => undos[i] = 1 /\ sap[i] = "undone"
  /\ undo[i] # "UNDONE"
  /\ undo[i] # "NONE" => ~Irreversible(i)

TransfersFree(S) == \A t \in S : res[Donor[t]].status # "HELD"

TransfersHeld(S) == \A t \in S : res[Donor[t]] = Held(Qty[t])

\* Nothing that can be undone stands.
Unwound ==
  \A i \in Steps : step[i] = "UNDONE" \/ (step[i] = "SUCCEEDED" /\ Irreversible(i))

\* What the keys of the execution and of its rollback say of the steps.
Journal ==
  /\ exec # "UNDONE" /\ rollback # "UNDONE"
  /\ exec \in {"NONE", "READY"} => \A i \in Steps : step[i] = "NONE"
  /\ exec # "SUCCEEDED" => rollback = "NONE"
  /\ exec = "SUCCEEDED" => \A i \in Steps : step[i] \in {"SUCCEEDED", "UNDONE"}
  /\ exec = "SUCCEEDED" /\ rollback \in {"NONE", "READY"} =>
       \A i \in Steps : step[i] = "SUCCEEDED" /\ undo[i] = "NONE"
  /\ rollback = "SUCCEEDED" => Unwound /\ TransfersFree(Transfers)

\* No step is attempted before every step has its undo plan.
PlansFirst ==
  (\E i \in Steps : step[i] \in {"PENDING", "SUCCEEDED", "UNDONE"})
    => \A i \in Steps : step[i] # "NONE"

\* What an audit event of a rollback is written after.
Said ==
  /\ "FAILED_ROLLED_BACK" \in said =>
      /\ exec = "PENDING"
      /\ \A e \in Executors : ~Owns(e)
      /\ \A i \in Steps : /\ step[i] # "PENDING"
                          /\ step[i] = "SUCCEEDED" => lossy \/ Irreversible(i)
      /\ TransfersFree(Transfers)
  /\ "ROLLED_BACK" \in said =>
      /\ rollback \in {"PENDING", "SUCCEEDED"}
      /\ \A e \in Executors : Owns(e) => run[e].pc = "completeRollback"
      /\ Unwound
      /\ TransfersFree(Transfers)

Reserved ==
  /\ \A d \in Donors : res[d].status = "HELD" => \E t \in Transfers : Donor[t] = d
  /\ ~lossy => \A t \in Transfers :
       sap[t] = "live" \/ step[t] = "PENDING" => res[Donor[t]] = Held(Qty[t])

World ==
  /\ \A i \in Steps : StepShape(i)
  /\ Journal
  /\ PlansFirst
  /\ Said
  /\ Reserved

-----------------------------------------------------------------------------
(* The inductive invariant: what the owner knows at each point *)

Before(k, status) == \A j \in Steps : j < k => step[j] = status

After(k, status) == \A j \in Steps : j > k => step[j] = status

AtPrepare(e) ==
  LET r == run[e] IN
  /\ r.pc \in {"records", "revalidate", "reserve"} => \A j \in Steps : step[j] = "NONE"
  /\ r.pc = "reserve" => TransfersHeld(r.mine \cap Transfers)
  /\ r.pc = "saveUndo" =>
       r.done = {} /\ Before(r.i, "READY") /\ step[r.i] = "NONE" /\ After(r.i, "NONE")
  /\ r.pc = "unhold" => \A j \in Steps : step[j] \in {"NONE", "READY"}
  /\ r.pc = "auditUndo" => r.i = 1

Forward == {"records", "revalidate", "auditUndo", "finish", "completeExec", "scan"}
             \cup Preparing \cup Writing

\* The loop over the writes: the steps before the current one are written.
AtWrite(e) ==
  LET r == run[e] IN
  /\ r.pc \in Forward => \A j \in Steps : undo[j] = "NONE"
  /\ r.pc \in Writing \cup {"auditUndo"} => Before(r.i, "SUCCEEDED") /\ After(r.i, "READY")
  /\ r.pc \in {"auditUndo", "kill", "claimStep"} => step[r.i] = "READY"
  /\ r.pc \in {"auditUndo", "kill", "claimStep", "apply", "complete"} => r.done = 1..(r.i - 1)
  /\ r.pc = "apply" => step[r.i] = "PENDING" /\ writes[r.i] = 0
  /\ r.pc = "complete" => step[r.i] = "PENDING" /\ writes[r.i] = 1
  /\ r.pc = "verify" => step[r.i] = "SUCCEEDED" /\ r.done = 1..r.i
  /\ r.pc \in {"finish", "completeExec", "scan"} => \A j \in Steps : step[j] = "SUCCEEDED"

\* What compensation passes over still stands: it cannot be undone, or its
\* completion was recorded and the answer lost.
PassedOver(r, j) == step[j] = "SUCCEEDED" => Irreversible(j) \/ (lossy /\ r.mode = "run")

\* The loop over the undos: the steps still to undo are the first ones.
AtUndo(e) ==
  LET r == run[e] IN
  /\ r.pc \in Undoing =>
       /\ \A j \in r.done : \A k \in 1..j : k \in r.done
       /\ \A j \in r.done : step[j] = "SUCCEEDED"
       /\ \A j \in r.done : r.pc = "compensate" \/ j # r.i => undo[j] = "NONE"
       /\ \A j \in Steps \ r.done : PassedOver(r, j)
  /\ r.pc \in Undoing \ {"compensate"} =>
       /\ r.i \in r.done
       /\ \A j \in r.done : j <= r.i
       /\ ~Irreversible(r.i)
  /\ r.pc = "prepareUndo" => undo[r.i] = "NONE"
  /\ r.pc = "claimUndo" => undo[r.i] = "READY"
  /\ r.pc = "undoSap" => undo[r.i] = "PENDING" /\ undos[r.i] = 0
  /\ r.pc = "completeUndo" => undo[r.i] = "PENDING" /\ undos[r.i] = 1
  /\ r.pc = "markUndone" => undo[r.i] = "SUCCEEDED"

AtClose(e) ==
  LET r == run[e] IN
  /\ r.pc \in {"settle", "release", "completeRollback"} => \A j \in Steps : PassedOver(r, j)
  /\ r.pc \in {"release", "completeRollback"} => \A j \in Steps : step[j] # "PENDING"
  /\ r.pc = "release" => TransfersFree(Transfers \ r.mine)
  /\ r.pc = "completeRollback" => TransfersFree(Transfers)

Holding == {"saveUndo", "auditUndo", "finish", "completeExec", "settle"} \cup Writing \cup Undoing

\* From the last reservation to the first release every transfer is held.
Keeps(e) ==
  run[e].pc \in Holding =>
    /\ Transfers \subseteq run[e].mine
    /\ run[e].mode = "run" => TransfersHeld(Transfers)

Knows(e) ==
  RecordFits(e) /\ Claimed(e) /\ AtPrepare(e) /\ AtWrite(e) /\ AtUndo(e) /\ AtClose(e) /\ Keeps(e)

IInv ==
  /\ TypeOK
  /\ Alone
  /\ World
  /\ \A e \in Executors : Knows(e)

-----------------------------------------------------------------------------
(* How an executor's record changes *)

USE StepsExist, KindIsKind, DonorIsDonor, QtyIsPositive

\* Where executor e is after its step, and what it carries; the others stay.
Moves(e, pc, mode, i, mine, done) ==
  /\ run' \in [Executors -> Run]
  /\ run'[e].pc = pc /\ run'[e].mode = mode /\ run'[e].i = i
  /\ run'[e].mine = mine /\ run'[e].done = done
  /\ \A f \in Executors \ {e} : run'[f] = run[f]

Points == {"new", "ended"} \cup Active

LEMMA GotoMoves ==
  ASSUME TypeOK, NEW e \in Executors, NEW pc \in Points, Goto(e, pc)
  PROVE  Moves(e, pc, run[e].mode, run[e].i, run[e].mine, run[e].done)
BY DEF TypeOK, Goto, Moves, Run, Points

LEMMA EndMoves ==
  ASSUME TypeOK, NEW e \in Executors, NEW out \in Outcomes, End(e, out)
  PROVE  Moves(e, "ended", "run", 1, {}, {})
<1>1. 1 \in 1..N
  BY StepsExist
<1>2. Fresh("ended", out) \in Run
  BY <1>1 DEF Fresh, Run
<1>3. QED BY <1>2 DEF TypeOK, End, Fresh, Moves

LEMMA RaisedMoves ==
  ASSUME TypeOK, NEW e \in Executors, Raised(e)
  PROVE  /\ run[e].pc \in Preparing =>
              Moves(e, "unhold", run[e].mode, run[e].i, run[e].mine, run[e].done)
         /\ run[e].pc \in Writing =>
              Moves(e, "compensate", run[e].mode, run[e].i, run[e].mine, run[e].done)
         /\ run[e].pc \notin Preparing \cup Writing => Moves(e, "ended", "run", 1, {}, {})
<1>1. CASE run[e].pc \in Preparing
  BY <1>1, GotoMoves DEF Raised, Points, Active, Preparing, Writing
<1>2. CASE run[e].pc \in Writing
  BY <1>2, GotoMoves DEF Raised, Points, Active, Preparing, Writing, Undoing
<1>3. CASE run[e].pc \notin Preparing \cup Writing
  BY <1>3, EndMoves DEF Raised, Outcomes
<1>4. QED BY <1>1, <1>2, <1>3

\* The owner's step: nobody else stands where the steps matter.
LEMMA OwnerStep ==
  ASSUME IInv, TypeOK', World', NEW e \in Executors, Owns(e),
         \A f \in Executors \ {e} : run'[f] = run[f],
         exec = "SUCCEEDED" => exec' = "SUCCEEDED",
         Knows(e)'
  PROVE  IInv'
<1>1. ASSUME NEW f \in Executors \ {e}
      PROVE  ~Owns(f) /\ ~Owns(f)' /\ run'[f] = run[f]
  BY <1>1 DEF IInv, Alone, Owns
<1>2. Alone'
  BY <1>1 DEF Alone
<1>3. ASSUME NEW f \in Executors \ {e}
      PROVE  Knows(f)'
  <2>1. RecordFits(f) /\ Claimed(f)
    BY DEF IInv, Knows
  <2>2. RecordFits(f)' /\ Claimed(f)'
    BY <1>1, <2>1 DEF RecordFits, Claimed
  <2>3. run[f].pc \in Points \ Owning
    BY <1>1 DEF IInv, TypeOK, Run, Points, Owns
  <2>4. AtPrepare(f)' /\ AtWrite(f)' /\ AtUndo(f)' /\ AtClose(f)' /\ Keeps(f)'
    BY <1>1, <2>3 DEF AtPrepare, AtWrite, AtUndo, AtClose, Keeps, Points, Owning, Active, Forward, Holding,
       Preparing, Writing, Undoing, Closing, Starting
  <2>5. QED BY <2>2, <2>4 DEF Knows
<1>4. QED BY <1>2, <1>3 DEF IInv

\* A finished executor knows nothing.
LEMMA EndedKnows ==
  ASSUME NEW e, run'[e].pc = "ended", run'[e].mode = "run"
  PROVE  Knows(e)' /\ ~Owns(e)'
BY DEF Knows, RecordFits, Claimed, AtPrepare, AtWrite, AtUndo, AtClose, Keeps, Owns, Owning, Active,
   Forward, Holding, ForRollback, Preparing, Writing, Undoing, Closing, Starting

\* A step that leaves journal, SAP and ledger alone and says nothing of a rollback.
LEMMA SameWorld ==
  ASSUME IInv, NEW e \in Executors, UNCHANGED <<journal, res, world, lossy>>,
         NEW X \in SUBSET {"EXECUTION_COMPLETED", "EXECUTION_HALTED", "EXECUTION_UNCERTAIN"},
         said' = said \cup X,
         \A f \in Executors \ {e} : run'[f] = run[f],
         Owns(e)' => Owns(e) /\ run[e].pc # "completeRollback"
  PROVE  World'
<1> USE DEF journal, world
<1>1. (\A i \in Steps : StepShape(i))'
  BY DEF IInv, World, StepShape
<1>2. Journal' /\ PlansFirst'
  BY DEF IInv, World, Journal, PlansFirst, Unwound, TransfersFree
<1>3. Said'
  BY DEF IInv, World, Said, Owns, Unwound, TransfersFree
<1>4. Reserved'
  BY DEF IInv, World, Reserved
<1>5. QED BY <1>1, <1>2, <1>3, <1>4 DEF World

LEMMA SameTypes ==
  ASSUME TypeOK, UNCHANGED <<journal, res, world, lossy>>, run' \in [Executors -> Run],
         NEW X \in SUBSET {"EXECUTION_COMPLETED", "EXECUTION_HALTED", "EXECUTION_UNCERTAIN"},
         said' = said \cup X
  PROVE  TypeOK'
BY DEF TypeOK, journal, world

\* An executor without a claim moves, and no claim with it.
LEMMA FreeStep ==
  ASSUME IInv, NEW e \in Executors, ~Owns(e), ~Owns(e)', run' \in [Executors -> Run],
         \A f \in Executors \ {e} : run'[f] = run[f],
         UNCHANGED <<journal, res, world, lossy, said>>,
         RecordFits(e)', Claimed(e)'
  PROVE  IInv'
<1>1. TypeOK'
  <2>1. said' = said \cup {}
    OBVIOUS
  <2>2. QED BY <2>1, SameTypes DEF IInv
<1>2. World'
  <2>1. said' = said \cup {}
    OBVIOUS
  <2>2. QED BY <2>1, SameWorld
<1>3. Alone'
  BY DEF IInv, Alone, Owns
<1>4. Knows(e)'
  <2>1. run'[e].pc \in Points \ Owning
    BY DEF Run, Points, Owns
  <2>2. AtPrepare(e)' /\ AtWrite(e)' /\ AtUndo(e)' /\ AtClose(e)' /\ Keeps(e)'
    BY <2>1 DEF AtPrepare, AtWrite, AtUndo, AtClose, Keeps, Points, Owning, Active, Forward, Holding,
       Preparing, Writing, Undoing, Closing, Starting
  <2>3. QED BY <2>2 DEF Knows
<1>5. ASSUME NEW f \in Executors \ {e}
      PROVE  Knows(f)'
  <2>1. Knows(f)
    BY DEF IInv
  <2>2. QED
    BY <2>1 DEF Knows, RecordFits, Claimed, AtPrepare, AtWrite, AtUndo, AtClose, Keeps, Owns,
       Before, After, PassedOver, TransfersFree, TransfersHeld, journal, world
<1>6. QED BY <1>1, <1>2, <1>3, <1>4, <1>5 DEF IInv

\* The owner moves and leaves journal, SAP and ledger alone.
LEMMA OwnerMoves ==
  ASSUME IInv, NEW e \in Executors, Owns(e), run' \in [Executors -> Run],
         \A f \in Executors \ {e} : run'[f] = run[f],
         UNCHANGED <<journal, res, world, lossy>>,
         NEW X \in SUBSET {"EXECUTION_COMPLETED", "EXECUTION_HALTED", "EXECUTION_UNCERTAIN"},
         said' = said \cup X,
         run[e].pc = "completeRollback" => ~Owns(e)',
         Knows(e)'
  PROVE  IInv'
<1>1. TypeOK'
  BY SameTypes DEF IInv
<1>2. World'
  BY SameWorld
<1>3. exec' = exec
  BY DEF journal
<1>4. QED BY <1>1, <1>2, <1>3, OwnerStep

\* An executor stops; what it left behind stays.
LEMMA StopStep ==
  ASSUME IInv, NEW e \in Executors, NEW out \in Outcomes, End(e, out),
         UNCHANGED <<journal, res, world, lossy>>,
         NEW X \in SUBSET {"EXECUTION_COMPLETED", "EXECUTION_HALTED", "EXECUTION_UNCERTAIN"},
         said' = said \cup X, Owns(e) \/ X = {}
  PROVE  IInv'
<1>1. Moves(e, "ended", "run", 1, {}, {})
  BY EndMoves DEF IInv
<1>2. Knows(e)' /\ ~Owns(e)'
  BY <1>1, EndedKnows DEF Moves
<1>3. CASE Owns(e)
  BY <1>1, <1>2, <1>3, OwnerMoves DEF Moves
<1>4. CASE ~Owns(e)
  BY <1>1, <1>2, <1>4, FreeStep DEF Moves, Knows
<1>5. QED BY <1>3, <1>4

-----------------------------------------------------------------------------
(* Claims *)

LEMMA BeginRunStep ==
  ASSUME IInv, NEW e \in Executors, BeginRun(e), UNCHANGED lossy
  PROVE  IInv'
<1>1. run[e].pc = "new" /\ ~Owns(e) /\ Knows(e)
  BY DEF IInv, BeginRun, At, Owns, Owning, Active, Starting, Preparing, Writing, Undoing, Closing
<1>2. CASE Goto(e, "prepareExec")
  <2>1. Moves(e, "prepareExec", run[e].mode, run[e].i, run[e].mine, run[e].done)
    BY <1>2, GotoMoves DEF IInv, Points, Active, Starting
  <2>2. RecordFits(e)' /\ Claimed(e)' /\ ~Owns(e)'
    BY <1>1, <2>1 DEF Knows, RecordFits, Claimed, Owns, Owning, ForRollback, Moves, Undoing
  <2>3. QED BY <1>1, <2>1, <2>2, FreeStep DEF BeginRun, Moves
<1>3. CASE End(e, "HALTED")
  <2>1. said' = said \cup {}
    BY DEF BeginRun
  <2>2. QED BY <1>3, <2>1, StopStep DEF BeginRun, Outcomes
<1>4. QED BY <1>2, <1>3 DEF BeginRun

LEMMA PrepareExecStep ==
  ASSUME IInv, NEW e \in Executors, PrepareExec(e), UNCHANGED lossy
  PROVE  IInv'
<1>1. /\ run[e].pc = "prepareExec" /\ ~Owns(e) /\ Knows(e)
      /\ UNCHANGED <<rollback, step, undo, res, sap, writes, undos, said>>
  BY DEF IInv, PrepareExec, At, Owns, Owning, world
<1>2. Moves(e, "claimExec", run[e].mode, run[e].i, run[e].mine, run[e].done)
  BY GotoMoves DEF IInv, PrepareExec, Points, Active, Starting
<1>3. exec' = exec \/ (exec = "NONE" /\ exec' = "READY")
  BY DEF PrepareExec, Prepared
<1>4. RecordFits(e)' /\ Claimed(e)' /\ ~Owns(e)'
  BY <1>1, <1>2 DEF Knows, RecordFits, Claimed, Owns, Owning, ForRollback, Moves, Undoing
<1>5. TypeOK'
  BY <1>1, <1>2, <1>3 DEF IInv, TypeOK, Moves, Statuses
<1>6. World'
  <2>1. (\A i \in Steps : StepShape(i))'
    BY <1>1 DEF IInv, World, StepShape
  <2>2. Journal' /\ PlansFirst'
    BY <1>1, <1>3 DEF IInv, World, Journal, PlansFirst, Unwound, TransfersFree
  <2>3. Said'
    BY <1>1, <1>2, <1>3, <1>4 DEF IInv, World, Said, Owns, Unwound, TransfersFree, Moves
  <2>4. Reserved'
    BY <1>1 DEF IInv, World, Reserved
  <2>5. QED BY <2>1, <2>2, <2>3, <2>4 DEF World
<1>7. Alone'
  BY <1>2, <1>4 DEF IInv, Alone, Owns, Moves
<1>8. Knows(e)'
  BY <1>2, <1>4 DEF Knows, Moves, AtPrepare, AtWrite, AtUndo, AtClose, Keeps, Forward, Holding,
     Preparing, Writing, Undoing
<1>9. ASSUME NEW f \in Executors \ {e}
      PROVE  Knows(f)'
  <2>1. Knows(f)
    BY DEF IInv
  <2>2. run'[f] = run[f]
    BY <1>2 DEF Moves
  <2>3. QED
    BY <1>1, <1>3, <2>1, <2>2 DEF Knows, RecordFits, Claimed, AtPrepare, AtWrite, AtUndo, AtClose, Keeps, Owns,
       Before, After, PassedOver, TransfersFree, TransfersHeld
<1>10. QED BY <1>5, <1>6, <1>7, <1>8, <1>9 DEF IInv

LEMMA ReadRecordsStep ==
  ASSUME IInv, NEW e \in Executors, ReadRecords(e), UNCHANGED lossy
  PROVE  IInv'
<1>1. run[e].pc = "records" /\ Owns(e) /\ Knows(e)
  BY DEF IInv, ReadRecords, At, Owns, Owning, Active, Starting
<1>2. CASE Goto(e, "revalidate")
  <2>1. Moves(e, "revalidate", run[e].mode, run[e].i, run[e].mine, run[e].done)
    BY <1>2, GotoMoves DEF IInv, Points, Active, Starting
  <2>2. Knows(e)'
    BY <1>1, <2>1 DEF ReadRecords, journal, world, Knows, RecordFits, Claimed, AtPrepare, AtWrite, AtUndo, AtClose, Keeps, Owns, Owning, Moves,
       ForRollback, Forward, Holding, Active, Preparing, Writing, Undoing, Closing, Starting
  <2>3. said' = said \cup {}
    BY DEF ReadRecords
  <2>4. QED BY <1>1, <2>1, <2>2, <2>3, OwnerMoves DEF ReadRecords, Moves
<1>3. CASE End(e, "COMPLETED") \/ End(e, "UNCERTAIN")
  <2>1. said' = said \cup {}
    BY DEF ReadRecords
  <2>2. QED BY <1>1, <1>3, <2>1, StopStep DEF ReadRecords, Outcomes
<1>4. QED BY <1>2, <1>3 DEF ReadRecords

LEMMA ClaimExecStep ==
  ASSUME IInv, NEW e \in Executors, ClaimExec(e), UNCHANGED lossy
  PROVE  IInv'
<1>1. run[e].pc = "claimExec" /\ ~Owns(e) /\ Knows(e)
  BY DEF IInv, ClaimExec, At, Owns, Owning
<1>2. CASE Goto(e, "commitExec")
  <2>1. Moves(e, "commitExec", run[e].mode, run[e].i, run[e].mine, run[e].done)
    BY <1>2, GotoMoves DEF IInv, Points, Active, Starting
  <2>2. RecordFits(e)' /\ Claimed(e)' /\ ~Owns(e)'
    BY <1>1, <2>1 DEF Knows, RecordFits, Claimed, Owns, Owning, ForRollback, Moves, Undoing
  <2>3. QED BY <1>1, <2>1, <2>2, FreeStep DEF ClaimExec, Moves
<1>3. CASE End(e, "COMPLETED") \/ End(e, "UNCERTAIN")
  <2>1. said' = said \cup {}
    BY DEF ClaimExec
  <2>2. QED BY <1>3, <2>1, StopStep DEF ClaimExec, Outcomes
<1>4. QED BY <1>2, <1>3 DEF ClaimExec

\* The claim on the execution is won once: the key is READY before it and never
\* again, and nobody owns the part while it is.
LEMMA CommitExecStep ==
  ASSUME IInv, NEW e \in Executors, CommitExec(e), UNCHANGED lossy
  PROVE  IInv'
<1>1. run[e].pc = "commitExec" /\ Knows(e)
  BY DEF IInv, CommitExec, At
<1>2. CASE Claimable(exec)
  <2>1. /\ exec = "READY" /\ exec' = "PENDING"
        /\ UNCHANGED <<rollback, step, undo, res, sap, writes, undos, said>>
        /\ \/ Moves(e, "records", run[e].mode, run[e].i, run[e].mine, run[e].done)
           \/ Moves(e, "ended", "run", 1, {}, {})
    <3>1. CASE Goto(e, "records")
      BY <1>2, <3>1, GotoMoves DEF IInv, CommitExec, Claimable, world, Points, Active, Starting
    <3>2. CASE Raised(e)
      BY <1>1, <1>2, <3>2, RaisedMoves DEF IInv, CommitExec, Claimable, world, Preparing, Writing
    <3>3. QED BY <1>2, <3>1, <3>2 DEF CommitExec, Answered
  <2>2. \A f \in Executors : ~Owns(f)
    BY <2>1 DEF IInv, Knows, Claimed
  <2>3. \A i \in Steps : step[i] = "NONE" /\ undo[i] = "NONE"
    BY <2>1 DEF IInv, World, Journal, StepShape
  <2>4. TypeOK'
    BY <2>1 DEF IInv, TypeOK, Moves, Statuses
  <2>5. World'
    <3>1. (\A i \in Steps : StepShape(i))'
      BY <2>1 DEF IInv, World, StepShape
    <3>2. Journal' /\ PlansFirst'
      BY <2>1 DEF IInv, World, Journal, PlansFirst, Unwound, TransfersFree
    <3>3. Said'
      BY <2>1 DEF IInv, World, Said, Journal
    <3>4. Reserved'
      BY <2>1 DEF IInv, World, Reserved
    <3>5. QED BY <3>1, <3>2, <3>3, <3>4 DEF World
  <2>6. Alone'
    BY <2>1, <2>2 DEF Alone, Owns, Moves
  <2>7. Knows(e)'
    <3>1. CASE Moves(e, "ended", "run", 1, {}, {})
      BY <3>1, EndedKnows DEF Moves
    <3>2. CASE Moves(e, "records", run[e].mode, run[e].i, run[e].mine, run[e].done)
      BY <1>1, <2>1, <2>3, <3>2 DEF Knows, RecordFits, Claimed, AtPrepare, AtWrite, AtUndo, AtClose, Keeps,
         Moves, Owns, Owning, Active, ForRollback, Forward, Holding, Preparing, Writing, Undoing, Starting
    <3>3. QED BY <2>1, <3>1, <3>2
  <2>8. ASSUME NEW f \in Executors \ {e}
        PROVE  Knows(f)'
    <3>1. Knows(f) /\ ~Owns(f) /\ run'[f] = run[f]
      BY <2>1, <2>2 DEF IInv, Moves
    <3>2. QED
      BY <2>1, <3>1 DEF Knows, RecordFits, Claimed, AtPrepare, AtWrite, AtUndo, AtClose, Keeps, Owns,
         Before, After, PassedOver, TransfersFree, TransfersHeld
  <2>9. QED BY <2>4, <2>5, <2>6, <2>7, <2>8 DEF IInv
<1>3. CASE ~Claimable(exec)
  <2>1. said' = said \cup {} /\ UNCHANGED <<journal, res, world>> /\ End(e, "UNCERTAIN")
    BY <1>3 DEF CommitExec, journal
  <2>2. QED BY <2>1, StopStep DEF Outcomes
<1>4. QED BY <1>2, <1>3

LEMMA RevalidateStep ==
  ASSUME IInv, NEW e \in Executors, Revalidate(e), UNCHANGED lossy
  PROVE  IInv'
<1>1. run[e].pc = "revalidate" /\ Owns(e) /\ Knows(e) /\ said' = said \cup {}
  BY DEF IInv, Revalidate, At, Owns, Owning, Active, Starting
<1>2. CASE Goto(e, "reserve")
  <2>1. Moves(e, "reserve", run[e].mode, run[e].i, run[e].mine, run[e].done)
    BY <1>2, GotoMoves DEF IInv, Points, Active, Preparing
  <2>2. Knows(e)'
    BY <1>1, <2>1 DEF Revalidate, journal, world, Knows, RecordFits, Claimed, AtPrepare, AtWrite, AtUndo,
       AtClose, Keeps, TransfersHeld, Moves, Owns, Owning, Active, ForRollback, Forward, Holding,
       Preparing, Writing, Undoing, Starting
  <2>3. QED BY <1>1, <2>1, <2>2, OwnerMoves DEF Revalidate, Moves
<1>3. CASE End(e, "STALE")
  BY <1>1, <1>3, StopStep DEF Revalidate, Outcomes
<1>4. QED BY <1>2, <1>3 DEF Revalidate

-----------------------------------------------------------------------------
(* Reservations and undo plans *)

\* The next transfer is held afterwards, and so is what was held before.
LEMMA ReserveStep ==
  ASSUME IInv, NEW e \in Executors, Reserve(e), UNCHANGED lossy
  PROVE  IInv'
<1>1. /\ run[e].pc = "reserve" /\ Owns(e) /\ Knows(e) /\ TypeOK
      /\ UNCHANGED <<exec, rollback, step, undo, sap, writes, undos, said>>
  BY DEF IInv, Reserve, At, Owns, Owning, Active, Preparing, journal, world
<1>2. PICK t \in Transfers \ run[e].mine :
        /\ res[Donor[t]] \in {NoReservation, Held(Qty[t])}
        /\ res' = [res EXCEPT ![Donor[t]] = Held(Qty[t])]
        /\ \/ run' = [run EXCEPT ![e].mine = @ \cup {t}]
           \/ lossy /\ Raised(e)
  BY DEF Reserve
<1>3. t \in Steps /\ Donor[t] \in Donors /\ Qty[t] \in Nat
  BY DonorIsDonor, QtyIsPositive DEF Transfers
<1>4. \/ Moves(e, "reserve", run[e].mode, run[e].i, run[e].mine \cup {t}, run[e].done)
      \/ Moves(e, "unhold", run[e].mode, run[e].i, run[e].mine, run[e].done)
  <2>1. CASE run' = [run EXCEPT ![e].mine = @ \cup {t}]
    BY <1>1, <1>3, <2>1, ZenonT(40) DEF TypeOK, Moves, Run
  <2>2. CASE Raised(e)
    BY <1>1, <2>2, RaisedMoves DEF Preparing
  <2>3. QED BY <1>2, <2>1, <2>2
<1>5. /\ res' \in [Donors -> [status : {"NONE", "HELD", "RELEASED"}, qty : Nat]]
      /\ res'[Donor[t]] = Held(Qty[t])
      /\ \A d \in Donors : res'[d] = res[d] \/ (d = Donor[t] /\ res'[d] = Held(Qty[t]))
  BY <1>1, <1>2, <1>3 DEF TypeOK, Held
<1>6. TypeOK'
  BY <1>1, <1>4, <1>5 DEF TypeOK, Moves
<1>7. \A i \in Steps : step[i] = "NONE" /\ sap[i] = "absent"
  BY <1>1 DEF IInv, Knows, AtPrepare, World, StepShape
<1>8. World'
  <2>1. (\A i \in Steps : StepShape(i))'
    BY <1>1 DEF IInv, World, StepShape
  <2>2. exec = "PENDING" /\ rollback = "NONE"
    BY <1>1 DEF IInv, World, Journal, Knows, RecordFits, Claimed, ForRollback, Undoing
  <2>3. Journal' /\ PlansFirst'
    BY <1>1, <2>2 DEF IInv, World, Journal, PlansFirst
  <2>4. Said'
    BY <1>1, <2>2 DEF IInv, World, Said
  <2>5. Reserved'
    BY <1>1, <1>2, <1>3, <1>5, <1>7 DEF IInv, World, Reserved, Transfers
  <2>6. QED BY <2>1, <2>3, <2>4, <2>5 DEF World
<1>9. \A u \in run[e].mine \cap Transfers : res'[Donor[u]] = Held(Qty[u])
  <2> SUFFICES ASSUME NEW u \in run[e].mine \cap Transfers PROVE res'[Donor[u]] = Held(Qty[u])
    OBVIOUS
  <2>1. res[Donor[u]] = Held(Qty[u]) /\ Donor[u] \in Donors
    BY <1>1, DonorIsDonor DEF Knows, AtPrepare, TransfersHeld, Transfers
  <2>2. CASE Donor[u] = Donor[t]
    BY <1>2, <1>5, <2>1, <2>2 DEF Held, NoReservation
  <2>3. QED BY <1>5, <2>1, <2>2
<1>10. Knows(e)'
  BY <1>1, <1>4, <1>5, <1>7, <1>9 DEF Knows, RecordFits, Claimed, AtPrepare, AtWrite, AtUndo,
     AtClose, Keeps, TransfersHeld, Moves, Owns, Owning, Active, ForRollback, Forward, Holding,
     Preparing, Writing, Undoing
<1>11. QED BY <1>1, <1>4, <1>6, <1>8, <1>10, OwnerStep DEF Moves

LEMMA AllReservedStep ==
  ASSUME IInv, NEW e \in Executors, AllReserved(e), UNCHANGED lossy
  PROVE  IInv'
<1>1. run[e].pc = "reserve" /\ Owns(e) /\ Knows(e) /\ TypeOK /\ said' = said \cup {}
  BY DEF IInv, AllReserved, At, Owns, Owning, Active, Preparing
<1>2. Moves(e, "saveUndo", run[e].mode, run[e].i, run[e].mine, run[e].done)
  BY <1>1, GotoMoves DEF AllReserved, Points, Active, Starting, Preparing, Writing, Undoing
<1>3. Knows(e)'
  BY <1>1, <1>2 DEF AllReserved, journal, world, Knows, RecordFits, Claimed, AtPrepare, AtWrite, AtUndo, AtClose, Keeps,
     Before, After, TransfersHeld, TransfersFree, PassedOver, Moves, Owns, Owning, Active, ForRollback,
     Forward, Holding, Preparing, Writing, Undoing, Closing, Starting, Steps
<1>4. QED BY <1>1, <1>2, <1>3, OwnerMoves DEF AllReserved, Moves

LEMMA SaveUndoStep ==
  ASSUME IInv, NEW e \in Executors, SaveUndo(e), UNCHANGED lossy
  PROVE  IInv'
<1> DEFINE i == run[e].i
<1>1. /\ run[e].pc = "saveUndo" /\ Owns(e) /\ Knows(e) /\ TypeOK /\ i \in Steps
      /\ UNCHANGED <<exec, rollback, undo, res, sap, writes, undos, said>>
  BY DEF IInv, SaveUndo, At, Owns, Owning, Active, Preparing, world, TypeOK, Run, Steps
<1>2. step[i] = "NONE" /\ step' = [step EXCEPT ![i] = "READY"]
  BY <1>1 DEF SaveUndo, Prepared, Knows, AtPrepare
<1>3. \/ /\ i < N
         /\ Moves(e, "saveUndo", run[e].mode, i + 1, run[e].mine, run[e].done)
      \/ /\ i = N
         /\ Moves(e, "auditUndo", run[e].mode, 1, run[e].mine, run[e].done)
  <2>1. CASE i < N
    <3>1. i + 1 \in 1..N
      BY <1>1, <2>1, StepsExist DEF Steps
    <3>2. QED BY <1>1, <2>1, <3>1 DEF SaveUndo, TypeOK, Moves, Run
  <2>2. CASE ~(i < N)
    <3>1. i = N /\ 1 \in 1..N
      BY <1>1, <2>2, StepsExist DEF Steps
    <3>2. run' = [run EXCEPT ![e].i = 1, ![e].pc = "auditUndo"]
      BY <2>2 DEF SaveUndo
    <3>3. QED BY <1>1, <3>1, <3>2 DEF TypeOK, Moves, Run, Active
  <2>3. QED BY <2>1, <2>2
<1>4. TypeOK'
  BY <1>1, <1>2, <1>3 DEF TypeOK, Moves, Statuses
<1>5. \A j \in Steps : /\ j < i => step[j] = "READY"
                       /\ j > i => step[j] = "NONE"
                       /\ step'[j] = IF j = i THEN "READY" ELSE step[j]
  BY <1>1, <1>2 DEF Knows, AtPrepare, Before, After, TypeOK
<1>6. \A j \in Steps : step'[j] \in {"NONE", "READY"} /\ step[j] \in {"NONE", "READY"}
  <2> SUFFICES ASSUME NEW j \in Steps
               PROVE  step'[j] \in {"NONE", "READY"} /\ step[j] \in {"NONE", "READY"}
    OBVIOUS
  <2>1. j < i \/ j = i \/ j > i
    BY <1>1, StepsExist DEF Steps
  <2>2. QED BY <1>2, <1>5, <2>1
<1>7. World'
  <2>1. (\A j \in Steps : StepShape(j))'
    BY <1>1, <1>6 DEF IInv, World, StepShape
  <2>2. exec = "PENDING" /\ rollback = "NONE"
    BY <1>1 DEF IInv, World, Journal, Knows, RecordFits, Claimed, ForRollback, Undoing
  <2>3. Journal' /\ PlansFirst'
    BY <1>1, <1>6, <2>2 DEF Journal, PlansFirst
  <2>4. Said'
    BY <1>1, <2>2 DEF IInv, World, Said
  <2>5. Reserved'
    BY <1>1, <1>6 DEF IInv, World, Reserved, Transfers
  <2>6. QED BY <2>1, <2>3, <2>4, <2>5 DEF World
<1>8. Knows(e)'
  <2>1. /\ run[e].mode = "run" /\ exec = "PENDING"
        /\ run[e].done = {} /\ Transfers \subseteq run[e].mine /\ TransfersHeld(Transfers)
        /\ \A j \in Steps : undo[j] = "NONE"
    BY <1>1 DEF Knows, RecordFits, Claimed, AtPrepare, AtWrite, Keeps, Owning, Active, ForRollback,
       Forward, Holding, Preparing, Writing, Undoing, Closing, Starting
  <2>2. TransfersHeld(Transfers)'
    BY <1>1, <2>1 DEF TransfersHeld
  <2>3. RecordFits(e)' /\ Claimed(e)' /\ AtUndo(e)' /\ AtClose(e)' /\ Keeps(e)'
    BY <1>1, <1>3, <2>1, <2>2 DEF RecordFits, Claimed, AtUndo, AtClose, Keeps, Moves, Owns, Owning, Active, ForRollback,
       Forward, Holding, Preparing, Writing, Undoing, Closing, Starting
  <2>4. AtPrepare(e)'
    <3>1. CASE i < N
      <4>1. Moves(e, "saveUndo", run[e].mode, i + 1, run[e].mine, run[e].done)
        BY <1>3, <3>1
      <4>2. i + 1 \in Steps /\ i + 1 > i
        BY <1>1, <3>1, StepsExist DEF Steps
      <4>3. ASSUME NEW j \in Steps
            PROVE  (j < i + 1 => step'[j] = "READY") /\ (j > i + 1 => step'[j] = "NONE")
        <5>1. i \in Nat /\ j \in Nat
          BY <1>1, StepsExist DEF Steps
        <5>2. CASE j < i
          BY <1>5, <5>1, <5>2
        <5>3. CASE j = i
          BY <1>1, <1>5, <5>1, <5>3
        <5>4. CASE j > i
          BY <1>5, <5>1, <5>4
        <5>5. QED BY <5>1, <5>2, <5>3, <5>4
      <4>4. step'[i + 1] = "NONE"
        BY <1>1, <1>5, <4>2, StepsExist DEF Steps
      <4>5. QED BY <2>1, <4>1, <4>3, <4>4 DEF AtPrepare, Before, After, Moves, Preparing, Writing
    <3>2. CASE i = N
      BY <1>3, <3>2, StepsExist DEF AtPrepare, Moves, Steps
    <3>3. QED BY <1>3, <3>1, <3>2
  <2>5. AtWrite(e)'
    <3>1. CASE i < N
      BY <1>1, <1>3, <2>1, <3>1 DEF AtWrite, Moves, Forward, Preparing, Writing
    <3>2. CASE i = N
      <4>1. \A j \in Steps : step'[j] = "READY"
        BY <1>5, <3>2 DEF Steps
      <4>2. 1..(1 - 1) = {} /\ 1 \in Steps
        BY StepsExist DEF Steps
      <4>3. \A j \in Steps : ~(j < 1)
        BY DEF Steps
      <4>4. QED BY <1>1, <1>3, <2>1, <3>2, <4>1, <4>2, <4>3
            DEF AtWrite, Before, After, Moves, Forward, Preparing, Writing
    <3>3. QED BY <1>3, <3>1, <3>2
  <2>6. QED BY <2>3, <2>4, <2>5 DEF Knows
<1>9. QED BY <1>1, <1>3, <1>4, <1>7, <1>8, OwnerStep DEF Moves

LEMMA AuditUndoSavedStep ==
  ASSUME IInv, NEW e \in Executors, AuditUndoSaved(e), UNCHANGED lossy
  PROVE  IInv'
<1>1. run[e].pc = "auditUndo" /\ Owns(e) /\ Knows(e) /\ TypeOK /\ said' = said \cup {}
  BY DEF IInv, AuditUndoSaved, At, Owns, Owning, Active
<1>2. Moves(e, "kill", run[e].mode, run[e].i, run[e].mine, run[e].done)
  BY <1>1, GotoMoves DEF AuditUndoSaved, Points, Active, Starting, Preparing, Writing, Undoing
<1>3. Knows(e)'
  BY <1>1, <1>2 DEF AuditUndoSaved, journal, world, Knows, RecordFits, Claimed, AtPrepare, AtWrite, AtUndo, AtClose, Keeps,
     Before, After, TransfersHeld, TransfersFree, PassedOver, Moves, Owns, Owning, Active, ForRollback,
     Forward, Holding, Preparing, Writing, Undoing, Closing, Starting, Steps
<1>4. QED BY <1>1, <1>2, <1>3, OwnerMoves DEF AuditUndoSaved, Moves

\* Giving one reservation back frees its donor and touches no other.
LEMMA ReleaseFrees ==
  ASSUME TypeOK, NEW t \in Steps, Release(t)
  PROVE  /\ res' \in [Donors -> [status : {"NONE", "HELD", "RELEASED"}, qty : Nat]]
         /\ res'[Donor[t]].status # "HELD"
         /\ \A d \in Donors : res'[d] = res[d] \/ res'[d].status # "HELD"
<1>1. Donor[t] \in Donors
  BY DonorIsDonor
<1> DEFINE old == res[Donor[t]]
           new == IF old.status = "HELD" THEN [old EXCEPT !.status = "RELEASED"] ELSE old
<1>2. new \in [status : {"NONE", "HELD", "RELEASED"}, qty : Nat] /\ new.status # "HELD"
  BY <1>1 DEF TypeOK
<1>3. res' = [res EXCEPT ![Donor[t]] = new]
  BY DEF Release
<1> HIDE DEF new
<1>4. QED BY <1>1, <1>2, <1>3 DEF TypeOK

LEMMA UnholdStep ==
  ASSUME IInv, NEW e \in Executors, Unhold(e), UNCHANGED lossy
  PROVE  IInv'
<1>1. /\ run[e].pc = "unhold" /\ Owns(e) /\ Knows(e) /\ TypeOK
      /\ UNCHANGED <<exec, rollback, step, undo, sap, writes, undos, said>>
  BY DEF IInv, Unhold, At, Owns, Owning, Active, journal, world
<1>2. PICK t \in run[e].mine : Release(t) /\ run' = [run EXCEPT ![e].mine = @ \ {t}]
  BY DEF Unhold
<1>3. t \in Steps
  BY <1>1, <1>2 DEF TypeOK, Run
<1>4. Moves(e, "unhold", run[e].mode, run[e].i, run[e].mine \ {t}, run[e].done)
  BY <1>1, <1>2, ZenonT(40) DEF TypeOK, Moves, Run
<1>5. /\ res' \in [Donors -> [status : {"NONE", "HELD", "RELEASED"}, qty : Nat]]
      /\ \A d \in Donors : res'[d] = res[d] \/ res'[d].status # "HELD"
  BY <1>1, <1>2, <1>3, ReleaseFrees
<1>6. TypeOK'
  BY <1>1, <1>4, <1>5 DEF TypeOK, Moves
<1>7. \A j \in Steps : step[j] \in {"NONE", "READY"} /\ sap[j] = "absent"
  BY <1>1 DEF IInv, Knows, AtPrepare, World, StepShape
<1>8. World'
  <2>1. (\A j \in Steps : StepShape(j))'
    BY <1>1 DEF IInv, World, StepShape
  <2>2. exec = "PENDING" /\ rollback = "NONE"
    BY <1>1 DEF IInv, World, Journal, Knows, RecordFits, Claimed, ForRollback, Undoing
  <2>3. Journal' /\ PlansFirst'
    BY <1>1, <1>7, <2>2 DEF Journal, PlansFirst
  <2>4. Said'
    BY <1>1, <2>2 DEF IInv, World, Said
  <2>5. Reserved'
    BY <1>1, <1>5, <1>7 DEF IInv, World, Reserved, Transfers
  <2>6. QED BY <2>1, <2>3, <2>4, <2>5 DEF World
<1>9. Knows(e)'
  BY <1>1, <1>4 DEF Knows, RecordFits, Claimed, AtPrepare, AtWrite, AtUndo, AtClose, Keeps,
     Before, After, TransfersHeld, TransfersFree, PassedOver, Moves, Owns, Owning, Active, ForRollback,
     Forward, Holding, Preparing, Writing, Undoing, Closing, Starting, Steps
<1>10. QED BY <1>1, <1>4, <1>6, <1>8, <1>9, OwnerStep DEF Moves

LEMMA UnheldStep ==
  ASSUME IInv, NEW e \in Executors, Unheld(e), UNCHANGED lossy
  PROVE  IInv'
<1>1. Owns(e) /\ said' = said \cup {}
  BY DEF Unheld, At, Owns, Owning, Active
<1>2. QED BY <1>1, StopStep DEF Unheld, Outcomes

-----------------------------------------------------------------------------
(* Writes *)

LEMMA CheckKillSwitchStep ==
  ASSUME IInv, NEW e \in Executors, CheckKillSwitch(e), UNCHANGED lossy
  PROVE  IInv'
<1>1. run[e].pc = "kill" /\ Owns(e) /\ Knows(e) /\ TypeOK
  BY DEF IInv, CheckKillSwitch, At, Owns, Owning, Active, Writing
<1>2. CASE Goto(e, "claimStep") /\ UNCHANGED said
  <2>1. Moves(e, "claimStep", run[e].mode, run[e].i, run[e].mine, run[e].done)
    BY <1>1, <1>2, GotoMoves DEF Points, Active, Writing
  <2>2. Knows(e)'
    BY <1>1, <2>1 DEF CheckKillSwitch, journal, world, Knows, RecordFits, Claimed, AtPrepare, AtWrite, AtUndo, AtClose, Keeps,
       Before, After, TransfersHeld, TransfersFree, PassedOver, Moves, Owns, Owning, Active, ForRollback,
       Forward, Holding, Preparing, Writing, Undoing, Closing, Starting, Steps
  <2>3. said' = said \cup {}
    BY <1>2
  <2>4. QED BY <1>1, <2>1, <2>2, <2>3, OwnerMoves DEF CheckKillSwitch, Moves
<1>3. CASE End(e, "HALTED") /\ said' = said \cup {"EXECUTION_HALTED"}
  BY <1>1, <1>3, StopStep DEF CheckKillSwitch, Outcomes
<1>4. QED BY <1>2, <1>3 DEF CheckKillSwitch

\* What the loop over the writes knows of every step.
LEMMA WritingFacts ==
  ASSUME IInv, NEW e \in Executors, run[e].pc \in Writing
  PROVE  /\ Owns(e) /\ Knows(e) /\ TypeOK
         /\ run[e].i \in Steps
         /\ run[e].mode = "run" /\ exec = "PENDING" /\ rollback = "NONE"
         /\ Transfers \subseteq run[e].mine /\ TransfersHeld(Transfers)
         /\ said \cap {"FAILED_ROLLED_BACK", "ROLLED_BACK"} = {}
         /\ \A j \in Steps : /\ undo[j] = "NONE"
                             /\ step[j] # "NONE"
                             /\ j < run[e].i => step[j] = "SUCCEEDED"
                             /\ j > run[e].i => step[j] = "READY"
<1>1. Owns(e) /\ Knows(e) /\ TypeOK
  BY DEF IInv, Owns, Owning, Active, Writing
<1>2. run[e].i \in Steps
  BY <1>1 DEF TypeOK, Run, Steps
<1>3. /\ run[e].mode = "run" /\ exec = "PENDING"
      /\ Transfers \subseteq run[e].mine /\ TransfersHeld(Transfers)
      /\ Before(run[e].i, "SUCCEEDED") /\ After(run[e].i, "READY")
      /\ \A j \in Steps : undo[j] = "NONE"
      /\ step[run[e].i] # "NONE"
  BY <1>1 DEF Knows, RecordFits, Claimed, AtWrite, Keeps, Owns, ForRollback, Forward, Holding, Writing, Undoing
<1>4. rollback = "NONE" /\ said \cap {"FAILED_ROLLED_BACK", "ROLLED_BACK"} = {}
  BY <1>1, <1>3 DEF IInv, World, Journal, Said
<1>5. ASSUME NEW j \in Steps
      PROVE  step[j] # "NONE" /\ (j < run[e].i => step[j] = "SUCCEEDED") /\ (j > run[e].i => step[j] = "READY")
  BY <1>2, <1>3, StepsExist DEF Before, After, Steps
<1>6. QED BY <1>1, <1>2, <1>3, <1>4, <1>5

\* Compensation of a failed run begins with the first k steps to undo.
LEMMA ToCompensate ==
  ASSUME NEW e, run'[e].pc = "compensate", run'[e].mode = "run", exec' = "PENDING",
         NEW k \in Nat, run'[e].done = 1..k,
         \A j \in 1..k : step'[j] = "SUCCEEDED" /\ undo'[j] = "NONE",
         \A j \in Steps \ (1..k) : step'[j] = "SUCCEEDED" => lossy',
         Transfers \subseteq run'[e].mine, TransfersHeld(Transfers)'
  PROVE  Knows(e)'
<1>1. AtUndo(e)'
  BY DEF AtUndo, PassedOver, Undoing
<1>2. RecordFits(e)' /\ Claimed(e)' /\ AtPrepare(e)' /\ AtWrite(e)' /\ AtClose(e)' /\ Keeps(e)'
  BY DEF RecordFits, Claimed, AtPrepare, AtWrite, AtClose, Keeps, Owns, Owning, Active, ForRollback,
   Forward, Holding, Preparing, Writing, Undoing, Closing, Starting
<1>3. QED BY <1>1, <1>2 DEF Knows

\* While the part is being written the world needs only these.
LEMMA WorldWhileWriting ==
  ASSUME exec' = "PENDING", rollback' = "NONE",
         said' \cap {"FAILED_ROLLED_BACK", "ROLLED_BACK"} = {},
         \A j \in Steps : step'[j] # "NONE",
         (\A j \in Steps : StepShape(j))',
         TransfersHeld(Transfers)',
         \A d \in Donors : res'[d].status = "HELD" => \E t \in Transfers : Donor[t] = d
  PROVE  World'
BY DEF World, Journal, PlansFirst, Said, Reserved, TransfersHeld

\* Every executor claims a step that was never attempted.
LEMMA ClaimStepStep ==
  ASSUME IInv, NEW e \in Executors, ClaimStep(e), UNCHANGED lossy
  PROVE  IInv'
<1> DEFINE i == run[e].i
<1>1. run[e].pc = "claimStep" /\ run[e].pc \in Writing
  BY DEF ClaimStep, At, Writing
<1>2. /\ step[i] = "READY" /\ run[e].done = 1..(i - 1) /\ i \in Nat /\ i \in Steps
      /\ UNCHANGED <<exec, rollback, undo, res, sap, writes, undos, said>>
  BY <1>1, WritingFacts, StepsExist DEF Knows, AtWrite, ClaimStep, world, Steps
<1>3. step' = [step EXCEPT ![i] = "PENDING"] /\ Answered(e, "apply")
  BY <1>2 DEF ClaimStep, Claimable
<1>4. \/ Moves(e, "apply", run[e].mode, i, run[e].mine, run[e].done)
      \/ lossy /\ Moves(e, "compensate", run[e].mode, i, run[e].mine, run[e].done)
  BY <1>1, <1>3, GotoMoves, RaisedMoves DEF IInv, Answered, Points, Active, Writing
<1>5. TypeOK'
  BY <1>2, <1>3, <1>4 DEF IInv, TypeOK, Moves, Statuses
<1>6. \A j \in Steps : step'[j] = IF j = i THEN "PENDING" ELSE step[j]
  BY <1>3, <1>2 DEF IInv, TypeOK
<1>7. TransfersHeld(Transfers)'
  BY <1>1, <1>2, WritingFacts DEF TransfersHeld
<1>8. World'
  <2>1. (\A j \in Steps : StepShape(j))'
    BY <1>2, <1>6 DEF IInv, World, StepShape
  <2>2. \A j \in Steps : step'[j] # "NONE"
    BY <1>1, <1>6, WritingFacts
  <2>3. QED BY <1>1, <1>2, <1>7, <2>1, <2>2, WritingFacts, WorldWhileWriting DEF IInv, World, Reserved
<1>9. Knows(e)'
  <2>1. CASE Moves(e, "apply", run[e].mode, i, run[e].mine, run[e].done)
    <3>1. AtWrite(e)'
      <4>1. \A j \in Steps : /\ j < i => step'[j] = "SUCCEEDED"
                             /\ j > i => step'[j] = "READY"
        BY <1>1, <1>2, <1>6, WritingFacts DEF Steps
      <4>2. step'[i] = "PENDING" /\ writes'[i] = 0
        BY <1>2, <1>6 DEF IInv, World, StepShape
      <4>3. \A j \in Steps : undo'[j] = "NONE"
        BY <1>1, <1>2, WritingFacts
      <4>4. QED BY <1>2, <2>1, <4>1, <4>2, <4>3 DEF AtWrite, Before, After, Moves, Preparing, Writing
    <3>2. RecordFits(e)' /\ Claimed(e)' /\ AtPrepare(e)' /\ AtUndo(e)' /\ AtClose(e)' /\ Keeps(e)'
      BY <1>1, <1>2, <1>7, <2>1, WritingFacts DEF Moves,
         RecordFits, Claimed, AtPrepare, AtUndo, AtClose, Keeps, Owns, Owning, Active, ForRollback,
         Forward, Holding, Preparing, Writing, Undoing, Closing, Starting
    <3>3. QED BY <3>1, <3>2 DEF Knows
  <2>2. CASE lossy /\ Moves(e, "compensate", run[e].mode, i, run[e].mine, run[e].done)
    <3>1. i - 1 \in Nat
      BY <1>2, StepsExist DEF Steps
    <3>2. \A j \in 1..(i - 1) : j \in Steps /\ j < i /\ j # i
      BY <1>2, StepsExist DEF Steps
    <3>3. \A j \in 1..(i - 1) : step'[j] = "SUCCEEDED" /\ undo'[j] = "NONE"
      BY <1>1, <1>2, <1>6, <3>2, WritingFacts
    <3>4. run'[e].pc = "compensate" /\ run'[e].mode = "run" /\ run'[e].done = 1..(i - 1)
          /\ Transfers \subseteq run'[e].mine /\ exec' = "PENDING" /\ lossy'
      BY <1>1, <1>2, <2>2, WritingFacts DEF Moves
    <3>5. QED BY <1>7, <3>1, <3>3, <3>4, ToCompensate
  <2>3. QED BY <1>4, <2>1, <2>2
<1>10. QED BY <1>1, <1>2, <1>4, <1>5, <1>8, <1>9, WritingFacts, OwnerStep DEF Moves

LEMMA ApplyStep ==
  ASSUME IInv, NEW e \in Executors, Apply(e), UNCHANGED lossy
  PROVE  IInv'
<1> DEFINE i == run[e].i
<1>1. run[e].pc = "apply" /\ run[e].pc \in Writing
  BY DEF Apply, At, Writing
<1>2. /\ step[i] = "PENDING" /\ writes[i] = 0
      /\ run[e].done = 1..(i - 1) /\ i \in Nat /\ i \in Steps
      /\ UNCHANGED <<exec, rollback, step, undo, res, undos, said>>
  BY <1>1, WritingFacts, StepsExist DEF Knows, AtWrite, Apply, journal, Steps
<1>3. \/ Moves(e, "complete", run[e].mode, i, run[e].mine, run[e].done)
      \/ Moves(e, "compensate", run[e].mode, i, run[e].mine, run[e].done)
  BY <1>1, GotoMoves, RaisedMoves DEF IInv, Apply, Points, Active, Writing
<1>4. /\ sap' \in [Steps -> {"absent", "live", "undone"}] /\ writes' \in [Steps -> Nat]
      /\ \A j \in Steps : /\ sap'[j] = IF j = i THEN "live" ELSE sap[j]
                          /\ writes'[j] = IF j = i THEN 1 ELSE writes[j]
  BY <1>2 DEF IInv, TypeOK, Apply
<1>5. TypeOK'
  BY <1>2, <1>3, <1>4 DEF IInv, TypeOK, Moves
<1>6. TransfersHeld(Transfers)'
  BY <1>1, <1>2, WritingFacts DEF TransfersHeld
<1>7. World'
  <2>1. ASSUME NEW j \in Steps
        PROVE  StepShape(j)'
    <3>1. StepShape(j)
      BY DEF IInv, World
    <3>2. CASE j = i
      BY <1>2, <1>4, <3>1, <3>2 DEF StepShape
    <3>3. CASE j # i
      BY <1>2, <1>4, <3>1, <3>3 DEF StepShape
    <3>4. QED BY <3>2, <3>3
  <2>2. QED BY <1>1, <1>2, <1>6, <2>1, WritingFacts, WorldWhileWriting DEF IInv, World, Reserved
<1>8. Knows(e)'
  <2>1. CASE Moves(e, "complete", run[e].mode, i, run[e].mine, run[e].done)
    <3>1. AtWrite(e)'
      <4>1. writes'[i] = 1
        BY <1>2, <1>4
      <4>2. QED
        BY <1>1, <1>2, <2>1, <4>1, WritingFacts DEF AtWrite, Before, After, Moves, Preparing, Writing
    <3>2. RecordFits(e)' /\ Claimed(e)' /\ AtPrepare(e)' /\ AtUndo(e)' /\ AtClose(e)' /\ Keeps(e)'
      BY <1>1, <1>2, <1>6, <2>1, WritingFacts DEF Moves,
         RecordFits, Claimed, AtPrepare, AtUndo, AtClose, Keeps, Owns, Owning, Active, ForRollback,
         Forward, Holding, Preparing, Writing, Undoing, Closing, Starting
    <3>3. QED BY <3>1, <3>2 DEF Knows
  <2>2. CASE Moves(e, "compensate", run[e].mode, i, run[e].mine, run[e].done)
    <3>1. i - 1 \in Nat
      BY <1>2, StepsExist DEF Steps
    <3>2. \A j \in 1..(i - 1) : j \in Steps /\ j < i
      BY <1>2, StepsExist DEF Steps
    <3>3. \A j \in Steps \ (1..(i - 1)) : j = i \/ j > i
      BY <1>2, StepsExist DEF Steps
    <3>4. \A j \in 1..(i - 1) : step'[j] = "SUCCEEDED" /\ undo'[j] = "NONE"
      BY <1>1, <1>2, <3>2, WritingFacts
    <3>5. \A j \in Steps \ (1..(i - 1)) : step'[j] = "SUCCEEDED" => lossy'
      BY <1>1, <1>2, <3>3, WritingFacts
    <3>6. run'[e].pc = "compensate" /\ run'[e].mode = "run" /\ run'[e].done = 1..(i - 1)
          /\ Transfers \subseteq run'[e].mine /\ exec' = "PENDING"
      BY <1>1, <1>2, <2>2, WritingFacts DEF Moves
    <3>7. QED BY <1>6, <3>1, <3>4, <3>5, <3>6, ToCompensate
  <2>3. QED BY <1>3, <2>1, <2>2
<1>9. QED BY <1>1, <1>2, <1>3, <1>5, <1>7, <1>8, WritingFacts, OwnerStep DEF Moves

\* A completion that is recorded and whose answer is lost is the one way a
\* written step escapes the list "completed".
LEMMA CompleteStepStep ==
  ASSUME IInv, NEW e \in Executors, CompleteStep(e), UNCHANGED lossy
  PROVE  IInv'
<1> DEFINE i == run[e].i
<1>1. run[e].pc = "complete" /\ run[e].pc \in Writing
  BY DEF CompleteStep, At, Writing
<1>2. /\ step[i] = "PENDING" /\ writes[i] = 1 /\ step' = [step EXCEPT ![i] = "SUCCEEDED"]
      /\ run[e].done = 1..(i - 1) /\ i \in Nat /\ i \in Steps
      /\ UNCHANGED <<exec, rollback, undo, res, sap, writes, undos, said>>
  BY <1>1, WritingFacts, StepsExist DEF Knows, AtWrite, CompleteStep, world, Steps
<1>3. (1..(i - 1)) \cup {i} = 1..i
  BY <1>2, StepsExist DEF Steps
<1>4. \/ Moves(e, "verify", run[e].mode, i, run[e].mine, 1..i)
      \/ lossy /\ Moves(e, "compensate", run[e].mode, i, run[e].mine, run[e].done)
  <2>1. CASE run' = [run EXCEPT ![e].pc = "verify", ![e].done = @ \cup {i}]
    <3> DEFINE D == 1..i
    <3>1. D \in SUBSET Steps
      BY <1>2, StepsExist DEF Steps
    <3>2. run[e].done \cup {i} = D
      BY <1>2, <1>3
    <3> HIDE DEF D
    <3>3. run' = [run EXCEPT ![e].pc = "verify", ![e].done = D]
      BY <2>1, <3>2
    <3>4. Moves(e, "verify", run[e].mode, i, run[e].mine, D)
      BY <3>1, <3>3, ZenonT(40) DEF IInv, TypeOK, Moves, Run, Active, Writing
    <3>5. QED BY <3>4 DEF D
  <2>2. CASE lossy /\ Raised(e)
    BY <1>1, <2>2, RaisedMoves DEF IInv
  <2>3. QED BY <2>1, <2>2 DEF CompleteStep
<1>5. TypeOK'
  BY <1>2, <1>4 DEF IInv, TypeOK, Moves, Statuses
<1>6. \A j \in Steps : step'[j] = IF j = i THEN "SUCCEEDED" ELSE step[j]
  BY <1>2 DEF IInv, TypeOK
<1>7. TransfersHeld(Transfers)'
  BY <1>1, <1>2, WritingFacts DEF TransfersHeld
<1>8. World'
  <2>1. ASSUME NEW j \in Steps
        PROVE  StepShape(j)'
    <3>1. StepShape(j)
      BY DEF IInv, World
    <3>2. CASE j = i
      BY <1>2, <1>6, <3>1, <3>2 DEF StepShape
    <3>3. CASE j # i
      BY <1>2, <1>6, <3>1, <3>3 DEF StepShape
    <3>4. QED BY <3>2, <3>3
  <2>2. \A j \in Steps : step'[j] # "NONE"
    BY <1>1, <1>6, WritingFacts
  <2>3. QED BY <1>1, <1>2, <1>7, <2>1, <2>2, WritingFacts, WorldWhileWriting DEF IInv, World, Reserved
<1>9. Knows(e)'
  <2>1. CASE Moves(e, "verify", run[e].mode, i, run[e].mine, 1..i)
    <3>1. AtWrite(e)'
      <4>1. \A j \in Steps : /\ j < i => step'[j] = "SUCCEEDED"
                             /\ j > i => step'[j] = "READY"
        BY <1>1, <1>2, <1>6, WritingFacts DEF Steps
      <4>2. step'[i] = "SUCCEEDED" /\ \A j \in Steps : undo'[j] = "NONE"
        BY <1>1, <1>2, <1>6, WritingFacts
      <4>3. QED BY <2>1, <4>1, <4>2 DEF AtWrite, Before, After, Moves, Preparing, Writing
    <3>2. RecordFits(e)' /\ Claimed(e)' /\ AtPrepare(e)' /\ AtUndo(e)' /\ AtClose(e)' /\ Keeps(e)'
      BY <1>1, <1>2, <1>7, <2>1, WritingFacts DEF Moves,
         RecordFits, Claimed, AtPrepare, AtUndo, AtClose, Keeps, Owns, Owning, Active, ForRollback,
         Forward, Holding, Preparing, Writing, Undoing, Closing, Starting
    <3>3. QED BY <3>1, <3>2 DEF Knows
  <2>2. CASE lossy /\ Moves(e, "compensate", run[e].mode, i, run[e].mine, run[e].done)
    <3>1. i - 1 \in Nat
      BY <1>2, StepsExist DEF Steps
    <3>2. \A j \in 1..(i - 1) : j \in Steps /\ j < i /\ j # i
      BY <1>2, StepsExist DEF Steps
    <3>3. \A j \in 1..(i - 1) : step'[j] = "SUCCEEDED" /\ undo'[j] = "NONE"
      BY <1>1, <1>2, <1>6, <3>2, WritingFacts
    <3>4. run'[e].pc = "compensate" /\ run'[e].mode = "run" /\ run'[e].done = 1..(i - 1)
          /\ Transfers \subseteq run'[e].mine /\ exec' = "PENDING" /\ lossy'
      BY <1>1, <1>2, <2>2, WritingFacts DEF Moves
    <3>5. QED BY <1>7, <3>1, <3>3, <3>4, ToCompensate
  <2>3. QED BY <1>4, <2>1, <2>2
<1>10. QED BY <1>1, <1>2, <1>4, <1>5, <1>8, <1>9, WritingFacts, OwnerStep DEF Moves

LEMMA VerifyStepStep ==
  ASSUME IInv, NEW e \in Executors, VerifyStep(e), UNCHANGED lossy
  PROVE  IInv'
<1> DEFINE i == run[e].i
<1>1. run[e].pc = "verify" /\ run[e].pc \in Writing /\ said' = said \cup {}
  BY DEF VerifyStep, At, Writing
<1>2. /\ step[i] = "SUCCEEDED" /\ run[e].done = 1..i /\ i \in Nat /\ i \in Steps
      /\ UNCHANGED <<exec, rollback, step, undo, res, sap, writes, undos>>
  BY <1>1, WritingFacts, StepsExist DEF Knows, AtWrite, VerifyStep, journal, world, Steps
<1>3. TransfersHeld(Transfers)'
  BY <1>1, <1>2, WritingFacts DEF TransfersHeld
<1>4. CASE i < N
  <2>1. i + 1 \in Steps /\ (i + 1) - 1 = i
    BY <1>2, <1>4, StepsExist DEF Steps
  <2>2. Moves(e, "kill", run[e].mode, i + 1, run[e].mine, run[e].done)
    <3>1. run' = [run EXCEPT ![e].pc = "kill", ![e].i = i + 1]
      BY <1>4 DEF VerifyStep
    <3>2. i + 1 \in 1..N
      BY <2>1 DEF Steps
    <3>3. QED BY <3>1, <3>2, ZenonT(40) DEF IInv, TypeOK, Moves, Run, Active, Writing
  <2>3. AtWrite(e)'
    <3>1. ASSUME NEW j \in Steps
          PROVE  (j < i + 1 => step'[j] = "SUCCEEDED") /\ (j > i + 1 => step'[j] = "READY")
      <4>1. j \in Nat
        BY StepsExist DEF Steps
      <4>2. CASE j = i
        BY <1>2, <4>1, <4>2
      <4>3. CASE j < i
        BY <1>1, <1>2, <4>1, <4>3, WritingFacts
      <4>4. CASE j > i
        BY <1>1, <1>2, <4>1, <4>4, WritingFacts
      <4>5. QED BY <1>2, <4>1, <4>2, <4>3, <4>4
    <3>2. step'[i + 1] = "READY"
      BY <1>1, <1>2, <2>1, WritingFacts
    <3>3. \A j \in Steps : undo'[j] = "NONE"
      BY <1>1, <1>2, WritingFacts
    <3>4. QED BY <1>2, <2>1, <2>2, <3>1, <3>2, <3>3
          DEF AtWrite, Before, After, Moves, Preparing, Writing
  <2>4. RecordFits(e)' /\ Claimed(e)' /\ AtPrepare(e)' /\ AtUndo(e)' /\ AtClose(e)' /\ Keeps(e)'
    BY <1>1, <1>2, <1>3, <2>2, WritingFacts DEF Moves,
       RecordFits, Claimed, AtPrepare, AtUndo, AtClose, Keeps, Owns, Owning, Active, ForRollback,
       Forward, Holding, Preparing, Writing, Undoing, Closing, Starting
  <2>5. Knows(e)'
    BY <2>3, <2>4 DEF Knows
  <2>6. QED BY <1>1, <2>2, <2>5, WritingFacts, OwnerMoves DEF VerifyStep, Moves
<1>5. CASE ~(i < N)
  <2>1. \A j \in Steps : j = i \/ j < i
    BY <1>2, <1>5, StepsExist DEF Steps
  <2>2. Moves(e, "finish", run[e].mode, i, run[e].mine, run[e].done)
    BY <1>5 DEF IInv, TypeOK, VerifyStep, Moves, Run, Active
  <2>3. \A j \in Steps : step'[j] = "SUCCEEDED" /\ undo'[j] = "NONE"
    BY <1>1, <1>2, <2>1, WritingFacts
  <2>4. Knows(e)'
    BY <1>1, <1>2, <1>3, <2>2, <2>3, WritingFacts DEF Knows, Moves,
       RecordFits, Claimed, AtPrepare, AtWrite, AtUndo, AtClose, Keeps, Owns, Owning, Active, ForRollback,
       Forward, Holding, Preparing, Writing, Undoing, Closing, Starting
  <2>5. QED BY <1>1, <2>2, <2>4, WritingFacts, OwnerMoves DEF VerifyStep, Moves
<1>6. QED BY <1>4, <1>5

LEMMA FinishStep ==
  ASSUME IInv, NEW e \in Executors, Finish(e), UNCHANGED lossy
  PROVE  IInv'
<1>1. run[e].pc = "finish" /\ Owns(e) /\ Knows(e) /\ said' = said \cup {"EXECUTION_COMPLETED"}
  BY DEF IInv, Finish, At, Owns, Owning, Active
<1>2. Moves(e, "completeExec", run[e].mode, run[e].i, run[e].mine, run[e].done)
  BY GotoMoves DEF IInv, Finish, Points, Active
<1>3. Knows(e)'
  BY <1>1, <1>2 DEF Finish, journal, world, Knows, RecordFits, Claimed, AtPrepare, AtWrite, AtUndo,
     AtClose, Keeps, TransfersHeld, Moves, Owns, Owning, Active, ForRollback,
     Forward, Holding, Preparing, Writing, Undoing, Closing, Starting
<1>4. QED BY <1>1, <1>2, <1>3, OwnerMoves DEF Finish, Moves

LEMMA CompleteExecStep ==
  ASSUME IInv, NEW e \in Executors, CompleteExec(e), UNCHANGED lossy
  PROVE  IInv'
<1>1. /\ run[e].pc = "completeExec" /\ Owns(e) /\ Knows(e) /\ TypeOK
      /\ exec = "PENDING" /\ exec' = "SUCCEEDED"
      /\ UNCHANGED <<rollback, step, undo, res, sap, writes, undos, said>>
  BY DEF IInv, CompleteExec, At, Owns, Owning, Active, world
<1>2. Moves(e, "ended", "run", 1, {}, {})
  BY <1>1, EndMoves, RaisedMoves DEF CompleteExec, Outcomes, Preparing, Writing
<1>3. TypeOK'
  BY <1>1, <1>2 DEF TypeOK, Moves, Statuses
<1>4. \A j \in Steps : step[j] = "SUCCEEDED" /\ undo[j] = "NONE"
  BY <1>1 DEF Knows, AtWrite, Forward
<1>5. World'
  <2>1. (\A j \in Steps : StepShape(j))'
    BY <1>1 DEF IInv, World, StepShape
  <2>2. rollback = "NONE" /\ said \cap {"FAILED_ROLLED_BACK", "ROLLED_BACK"} = {}
    BY <1>1 DEF IInv, World, Journal, Said
  <2>3. Journal' /\ PlansFirst'
    BY <1>1, <1>4, <2>2 DEF Journal, PlansFirst
  <2>4. Said' /\ Reserved'
    BY <1>1, <2>2 DEF IInv, World, Said, Reserved
  <2>5. QED BY <2>1, <2>3, <2>4 DEF World
<1>6. Knows(e)'
  BY <1>2, EndedKnows DEF Moves
<1>7. QED BY <1>1, <1>2, <1>3, <1>5, <1>6, OwnerStep DEF Moves

-----------------------------------------------------------------------------
(* Exceptions and crashes *)

LEMMA RaiseStep ==
  ASSUME IInv, NEW e \in Executors, Raise(e), UNCHANGED lossy
  PROVE  IInv'
<1>1. Knows(e) /\ TypeOK /\ said' = said \cup {}
  BY DEF IInv, Raise
<1>2. CASE run[e].pc \in Preparing
  <2>1. Moves(e, "unhold", run[e].mode, run[e].i, run[e].mine, run[e].done)
    BY <1>1, <1>2, RaisedMoves DEF Raise
  <2>2. Owns(e) /\ run[e].i \in Steps
    BY <1>1, <1>2 DEF Owns, Owning, Active, Preparing, TypeOK, Run, Steps
  <2>3. \A j \in Steps : step[j] \in {"NONE", "READY"}
    <3>1. \A j \in Steps : j = run[e].i \/ j < run[e].i \/ j > run[e].i
      BY <2>2, StepsExist DEF Steps
    <3>2. QED BY <1>1, <1>2, <2>2, <3>1 DEF Knows, AtPrepare, Before, After, Preparing
  <2>4. Knows(e)'
    BY <1>1, <1>2, <2>1, <2>3 DEF Raise, journal, world, Moves, Knows, RecordFits, Claimed, AtPrepare,
       AtWrite, AtUndo, AtClose, Keeps, Owns, Owning, Active, ForRollback,
       Forward, Holding, Preparing, Writing, Undoing, Closing, Starting
  <2>5. QED BY <1>1, <1>2, <2>1, <2>2, <2>4, OwnerMoves DEF Raise, Moves, Preparing
<1>3. CASE run[e].pc \in Writing
  <2>1. Moves(e, "compensate", run[e].mode, run[e].i, run[e].mine, run[e].done)
    BY <1>1, <1>3, RaisedMoves DEF Raise
  <2> DEFINE i == run[e].i
             k == IF run[e].pc = "verify" THEN i ELSE i - 1
  <2>2. i \in Nat /\ i \in Steps /\ i >= 1 /\ k \in Nat
    BY <1>3, WritingFacts, StepsExist DEF Steps
  <2>3. run[e].done = 1..k /\ (run[e].pc = "verify" => step[i] = "SUCCEEDED")
        /\ (run[e].pc # "verify" => step[i] \in {"READY", "PENDING"})
    BY <1>1, <1>3 DEF Knows, AtWrite, Writing
  <2>4. \A j \in 1..k : j \in Steps /\ (j < i \/ (j = i /\ run[e].pc = "verify"))
    BY <2>2, StepsExist DEF Steps
  <2>5. \A j \in Steps \ (1..k) : j > i \/ (j = i /\ run[e].pc # "verify")
    BY <2>2, StepsExist DEF Steps
  <2> HIDE DEF k
  <2>6. UNCHANGED <<exec, step, undo, res, lossy>>
    BY DEF Raise, journal
  <2>7. \A j \in 1..k : step'[j] = "SUCCEEDED" /\ undo'[j] = "NONE"
    BY <1>3, <2>3, <2>4, <2>6, WritingFacts
  <2>8. \A j \in Steps \ (1..k) : step'[j] = "SUCCEEDED" => lossy'
    BY <1>3, <2>3, <2>5, <2>6, WritingFacts
  <2>9. /\ run'[e].pc = "compensate" /\ run'[e].mode = "run" /\ run'[e].done = 1..k
        /\ Transfers \subseteq run'[e].mine /\ exec' = "PENDING" /\ TransfersHeld(Transfers)'
    BY <1>3, <2>1, <2>3, <2>6, WritingFacts DEF Moves, TransfersHeld
  <2>10. Knows(e)'
    BY <2>2, <2>7, <2>8, <2>9, ToCompensate
  <2>11. QED BY <1>1, <1>3, <2>1, <2>10, WritingFacts, OwnerMoves DEF Raise, Moves, Writing
<1>4. CASE run[e].pc \notin Preparing \cup Writing
  <2>1. End(e, "FAILED")
    BY <1>4 DEF Raise, Raised
  <2>2. QED BY <1>1, <2>1, StopStep DEF Raise, Outcomes
<1>5. QED BY <1>2, <1>3, <1>4

LEMMA CrashStep ==
  ASSUME IInv, NEW e \in Executors, Crash(e), UNCHANGED lossy
  PROVE  IInv'
<1>1. said' = said \cup {}
  BY DEF Crash
<1>2. QED BY <1>1, StopStep DEF Crash, Outcomes

-----------------------------------------------------------------------------
(* Compensation *)

\* What the loop over the undos knows, of a failed run or of a rollback.
LEMMA UndoingFacts ==
  ASSUME IInv, NEW e \in Executors, run[e].pc \in Undoing
  PROVE  /\ Owns(e) /\ Knows(e) /\ TypeOK
         /\ run[e].i \in Steps /\ run[e].done \subseteq Steps
         /\ \/ run[e].mode = "run" /\ exec = "PENDING" /\ rollback = "NONE"
            \/ run[e].mode = "rollback" /\ exec = "SUCCEEDED" /\ rollback = "PENDING"
         /\ Transfers \subseteq run[e].mine
         /\ run[e].mode = "run" => TransfersHeld(Transfers)
         /\ said \cap {"FAILED_ROLLED_BACK", "ROLLED_BACK"} = {}
         /\ \A j \in run[e].done : step[j] = "SUCCEEDED"
         /\ \A j \in run[e].done : \A k \in 1..j : k \in run[e].done
         /\ \A j \in Steps \ run[e].done : PassedOver(run[e], j)
         /\ run[e].mode = "rollback" => \A j \in Steps : step[j] \in {"SUCCEEDED", "UNDONE"}
<1>1. Owns(e) /\ Knows(e) /\ TypeOK
  BY DEF IInv, Owns, Owning, Active, Undoing
<1>2. run[e].i \in Steps /\ run[e].done \subseteq Steps /\ run[e].mode \in {"run", "rollback"}
  BY <1>1 DEF TypeOK, Run, Steps
<1>3. /\ Transfers \subseteq run[e].mine
      /\ run[e].mode = "run" => TransfersHeld(Transfers) /\ exec = "PENDING"
      /\ run[e].mode = "rollback" => exec = "SUCCEEDED" /\ rollback = "PENDING"
  BY <1>1 DEF Knows, Claimed, Keeps, Owns, Holding
<1>4. /\ exec = "PENDING" => rollback = "NONE"
      /\ said \cap {"FAILED_ROLLED_BACK", "ROLLED_BACK"} = {}
      /\ exec = "SUCCEEDED" => \A j \in Steps : step[j] \in {"SUCCEEDED", "UNDONE"}
  BY <1>1 DEF IInv, World, Journal, Said, Undoing
<1>5. /\ \A j \in run[e].done : step[j] = "SUCCEEDED"
      /\ \A j \in run[e].done : \A k \in 1..j : k \in run[e].done
      /\ \A j \in Steps \ run[e].done : PassedOver(run[e], j)
  BY <1>1 DEF Knows, AtUndo
<1>6. QED BY <1>1, <1>2, <1>3, <1>4, <1>5

\* What it knows of the step being undone.
LEMMA CurrentUndo ==
  ASSUME IInv, NEW e \in Executors, run[e].pc \in Undoing \ {"compensate"}
  PROVE  /\ run[e].i \in run[e].done /\ ~Irreversible(run[e].i)
         /\ \A j \in run[e].done : j <= run[e].i /\ (j # run[e].i => undo[j] = "NONE")
         /\ step[run[e].i] = "SUCCEEDED"
         /\ \A j \in Steps : step[j] # "NONE"
<1>1. Knows(e)
  BY DEF IInv
<1>2. /\ run[e].i \in run[e].done /\ ~Irreversible(run[e].i)
      /\ \A j \in run[e].done : j <= run[e].i /\ (j # run[e].i => undo[j] = "NONE")
      /\ step[run[e].i] = "SUCCEEDED"
  BY <1>1 DEF Knows, AtUndo
<1>3. \A j \in Steps : step[j] # "NONE"
  BY <1>2, UndoingFacts DEF IInv, World, PlansFirst
<1>4. QED BY <1>2, <1>3

\* While steps are being undone the world needs only these.
LEMMA WorldWhileUndoing ==
  ASSUME \/ exec' = "PENDING" /\ rollback' = "NONE"
         \/ /\ exec' = "SUCCEEDED" /\ rollback' = "PENDING"
            /\ \A j \in Steps : step'[j] \in {"SUCCEEDED", "UNDONE"},
         said' \cap {"FAILED_ROLLED_BACK", "ROLLED_BACK"} = {},
         \A j \in Steps : step'[j] # "NONE",
         (\A j \in Steps : StepShape(j))',
         Reserved'
  PROVE  World'
BY DEF World, Journal, PlansFirst, Said

\* The next point of the undo of the same step.
LEMMA UndoGoesOn ==
  ASSUME IInv, NEW e \in Executors, run[e].pc \in Undoing \ {"compensate"},
         NEW pc \in {"claimUndo", "undoSap", "completeUndo", "markUndone"},
         Moves(e, pc, run[e].mode, run[e].i, run[e].mine, run[e].done),
         UNCHANGED <<exec, rollback, step, res, lossy>>,
         \A j \in Steps : j # run[e].i => undo'[j] = undo[j],
         pc = "claimUndo" => undo'[run[e].i] = "READY",
         pc = "undoSap" => undo'[run[e].i] = "PENDING" /\ undos'[run[e].i] = 0,
         pc = "completeUndo" => undo'[run[e].i] = "PENDING" /\ undos'[run[e].i] = 1,
         pc = "markUndone" => undo'[run[e].i] = "SUCCEEDED"
  PROVE  Knows(e)'
<1> DEFINE i == run[e].i
<1>1. pc \in Undoing
  BY DEF Undoing
<1>2. AtUndo(e)'
  <2>1. \A j \in run[e].done : j # i => undo'[j] = "NONE"
    BY <1>1, UndoingFacts, CurrentUndo
  <2>2. \A j \in Steps \ run[e].done : PassedOver(run[e], j)
    BY UndoingFacts
  <2>3. \A j \in Steps \ run'[e].done : PassedOver(run[e], j)'
    BY <2>2 DEF PassedOver, Moves
  <2>4. QED BY <1>1, <2>1, <2>3, UndoingFacts, CurrentUndo DEF AtUndo, Moves
<1>3. TransfersHeld(Transfers) => TransfersHeld(Transfers)'
  BY DEF TransfersHeld
<1>4. RecordFits(e)' /\ Claimed(e)' /\ AtPrepare(e)' /\ AtWrite(e)' /\ AtClose(e)' /\ Keeps(e)'
  BY <1>1, <1>3, UndoingFacts DEF Moves, RecordFits, Claimed, AtPrepare, AtWrite, AtClose, Keeps, Owns,
     Owning, Active, ForRollback,
     Forward, Holding, Preparing, Writing, Undoing, Closing, Starting
<1>5. QED BY <1>2, <1>4 DEF Knows

LEMMA CompensateStep ==
  ASSUME IInv, NEW e \in Executors, Compensate(e), UNCHANGED lossy
  PROVE  IInv'
<1>1. run[e].pc = "compensate" /\ run[e].pc \in Undoing /\ said' = said \cup {}
  BY DEF Compensate, At, Undoing
<1>2. UNCHANGED <<exec, rollback, step, undo, res, sap, writes, undos>>
  BY DEF Compensate, journal, world
<1>3. PICK i \in Steps :
        /\ IsLastDone(e, i)
        /\ run' = IF step[i] = "UNDONE" \/ Kind[i] = "irreversible"
                  THEN [run EXCEPT ![e].done = @ \ {i}]
                  ELSE [run EXCEPT ![e].i = i, ![e].pc = "prepareUndo"]
  BY DEF Compensate
<1>4. i \in run[e].done /\ (\A j \in run[e].done : j <= i) /\ step[i] = "SUCCEEDED"
  BY <1>1, <1>3, UndoingFacts DEF IsLastDone
<1>5. \A j \in run[e].done : undo[j] = "NONE"
  BY <1>1, UndoingFacts DEF Knows, AtUndo
<1>6. TransfersHeld(Transfers) => TransfersHeld(Transfers)'
  BY <1>2 DEF TransfersHeld
<1>7. CASE Irreversible(i)
  <2>1. run' = [run EXCEPT ![e].done = @ \ {i}]
    BY <1>3, <1>7 DEF Irreversible
  <2>2. Moves(e, "compensate", run[e].mode, run[e].i, run[e].mine, run[e].done \ {i})
    BY <1>1, <2>1 DEF IInv, TypeOK, Moves, Run
  <2>3. AtUndo(e)'
    <3>1. \A j \in run[e].done \ {i} : \A k \in 1..j : k \in run[e].done \ {i}
      <4> SUFFICES ASSUME NEW j \in run[e].done \ {i}, NEW k \in 1..j PROVE k \in run[e].done \ {i}
        OBVIOUS
      <4>1. k \in run[e].done
        BY <1>1, UndoingFacts
      <4>2. j \in Nat /\ i \in Nat /\ j <= i /\ j # i
        BY <1>1, <1>4, UndoingFacts, StepsExist DEF Steps
      <4>3. k # i
        BY <4>2
      <4>4. QED BY <4>1, <4>3
    <3>2. \A j \in Steps \ (run[e].done \ {i}) : PassedOver(run[e], j)
      BY <1>1, <1>7, UndoingFacts DEF PassedOver
    <3>3. \A j \in Steps \ (run[e].done \ {i}) : PassedOver(run[e], j)'
      BY <1>2, <2>2, <3>2 DEF PassedOver, Moves
    <3>4. QED BY <1>1, <1>2, <1>5, <2>2, <3>1, <3>3, UndoingFacts DEF AtUndo, Moves, Undoing
  <2>4. RecordFits(e)' /\ Claimed(e)' /\ AtPrepare(e)' /\ AtWrite(e)' /\ AtClose(e)' /\ Keeps(e)'
    BY <1>1, <1>2, <1>6, <2>2, UndoingFacts DEF Moves, RecordFits, Claimed, AtPrepare, AtWrite, AtClose,
       Keeps, Owns, Owning, Active, ForRollback,
       Forward, Holding, Preparing, Writing, Undoing, Closing, Starting
  <2>5. Knows(e)'
    BY <2>3, <2>4 DEF Knows
  <2>6. QED BY <1>1, <2>2, <2>5, UndoingFacts, OwnerMoves DEF Compensate, Moves
<1>8. CASE ~Irreversible(i)
  <2>1. run' = [run EXCEPT ![e].i = i, ![e].pc = "prepareUndo"]
    BY <1>3, <1>4, <1>8 DEF Irreversible
  <2>2. Moves(e, "prepareUndo", run[e].mode, i, run[e].mine, run[e].done)
    <3>1. i \in 1..N
      BY DEF Steps
    <3>2. QED BY <2>1, <3>1, ZenonT(40) DEF IInv, TypeOK, Moves, Run, Active, Undoing
  <2>3. AtUndo(e)'
    <3>1. \A j \in Steps \ run[e].done : PassedOver(run[e], j)'
      BY <1>1, <1>2, <2>2, UndoingFacts DEF PassedOver, Moves
    <3>2. QED BY <1>1, <1>2, <1>4, <1>5, <1>8, <2>2, <3>1, UndoingFacts DEF AtUndo, Moves, Undoing
  <2>4. RecordFits(e)' /\ Claimed(e)' /\ AtPrepare(e)' /\ AtWrite(e)' /\ AtClose(e)' /\ Keeps(e)'
    BY <1>1, <1>2, <1>6, <2>2, UndoingFacts DEF Moves, RecordFits, Claimed, AtPrepare, AtWrite, AtClose,
       Keeps, Owns, Owning, Active, ForRollback,
       Forward, Holding, Preparing, Writing, Undoing, Closing, Starting
  <2>5. Knows(e)'
    BY <2>3, <2>4 DEF Knows
  <2>6. QED BY <1>1, <2>2, <2>5, UndoingFacts, OwnerMoves DEF Compensate, Moves
<1>9. QED BY <1>7, <1>8

LEMMA UndoWorld ==
  ASSUME IInv, NEW e \in Executors, run[e].pc \in Undoing \ {"compensate"},
         UNCHANGED <<exec, rollback, step, res, lossy, said>>,
         \A j \in Steps : sap'[j] = "live" => sap[j] = "live",
         (\A j \in Steps : StepShape(j))'
  PROVE  World'
<1>1. Reserved'
  BY DEF IInv, World, Reserved, Transfers
<1>2. QED BY <1>1, UndoingFacts, CurrentUndo, WorldWhileUndoing

LEMMA PrepareUndoStep ==
  ASSUME IInv, NEW e \in Executors, PrepareUndo(e), UNCHANGED lossy
  PROVE  IInv'
<1> DEFINE i == run[e].i
<1>1. run[e].pc = "prepareUndo" /\ run[e].pc \in Undoing \ {"compensate"}
  BY DEF PrepareUndo, At, Undoing
<1>2. /\ undo[i] = "NONE" /\ i \in Steps /\ step[i] = "SUCCEEDED" /\ ~Irreversible(i)
      /\ UNCHANGED <<exec, rollback, step, res, sap, writes, undos, said>>
  BY <1>1, UndoingFacts, CurrentUndo DEF Knows, AtUndo, PrepareUndo, world
<1>3. undo' = [undo EXCEPT ![i] = "READY"]
  BY <1>2 DEF PrepareUndo, Prepared
<1>4. Moves(e, "claimUndo", run[e].mode, i, run[e].mine, run[e].done)
  BY GotoMoves DEF IInv, PrepareUndo, Points, Active, Undoing
<1>5. TypeOK' /\ \A j \in Steps : undo'[j] = IF j = i THEN "READY" ELSE undo[j]
  BY <1>2, <1>3, <1>4 DEF IInv, TypeOK, Moves, Statuses
<1>6. World'
  <2>1. (\A j \in Steps : StepShape(j))'
    BY <1>2, <1>5 DEF IInv, World, StepShape
  <2>2. QED BY <1>1, <1>2, <2>1, UndoWorld
<1>7. Knows(e)'
  BY <1>1, <1>2, <1>4, <1>5, UndoGoesOn
<1>8. QED BY <1>1, <1>2, <1>4, <1>5, <1>6, <1>7, UndoingFacts, OwnerStep DEF Moves

\* An undo is claimed once, as a write is.
LEMMA ClaimUndoStep ==
  ASSUME IInv, NEW e \in Executors, ClaimUndo(e), UNCHANGED lossy
  PROVE  IInv'
<1> DEFINE i == run[e].i
<1>1. run[e].pc = "claimUndo" /\ run[e].pc \in Undoing \ {"compensate"}
  BY DEF ClaimUndo, At, Undoing
<1>2. /\ undo[i] = "READY" /\ i \in Steps /\ step[i] = "SUCCEEDED" /\ ~Irreversible(i)
      /\ UNCHANGED <<exec, rollback, step, res, sap, writes, undos, said>>
  BY <1>1, UndoingFacts, CurrentUndo DEF Knows, AtUndo, ClaimUndo, world
<1>3. undo' = [undo EXCEPT ![i] = "PENDING"] /\ Answered(e, "undoSap")
  BY <1>2 DEF ClaimUndo, Claimable
<1>4. \/ Moves(e, "undoSap", run[e].mode, i, run[e].mine, run[e].done)
      \/ Moves(e, "ended", "run", 1, {}, {})
  BY <1>1, <1>3, GotoMoves, RaisedMoves DEF IInv, Answered, Points, Active, Undoing, Preparing, Writing
<1>5. TypeOK' /\ \A j \in Steps : undo'[j] = IF j = i THEN "PENDING" ELSE undo[j]
  BY <1>2, <1>3, <1>4 DEF IInv, TypeOK, Moves, Statuses
<1>6. undos[i] = 0 /\ sap[i] = "live"
  BY <1>2 DEF IInv, World, StepShape
<1>7. World'
  <2>1. (\A j \in Steps : StepShape(j))'
    BY <1>2, <1>5, <1>6 DEF IInv, World, StepShape
  <2>2. QED BY <1>1, <1>2, <2>1, UndoWorld
<1>8. Knows(e)'
  <2>1. CASE Moves(e, "undoSap", run[e].mode, i, run[e].mine, run[e].done)
    BY <1>1, <1>2, <1>5, <1>6, <2>1, UndoGoesOn
  <2>2. CASE Moves(e, "ended", "run", 1, {}, {})
    BY <2>2, EndedKnows DEF Moves
  <2>3. QED BY <1>4, <2>1, <2>2
<1>9. QED BY <1>1, <1>2, <1>4, <1>5, <1>7, <1>8, UndoingFacts, OwnerStep DEF Moves

LEMMA UndoSapStep ==
  ASSUME IInv, NEW e \in Executors, UndoSap(e), UNCHANGED lossy
  PROVE  IInv'
<1> DEFINE i == run[e].i
<1>1. run[e].pc = "undoSap" /\ run[e].pc \in Undoing \ {"compensate"}
  BY DEF UndoSap, At, Undoing
<1>2. /\ undo[i] = "PENDING" /\ undos[i] = 0 /\ i \in Steps
      /\ step[i] = "SUCCEEDED" /\ ~Irreversible(i)
      /\ UNCHANGED <<exec, rollback, step, undo, res, writes, said>>
  BY <1>1, UndoingFacts, CurrentUndo DEF Knows, AtUndo, UndoSap, journal
<1>3. \/ Moves(e, "completeUndo", run[e].mode, i, run[e].mine, run[e].done)
      \/ Moves(e, "ended", "run", 1, {}, {})
  BY <1>1, GotoMoves, RaisedMoves DEF IInv, UndoSap, Points, Active, Undoing, Preparing, Writing
<1>4. /\ sap' \in [Steps -> {"absent", "live", "undone"}] /\ undos' \in [Steps -> Nat]
      /\ \A j \in Steps : /\ sap'[j] = IF j = i THEN "undone" ELSE sap[j]
                          /\ undos'[j] = IF j = i THEN 1 ELSE undos[j]
  BY <1>2 DEF IInv, TypeOK, UndoSap
<1>5. TypeOK'
  BY <1>2, <1>3, <1>4 DEF IInv, TypeOK, Moves
<1>6. World'
  <2>1. (\A j \in Steps : StepShape(j))'
    BY <1>2, <1>4 DEF IInv, World, StepShape
  <2>2. QED BY <1>1, <1>2, <1>4, <2>1, UndoWorld
<1>7. Knows(e)'
  <2>1. CASE Moves(e, "completeUndo", run[e].mode, i, run[e].mine, run[e].done)
    BY <1>1, <1>2, <1>4, <2>1, UndoGoesOn
  <2>2. CASE Moves(e, "ended", "run", 1, {}, {})
    BY <2>2, EndedKnows DEF Moves
  <2>3. QED BY <1>3, <2>1, <2>2
<1>8. QED BY <1>1, <1>2, <1>3, <1>5, <1>6, <1>7, UndoingFacts, OwnerStep DEF Moves

LEMMA CompleteUndoStep ==
  ASSUME IInv, NEW e \in Executors, CompleteUndo(e), UNCHANGED lossy
  PROVE  IInv'
<1> DEFINE i == run[e].i
<1>1. run[e].pc = "completeUndo" /\ run[e].pc \in Undoing \ {"compensate"}
  BY DEF CompleteUndo, At, Undoing
<1>2. /\ undo[i] = "PENDING" /\ undos[i] = 1 /\ i \in Steps
      /\ step[i] = "SUCCEEDED" /\ ~Irreversible(i)
      /\ undo' = [undo EXCEPT ![i] = "SUCCEEDED"]
      /\ UNCHANGED <<exec, rollback, step, res, sap, writes, undos, said>>
  BY <1>1, UndoingFacts, CurrentUndo DEF Knows, AtUndo, CompleteUndo, world
<1>3. \/ Moves(e, "markUndone", run[e].mode, i, run[e].mine, run[e].done)
      \/ Moves(e, "ended", "run", 1, {}, {})
  BY <1>1, GotoMoves, RaisedMoves
  DEF IInv, CompleteUndo, Answered, Points, Active, Undoing, Preparing, Writing
<1>4. TypeOK' /\ \A j \in Steps : undo'[j] = IF j = i THEN "SUCCEEDED" ELSE undo[j]
  BY <1>2, <1>3 DEF IInv, TypeOK, Moves, Statuses
<1>5. World'
  <2>1. (\A j \in Steps : StepShape(j))'
    BY <1>2, <1>4 DEF IInv, World, StepShape
  <2>2. QED BY <1>1, <1>2, <2>1, UndoWorld
<1>6. Knows(e)'
  <2>1. CASE Moves(e, "markUndone", run[e].mode, i, run[e].mine, run[e].done)
    BY <1>1, <1>2, <1>4, <2>1, UndoGoesOn
  <2>2. CASE Moves(e, "ended", "run", 1, {}, {})
    BY <2>2, EndedKnows DEF Moves
  <2>3. QED BY <1>3, <2>1, <2>2
<1>7. QED BY <1>1, <1>2, <1>3, <1>4, <1>5, <1>6, UndoingFacts, OwnerStep DEF Moves

\* The step leaves the list of what is still to undo as it is marked.
LEMMA MarkUndoneStep ==
  ASSUME IInv, NEW e \in Executors, MarkUndone(e), UNCHANGED lossy
  PROVE  IInv'
<1> DEFINE i == run[e].i
<1>1. run[e].pc = "markUndone" /\ run[e].pc \in Undoing \ {"compensate"}
  BY DEF MarkUndone, At, Undoing
<1>2. /\ undo[i] = "SUCCEEDED" /\ i \in Steps /\ i \in run[e].done
      /\ step[i] = "SUCCEEDED" /\ ~Irreversible(i)
      /\ step' = [step EXCEPT ![i] = "UNDONE"]
      /\ UNCHANGED <<exec, rollback, undo, res, sap, writes, undos, said>>
  BY <1>1, UndoingFacts, CurrentUndo DEF Knows, AtUndo, MarkUndone, world
<1>3. \/ Moves(e, "compensate", run[e].mode, i, run[e].mine, run[e].done \ {i})
      \/ Moves(e, "ended", "run", 1, {}, {})
  <2>1. CASE run' = [run EXCEPT ![e].pc = "compensate", ![e].done = @ \ {i}]
    BY <2>1, ZenonT(40) DEF IInv, TypeOK, Moves, Run, Active, Undoing
  <2>2. CASE Raised(e)
    BY <1>1, <2>2, RaisedMoves DEF IInv, Undoing, Preparing, Writing
  <2>3. QED BY <2>1, <2>2 DEF MarkUndone
<1>4. TypeOK' /\ \A j \in Steps : step'[j] = IF j = i THEN "UNDONE" ELSE step[j]
  BY <1>2, <1>3 DEF IInv, TypeOK, Moves, Statuses
<1>5. World'
  <2>1. (\A j \in Steps : StepShape(j))'
    BY <1>2, <1>4 DEF IInv, World, StepShape
  <2>2. Reserved'
    BY <1>2, <1>4 DEF IInv, World, Reserved, Transfers
  <2>3. \A j \in Steps : step'[j] # "NONE"
    BY <1>1, <1>4, CurrentUndo
  <2>4. QED BY <1>1, <1>2, <1>4, <2>1, <2>2, <2>3, UndoingFacts, WorldWhileUndoing
<1>6. Knows(e)'
  <2>1. CASE Moves(e, "compensate", run[e].mode, i, run[e].mine, run[e].done \ {i})
    <3>1. \A j \in run[e].done \ {i} : \A k \in 1..j : k \in run[e].done \ {i}
      <4> SUFFICES ASSUME NEW j \in run[e].done \ {i}, NEW k \in 1..j PROVE k \in run[e].done \ {i}
        OBVIOUS
      <4>1. k \in run[e].done
        BY <1>1, UndoingFacts
      <4>2. j \in Nat /\ i \in Nat /\ j <= i /\ j # i
        BY <1>1, <1>2, UndoingFacts, CurrentUndo, StepsExist DEF Steps
      <4>3. k # i
        BY <4>2
      <4>4. QED BY <4>1, <4>3
    <3>2. \A j \in run[e].done \ {i} : step'[j] = "SUCCEEDED" /\ undo'[j] = "NONE"
      BY <1>1, <1>2, <1>4, UndoingFacts, CurrentUndo
    <3>3. \A j \in Steps \ (run[e].done \ {i}) : PassedOver(run[e], j)'
      BY <1>1, <1>2, <1>4, <2>1, UndoingFacts DEF PassedOver, Moves
    <3>4. AtUndo(e)'
      BY <2>1, <3>1, <3>2, <3>3 DEF AtUndo, Moves
    <3>5. TransfersHeld(Transfers) => TransfersHeld(Transfers)'
      BY <1>2 DEF TransfersHeld
    <3>6. RecordFits(e)' /\ Claimed(e)' /\ AtPrepare(e)' /\ AtWrite(e)' /\ AtClose(e)' /\ Keeps(e)'
      BY <1>1, <1>2, <2>1, <3>5, UndoingFacts DEF Moves, RecordFits, Claimed, AtPrepare, AtWrite, AtClose,
         Keeps, Owns, Owning, Active, ForRollback,
         Forward, Holding, Preparing, Writing, Undoing, Closing, Starting
    <3>7. QED BY <3>4, <3>6 DEF Knows
  <2>2. CASE Moves(e, "ended", "run", 1, {}, {})
    BY <2>2, EndedKnows DEF Moves
  <2>3. QED BY <1>3, <2>1, <2>2
<1>7. QED BY <1>1, <1>2, <1>3, <1>4, <1>5, <1>6, UndoingFacts, OwnerStep DEF Moves

LEMMA CompensatedStep ==
  ASSUME IInv, NEW e \in Executors, Compensated(e), UNCHANGED lossy
  PROVE  IInv'
<1>1. run[e].pc = "compensate" /\ run[e].pc \in Undoing /\ run[e].done = {} /\ said' = said \cup {}
  BY DEF Compensated, At, Undoing
<1>2. UNCHANGED <<exec, rollback, step, undo, res, sap, writes, undos>>
  BY DEF Compensated, journal, world
<1>3. \A j \in Steps : PassedOver(run[e], j)
  BY <1>1, UndoingFacts
<1>4. CASE run[e].mode = "run"
  <2>1. Moves(e, "settle", "run", run[e].i, run[e].mine, run[e].done)
    BY <1>4, GotoMoves DEF IInv, Compensated, Points, Active, Closing
  <2>2. TransfersHeld(Transfers)' /\ \A j \in Steps : PassedOver(run[e], j)'
    BY <1>1, <1>2, <1>3, <1>4, <2>1, UndoingFacts DEF TransfersHeld, PassedOver, Moves
  <2>3. Knows(e)'
    BY <1>1, <1>2, <1>4, <2>1, <2>2, UndoingFacts DEF Moves, Knows, RecordFits, Claimed, AtPrepare, AtWrite,
       AtUndo, AtClose, Keeps, Owns, Owning, Active, ForRollback,
       Forward, Holding, Preparing, Writing, Undoing, Closing, Starting
  <2>4. QED BY <1>1, <2>1, <2>3, UndoingFacts, OwnerMoves DEF Compensated, Moves
<1>5. CASE run[e].mode = "rollback"
  <2>1. Moves(e, "release", "rollback", run[e].i, run[e].mine, run[e].done)
    BY <1>5, GotoMoves DEF IInv, Compensated, Points, Active, Closing
  <2>2. \A j \in Steps : PassedOver(run[e], j)' /\ step'[j] # "PENDING"
    BY <1>1, <1>2, <1>3, <1>5, <2>1, UndoingFacts DEF PassedOver, Moves
  <2>3. TransfersFree(Transfers \ run[e].mine)'
    BY <1>1, <2>1, UndoingFacts DEF TransfersFree, Moves
  <2>4. Knows(e)'
    BY <1>1, <1>2, <1>5, <2>1, <2>2, <2>3, UndoingFacts DEF Moves, Knows, RecordFits, Claimed, AtPrepare,
       AtWrite, AtUndo, AtClose, Keeps, Owns, Owning, Active, ForRollback,
       Forward, Holding, Preparing, Writing, Undoing, Closing, Starting
  <2>5. QED BY <1>1, <2>1, <2>4, UndoingFacts, OwnerMoves DEF Compensated, Moves
<1>6. QED BY <1>1, <1>4, <1>5, UndoingFacts

LEMMA SettleStep ==
  ASSUME IInv, NEW e \in Executors, Settle(e), UNCHANGED lossy
  PROVE  IInv'
<1>1. /\ run[e].pc = "settle" /\ Owns(e) /\ Knows(e) /\ TypeOK
      /\ UNCHANGED <<exec, rollback, step, undo, res, sap, writes, undos>>
  BY DEF IInv, Settle, At, Owns, Owning, Active, Closing, journal, world
<1>2. CASE \E i \in Steps : step[i] = "PENDING"
  <2>1. End(e, "FAILED") /\ said' = said \cup {"EXECUTION_UNCERTAIN"}
    BY <1>2 DEF Settle
  <2>2. QED BY <1>1, <2>1, StopStep DEF Settle, Outcomes
<1>3. CASE ~\E i \in Steps : step[i] = "PENDING"
  <2>1. Goto(e, "release") /\ said' = said \cup {}
    BY <1>3 DEF Settle
  <2>2. Moves(e, "release", run[e].mode, run[e].i, run[e].mine, run[e].done)
    BY <1>1, <2>1, GotoMoves DEF Points, Active, Closing
  <2>3. TransfersFree(Transfers \ run[e].mine)'
    BY <1>1, <2>2 DEF TransfersFree, Moves, Knows, Keeps, Holding
  <2>4. \A j \in Steps : PassedOver(run[e], j)' /\ step'[j] # "PENDING"
    BY <1>1, <1>3, <2>2 DEF PassedOver, Moves, Knows, AtClose
  <2>5. Knows(e)'
    BY <1>1, <2>2, <2>3, <2>4 DEF Moves, Knows, RecordFits, Claimed, AtPrepare,
       AtWrite, AtUndo, AtClose, Keeps, Owns, Owning, Active, ForRollback,
       Forward, Holding, Preparing, Writing, Undoing, Closing, Starting
  <2>6. QED BY <1>1, <2>1, <2>2, <2>5, OwnerMoves DEF Settle, Moves
<1>4. QED BY <1>2, <1>3

\* What the release of the reservations knows.
LEMMA ReleasingFacts ==
  ASSUME IInv, NEW e \in Executors, run[e].pc = "release"
  PROVE  /\ Owns(e) /\ Knows(e) /\ TypeOK
         /\ \/ run[e].mode = "run" /\ exec = "PENDING" /\ rollback = "NONE"
            \/ run[e].mode = "rollback" /\ exec = "SUCCEEDED" /\ rollback = "PENDING" /\ Unwound
         /\ said \cap {"FAILED_ROLLED_BACK", "ROLLED_BACK"} = {}
         /\ \A j \in Steps : PassedOver(run[e], j) /\ step[j] # "PENDING"
         /\ TransfersFree(Transfers \ run[e].mine)
<1>1. Owns(e) /\ Knows(e) /\ TypeOK
  BY DEF IInv, Owns, Owning, Active, Closing
<1>2. \/ run[e].mode = "run" /\ exec = "PENDING" /\ rollback = "NONE"
      \/ run[e].mode = "rollback" /\ exec = "SUCCEEDED" /\ rollback = "PENDING"
  <2>1. run[e].mode \in {"run", "rollback"}
    BY <1>1 DEF TypeOK, Run
  <2>2. QED BY <1>1, <2>1 DEF IInv, World, Journal, Knows, Claimed
<1>3. said \cap {"FAILED_ROLLED_BACK", "ROLLED_BACK"} = {}
  BY <1>1 DEF IInv, World, Said
<1>4. /\ \A j \in Steps : PassedOver(run[e], j) /\ step[j] # "PENDING"
      /\ TransfersFree(Transfers \ run[e].mine)
  BY <1>1 DEF Knows, AtClose
<1>5. CASE run[e].mode = "rollback"
  <2>1. \A j \in Steps : step[j] \in {"SUCCEEDED", "UNDONE"}
    BY <1>2, <1>5 DEF IInv, World, Journal
  <2>2. Unwound
    BY <1>4, <1>5, <2>1 DEF Unwound, PassedOver
  <2>3. QED BY <1>1, <1>2, <1>3, <1>4, <2>2
<1>6. QED BY <1>1, <1>2, <1>3, <1>4, <1>5

LEMMA ReleaseNextStep ==
  ASSUME IInv, NEW e \in Executors, ReleaseNext(e), UNCHANGED lossy
  PROVE  IInv'
<1>1. /\ run[e].pc = "release"
      /\ UNCHANGED <<exec, rollback, step, undo, sap, writes, undos, said>>
  BY DEF ReleaseNext, At, journal, world
<1>2. PICK t \in run[e].mine : Release(t) /\ run' = [run EXCEPT ![e].mine = @ \ {t}]
  BY DEF ReleaseNext
<1>3. t \in Steps
  BY <1>2 DEF IInv, TypeOK, Run
<1>4. Moves(e, "release", run[e].mode, run[e].i, run[e].mine \ {t}, run[e].done)
  BY <1>1, <1>2, ZenonT(40) DEF IInv, TypeOK, Moves, Run
<1>5. /\ res' \in [Donors -> [status : {"NONE", "HELD", "RELEASED"}, qty : Nat]]
      /\ res'[Donor[t]].status # "HELD"
      /\ \A d \in Donors : res'[d] = res[d] \/ res'[d].status # "HELD"
  BY <1>2, <1>3, ReleaseFrees DEF IInv
<1>6. TypeOK'
  BY <1>1, <1>4, <1>5 DEF IInv, TypeOK, Moves
<1>7. World'
  <2>1. (\A j \in Steps : StepShape(j))'
    BY <1>1 DEF IInv, World, StepShape
  <2>2. Journal' /\ PlansFirst'
    BY <1>1, ReleasingFacts DEF IInv, World, Journal, PlansFirst
  <2>3. Said'
    BY <1>1, ReleasingFacts DEF Said
  <2>4. ASSUME NEW u \in Transfers, ~lossy
        PROVE  sap[u] # "live" /\ step[u] # "PENDING"
    <3>1. u \in Steps /\ ~Irreversible(u) /\ StepShape(u) /\ PassedOver(run[e], u) /\ step[u] # "PENDING"
      BY <1>1, ReleasingFacts DEF IInv, World, Transfers, Irreversible
    <3>2. step[u] \in {"NONE", "READY", "UNDONE"}
      BY <2>4, <3>1 DEF PassedOver, IInv, TypeOK, Statuses
    <3>3. QED BY <3>1, <3>2 DEF StepShape
  <2>5. Reserved'
    BY <1>1, <1>5, <2>4 DEF IInv, World, Reserved
  <2>6. QED BY <2>1, <2>2, <2>3, <2>5 DEF World
<1>8. Knows(e)'
  <2>1. TransfersFree(Transfers \ run[e].mine)'
    <3> SUFFICES ASSUME NEW u \in Transfers, u = t \/ u \notin run[e].mine
                 PROVE  res'[Donor[u]].status # "HELD"
      BY <1>4 DEF TransfersFree, Moves
    <3>1. Donor[u] \in Donors
      BY DonorIsDonor DEF Transfers
    <3>2. CASE u = t
      BY <1>5, <3>2
    <3>3. CASE u \notin run[e].mine
      BY <1>1, <1>5, <3>1, <3>3, ReleasingFacts DEF TransfersFree
    <3>4. QED BY <3>2, <3>3
  <2>2. \A j \in Steps : PassedOver(run[e], j)' /\ step'[j] # "PENDING"
    BY <1>1, <1>4, ReleasingFacts DEF PassedOver, Moves
  <2>3. AtClose(e)'
    BY <1>4, <2>1, <2>2 DEF AtClose, Moves
  <2>4. RecordFits(e)' /\ Claimed(e)' /\ AtPrepare(e)' /\ AtWrite(e)' /\ AtUndo(e)' /\ Keeps(e)'
    BY <1>1, <1>4, ReleasingFacts DEF Moves, RecordFits, Claimed, AtPrepare, AtWrite, AtUndo, Keeps,
       Owns, Owning, Active, ForRollback, Forward, Holding, Preparing, Writing, Undoing, Closing, Starting
  <2>5. QED BY <2>3, <2>4 DEF Knows
<1>9. QED BY <1>1, <1>4, <1>6, <1>7, <1>8, ReleasingFacts, OwnerStep DEF Moves

\* The audit says rolled back once no reservation is left.
LEMMA AllReleasedStep ==
  ASSUME IInv, NEW e \in Executors, AllReleased(e), UNCHANGED lossy
  PROVE  IInv'
<1>1. /\ run[e].pc = "release" /\ run[e].mine = {}
      /\ UNCHANGED <<exec, rollback, step, undo, res, sap, writes, undos>>
  BY DEF AllReleased, At, journal, world
<1>2. TransfersFree(Transfers)
  BY <1>1, ReleasingFacts DEF TransfersFree
<1>3. (\A j \in Steps : StepShape(j))' /\ Journal' /\ PlansFirst' /\ Reserved'
  BY <1>1 DEF IInv, World, StepShape, Journal, PlansFirst, Reserved, Unwound, TransfersFree
<1>4. \A f \in Executors : Owns(f) => f = e
  BY <1>1, ReleasingFacts DEF IInv, Alone
<1>5. CASE run[e].mode = "run"
  <2>1. said' = said \cup {"FAILED_ROLLED_BACK"} /\ Moves(e, "ended", "run", 1, {}, {})
    BY <1>5, EndMoves DEF IInv, AllReleased, Outcomes
  <2>2. Knows(e)' /\ ~Owns(e)'
    BY <2>1, EndedKnows DEF Moves
  <2>3. TypeOK'
    BY <1>1, <2>1 DEF IInv, TypeOK, Moves
  <2>4. \A f \in Executors : ~Owns(f)'
    BY <1>4, <2>1, <2>2 DEF Owns, Moves
  <2>5. Said'
    <3>1. /\ exec' = "PENDING" /\ "ROLLED_BACK" \notin said'
          /\ TransfersFree(Transfers)'
          /\ \A i \in Steps : /\ step'[i] # "PENDING"
                              /\ step'[i] = "SUCCEEDED" => lossy' \/ Irreversible(i)
      BY <1>1, <1>2, <1>5, <2>1, ReleasingFacts DEF PassedOver, TransfersFree
    <3>2. QED BY <2>4, <3>1 DEF Said
  <2>6. QED BY <1>1, <1>3, <2>1, <2>2, <2>3, <2>5, ReleasingFacts, OwnerStep DEF World, Moves
<1>6. CASE run[e].mode = "rollback"
  <2>1. /\ said' = said \cup {"ROLLED_BACK"}
        /\ Moves(e, "completeRollback", "rollback", run[e].i, run[e].mine, run[e].done)
    BY <1>6, GotoMoves DEF IInv, AllReleased, Points, Active, Closing
  <2>2. TypeOK'
    BY <1>1, <2>1 DEF IInv, TypeOK, Moves
  <2>3. \A f \in Executors : Owns(f)' => run'[f].pc = "completeRollback"
    BY <1>4, <2>1 DEF Owns, Moves
  <2>4. Said'
    BY <1>1, <1>2, <1>6, <2>1, <2>3, ReleasingFacts DEF Said, Unwound, TransfersFree
  <2>5. \A j \in Steps : PassedOver(run[e], j)' /\ step'[j] # "PENDING"
    BY <1>1, <1>6, <2>1, ReleasingFacts DEF PassedOver, Moves
  <2>6. Knows(e)'
    BY <1>1, <1>2, <1>6, <2>1, <2>5, ReleasingFacts DEF Moves, Knows, RecordFits, Claimed, AtPrepare,
       AtWrite, AtUndo, AtClose, Keeps, TransfersFree, Owns, Owning, Active, ForRollback,
       Forward, Holding, Preparing, Writing, Undoing, Closing, Starting
  <2>7. QED BY <1>1, <1>3, <2>1, <2>2, <2>4, <2>6, ReleasingFacts, OwnerStep DEF World, Moves
<1>7. QED BY <1>1, <1>5, <1>6, ReleasingFacts

-----------------------------------------------------------------------------
(* Rollback *)

LEMMA BeginRollbackStep ==
  ASSUME IInv, NEW e \in Executors, BeginRollback(e), UNCHANGED lossy
  PROVE  IInv'
<1>1. run[e].pc = "new" /\ ~Owns(e) /\ Knows(e)
  BY DEF IInv, BeginRollback, At, Owns, Owning, Active, Starting, Preparing, Writing, Undoing, Closing
<1>2. CASE exec = "SUCCEEDED"
  <2>1. Moves(e, "prepareRollback", "rollback", run[e].i, run[e].mine, run[e].done)
    <3> DEFINE q == [run[e] EXCEPT !.mode = "rollback"]
               r == [q EXCEPT !.pc = "prepareRollback"]
    <3>1. q \in Run /\ q.mode = "rollback" /\ q.i = run[e].i /\ q.mine = run[e].mine /\ q.done = run[e].done
      BY DEF IInv, TypeOK, Run
    <3>2. run' = [run EXCEPT ![e] = r]
      BY <1>2 DEF BeginRollback
    <3> HIDE DEF q
    <3>3. /\ r \in Run /\ r.pc = "prepareRollback" /\ r.mode = "rollback" /\ r.i = run[e].i
          /\ r.mine = run[e].mine /\ r.done = run[e].done
      BY <3>1 DEF Run, Active, Starting
    <3> HIDE DEF r
    <3>4. QED BY <3>2, <3>3 DEF IInv, TypeOK, Moves
  <2>2. RecordFits(e)' /\ Claimed(e)' /\ ~Owns(e)'
    BY <1>2, <2>1 DEF BeginRollback, journal, RecordFits, Claimed, Owns, Owning, ForRollback, Moves, Undoing
  <2>3. QED BY <1>1, <2>1, <2>2, FreeStep DEF BeginRollback, Moves
<1>3. CASE exec # "SUCCEEDED"
  <2>1. End(e, "REFUSED") /\ said' = said \cup {}
    BY <1>3 DEF BeginRollback
  <2>2. QED BY <2>1, StopStep DEF BeginRollback, Outcomes
<1>4. QED BY <1>2, <1>3

LEMMA PrepareRollbackStep ==
  ASSUME IInv, NEW e \in Executors, PrepareRollback(e), UNCHANGED lossy
  PROVE  IInv'
<1>1. /\ run[e].pc = "prepareRollback" /\ ~Owns(e) /\ Knows(e) /\ exec = "SUCCEEDED"
      /\ UNCHANGED <<exec, step, undo, res, sap, writes, undos, said>>
  BY DEF IInv, PrepareRollback, At, Owns, Owning, world, Knows, Claimed, ForRollback
<1>2. Moves(e, "claimRollback", run[e].mode, run[e].i, run[e].mine, run[e].done)
  BY GotoMoves DEF IInv, PrepareRollback, Points, Active, Starting
<1>3. rollback' = rollback \/ (rollback = "NONE" /\ rollback' = "READY")
  BY DEF PrepareRollback, Prepared
<1>4. RecordFits(e)' /\ Claimed(e)' /\ ~Owns(e)'
  BY <1>1, <1>2 DEF Knows, RecordFits, Claimed, Owns, Owning, ForRollback, Moves, Undoing
<1>5. TypeOK'
  BY <1>1, <1>2, <1>3 DEF IInv, TypeOK, Moves, Statuses
<1>6. World'
  <2>1. (\A i \in Steps : StepShape(i))'
    BY <1>1 DEF IInv, World, StepShape
  <2>2. Journal' /\ PlansFirst'
    BY <1>1, <1>3 DEF IInv, World, Journal, PlansFirst, Unwound, TransfersFree
  <2>3. Said'
    BY <1>1, <1>2, <1>3, <1>4 DEF IInv, World, Said, Owns, Unwound, TransfersFree, Moves
  <2>4. Reserved'
    BY <1>1 DEF IInv, World, Reserved
  <2>5. QED BY <2>1, <2>2, <2>3, <2>4 DEF World
<1>7. Alone'
  BY <1>2, <1>4 DEF IInv, Alone, Owns, Moves
<1>8. Knows(e)'
  BY <1>2, <1>4 DEF Knows, Moves, AtPrepare, AtWrite, AtUndo, AtClose, Keeps, Forward, Holding,
     Preparing, Writing, Undoing
<1>9. ASSUME NEW f \in Executors \ {e}
      PROVE  Knows(f)'
  <2>1. Knows(f)
    BY DEF IInv
  <2>2. run'[f] = run[f]
    BY <1>2 DEF Moves
  <2>3. QED
    BY <1>1, <1>3, <2>1, <2>2 DEF Knows, RecordFits, Claimed, AtPrepare, AtWrite, AtUndo, AtClose,
       Keeps, Owns, Before, After, PassedOver, TransfersFree, TransfersHeld
<1>10. QED BY <1>5, <1>6, <1>7, <1>8, <1>9 DEF IInv

LEMMA ClaimRollbackStep ==
  ASSUME IInv, NEW e \in Executors, ClaimRollback(e), UNCHANGED lossy
  PROVE  IInv'
<1>1. run[e].pc = "claimRollback" /\ ~Owns(e) /\ Knows(e)
  BY DEF IInv, ClaimRollback, At, Owns, Owning
<1>2. CASE Goto(e, "commitRollback")
  <2>1. Moves(e, "commitRollback", run[e].mode, run[e].i, run[e].mine, run[e].done)
    BY <1>2, GotoMoves DEF IInv, Points, Active, Starting
  <2>2. RecordFits(e)' /\ Claimed(e)' /\ ~Owns(e)'
    BY <1>1, <2>1 DEF ClaimRollback, journal, Knows, RecordFits, Claimed, Owns, Owning, ForRollback,
       Moves, Undoing
  <2>3. QED BY <1>1, <2>1, <2>2, FreeStep DEF ClaimRollback, Moves
<1>3. CASE End(e, "ROLLED_BACK") \/ End(e, "UNCERTAIN")
  <2>1. said' = said \cup {}
    BY DEF ClaimRollback
  <2>2. QED BY <1>3, <2>1, StopStep DEF ClaimRollback, Outcomes
<1>4. QED BY <1>2, <1>3 DEF ClaimRollback

\* The claim on the rollback is won once, of an execution nobody owns any more.
LEMMA CommitRollbackStep ==
  ASSUME IInv, NEW e \in Executors, CommitRollback(e), UNCHANGED lossy
  PROVE  IInv'
<1>1. run[e].pc = "commitRollback" /\ Knows(e) /\ exec = "SUCCEEDED"
  BY DEF IInv, CommitRollback, At, Knows, Claimed, ForRollback
<1>2. CASE Claimable(rollback)
  <2>1. /\ rollback = "READY" /\ rollback' = "PENDING"
        /\ UNCHANGED <<exec, step, undo, res, sap, writes, undos, said>>
        /\ \/ Moves(e, "scan", run[e].mode, run[e].i, run[e].mine, run[e].done)
           \/ Moves(e, "ended", "run", 1, {}, {})
    <3>1. CASE Goto(e, "scan")
      BY <1>2, <3>1, GotoMoves DEF IInv, CommitRollback, Claimable, world, Points, Active, Starting
    <3>2. CASE Raised(e)
      BY <1>1, <1>2, <3>2, RaisedMoves DEF IInv, CommitRollback, Claimable, world, Preparing, Writing
    <3>3. QED BY <1>2, <3>1, <3>2 DEF CommitRollback, Answered
  <2>2. \A f \in Executors : ~Owns(f)
    BY <1>1, <2>1 DEF IInv, Knows, Claimed
  <2>3. \A i \in Steps : step[i] = "SUCCEEDED" /\ undo[i] = "NONE"
    BY <1>1, <2>1 DEF IInv, World, Journal
  <2>4. TypeOK'
    BY <2>1 DEF IInv, TypeOK, Moves, Statuses
  <2>5. World'
    <3>1. (\A i \in Steps : StepShape(i))'
      BY <2>1 DEF IInv, World, StepShape
    <3>2. Journal' /\ PlansFirst'
      BY <1>1, <2>1, <2>3 DEF Journal, PlansFirst
    <3>3. Said'
      BY <1>1, <2>1 DEF IInv, World, Said, Journal
    <3>4. Reserved'
      BY <2>1 DEF IInv, World, Reserved
    <3>5. QED BY <3>1, <3>2, <3>3, <3>4 DEF World
  <2>6. Alone'
    BY <2>1, <2>2 DEF Alone, Owns, Moves
  <2>7. Knows(e)'
    <3>1. CASE Moves(e, "ended", "run", 1, {}, {})
      BY <3>1, EndedKnows DEF Moves
    <3>2. CASE Moves(e, "scan", run[e].mode, run[e].i, run[e].mine, run[e].done)
      BY <1>1, <2>1, <2>3, <3>2 DEF Knows, RecordFits, Claimed, AtPrepare, AtWrite, AtUndo, AtClose, Keeps,
         Moves, Owns, Owning, Active, ForRollback,
         Forward, Holding, Preparing, Writing, Undoing, Closing, Starting
    <3>3. QED BY <2>1, <3>1, <3>2
  <2>8. ASSUME NEW f \in Executors \ {e}
        PROVE  Knows(f)'
    <3>1. Knows(f) /\ ~Owns(f) /\ run'[f] = run[f]
      BY <2>1, <2>2 DEF IInv, Moves
    <3>2. QED
      BY <2>1, <3>1 DEF Knows, RecordFits, Claimed, AtPrepare, AtWrite, AtUndo, AtClose, Keeps, Owns,
         Before, After, PassedOver, TransfersFree, TransfersHeld
  <2>9. QED BY <2>4, <2>5, <2>6, <2>7, <2>8 DEF IInv
<1>3. CASE ~Claimable(rollback)
  <2>1. said' = said \cup {} /\ UNCHANGED <<journal, res, world>> /\ End(e, "UNCERTAIN")
    BY <1>3 DEF CommitRollback, journal
  <2>2. QED BY <2>1, StopStep DEF Outcomes
<1>4. QED BY <1>2, <1>3

LEMMA ScanStepsStep ==
  ASSUME IInv, NEW e \in Executors, ScanSteps(e), UNCHANGED lossy
  PROVE  IInv'
<1>1. /\ run[e].pc = "scan" /\ Owns(e) /\ Knows(e) /\ said' = said \cup {}
      /\ UNCHANGED <<exec, rollback, step, undo, res, sap, writes, undos>>
  BY DEF IInv, ScanSteps, At, Owns, Owning, Active, Starting, journal, world
<1>2. \A j \in Steps : step[j] = "SUCCEEDED" /\ undo[j] = "NONE"
  BY <1>1 DEF Knows, AtWrite, Forward
<1>3. run[e].mode = "rollback"
  BY <1>1 DEF Knows, RecordFits, ForRollback
<1>4. {j \in Steps : step[j] = "SUCCEEDED"} = Steps
  BY <1>2
<1>5. run' = [run EXCEPT ![e].pc = "compensate", ![e].mine = Transfers, ![e].done = Steps]
  BY <1>2, <1>4 DEF ScanSteps
<1>6. Transfers \in SUBSET Steps /\ Steps \in SUBSET Steps
  BY DEF Transfers
<1>7. Moves(e, "compensate", "rollback", run[e].i, Transfers, Steps)
  <2> DEFINE p == [run[e] EXCEPT !.pc = "compensate"]
             q == [p EXCEPT !.mine = Transfers]
             r == [q EXCEPT !.done = Steps]
  <2>1. p \in Run /\ p.pc = "compensate" /\ p.mode = "rollback" /\ p.i = run[e].i
    BY <1>3, ZenonT(40) DEF IInv, TypeOK, Run, Active, Undoing
  <2>2. run' = [run EXCEPT ![e] = r]
    BY <1>5
  <2> HIDE DEF p
  <2>3. q \in Run /\ q.pc = p.pc /\ q.mode = p.mode /\ q.i = p.i /\ q.mine = Transfers
    BY <1>6, <2>1 DEF Run
  <2> HIDE DEF q
  <2>4. r \in Run /\ r.pc = q.pc /\ r.mode = q.mode /\ r.i = q.i /\ r.mine = q.mine /\ r.done = Steps
    BY <1>6, <2>3 DEF Run
  <2> HIDE DEF r
  <2>5. QED BY <2>1, <2>2, <2>3, <2>4 DEF IInv, TypeOK, Moves
<1>8. AtUndo(e)'
  <2>1. \A j \in Steps : \A k \in 1..j : k \in Steps
    BY StepsExist DEF Steps
  <2>2. QED BY <1>1, <1>2, <1>7, <2>1 DEF AtUndo, Moves, Undoing
<1>9. RecordFits(e)' /\ Claimed(e)' /\ AtPrepare(e)' /\ AtWrite(e)' /\ AtClose(e)' /\ Keeps(e)'
  BY <1>1, <1>3, <1>7 DEF Moves, Knows, RecordFits, Claimed, AtPrepare, AtWrite, AtClose, Keeps, Owns,
     Owning, Active, ForRollback,
     Forward, Holding, Preparing, Writing, Undoing, Closing, Starting
<1>10. Knows(e)'
  BY <1>8, <1>9 DEF Knows
<1>11. QED BY <1>1, <1>7, <1>10, OwnerMoves DEF ScanSteps, Moves

LEMMA CompleteRollbackStep ==
  ASSUME IInv, NEW e \in Executors, CompleteRollback(e), UNCHANGED lossy
  PROVE  IInv'
<1>1. /\ run[e].pc = "completeRollback" /\ Owns(e) /\ Knows(e) /\ TypeOK
      /\ rollback = "PENDING" /\ rollback' = "SUCCEEDED"
      /\ UNCHANGED <<exec, step, undo, res, sap, writes, undos, said>>
  BY DEF IInv, CompleteRollback, At, Owns, Owning, Active, Closing, world
<1>2. Moves(e, "ended", "run", 1, {}, {})
  BY <1>1, EndMoves, RaisedMoves DEF CompleteRollback, Outcomes, Preparing, Writing
<1>3. TypeOK'
  BY <1>1, <1>2 DEF TypeOK, Moves, Statuses
<1>4. /\ exec = "SUCCEEDED" /\ TransfersFree(Transfers)
      /\ \A j \in Steps : step[j] = "SUCCEEDED" => Irreversible(j)
  BY <1>1 DEF Knows, RecordFits, Claimed, AtClose, PassedOver, ForRollback
<1>5. Unwound
  BY <1>4 DEF IInv, World, Journal, Unwound
<1>6. Knows(e)' /\ ~Owns(e)'
  BY <1>2, EndedKnows DEF Moves
<1>7. World'
  <2>1. (\A j \in Steps : StepShape(j))'
    BY <1>1 DEF IInv, World, StepShape
  <2>2. Journal' /\ PlansFirst'
    BY <1>1, <1>4, <1>5 DEF IInv, World, Journal, PlansFirst, Unwound, TransfersFree
  <2>3. Said'
    BY <1>1, <1>2, <1>4, <1>6 DEF IInv, World, Said, Owns, Moves, Unwound, TransfersFree
  <2>4. Reserved'
    BY <1>1 DEF IInv, World, Reserved
  <2>5. QED BY <2>1, <2>2, <2>3, <2>4 DEF World
<1>8. QED BY <1>1, <1>2, <1>3, <1>6, <1>7, OwnerStep DEF Moves

-----------------------------------------------------------------------------
(* The invariant and what follows from it *)

LEMMA InitIsInvariant == Init => IInv
<1> SUFFICES ASSUME Init PROVE IInv
  OBVIOUS
<1> DEFINE r == Fresh("new", "NONE")
<1>1. r \in Run /\ r.pc = "new" /\ r.mode = "run" /\ r.i = 1 /\ r.mine = {} /\ r.done = {}
  <2>1. 1 \in 1..N
    BY StepsExist
  <2>2. QED BY <2>1 DEF Fresh, Run, Outcomes
<1>2. run = [e \in Executors |-> r]
  BY DEF Init
<1> HIDE DEF r
<1>3. TypeOK
  BY <1>1, <1>2, LostIsBoolean DEF Init, TypeOK, Statuses, NoReservation
<1>4. \A e \in Executors : ~Owns(e)
  BY <1>1, <1>2 DEF Owns, Owning, Active, Starting, Preparing, Writing, Undoing, Closing
<1>5. Alone
  BY <1>4 DEF Alone
<1>6. World
  BY DEF Init, World, StepShape, Journal, PlansFirst, Said, Reserved, NoReservation, Transfers
<1>7. ASSUME NEW e \in Executors
      PROVE  Knows(e)
  BY <1>1, <1>2, <1>4 DEF Knows, RecordFits, Claimed, AtPrepare, AtWrite, AtUndo, AtClose, Keeps,
     Owning, Active, ForRollback,
     Forward, Holding, Preparing, Writing, Undoing, Closing, Starting
<1>8. QED BY <1>3, <1>5, <1>6, <1>7 DEF IInv

LEMMA StutterIsInvariant == IInv /\ UNCHANGED vars => IInv'
<1> SUFFICES ASSUME IInv, UNCHANGED vars PROVE IInv'
  OBVIOUS
<1> USE DEF vars
<1>1. TypeOK' /\ Alone'
  BY DEF IInv, TypeOK, Alone, Owns
<1>2. World'
  BY DEF IInv, World, StepShape, Journal, PlansFirst, Said, Reserved, Unwound, Owns, TransfersFree
<1>3. ASSUME NEW e \in Executors
      PROVE  Knows(e)'
  <2>1. Knows(e)
    BY DEF IInv
  <2>2. QED
    BY <2>1 DEF Knows, RecordFits, Claimed, AtPrepare, AtWrite, AtUndo, AtClose, Keeps, Owns,
       Before, After, PassedOver, TransfersFree, TransfersHeld
<1>4. QED BY <1>1, <1>2, <1>3 DEF IInv

LEMMA StepIsInvariant == IInv /\ [Next]_vars => IInv'
<1>1. ASSUME IInv, NEW e \in Executors, UNCHANGED lossy, Claims(e)
      PROVE  IInv'
  BY <1>1, BeginRunStep, PrepareExecStep, ClaimExecStep, CommitExecStep, ReadRecordsStep, RevalidateStep
  DEF Claims
<1>2. ASSUME IInv, NEW e \in Executors, UNCHANGED lossy, Prepares(e)
      PROVE  IInv'
  BY <1>2, ReserveStep, AllReservedStep, SaveUndoStep, AuditUndoSavedStep, UnholdStep, UnheldStep
  DEF Prepares
<1>3. ASSUME IInv, NEW e \in Executors, UNCHANGED lossy, Writes(e)
      PROVE  IInv'
  BY <1>3, CheckKillSwitchStep, ClaimStepStep, ApplyStep, CompleteStepStep, VerifyStepStep, FinishStep,
     CompleteExecStep DEF Writes
<1>4. ASSUME IInv, NEW e \in Executors, UNCHANGED lossy, Compensates(e)
      PROVE  IInv'
  BY <1>4, CompensateStep, PrepareUndoStep, ClaimUndoStep, UndoSapStep, CompleteUndoStep, MarkUndoneStep,
     CompensatedStep, SettleStep, ReleaseNextStep, AllReleasedStep DEF Compensates
<1>5. ASSUME IInv, NEW e \in Executors, UNCHANGED lossy, RollsBack(e)
      PROVE  IInv'
  BY <1>5, BeginRollbackStep, PrepareRollbackStep, ClaimRollbackStep, CommitRollbackStep, ScanStepsStep,
     CompleteRollbackStep DEF RollsBack
<1>6. QED
  BY <1>1, <1>2, <1>3, <1>4, <1>5, RaiseStep, CrashStep, StutterIsInvariant DEF Next

LEMMA Invariance == Spec => []IInv
BY InitIsInvariant, StepIsInvariant, PTL DEF Spec

\* Every variable keeps its type.
THEOREM TypeCorrect == Spec => []TypeOK
<1>1. IInv => TypeOK
  BY DEF IInv
<1>2. QED BY Invariance, <1>1, PTL

\* BR-09: however many invocations run, retry, race and stop, no write of the
\* part and no undo reaches SAP twice.
THEOREM WrittenAtMostOnce == Spec => []WrittenOnce
<1>1. IInv => WrittenOnce
  BY DEF IInv, World, StepShape, TypeOK, Statuses, WrittenOnce
<1>2. QED BY Invariance, <1>1, PTL

\* BR-10: no write reaches SAP before every undo plan is in the journal.
THEOREM UndoPlansComeFirst == Spec => []UndoSavedFirst
<1>1. IInv => UndoSavedFirst
  BY DEF IInv, World, StepShape, PlansFirst, TypeOK, Statuses, UndoSavedFirst
<1>2. QED BY Invariance, <1>1, PTL

\* What is called rolled back, in the audit trail or in the journal, is clean.
THEOREM RollbackIsClean == Spec => []RolledBackIsClean
<1>1. ASSUME IInv, ~lossy, said \cap {"FAILED_ROLLED_BACK", "ROLLED_BACK"} # {}
      PROVE  /\ \A i \in Steps : Kind[i] # "irreversible" => sap[i] # "live" /\ step[i] # "PENDING"
             /\ \A d \in Donors : res[d].status # "HELD"
  <2>1. TransfersFree(Transfers)
    BY <1>1 DEF IInv, World, Said
  <2>2. \A i \in Steps : step[i] # "PENDING" /\ (step[i] = "SUCCEEDED" => Irreversible(i))
    BY <1>1 DEF IInv, World, Said, Unwound
  <2>3. ASSUME NEW i \in Steps, Kind[i] # "irreversible"
        PROVE  sap[i] # "live"
    <3>1. step[i] \in {"NONE", "READY", "UNDONE"} /\ StepShape(i)
      BY <1>1, <2>2, <2>3 DEF IInv, World, TypeOK, Statuses, Irreversible
    <3>2. QED BY <3>1 DEF StepShape
  <2>4. \A d \in Donors : res[d].status # "HELD"
    BY <1>1, <2>1 DEF IInv, World, Reserved, TransfersFree
  <2>5. QED BY <2>2, <2>3, <2>4
<1>2. ASSUME IInv, rollback = "SUCCEEDED"
      PROVE  /\ \A i \in Steps : sap[i] = IF Kind[i] = "irreversible" THEN "live" ELSE "undone"
             /\ \A t \in Transfers : res[Donor[t]].status # "HELD"
  <2>1. Unwound /\ TransfersFree(Transfers)
    BY <1>2 DEF IInv, World, Journal
  <2>2. ASSUME NEW i \in Steps
        PROVE  sap[i] = IF Kind[i] = "irreversible" THEN "live" ELSE "undone"
    <3>1. StepShape(i) /\ undo[i] \in Statuses
      BY <1>2 DEF IInv, World, TypeOK
    <3>2. step[i] = "UNDONE" \/ (step[i] = "SUCCEEDED" /\ Irreversible(i))
      BY <2>1 DEF Unwound
    <3>3. QED BY <3>1, <3>2 DEF StepShape, Irreversible, Statuses
  <2>3. QED BY <2>1, <2>2 DEF TransfersFree
<1>3. IInv => RolledBackIsClean
  BY <1>1, <1>2 DEF RolledBackIsClean
<1>4. QED BY Invariance, <1>3, PTL

\* The donors of the part's transfers are all different.
OneTransferPerDonor == \A t, u \in Transfers : Donor[t] = Donor[u] => t = u

\* BR-08: the stock a written transfer takes stays reserved, provided no two
\* transfers of the part share a donor. (Two of equal quantity share one
\* reservation: the ledger answers the second with the first.)
THEOREM WritesStayReserved ==
  ASSUME OneTransferPerDonor
  PROVE  Spec => []WritesAreReserved
<1>1. IInv => WritesAreReserved
  <2> SUFFICES ASSUME IInv, ~lossy, NEW d \in Donors, Exposed(d) # {}
               PROVE  res[d].status = "HELD" /\ Cardinality(TakenUnits(d)) <= res[d].qty
    BY DEF WritesAreReserved
  <2>1. PICK t \in Transfers : Donor[t] = d /\ (sap[t] = "live" \/ step[t] = "PENDING")
    BY DEF Exposed
  <2>2. res[d] = Held(Qty[t]) /\ Qty[t] \in Nat
    BY <2>1, QtyIsPositive DEF IInv, World, Reserved, Transfers
  <2>3. Exposed(d) = {t}
    BY <2>1 DEF Exposed, OneTransferPerDonor
  <2>4. TakenUnits(d) = {t} \X (1..Qty[t])
    BY <2>3 DEF TakenUnits
  <2>5. Cardinality({t} \X (1..Qty[t])) = Qty[t]
    <3>1. IsFiniteSet({t}) /\ Cardinality({t}) = 1
      BY FS_Singleton
    <3>2. IsFiniteSet(1..Qty[t]) /\ Cardinality(1..Qty[t]) = Qty[t]
      BY <2>2, FS_Interval
    <3>3. Cardinality({t} \X (1..Qty[t])) = Cardinality({t}) * Cardinality(1..Qty[t])
      BY <3>1, <3>2, FS_Product
    <3>4. Cardinality({t}) * Cardinality(1..Qty[t]) = 1 * Qty[t]
      BY <3>1, <3>2
    <3>5. 1 * Qty[t] = Qty[t]
      BY <2>2
    <3>6. QED BY <3>3, <3>4, <3>5
  <2>6. QED BY <2>2, <2>4, <2>5 DEF Held
<1>2. QED BY Invariance, <1>1, PTL

-----------------------------------------------------------------------------
(* What the part promises *)

Phase == CASE exec \in {"NONE", "READY"} -> "open"
           [] exec = "PENDING" -> "writing"
           [] exec = "SUCCEEDED" /\ rollback \in {"NONE", "READY"} -> "completed"
           [] exec = "SUCCEEDED" /\ rollback = "PENDING" -> "withdrawing"
           [] exec = "SUCCEEDED" /\ rollback = "SUCCEEDED" -> "withdrawn"

Live == {i \in Steps : sap[i] = "live"}

Gone == {i \in Steps : sap[i] = "undone"}

\* What a step must do to the three of them.
PartNext ==
  \/ /\ Phase = "open" /\ Phase' = "writing"
     /\ UNCHANGED <<Live, Gone>>
  \/ \E i \in Steps :
       \/ /\ Phase = "writing" /\ Gone = {} /\ Live = 1..(i - 1)
          /\ Live' = Live \cup {i}
          /\ UNCHANGED <<Phase, Gone>>
       \/ /\ Phase \in {"writing", "withdrawing"}
          /\ i \in Live /\ ~Irreversible(i) /\ \A j \in Gone : j > i
          /\ Live' = Live \ {i} /\ Gone' = Gone \cup {i}
          /\ UNCHANGED Phase
  \/ /\ Phase = "writing" /\ Live = Steps /\ Phase' = "completed"
     /\ UNCHANGED <<Live, Gone>>
  \/ /\ Phase = "completed" /\ Phase' = "withdrawing"
     /\ UNCHANGED <<Live, Gone>>
  \/ /\ Phase = "withdrawing" /\ \A i \in Live : Irreversible(i)
     /\ Phase' = "withdrawn"
     /\ UNCHANGED <<Live, Gone>>

LEMMA PartNextIsPNext == PartNext => P!PNext
BY DEF PartNext, P!PNext, P!Start, P!Write, P!Undo, P!Complete, P!Withdraw, P!Withdrawn, P!Steps,
   P!Reversible, Steps, Irreversible, Phase, Live, Gone

\* A step that changes neither key nor document is not seen.
LEMMA Unseen == UNCHANGED <<exec, rollback, sap>> => UNCHANGED P!pvars
BY DEF P!pvars

LEMMA ApplyIsWrite ==
  ASSUME IInv, NEW e \in Executors, Apply(e)
  PROVE  PartNext
<1> DEFINE i == run[e].i
<1>1. run[e].pc = "apply" /\ run[e].pc \in Writing
  BY DEF Apply, At, Writing
<1>2. /\ step[i] = "PENDING" /\ writes[i] = 0 /\ i \in Steps /\ i \in Nat
      /\ UNCHANGED <<exec, rollback>> /\ exec = "PENDING"
  BY <1>1, WritingFacts, StepsExist DEF Knows, AtWrite, Apply, journal, Steps
<1>3. \A j \in Steps : sap[j] = IF j < i THEN "live" ELSE "absent"
  <2> SUFFICES ASSUME NEW j \in Steps PROVE sap[j] = IF j < i THEN "live" ELSE "absent"
    OBVIOUS
  <2>1. StepShape(j) /\ undo[j] = "NONE" /\ j \in Nat
    BY <1>1, WritingFacts, StepsExist DEF IInv, World, Steps
  <2>2. CASE j < i
    BY <1>1, <2>1, <2>2, WritingFacts DEF StepShape
  <2>3. CASE j = i
    BY <1>2, <2>1, <2>3 DEF StepShape
  <2>4. CASE j > i
    BY <1>1, <1>2, <2>1, <2>4, WritingFacts DEF StepShape
  <2>5. QED BY <1>2, <2>1, <2>2, <2>3, <2>4
<1>4. Gone = {} /\ Live = 1..(i - 1)
  BY <1>2, <1>3, StepsExist DEF Gone, Live, Steps
<1>5. \A j \in Steps : sap'[j] = IF j = i THEN "live" ELSE sap[j]
  BY <1>2 DEF IInv, TypeOK, Apply
<1>6. Live' = Live \cup {i} /\ Gone' = Gone
  BY <1>2, <1>3, <1>5 DEF Live, Gone
<1>7. Phase = "writing" /\ Phase' = Phase
  BY <1>2 DEF Phase
<1>8. QED BY <1>2, <1>4, <1>6, <1>7 DEF PartNext

LEMMA UndoSapIsUndo ==
  ASSUME IInv, NEW e \in Executors, UndoSap(e)
  PROVE  PartNext
<1> DEFINE i == run[e].i
<1>1. run[e].pc = "undoSap" /\ run[e].pc \in Undoing \ {"compensate"}
  BY DEF UndoSap, At, Undoing
<1>2. /\ undo[i] = "PENDING" /\ undos[i] = 0 /\ i \in Steps /\ i \in Nat
      /\ step[i] = "SUCCEEDED" /\ ~Irreversible(i)
      /\ UNCHANGED <<exec, rollback>>
  BY <1>1, UndoingFacts, CurrentUndo, StepsExist DEF Knows, AtUndo, UndoSap, journal, Steps
<1>3. sap[i] = "live"
  BY <1>2 DEF IInv, World, StepShape
<1>4. ASSUME NEW j \in Steps, sap[j] = "undone"
      PROVE  j > i
  <2>1. j \in Nat /\ StepShape(j) /\ undo[j] # "NONE" /\ j # i
    <3>1. StepShape(j) /\ step[j] \in Statuses
      BY DEF IInv, World, TypeOK
    <3>2. undo[j] # "NONE"
      BY <1>4, <3>1 DEF StepShape, Statuses
    <3>3. j \in Nat
      BY StepsExist DEF Steps
    <3>4. QED BY <1>3, <1>4, <3>1, <3>2, <3>3
  <2>2. j \notin run[e].done
    BY <1>1, <2>1, CurrentUndo
  <2>3. ~(j < i)
    <3>1. SUFFICES ASSUME j < i PROVE FALSE
      OBVIOUS
    <3>2. j \in 1..i
      BY <1>2, <1>4, <3>1, StepsExist DEF Steps
    <3>3. QED BY <1>1, <2>2, <3>2, UndoingFacts, CurrentUndo
  <2>4. QED BY <1>2, <2>1, <2>3
<1>5. \A j \in Steps : sap'[j] = IF j = i THEN "undone" ELSE sap[j]
  BY <1>2 DEF IInv, TypeOK, UndoSap
<1>6. Live' = Live \ {i} /\ Gone' = Gone \cup {i} /\ i \in Live /\ \A j \in Gone : j > i
  BY <1>2, <1>3, <1>4, <1>5 DEF Live, Gone
<1>7. Phase \in {"writing", "withdrawing"} /\ Phase' = Phase
  BY <1>1, <1>2, UndoingFacts DEF Phase
<1>8. QED BY <1>2, <1>6, <1>7 DEF PartNext

LEMMA ClaimsAreSeen ==
  ASSUME IInv, NEW e \in Executors, PrepareExec(e) \/ CommitExec(e) \/ PrepareRollback(e) \/ CommitRollback(e)
  PROVE  PartNext \/ UNCHANGED P!pvars
<1>1. UNCHANGED <<Live, Gone>> /\ sap' = sap
  BY DEF PrepareExec, CommitExec, PrepareRollback, CommitRollback, world, Live, Gone
<1>2. CASE PrepareExec(e)
  <2>1. rollback' = rollback /\ (exec' = exec \/ (exec = "NONE" /\ exec' = "READY"))
    BY <1>2 DEF PrepareExec, Prepared
  <2>2. QED BY <1>1, <2>1 DEF P!pvars
<1>3. CASE CommitExec(e)
  <2>1. rollback' = rollback /\ (exec' = exec \/ (exec = "READY" /\ exec' = "PENDING"))
    BY <1>3 DEF CommitExec, Claimable
  <2>2. CASE exec' = exec
    BY <1>1, <2>1, <2>2 DEF P!pvars
  <2>3. CASE exec = "READY" /\ exec' = "PENDING"
    BY <1>1, <2>3 DEF PartNext, Phase
  <2>4. QED BY <2>1, <2>2, <2>3
<1>4. CASE PrepareRollback(e)
  <2>1. exec' = exec /\ (rollback' = rollback \/ (rollback = "NONE" /\ rollback' = "READY"))
    BY <1>4 DEF PrepareRollback, Prepared
  <2>2. exec = "SUCCEEDED"
    BY <1>4 DEF PrepareRollback, At, IInv, Knows, Claimed, ForRollback
  <2>3. QED BY <1>1, <2>1, <2>2 DEF P!pvars
<1>5. CASE CommitRollback(e)
  <2>1. exec' = exec /\ (rollback' = rollback \/ (rollback = "READY" /\ rollback' = "PENDING"))
    BY <1>5 DEF CommitRollback, Claimable
  <2>2. exec = "SUCCEEDED"
    BY <1>5 DEF CommitRollback, At, IInv, Knows, Claimed, ForRollback
  <2>3. CASE rollback' = rollback
    BY <1>1, <2>1, <2>3 DEF P!pvars
  <2>4. CASE rollback = "READY" /\ rollback' = "PENDING"
    BY <1>1, <2>1, <2>2, <2>4 DEF PartNext, Phase
  <2>5. QED BY <2>1, <2>3, <2>4
<1>6. QED BY <1>2, <1>3, <1>4, <1>5

LEMMA CompletionsAreSeen ==
  ASSUME IInv, NEW e \in Executors, CompleteExec(e) \/ CompleteRollback(e)
  PROVE  PartNext
<1>1. UNCHANGED <<Live, Gone>>
  BY DEF CompleteExec, CompleteRollback, world, Live, Gone
<1>2. CASE CompleteExec(e)
  <2>1. run[e].pc = "completeExec" /\ exec = "PENDING" /\ exec' = "SUCCEEDED" /\ rollback' = rollback
    BY <1>2 DEF CompleteExec, At
  <2>2. \A j \in Steps : step[j] = "SUCCEEDED" /\ undo[j] = "NONE" /\ StepShape(j)
    BY <2>1 DEF IInv, World, Knows, AtWrite, Forward
  <2>3. rollback = "NONE" /\ Live = Steps
    BY <2>1, <2>2 DEF IInv, World, Journal, StepShape, Live
  <2>4. QED BY <1>1, <2>1, <2>3 DEF PartNext, Phase
<1>3. CASE CompleteRollback(e)
  <2>1. /\ run[e].pc = "completeRollback" /\ Knows(e)
        /\ exec' = exec /\ rollback = "PENDING" /\ rollback' = "SUCCEEDED"
    BY <1>3 DEF IInv, CompleteRollback, At
  <2>2. exec = "SUCCEEDED" /\ \A j \in Steps : step[j] = "SUCCEEDED" => Irreversible(j)
    BY <2>1 DEF Knows, RecordFits, Claimed, AtClose, PassedOver, ForRollback
  <2>3. \A j \in Live : Irreversible(j)
    BY <2>2 DEF IInv, World, Journal, StepShape, Live
  <2>4. QED BY <1>1, <2>1, <2>2, <2>3 DEF PartNext, Phase
<1>4. QED BY <1>2, <1>3

LEMMA StepIsSeen ==
  ASSUME IInv, [Next]_vars
  PROVE  P!PNext \/ UNCHANGED P!pvars
<1>1. ASSUME NEW e \in Executors,
             Claims(e) \/ Prepares(e) \/ Writes(e) \/ Compensates(e) \/ RollsBack(e) \/ Raise(e) \/ Crash(e)
      PROVE  \/ UNCHANGED <<exec, rollback, sap>>
             \/ Apply(e) \/ UndoSap(e) \/ CompleteExec(e) \/ CompleteRollback(e)
             \/ PrepareExec(e) \/ CommitExec(e) \/ PrepareRollback(e) \/ CommitRollback(e)
  <2>1. CASE Claims(e)
    <3>1. BeginRun(e) \/ ClaimExec(e) \/ ReadRecords(e) \/ Revalidate(e)
            => UNCHANGED <<exec, rollback, sap>>
      BY DEF BeginRun, ClaimExec, ReadRecords, Revalidate, journal, world
    <3>2. QED BY <2>1, <3>1 DEF Claims
  <2>2. CASE Prepares(e)
    BY <2>2 DEF Prepares, Reserve, AllReserved, SaveUndo, AuditUndoSaved, Unhold, Unheld, journal, world
  <2>3. CASE Writes(e)
    BY <2>3 DEF Writes, CheckKillSwitch, ClaimStep, CompleteStep, VerifyStep, Finish, journal, world
  <2>4. CASE Compensates(e)
    BY <2>4 DEF Compensates, Compensate, PrepareUndo, ClaimUndo, CompleteUndo, MarkUndone, Compensated,
       Settle, ReleaseNext, AllReleased, journal, world
  <2>5. CASE RollsBack(e)
    BY <2>5 DEF RollsBack, BeginRollback, ClaimRollback, ScanSteps, journal, world
  <2>6. CASE Raise(e) \/ Crash(e)
    BY <2>6 DEF Raise, Crash, journal, world
  <2>7. QED BY <1>1, <2>1, <2>2, <2>3, <2>4, <2>5, <2>6
<1>2. CASE UNCHANGED <<exec, rollback, sap>>
  BY <1>2, Unseen
<1>3. ASSUME NEW e \in Executors,
             \/ Apply(e) \/ UndoSap(e) \/ CompleteExec(e) \/ CompleteRollback(e)
             \/ PrepareExec(e) \/ CommitExec(e) \/ PrepareRollback(e) \/ CommitRollback(e)
      PROVE  PartNext \/ UNCHANGED P!pvars
  BY <1>3, ApplyIsWrite, UndoSapIsUndo, CompletionsAreSeen, ClaimsAreSeen
<1>4. CASE UNCHANGED vars
  BY <1>2, <1>4 DEF vars
<1>5. QED BY <1>1, <1>2, <1>3, <1>4, PartNextIsPNext DEF Next

\* FR-EXE-02..08: for any number of executors and steps, SAP sees the writes of
\* one orderly execution, compensation and rollback.
THEOREM PartIsImplemented == Spec => ImplementsPart
<1>1. Init => P!PInit
  BY DEF Init, P!PInit
<1>2. IInv /\ [Next]_vars => [P!PNext]_P!pvars
  BY StepIsSeen
<1>3. QED BY Invariance, <1>1, <1>2, PTL DEF Spec, ImplementsPart, P!PSpec
=============================================================================
