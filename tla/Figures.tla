------------------------------ MODULE Figures ------------------------------
(***************************************************************************)
(* The figures AERA computes from SAP records without a model's help:      *)
(* triage of a case (shared/triage.py, rules/impact.py, rules/br_13.py),   *)
(* the impact of a delay (tools/calc.py) and a supplier's reliability      *)
(* (dialogue/history.py, dialogue/reliability.py).                         *)
(*                                                                         *)
(* Hours count from now; a day has Day hours and it is its hour Hour now,  *)
(* days count from today. Units are hours of consumption where the Mirror  *)
(* knows the rate.                                                         *)
(***************************************************************************)
EXTENDS Integers, Sequences, SequencesExt, FiniteSetsExt

CONSTANTS
  Day,         \* hours of a day; urgency changes at one day and at three
  Hour,        \* the hour of the day it is now
  WindowDays,  \* window_days of the supplier history
  Cases,       \* bound: what SAP says of a material at a plant
  Suppliers    \* bound: what SAP says of a supplier's order item

VARIABLES
  facts,       \* the records read: a case's or a supplier's
  figures      \* what was computed from them, NotYet before

figureVars == <<facts, figures>>

None == -99      \* no rate, no date
NotYet == [none |-> None]
ByTime(rows) == SortSeq(SetToSeq(rows), LAMBDA a, b : a.at < b.at)
Total(rows, Of(_)) == MapThenSumSet(Of, rows)

-----------------------------------------------------------------------------
(* Triage *)

\* consumption_rate: the Mirror's, else what production orders still need within a
\* day; a rate is <<units, hours>>, of no units where none is known.
consumption_rate(f) ==
  LET due == {n \in f.needs : 0 <= n.at /\ n.at < Day}
      units == Total(due, LAMBDA n : n.qty)
  IN  IF f.rate # None THEN <<f.rate, 1>> ELSE <<Max({units, 0}), Day>>

\* None where nothing is consumed.
hours_to_stockout(onHand, rate) ==
  IF rate[1] <= 0 THEN None
  ELSE IF onHand <= 0 THEN 0 ELSE (onHand * rate[2]) \div rate[1]

\* The date an hour falls on
DateOf(hour) == (Hour + hour) \div Day

\* The sales items from the stock-out day on and before the day of the recovery
revenue_at_risk(sales, stockout, recovered) ==
  {s \in sales : stockout # None /\ s.on >= DateOf(stockout)
                 /\ (recovered = None \/ s.on < recovered)}

urgency(hours) ==
  IF hours = None THEN 1 ELSE IF hours < Day THEN 3 ELSE IF hours < 3 * Day THEN 2 ELSE 1

\* Only items in USD that have a confirmed date
sales_exposures(f) == {s \in f.sales : s.usd /\ s.on # None}

assess(f, onHand, recovery) ==
  LET hours == hours_to_stockout(onHand, consumption_rate(f))
      threatened == revenue_at_risk(sales_exposures(f), hours,
                                    IF recovery = None THEN None ELSE DateOf(recovery))
      rar == Total(threatened, LAMBDA s : s.net)
  IN  [hours |-> hours, rar |-> rar, score |-> rar * urgency(hours)]

\* board_key: the higher score first, then the earlier stock-out
Above(a, b) ==
  \/ a.score > b.score
  \/ a.score = b.score /\ a.hours # None /\ (b.hours = None \/ a.hours < b.hours)

-----------------------------------------------------------------------------
(* Impact *)

\* component_requirements that are due and not delivered from the recovered supply
Demand(f) == {n \in f.needs : 0 <= n.at /\ (f.recovery = None \/ n.at < f.recovery)}

\* Mutant: each order is compared with the whole stock.
MDraw(s, n) == LET covered == Min({s.left, n.qty}) IN
  [left |-> s.left, short |-> s.short + n.qty - covered]

\* What one order takes of the stock that is left
Draw(s, n) == LET covered == Min({s.left, n.qty}) IN
  [left |-> s.left - covered, short |-> s.short + n.qty - covered]

\* compute_impact: unitsAtRisk
unitsAtRisk(f) ==
  FoldLeft(Draw, [left |-> f.onHand, short |-> 0], ByTime(Demand(f))).short

-----------------------------------------------------------------------------
(* Supplier reliability: days count from today, so schedule lines lie before 0 *)

\* load_history: the lines whose receipts are looked at
InWindow(f) == {l \in f.lines : l.at # None /\ -WindowDays <= l.at /\ l.at < 0}

\* One receipt against what the line still needs
Take(s, r) == LET take == Min({s.need, r.qty}) IN
  [need |-> s.need - take,
   got |-> IF take > 0 THEN Append(s.got, [r EXCEPT !.qty = take]) ELSE s.got,
   rest |-> IF r.qty > take THEN Append(s.rest, [r EXCEPT !.qty = @ - take]) ELSE s.rest]

\* Mutant: what a line leaves of a receipt is lost to the next one.
MAssign(s, l) ==
  LET t == FoldLeft(Take, [need |-> l.qty, got |-> <<>>, rest |-> <<>>], s.available) IN
  [available |-> SelectSeq(s.available, LAMBDA r : \A i \in DOMAIN t.got : t.got[i].at # r.at),
   done |-> Append(s.done, [line |-> l, got |-> t.got])]

Assign(s, l) ==
  LET t == FoldLeft(Take, [need |-> l.qty, got |-> <<>>, rest |-> <<>>], s.available) IN
  [available |-> t.rest, done |-> Append(s.done, [line |-> l, got |-> t.got])]

\* load_history: goods receipts fill the lines first in, first out.
load_history(f) ==
  LET posted == ByTime({r \in f.receipts : r.at <= 0})
  IN  FoldLeft(Assign, [available |-> posted, done |-> <<>>], ByTime(InWindow(f))).done

\* compute: the day a line was complete, None while it is not
CompletedOn(s) ==
  LET by(i) == FoldLeft(LAMBDA n, r : n + r.qty, 0, SubSeq(s.got, 1, i))
      full == {i \in DOMAIN s.got : by(i) >= s.line.qty}
  IN  IF full = {} THEN None ELSE s.got[Min(full)].at

OnTime(s) == CompletedOn(s) # None /\ CompletedOn(s) <= s.line.at
Delay(s) == Max({0, (IF CompletedOn(s) = None THEN 0 ELSE CompletedOn(s)) - s.line.at})

compute(f) ==
  LET history == load_history(f)
      on(i) == history[i].line.at
  IN  [onTime |-> {on(i) : i \in {j \in DOMAIN history : OnTime(history[j])}},
       delay |-> [d \in {on(i) : i \in DOMAIN history} |->
                    Delay(history[CHOOSE i \in DOMAIN history : on(i) = d])],
       partial |-> {on(i) : i \in {j \in DOMAIN history :
                      Len(history[j].got) > 1 \/ CompletedOn(history[j]) = None}}]

-----------------------------------------------------------------------------

\* CaseService triages a case; calc_impact computes it again with the recovery.
Assess ==
  /\ figures = NotYet /\ facts \in Cases
  /\ figures' = [triage |-> assess(facts, facts.onHand, None),
                 impact |-> assess(facts, facts.onHand, facts.recovery),
                 atRisk |-> unitsAtRisk(facts)]
  /\ UNCHANGED facts

\* ReliabilityJob.refresh, for one supplier and material with history
Refresh ==
  /\ figures = NotYet /\ facts \in Suppliers /\ InWindow(facts) # {}
  /\ figures' = compute(facts)
  /\ UNCHANGED facts

FiguresNext == Assess \/ Refresh

-----------------------------------------------------------------------------
Computed(of) == figures # NotYet /\ facts \in of

\* The units at risk, added up order by order, are what production needs until the
\* supply recovers less the stock, however the orders share it.
ShortfallIsDemand ==
  Computed(Cases) =>
    LET demand == Total(Demand(facts), LAMBDA n : n.qty) IN
    figures.atRisk = IF demand > facts.onHand THEN demand - facts.onHand ELSE 0

\* BR-13: neither more stock nor a known recovery ever puts a case higher on the board.
RankFollowsNeed ==
  Computed(Cases) =>
    /\ ~Above(figures.impact, figures.triage)
    /\ \A more \in 1..2 * Day : ~Above(assess(facts, facts.onHand + more, None), figures.triage)

\* A schedule line counts as delivered on time exactly when, by its day, the supplier
\* had delivered all that was due up to it, and its delay is the days until then.
OnTimeIsCumulative ==
  Computed(Suppliers) => \A l \in InWindow(facts) :
    LET due == Total({m \in InWindow(facts) : m.at <= l.at}, LAMBDA m : m.qty)
        got(d) == Total({r \in facts.receipts : r.at <= d}, LAMBDA r : r.qty)
    IN  /\ l.at \in figures.onTime <=> got(l.at) >= due
        /\ figures.delay[l.at] = Min({d \in 0..-l.at : d = -l.at \/ got(l.at + d) >= due})

\* The computed figures mean what the board and the supplier pages say they mean.
FiguresAreRight == ShortfallIsDemand /\ RankFollowsNeed /\ OnTimeIsCumulative
=============================================================================
