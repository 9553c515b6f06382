----------------------------- MODULE Projection -----------------------------
(***************************************************************************)
(* The time-phased stock projection of one plant (optimizer/projection.py, *)
(* its inputs from optimizer/inputs.py): stock falls at the consumption    *)
(* rate from one movement to the next, the line stops at zero and starts   *)
(* again with a receipt. Hours are counted from now; stock is counted in   *)
(* hours of consumption, so the rate is 1, or 0 where nothing is consumed. *)
(***************************************************************************)
EXTENDS Naturals, Integers, Sequences, SequencesExt, FiniteSetsExt

CONSTANT Horizon   \* hours projected

Hours == 0..Horizon

Positive(n) == IF n > 0 THEN n ELSE 0

\* A movement of the list: a receipt (qty > 0) or an issue (qty < 0).
Move(at, qty) == [at |-> at, qty |-> qty]

\* Those within the horizon by time; overdue ones count now, equal times keep
\* their order.
Events(moves) ==
  LET at(i) == Positive(moves[i].at)
      due == {i \in DOMAIN moves : moves[i].at <= Horizon}
      before(i) == {j \in due : at(j) < at(i) \/ (at(j) = at(i) /\ j < i)}
      order == [k \in 1..Cardinality(due) |-> CHOOSE i \in due : Cardinality(before(i)) = k - 1]
  IN  [k \in DOMAIN order |-> Move(at(order[k]), moves[order[k]].qty)]

\* t, stock: where the projection has got to; since: the hour the line stopped,
\* -1 while it runs; breaks: <<hour, stock right after it>>; stops: <<from, to>>.
Running(stock, rate) ==
  LET dry == stock = 0 /\ rate > 0 IN
  [t |-> 0, stock |-> stock, since |-> IF dry THEN 0 ELSE -1,
   outs |-> IF dry THEN <<0>> ELSE <<>>, stops |-> <<>>, breaks |-> << <<0, stock>> >>]

\* Mutant: stock that runs out exactly at the next movement has not run out.
MUntil(s, rate, until) ==
  IF s.stock = 0 \/ rate = 0 THEN [s EXCEPT !.t = until]
  ELSE IF s.t + s.stock < until
    THEN [s EXCEPT !.t = until, !.stock = 0, !.since = s.t + s.stock,
            !.outs = Append(@, s.t + s.stock), !.breaks = Append(@, <<s.t + s.stock, 0>>)]
    ELSE [s EXCEPT !.t = until, !.stock = @ - (until - s.t)]

\* Consumption from s.t to until.
Until(s, rate, until) ==
  LET zero == s.t + s.stock IN
  IF s.stock = 0 \/ rate = 0 THEN [s EXCEPT !.t = until]
  ELSE IF zero <= until
    THEN [s EXCEPT !.t = until, !.stock = 0, !.since = zero,
                   !.outs = Append(@, zero), !.breaks = Append(@, <<zero, 0>>)]
    ELSE [s EXCEPT !.t = until, !.stock = @ - (until - s.t)]

\* The movement itself: it may empty the plant or end a stop.
Applied(s, rate, qty) ==
  LET left == IF s.stock + qty > 0 THEN s.stock + qty ELSE 0
      stops == left = 0 /\ s.since = -1 /\ rate > 0
      starts == left > 0 /\ s.since # -1
  IN  [s EXCEPT !.stock = left,
                !.since = IF stops THEN s.t ELSE IF starts THEN -1 ELSE @,
                !.outs = IF stops THEN Append(@, s.t) ELSE @,
                !.stops = IF starts THEN Append(@, <<s.since, s.t>>) ELSE @,
                !.breaks = Append(@, <<s.t, left>>)]

\* project: the last stop has no end within the horizon.
Project(onHand, rate, moves) ==
  LET stock == IF onHand > 0 THEN onHand ELSE 0
      last == FoldLeft(LAMBDA s, m : Applied(Until(s, rate, m.at), rate, m.qty),
                       Running(stock, rate), Events(moves))
      s == Until(last, rate, Horizon)
  IN  IF s.since = -1 THEN s ELSE [s EXCEPT !.stops = Append(@, <<s.since, Horizon + 1>>)]

\* Projection.points: the stock at an hour, from the last break before it.
ValueAt(p, rate, h) ==
  LET i == Max({j \in DOMAIN p.breaks : p.breaks[j][1] <= h})
      left == p.breaks[i][2] - rate * (h - p.breaks[i][1])
  IN  IF left > 0 THEN left ELSE 0

Never == Horizon + 1

\* first_stockout; Never where the stock lasts through the horizon.
FirstStockout(p) == IF p.outs = <<>> THEN Never ELSE p.outs[1]

-----------------------------------------------------------------------------
(* What a projection promises: the same stock, hour by hour *)

Received(moves, h) ==
  LET at == {i \in DOMAIN moves : moves[i].at = h \/ (h = 0 /\ moves[i].at < 0)}
  IN  MapThenSumSet(LAMBDA i : moves[i].qty, at)

\* Stock at each hour before and after that hour's movements.
Hourly(onHand, rate, moves) ==
  LET f[h \in Hours] ==
        LET before == IF h = 0 THEN Positive(onHand) ELSE Positive(f[h - 1].after - rate)
        IN  [before |-> before, after |-> Positive(before + Received(moves, h))]
  IN  f

\* The projection and the hour-by-hour account agree on the stock, on the first
\* hour it is gone, and on the hours the line stands still.
AgreesHourly(onHand, rate, moves) ==
  LET p == Project(onHand, rate, moves)
      f == Hourly(onHand, rate, moves)
      gone == {h \in Hours : rate > 0 /\ (f[h].before = 0 \/ f[h].after = 0)}
      stands == {h \in Hours : rate > 0 /\ f[h].after = 0}
  IN  /\ \A h \in Hours : ValueAt(p, rate, h) = f[h].after
      /\ FirstStockout(p) = IF gone = {} THEN Never ELSE Min(gone)
      /\ stands = {h \in Hours : \E i \in DOMAIN p.stops :
                                   p.stops[i][1] <= h /\ h < p.stops[i][2]}
=============================================================================
