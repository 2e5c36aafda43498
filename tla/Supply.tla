-------------------------------- MODULE Supply --------------------------------
(***************************************************************************)
(* What supplies each front (campaign/service/logistics.go): the hours of  *)
(* its sorties against what its open orders need, its funds against what   *)
(* it will cost, the stays deployed on it, and the energy reported.        *)
(*                                                                         *)
(* A sortie is [front, minutes, ago], a cost [front, amount, currency], a  *)
(* stay adds [arrive, depart, outstanding], a report is [ago, level]; ago  *)
(* counts days back and is never negative on a stored row.  Orders, items  *)
(* and fronts are the theatre's.  Rates are fractions in the code: here a  *)
(* front's figures share a denominator, minutes in window times orders.    *)
(***************************************************************************)
EXTENDS Theatre

SortieRecordDays == 28
EnergyRecordDays == 7
supplyWindowDays == 14
supplyMinWindowDays == 7
rateMinOrders == 3
minMinutesPerOrder == 15
maxMinutesPerOrder == 480
dueSoonDays == 7
energyLookback == 3
deploymentLeadDays == 14
EnergyLow == 2

Clamp(v, lo, hi) == IF v < lo THEN lo ELSE IF v > hi THEN hi ELSE v

\* A record younger than two weeks is measured over what there is, a week at least.
WindowDays(first) ==
  IF first = Never THEN supplyWindowDays
  ELSE Clamp(first + 1, supplyMinWindowDays, supplyWindowDays)

Minutes(sorties, front, from, to) ==
  SumSeq([i \in DOMAIN sorties |->
            IF sorties[i].front = front /\ sorties[i].ago \in from..to THEN sorties[i].minutes ELSE 0])

\* An order is on the front its target is filed under.
OrdersOf(items, orders, front) ==
  SelectSeq(orders, LAMBDA o :
    \E i \in DOMAIN items : items[i].id = o.target /\ OnMap(items[i]) /\ items[i].front = front)

\* in: [sorties, first, minutes, stale], the last two the default block and the
\* days an order stays fresh.
FrontSupply(items, orders, in, front) ==
  LET days == WindowDays(in.first)
      window == Minutes(in.sorties, front, 0, days - 1)
      earlier == Minutes(in.sorties, front, days, SortieRecordDays - 1)
      mine == OrdersOf(items, orders, front)
      open == SelectSeq(mine, LAMBDA o : o.status \in {"open", "stale"})
      dueSoon == SelectSeq(open, LAMBDA o : o.due <= dueSoonDays)
      done == Len(SelectSeq(mine, LAMBDA o : o.status = "done" /\ o.ago < SortieRecordDays))
      measured == done >= rateMinOrders /\ window + earlier > 0
      unit == days * (IF measured THEN done ELSE 1)
      perWeek == (window * 7 * unit) \div days
      perOrder == IF measured
                  THEN Clamp((window + earlier) * days,
                             minMinutesPerOrder * unit, maxMinutesPerOrder * unit)
                  ELSE in.minutes * unit
  IN  [front |-> front,
       sorties |-> Cardinality({i \in DOMAIN in.sorties :
                     in.sorties[i].front = front /\ in.sorties[i].ago < days}),
       ordersOpen |-> Len(open),
       measured |-> measured,
       \* More than one order beyond what the supply delivers in time.
       outrun |-> /\ in.first # Never /\ window > 0 /\ open # <<>>
                  /\ \/ Len(dueSoon) * perOrder > perWeek + perOrder
                     \/ 7 * Len(open) * perOrder > perWeek * in.stale + 7 * perOrder,
       cut |-> in.first # Never /\ window = 0 /\ earlier > 0 /\ dueSoon # <<>>]

-----------------------------------------------------------------------------
(* Money: costs are summed in one currency and never converted.            *)

\* A stay that is over costs no more.
Staying(stays, front) ==
  SelectSeq(stays, LAMBDA d : d.front = front /\ (d.depart = Never \/ d.depart >= 0))

Total(costs, currency) ==
  SumSeq([i \in DOMAIN costs |-> IF costs[i].currency = currency THEN costs[i].amount ELSE 0])

\* costs: of the front's live objectives and stays; funds: <<>> or <<[amount, currency]>>.
frontMoney(costs, funds) ==
  LET currencies == {costs[i].currency : i \in DOMAIN costs}
      largest == CHOOSE c \in currencies : \A d \in currencies \ {c} :
                   Total(costs, c) > Total(costs, d) \/ (Total(costs, c) = Total(costs, d) /\ c < d)
      currency == IF funds # <<>> THEN funds[1].currency
                  ELSE IF currencies = {} THEN 0 ELSE largest
  IN  [currency |-> currency, costs |-> Total(costs, currency),
       unconverted |-> {c \in currencies \ {currency} : Total(costs, c) > 0},
       overdrawn |-> funds # <<>> /\ Total(costs, currency) > funds[1].amount]

\* Within the lead time, with something outstanding before it.
landing(d) == d.arrive \in 0..deploymentLeadDays /\ d.outstanding

-----------------------------------------------------------------------------
(* Energy: most of the latest few evenings low, two at least.  A day has    *)
(* one report.                                                             *)

readEnergy(reports) ==
  LET week == {r \in reports : r.ago < EnergyRecordDays}
      last == {r \in week : Cardinality({s \in week : s.ago < r.ago}) < energyLookback}
      low == {r \in last : r.level <= EnergyLow}
  IN  Cardinality(last) >= 2 /\ 2 * Cardinality(low) > Cardinality(last)

\* Logistics that nothing was reported for adds nothing to the readings.
InUse(in, money, stays, reports) ==
  \/ in.first # Never
  \/ \E r \in reports : r.ago < EnergyRecordDays
  \/ stays # <<>>
  \/ \E i \in DOMAIN money : money[i].funded \/ money[i].costs > 0 \/ money[i].unconverted # {}

\* What money, stays and energy add to the readings, in that order.
LogisticsReadings(money, stays, reports) ==
  Each(money, LAMBDA m : IF m.overdrawn THEN Says("overdrawn", m.front) ELSE <<>>)
  \o Each(stays, LAMBDA d : IF landing(d) THEN Says("deployment", d.front) ELSE <<>>)
  \o (IF readEnergy(reports) THEN Says("energy", 0) ELSE <<>>)
===============================================================================
