---------------------------- MODULE StayReadings ----------------------------
(***************************************************************************)
(* What the planner of stays computes, over small catalogues and lists:    *)
(* laws it keeps, and cases its comments do not tell of.                   *)
(***************************************************************************)
EXTENDS Naturals
LOCAL INSTANCE Comfort

\* Two kinds of housing, two countries; at most one field of a rule set but one.
LOCAL Stays == [nights : {1, 5}, party : {1, 2}, housing : {"", "hotel", "shared"}, climate : {"", "cold"},
                budget : {"", "frugal"}, country : {"", "GE"}]
LOCAL Anything == [minNights |-> 0, maxNights |-> 0, minParty |-> 0, housing |-> {}, notHousing |-> {},
                   climate |-> {}, budget |-> {}, countries |-> {}, notCountries |-> {}]
LOCAL Rules ==
  {[Anything EXCEPT !.minNights = n, !.housing = h, !.notHousing = x, !.climate = c,
                    !.countries = k, !.notCountries = l] :
     n \in {0, 3}, h \in {{}, {"hotel"}}, x \in {{}, {"shared"}}, c \in {{}, {"arid"}},
     k \in {{}, {"GE"}}, l \in {{}, {"GE"}}}

\* Not knowing the housing, the climate or the budget never takes anything off
\* the list that knowing it would have put there (Applies in service/rules.go).
ASSUME UnknownDropsNothing ==
  \A r \in Rules, s \in Stays :
    Applies(r, s) => Applies(r, [s EXCEPT !.housing = "", !.climate = "", !.budget = ""])

\* A longer stay or a larger party never needs less of anything, and nothing
\* on the list is needed zero times (QuantityRule.For in domain/catalog.go).
ASSUME MoreNeverNeedsLess ==
  \A q \in [base : 0..2, perDays : {0, 1, 3}, perPerson : BOOLEAN, max : {0, 4}], n, p \in 0..4 :
    LET now == QuantityFor(q, n, p) IN
    now >= 1 /\ QuantityFor(q, n + 1, p) >= now /\ QuantityFor(q, n, p + 1) >= now

\* A catalogue of three: always, from three nights, and a check that costs nothing.
LOCAL Entry(id, from, anchor) ==
  [id |-> id, when |-> [Anything EXCEPT !.minNights = from], anchor |-> anchor,
   quantity |-> [base |-> 1, perDays |-> 3, perPerson |-> FALSE, max |-> 0]]
LOCAL Catalog == <<Entry(1, 0, 4), Entry(2, 3, 6), Entry(3, 0, 0)>>
LOCAL Stay(nights) ==
  [nights |-> nights, party |-> 1, housing |-> "", climate |-> "", budget |-> "", country |-> ""]
LOCAL None == << >>
LOCAL Local == 1                          \* the plan's own currency
LOCAL Paid == {None} \cup {[o \in {i} |-> [cost |-> 9, currency |-> Local]] : i \in 1..2}
LOCAL Quotes == {None} \cup [{1, 2, 3} -> {-1, 7}] \cup [{2} -> {5}]
LOCAL Status == {"needed", "have", "bought", "skipped"}

\* Lists as a build, a reprice, an edit of one line and an own line leave them.
LOCAL Own == [catalog |-> FALSE, quantity |-> 1, cost |-> 3, currency |-> Local, source |-> "user",
              status |-> "needed"]
LOCAL Lists ==
  {LET built == Build(None, Catalog, Stay(n), paid, quotes, Local) IN
   [i \in DOMAIN built \cup {4} |->
      IF i = 4 THEN Own
      ELSE IF i = edited THEN UpdateItem(built[i], cost, 0, status) ELSE built[i]] :
     n \in {1, 5}, paid \in Paid, quotes \in Quotes, edited \in 1..2, cost \in {Unknown, 4, 8},
     status \in Status}

\* After a rebuild the list is what applies to the stay and the lines added by
\* hand; every line still on it keeps its tick, every price typed or paid before
\* its figure; and building again changes nothing (Build, ReplaceItems).
ASSUME RebuildKeepsYours ==
  \A lines \in Lists, n \in {1, 5}, paid \in Paid, quotes \in Quotes :
    LET now == Build(lines, Catalog, Stay(n), paid, quotes, Local) IN
    /\ DOMAIN now = {4} \cup {e.id : e \in ToSet(SelectItems(Catalog, Stay(n)))}
    /\ now[4] = lines[4]
    /\ \A i \in DOMAIN now \cap DOMAIN lines :
         /\ now[i].status = lines[i].status
         /\ Trustworthy(lines[i].source) => now[i].cost = lines[i].cost /\ now[i].source = lines[i].source
    /\ Build(now, Catalog, Stay(n), paid, quotes, Local) = now

\* A line that a change of dates takes off the list and another brings back has
\* its price again, out of what was paid, but not its tick: the handler's
\* "Statuses and confirmed prices survive it" is true of lines that stay.
ASSUME TickIsLostOnTheWay ==
  LET long == Build(None, Catalog, Stay(5), None, None, Local)
      bought == [long EXCEPT ![2] = UpdateItem(@, 8, 0, "bought")]
      paid == Record(None, 2, long[2], 8)
      back == Build(Build(bought, Catalog, Stay(1), paid, None, Local), Catalog, Stay(5), paid, None, Local)
  IN  back[2].cost = 8 /\ back[2].source = "history" /\ back[2].status = "needed"

\* Typing the very figure the model estimated does not make it the person's own:
\* the next repricing replaces it (updateItem; domain/plan.go:119 calls "user" a
\* number "you entered or confirmed").
ASSUME ConfirmingIsNotTyping ==
  LET priced == Build(None, Catalog, Stay(1), None, [i \in {1} |-> 7], Local)
      confirmed == [priced EXCEPT ![1] = UpdateItem(@, 7, 0, "")]
      again == Build(confirmed, Catalog, Stay(1), Record(None, 1, priced[1], 7), [i \in {1} |-> 5], Local)
  IN  again[1].cost = 5 /\ again[1].source = "model"

\* A price paid in one city stays on the line when the plan moves to another,
\* whatever was paid there (ReplaceItems; domain/plan.go:117 says "in this
\* destination").
ASSUME PriceOfTheOldCity ==
  LET here == [i \in {1} |-> [cost |-> 9, currency |-> Local]]
      there == [i \in {1} |-> [cost |-> 2, currency |-> Local]]
      lines == Build(None, Catalog, Stay(1), here, None, Local)
  IN  Build(lines, Catalog, Stay(1), there, None, Local)[1].cost = 9

\* Having or skipping what is on the list never makes the stay dearer nor less
\* priced, and never changes the currency it is told in (ComputeBudget).
ASSUME CarryingNeverCosts ==
  \A lines \in Lists, status \in {"have", "skipped"} : \A i \in DOMAIN lines :
    LET before == ComputeBudget(lines, Local)
        after == ComputeBudget([lines EXCEPT ![i].status = status], Local)
    IN  /\ after.total <= before.total /\ after.unpriced <= before.unpriced
        /\ after.currency = before.currency
        /\ before.total = before.confirmed + before.estimated
        /\ before.total + before.covered = after.total + after.covered

\* A check that costs nothing stays in dollars through a repricing: the plan
\* goes on being mixed, and the check is counted as unpriced (price.go:62 skips
\* it; budget.go:31 has mixing end with the repricing).
ASSUME ZeroStaysForeign ==
  LET priced == Build(None, Catalog, Stay(5), None, [i \in 1..3 |-> 7], Local)
      budget == ComputeBudget(priced, Local)
  IN  budget.currency = Local /\ budget.mixed /\ budget.unpriced = 1 /\ Known(priced) = 1..3

\* The currency with the most in it may be one with nothing left to buy: then
\* the total is nothing although every line has a price.
ASSUME TotalOfNothing ==
  LET lines == [Build(None, Catalog, Stay(5), None, [i \in {1} |-> 3], Local) EXCEPT ![2].status = "have"]
      budget == ComputeBudget(lines, Local)
  IN  budget.currency = AnchorCurrency /\ budget.total = 0 /\ lines[1].status = "needed" /\ lines[1].cost > 0

LOCAL Trap(id, from, severity) ==
  [id |-> id, when |-> [Anything EXCEPT !.minNights = from], severity |-> severity]
LOCAL Traps == <<Trap(1, 0, "annoying"), Trap(2, 3, "critical"), Trap(3, 0, "costly")>>

\* The worst warnings come first, a warning dealt with is not raised again by
\* a rebuild that keeps it, and one that came back after other dates is
\* (SelectPitfalls, ReplacePitfalls).
ASSUME WarningsStayHandled ==
  LET Shown(n) == SelectPitfalls(Traps, Stay(n)) IN
  /\ [k \in 1..3 |-> Shown(5)[k].id] = <<2, 3, 1>>
  /\ \A handled \in [1..3 -> BOOLEAN] :
       LET short == ReplacePitfalls(handled, Shown(1)) IN
       /\ ReplacePitfalls(handled, Shown(5)) = handled
       /\ ReplacePitfalls(short, Shown(5)) = [handled EXCEPT ![2] = FALSE]

\* The dates decide the nights when both are known and in order; a stay is at
\* least one night (applyPlanRequest, StayFor).
ASSUME DatesDecide ==
  \A a, d \in {Unknown, 0, 3}, n \in 0..2 :
    LET out == Nights([arrive |-> a, depart |-> d, nights |-> n]) IN
    out >= 1 /\ (a = 0 /\ d = 3 => out = 3)

\* The campaign hears of live stays on a front only, at the cost and with the
\* count of lines to buy that the planner shows (Deployments).
ASSUME OnlyLiveStaysAreBases ==
  \A lines \in Lists :
    LET Of(front, status) == [front |-> front, status |-> status, lines |-> lines, critical |-> {2},
                              acknowledged |-> [f \in {2} |-> FALSE]]
    IN  Deployments({Of("", "active"), Of("north", "done"), Of("north", "draft")}, Local)
          = {[front |-> "north", budget |-> ComputeBudget(lines, Local), criticalOpen |-> 1]}

-----------------------------------------------------------------------------
LOCAL Weights == {"critical", "important", "nice"}
LOCAL Kits ==
  {[i \in 1..4 |-> [dim |-> IF i <= cut THEN "sleep" ELSE "food", weight |-> w[i],
                    covered |-> i \in have, arrival |-> i = 1]] :
     cut \in 2..4, w \in [1..4 -> Weights], have \in SUBSET (1..4)}

\* Getting a missing item never makes the place less livable (Comfort).
ASSUME CoveringNeverHurts ==
  \A all \in Kits : \A i \in 1..4 : Score(Cover(all, i)) >= Score(all)

\* The radar names missing items, none twice, each raising the score, and none
\* alone would have raised it more than the first (radar).
ASSUME RadarRises ==
  \A all \in Kits :
    LET steps == Radar(all) IN
    /\ \A k \in DOMAIN steps :
         /\ ~ all[steps[k].item].covered
         /\ steps[k].after > (IF k = 1 THEN Score(all) ELSE steps[k - 1].after)
         /\ \A j \in 1..k - 1 : steps[j].item # steps[k].item
    /\ \A i \in 1..4 : Score(Cover(all, i)) <= (IF steps = << >> THEN Score(all) ELSE steps[1].after)

\* One critical item missing keeps its dimension miserable and the stay rough at
\* best, whatever else is there; and the first night when it is needed then.
ASSUME WeakestLink ==
  \A all \in Kits : \A i \in 1..4 :
    ~ all[i].covered /\ all[i].weight = "critical" =>
      /\ scoreDimension(all, all[i].dim) <= capOneCritical
      /\ ComfortLabel(Score(all)) \in {"rough", "miserable"}
      /\ all[i].arrival => ComfortLabel(Arrival(all)) = "miserable"

\* With several critical items missing where others are covered no one item
\* raises the score: the radar says nothing when it matters most, although
\* getting two of them would help (comfort.go:68 calls it "the shortest path up").
ASSUME RadarIsMute ==
  LET all == [i \in 1..4 |-> [dim |-> "sleep", weight |-> "critical", covered |-> i = 1, arrival |-> FALSE]]
  IN  Radar(all) = << >> /\ Score(Cover(Cover(all, 2), 3)) > Score(all)

\* Skipping the last item of a good dimension takes the dimension out of the
\* mean and can lower the score.
ASSUME SkippingCanLower ==
  LET all == [i \in 1..2 |-> [dim |-> IF i = 1 THEN "sleep" ELSE "food",
                              weight |-> IF i = 1 THEN "critical" ELSE "nice", covered |-> FALSE, arrival |-> FALSE]]
  IN  Score([i \in {1} |-> all[i]]) < Score(all)
=============================================================================
