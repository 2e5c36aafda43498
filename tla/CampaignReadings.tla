---------------------------- MODULE CampaignReadings ----------------------------
(***************************************************************************)
(* What holds of every reading of the campaign map and of what supplies it *)
(* (Theatre, Supply), evaluated over small maps: two fronts, one of them   *)
(* perhaps withdrawn, two positions, one post and up to two orders.        *)
(***************************************************************************)
EXTENDS Supply

MapFronts == {<<[id |-> 1, status |-> "active"], [id |-> 2, status |-> s]>> : s \in {"active", "withdrawn"}}

Position(id, status, front) ==
  [id |-> id, type |-> "objective", status |-> status, front |-> front, objective |-> 0,
   strength |-> 0, confirmed |-> TRUE, kind |-> "", overdue |-> FALSE, ago |-> 9]
Post(type, status, front, objective) ==
  [id |-> 3, type |-> type, status |-> status, front |-> front, objective |-> objective,
   strength |-> 0, confirmed |-> FALSE, kind |-> "unwanted", overdue |-> FALSE, ago |-> 9]
MapItems ==
  {<<Position(1, s1, 1), Position(2, s2, 2), Post(t, s3, f3, o)>> :
      s1 \in {"active", "withdrawn"}, s2 \in {"proposed", "active"},
      t \in {"obstacle", "unknown"}, s3 \in {"active", "resolved", "dropped"},
      f3 \in 0..2, o \in 0..1}
MapOrders ==
  {<<[id |-> 1, target |-> t, status |-> s, recon |-> t = 3, due |-> 0, ago |-> 0],
     [id |-> 2, target |-> 3, status |-> "open", recon |-> FALSE, due |-> 9, ago |-> 9]>> :
      t \in 1..3, s \in {"proposed", "open", "stale", "done"}}

\* The lines a map shows, by lane.
Lines(fronts, items, orders) ==
  LET read == Read(fronts, items, orders, <<>>)
  IN  [l \in {read[i].id : i \in DOMAIN read} |->
         read[CHOOSE i \in DOMAIN read : read[i].id = l].line]

\* What was agreed to lies on the map once, in one row of one lane, wherever
\* its objective was moved, and what was not lies nowhere (Layout, children).
ASSUME EachOnTheMapOnce ==
  \A fronts \in MapFronts, items \in MapItems :
      LET lanes == Lanes(fronts, items)
          rows == FlattenSeq([i \in DOMAIN lanes |-> LaneRows(OnLane(fronts, items, lanes[i]))])
          shown == FlattenSeq([i \in DOMAIN rows |-> OnRow(rows[i])])
      IN  \A i \in DOMAIN items :
            Len(SelectSeq(shown, LAMBDA x : x.id = items[i].id)) = IF OnMap(items[i]) THEN 1 ELSE 0

\* Ground is gained by what gets done: taking a position, clearing what stands
\* before it or carrying out an order never moves any line back (buildRow).
ASSUME DoneNeverLosesGround ==
  \A fronts \in MapFronts, items \in MapItems, orders \in MapOrders :
      LET before == Lines(fronts, items, orders)
          resolved == {[items EXCEPT ![i].status = "resolved"] :
                          i \in {j \in DOMAIN items : items[j].status = "active"}}
          done == [i \in DOMAIN orders |->
                     IF orders[i].status \in {"open", "stale"}
                     THEN [orders[i] EXCEPT !.status = "done"] ELSE orders[i]]
      IN  \A its \in resolved \cup {items}, os \in {orders, done} :
            LET after == Lines(fronts, its, os)
            IN  \A l \in DOMAIN before : ~Below(after[l], before[l])

\* The staff counts the same open orders on a front twice, once from the rows
\* of its lane and once from the targets filed under it: "the same rule the
\* theatre lays lanes out by" (logistics.go:119, ordersOf in sitrep.go).
ASSUME OneCountOfOrders ==
  \A fronts \in MapFronts, items \in MapItems, orders \in MapOrders :
      LET read == Read(fronts, items, orders, <<>>)
          in == [sorties |-> <<>>, first |-> Never, minutes |-> 25, stale |-> 14]
      IN  \A i \in DOMAIN read :
            read[i].id # NoFront =>
              FrontSupply(items, orders, in, read[i].id).ordersOpen = read[i].ordersOpen

\* Fog nobody was sent to scout is named, and named once, whatever lane and row
\* it lies on; no other fog is (eachPost in readings).
ASSUME FogNamedOnce ==
  \A fronts \in MapFronts, items \in MapItems, orders \in MapOrders :
      LET said == readings(Read(fronts, items, orders, <<>>), orders, <<>>, <<>>)
          scouted == orders[1].recon /\ orders[1].status \in {"open", "stale"}
          fog == items[3].type = "unknown" /\ items[3].status = "active" /\ ~scouted
      IN  Len(SelectSeq(said, LAMBDA r : r = Says("unscouted", 3)[1])) = IF fog THEN 1 ELSE 0

\* The earlier line is never the day's own, and a week old where one is kept.
ASSUME ComparedWithThePast ==
  \A days \in SUBSET {0, 1, 6, 7, 8, 12}, day \in 0..15 :
      LET snaps == [i \in 1..Cardinality(days) |-> [day |-> SetToSortSeq(days, <)[i]]]
          prior == Prior(snaps, day)
          last == LastBefore(snaps, day)
      IN  /\ prior = <<>> <=> \A d \in days : d >= day
          /\ last = <<>> <=> prior = <<>>
          /\ prior # <<>> => /\ prior[1].day <= last[1].day /\ last[1].day < day
                             /\ prior[1].day > day - 7 => \A d \in days : d > day - 7

-----------------------------------------------------------------------------
(* Supply over one front with up to five orders due, sorties now and before. *)

Supplied(window, earlier, open, done, first) ==
  LET sorties == <<[front |-> 1, minutes |-> window, ago |-> 0], [front |-> 1, minutes |-> earlier, ago |-> 20]>>
      orders == [i \in 1..(open + done) |->
                   [id |-> i, target |-> 1, status |-> IF i <= open THEN "open" ELSE "done",
                    recon |-> FALSE, due |-> 3, ago |-> 5]]
  IN  FrontSupply(<<Position(1, "active", 1)>>, orders,
          [sorties |-> SelectSeq(sorties, LAMBDA s : s.minutes > 0), first |-> first,
           minutes |-> 25, stale |-> 14], 1)

\* A front is not out of supply for never having flown, and is not outrun and
\* cut at once (Supply).
ASSUME NotJudgedWithoutRecord ==
  \A window, earlier \in {0, 25, 200}, open \in 0..5, done \in 0..4, first \in {2, 25, Never} :
      LET s == Supplied(window, earlier, open, done, first)
      IN  /\ first = Never => ~s.outrun /\ ~s.cut
          /\ ~(s.outrun /\ s.cut)
          /\ window = 0 /\ earlier = 0 => ~s.outrun /\ ~s.cut

\* For a front that has flown this fortnight another sortie never makes it
\* outrun, though once the rate is measured the hours flown are the price of
\* an order too.
ASSUME SortiesHelp ==
  \A window \in {15, 50, 200}, more \in {10, 200}, earlier \in {0, 200}, open \in 1..5, done \in 0..4 :
      Supplied(window + more, earlier, open, done, 25).outrun =>
          Supplied(window, earlier, open, done, 25).outrun

\* Carrying out an order is no such help: with the third one the rate is
\* measured, and a front that kept up by the estimate can read as outrun.
ASSUME ThirdOrderCanOutrun ==
  \E window \in {100, 200}, open \in 2..5 :
      /\ ~Supplied(window, 480, open, 2, 25).outrun
      /\ Supplied(window, 480, open - 1, 3, 25).outrun
=================================================================================
