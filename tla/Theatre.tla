------------------------------- MODULE Theatre -------------------------------
(***************************************************************************)
(* The campaign map as the staff reads it, by arithmetic alone: the lanes  *)
(* and the ground held on each (campaign/service/theatre.go), the snapshot *)
(* it is compared against (campaign/usecase/theatre.go), what moved and    *)
(* the readings (campaign/service/sitrep.go).                              *)
(*                                                                         *)
(* An item is [id, type, status, front, objective, strength, confirmed,    *)
(* kind, overdue, ago], an order [id, target, status, recon, due, ago], a  *)
(* front [id, status].  Ids are numbers and 0 is none.  Times are whole    *)
(* days from now; "ago" counts back to the resolution, and the last 24     *)
(* hours are day 0.  Never is further off than anything read here.         *)
(* A line is a pair of whole numbers, the ground held of all there is.     *)
(***************************************************************************)
EXTENDS Integers, Sequences, SequencesExt, FiniteSetsExt

weightObjective == 2
weightUnknown == 1
weightOrder == 1
StrengthDugIn == 2
StrengthFortress == 3
overextendedOrders == 4
Never == 1000000
NoFront == 0

\* The smallest change in a line worth reporting, as one part in so many.
lineMoved == 200

-----------------------------------------------------------------------------
(* Lanes *)

\* Nothing is on the map without agreement.
OnMap(it) == it.status \notin {"proposed", "dropped"}

ActiveFronts(fronts) == SelectSeq(fronts, LAMBDA f : f.status = "active")

\* What lies under no active front shares a lane.
LaneOf(fronts, it) ==
  IF \E i \in DOMAIN ActiveFronts(fronts) : ActiveFronts(fronts)[i].id = it.front
  THEN it.front ELSE NoFront

OnLane(fronts, items, lane) ==
  SelectSeq(items, LAMBDA it : OnMap(it) /\ LaneOf(fronts, it) = lane)

Lanes(fronts, items) ==
  [i \in DOMAIN ActiveFronts(fronts) |-> ActiveFronts(fronts)[i].id] \o
  (IF OnLane(fronts, items, NoFront) = <<>> THEN <<>> ELSE <<NoFront>>)

\* The opposition and fog before one objective of a lane, or before none there.
children(here, objective) ==
  LET positions == {it.id : it \in {i \in ToSet(here) : i.type = "objective"}} IN
  SelectSeq(here, LAMBDA it :
    /\ it.type # "objective"
    /\ IF objective = 0 THEN it.objective \notin positions ELSE it.objective = objective)

\* A lane's rows: live objectives, those taken, those withdrawn, what is loose.
LaneRows(here) ==
  LET of(Status) == SelectSeq(here, LAMBDA it : it.type = "objective" /\ it.status \in Status)
      objectives == of({"active"}) \o of({"resolved"}) \o of({"withdrawn"})
      loose == children(here, 0)
  IN  [i \in DOMAIN objectives |->
         [objective |-> objectives[i], posts |-> children(here, objectives[i].id)]]
      \o (IF loose = <<>> THEN <<>> ELSE <<[objective |-> [id |-> 0, status |-> "active"], posts |-> loose]>>)

-----------------------------------------------------------------------------
(* Ground held *)

byTarget(orders, id) ==
  SelectSeq(orders, LAMBDA o : o.target = id /\ o.status \notin {"proposed", "dropped"})

\* A strength nobody estimated counts as dug in.
Strength(it) == IF it.strength = 0 THEN StrengthDugIn ELSE it.strength

Weight(it) ==
  CASE it.type = "objective" -> weightObjective
    [] it.type = "obstacle" -> Strength(it)
    [] it.type = "unknown" -> weightUnknown

\* What lies on a row, with the orders aimed at each.
OnRow(row) == IF row.objective.id = 0 THEN row.posts ELSE <<row.objective>> \o row.posts

SumSeq(s) == FoldLeft(LAMBDA a, b : a + b, 0, s)

Ground(it, orders) ==
  LET aimed == byTarget(orders, it.id)
      done == SelectSeq(aimed, LAMBDA o : o.status = "done")
  IN  [held |-> (IF it.status = "resolved" THEN Weight(it) ELSE 0) + weightOrder * Len(done),
       total |-> Weight(it) + weightOrder * Len(aimed)]

\* A withdrawn objective takes its row off the line.
RowGround(row, orders) ==
  LET ground == [i \in DOMAIN OnRow(row) |-> Ground(OnRow(row)[i], orders)] IN
  IF row.objective.status = "withdrawn" THEN [held |-> 0, total |-> 0]
  ELSE [held |-> SumSeq([i \in DOMAIN ground |-> ground[i].held]),
        total |-> SumSeq([i \in DOMAIN ground |-> ground[i].total])]

Line(here, orders) ==
  LET ground == [i \in DOMAIN LaneRows(here) |-> RowGround(LaneRows(here)[i], orders)] IN
  [held |-> SumSeq([i \in DOMAIN ground |-> ground[i].held]),
   total |-> SumSeq([i \in DOMAIN ground |-> ground[i].total])]

\* Cross multiplied; ground of nothing is a line at zero.
Share(l) == IF l.total = 0 THEN [held |-> 0, total |-> 1] ELSE l
Below(a, b) == Share(a).held * Share(b).total < Share(b).held * Share(a).total
Moved(a, b) ==
  LET gained == Share(b).held * Share(a).total - Share(a).held * Share(b).total
      all == Share(a).total * Share(b).total
  IN  lineMoved * gained >= all \/ lineMoved * gained <= 0 - all

-----------------------------------------------------------------------------
(* Snapshots, oldest first, one a day: [day, lines].                       *)

\* The last one before a day, which the readings compare against.
LastBefore(snaps, day) ==
  LET before == SelectSeq(snaps, LAMBDA s : s.day < day) IN
  IF before = <<>> THEN <<>> ELSE <<Last(before)>>

\* The one a page draws the earlier line from: at least a week old, or the
\* earliest there is.
Prior(snaps, day) ==
  LET before == SelectSeq(snaps, LAMBDA s : s.day < day)
      old == SelectSeq(before, LAMBDA s : s.day <= day - 7)
  IN  IF before = <<>> THEN <<>> ELSE IF old = <<>> THEN <<before[1]>> ELSE <<Last(old)>>

-----------------------------------------------------------------------------
(* The reading of one lane and of the map *)

OpenOn(here, orders) ==
  SelectSeq(orders, LAMBDA o : /\ o.status \notin {"proposed", "dropped", "done"}
                               /\ \E i \in DOMAIN here : here[i].id = o.target)

\* "prior" maps the lanes of the last snapshot to their lines.
ReadFront(fronts, items, orders, prior, lane) ==
  LET here == OnLane(fronts, items, lane)
      hasPrior == lane \in DOMAIN prior
      line == Line(here, orders)
      stood == IF hasPrior THEN prior[lane] ELSE [held |-> 0, total |-> 1]
      live(row) == \E i \in DOMAIN OnRow(row) :
                     /\ OnRow(row)[i].status = "active"
                     /\ row.objective.id = 0 \/ i = 1
      open == OpenOn(here, orders)
  IN  [id |-> lane, line |-> line, rows |-> LaneRows(here), hasPrior |-> hasPrior,
       moved |-> hasPrior /\ Moved(line, stood),
       ordersOpen |-> Len(open),
       ordersDue |-> Len(SelectSeq(open, LAMBDA o : o.due <= 0)),
       quiet |-> /\ hasPrior /\ open = <<>> /\ ~ Moved(line, stood)
                 /\ \E i \in DOMAIN LaneRows(here) : live(LaneRows(here)[i])]

Read(fronts, items, orders, prior) ==
  LET lanes == Lanes(fronts, items) IN
  [i \in DOMAIN lanes |-> ReadFront(fronts, items, orders, prior, lanes[i])]

\* What was resolved in the last day.
movement(items, orders) ==
  LET now(s) == SelectSeq(s, LAMBDA x : x.ago = 0)
      of(type) == SelectSeq(now(items), LAMBDA it : it.status = "resolved" /\ it.type = type)
  IN  [taken |-> of("objective"), cleared |-> of("obstacle"), lifted |-> of("unknown"),
       withdrawn |-> SelectSeq(now(items), LAMBDA it : it.status = "withdrawn"),
       ordersDone |-> SelectSeq(now(orders), LAMBDA o : o.status = "done")]

-----------------------------------------------------------------------------
(* Readings, in a fixed order: late, stuck, uncertain, going well.         *)

Says(kind, of) == <<[kind |-> kind, of |-> of]>>
Each(s, says(_)) == FlattenSeq([i \in DOMAIN s |-> says(s[i])])

Late(f) ==
  Each(SelectSeq(f.rows, LAMBDA r : r.objective.id # 0 /\ r.objective.status = "active"),
       LAMBDA r : IF r.objective.overdue THEN Says("overdue", r.objective.id) ELSE <<>>)

\* One reading a front at most.  "supply" maps the fronts supplied to their
\* supply lines; a front its sorties keep up with is not overextended.
Stuck(f, supply) ==
  LET supplied == f.id \in DOMAIN supply IN
  CASE supplied /\ supply[f.id].outrun -> Says("outrun", f.id)
    [] supplied /\ ~ supply[f.id].outrun /\ supply[f.id].cut -> Says("cut", f.id)
    [] OTHER ->
         IF /\ supplied => supply[f.id].sorties = 0
            /\ f.ordersOpen >= overextendedOrders
            /\ ~ f.moved
         THEN Says("overextended", f.id)
         ELSE IF f.quiet THEN Says("quiet", f.id) ELSE <<>>

\* Of one post, by the objective it stands before.
OfPost(p, objective, orders) ==
  LET open == SelectSeq(byTarget(orders, p.id), LAMBDA o : o.status # "done") IN
  CASE p.status # "active" -> <<>>
    [] p.status = "active" /\ p.type = "unknown" ->
         IF \E i \in DOMAIN open : open[i].recon THEN <<>> ELSE Says("unscouted", p.id)
    [] OTHER ->
         (IF Strength(p) = StrengthFortress /\ open = <<>> THEN Says("fortress", p.id) ELSE <<>>)
         \o (IF p.kind = "unwanted" /\ objective # 0 THEN Says("unwanted", p.id) ELSE <<>>)

Posts(f, orders) ==
  Each(f.rows, LAMBDA r :
    LET of(type) == SelectSeq(r.posts, LAMBDA p : p.type = type) IN
    Each(of("obstacle") \o of("unknown"), LAMBDA p : OfPost(p, r.objective.id, orders)))

Estimated(f) ==
  \E i \in DOMAIN f.rows : \E j \in DOMAIN f.rows[i].posts :
    LET p == f.rows[i].posts[j] IN p.type = "obstacle" /\ p.status = "active" /\ ~ p.confirmed

\* The objective closest to taken, the first of equals.
Closest(read, orders) ==
  LET rows == Each(read, LAMBDA f :
                SelectSeq(f.rows, LAMBDA r :
                  /\ r.objective.id # 0 /\ r.objective.status = "active"
                  /\ RowGround(r, orders).held \in 1..(RowGround(r, orders).total - 1)))
      better(best, r) == IF best = <<>> \/ Below(RowGround(best[1], orders), RowGround(r, orders))
                         THEN <<r>> ELSE best
      best == FoldLeft(better, <<>>, rows)
  IN  IF best = <<>> THEN <<>> ELSE Says("advanced", best[1].objective.id)

\* "logistics" says what money, stays and energy add (Supply); supply is empty
\* while nothing supplies anything.
readings(read, orders, supply, logistics) ==
  Each(read, Late)
  \o Each(read, LAMBDA f : Stuck(f, supply))
  \o logistics
  \o Each(read, LAMBDA f : Posts(f, orders))
  \o (IF \E i \in DOMAIN read : Estimated(read[i]) THEN Says("estimated", 0) ELSE <<>>)
  \o Closest(read, orders)
=============================================================================
