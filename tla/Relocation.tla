----------------------------- MODULE Relocation -----------------------------
(***************************************************************************)
(* A stay somewhere (relocation): which entries of the catalogue apply to  *)
(* it, how many of each, what they cost, how livable the place is with     *)
(* what is there, and what a rebuild does to lines already ticked.         *)
(*                                                                         *)
(* A plan's lines are a function from their ids; a line is                 *)
(* [catalog, quantity, cost, currency, source, status], catalog FALSE for  *)
(* one added by hand.  Currencies are their places in the alphabet, 0 for  *)
(* none.  Amounts are whole; percentages round half up (a double of the    *)
(* code may fall just below a half).                                       *)
(***************************************************************************)
EXTENDS Integers, Sequences, FiniteSetsExt, Functions, SequencesExt

Unknown == -1
AnchorCurrency == 2
Known(lines) == {i \in DOMAIN lines : lines[i].cost # Unknown}
Trustworthy(source) == source \in {"user", "history"}

-----------------------------------------------------------------------------
(* Rules and quantities.  An unset field of a rule is 0 or {}, of a stay "". *)

Admits(allowed, value) == allowed = {} \/ value = "" \/ value \in allowed

Applies(r, s) ==
  /\ r.minNights > 0 => s.nights >= r.minNights
  /\ r.maxNights > 0 => s.nights <= r.maxNights
  /\ r.minParty > 0 => s.party >= r.minParty
  /\ Admits(r.housing, s.housing) /\ s.housing \notin r.notHousing
  /\ Admits(r.climate, s.climate)
  /\ Admits(r.budget, s.budget)
  /\ r.countries # {} => s.country # "" /\ s.country \in r.countries
  /\ s.country = "" \/ s.country \notin r.notCountries

SelectItems(catalog, s) == SelectSeq(catalog, LAMBDA e : Applies(e.when, s))

severityRank(severity) == CASE severity = "critical" -> 0 [] severity = "costly" -> 1 [] OTHER -> 2

SelectPitfalls(pitfalls, s) ==
  LET out == SelectItems(pitfalls, s)
      Before(i, j) == LET a == severityRank(out[i].severity) b == severityRank(out[j].severity)
                      IN  a < b \/ (a = b /\ i < j)
      order == SetToSortSeq(DOMAIN out, Before)
  IN  [k \in DOMAIN out |-> out[order[k]]]

AtLeastOne(n) == IF n < 1 THEN 1 ELSE n

QuantityFor(q, nights, party) ==
  LET days == AtLeastOne(nights)
      used == IF q.perDays > 0 THEN (days + q.perDays - 1) \div q.perDays ELSE 0
      one == AtLeastOne(q.base + used)
      all == IF q.perPerson THEN one * AtLeastOne(party) ELSE one
  IN  IF q.max > 0 /\ all > q.max THEN q.max ELSE all

\* Dates win over the count of nights that came with them; Unknown is no date.
NightsAsked(plan) ==
  IF plan.arrive # Unknown /\ plan.depart > plan.arrive THEN plan.depart - plan.arrive
  ELSE plan.nights

Nights(plan) == AtLeastOne(NightsAsked(plan))

-----------------------------------------------------------------------------
(* Building and rebuilding a plan's lines.                                 *)

itemFromCatalog(e, s) ==
  [catalog |-> TRUE, quantity |-> QuantityFor(e.quantity, s.nights, s.party), cost |-> e.anchor,
   currency |-> AnchorCurrency, source |-> "catalog", status |-> "needed"]

\* observed: the last price paid in this city, by entry.
Drafted(catalog, s, observed) ==
  LET chosen == ToSet(SelectItems(catalog, s))
      entry(id) == CHOOSE e \in chosen : e.id = id
  IN  [id \in {e.id : e \in chosen} |->
         LET item == itemFromCatalog(entry(id), s) IN
         IF id \in DOMAIN observed
         THEN [item EXCEPT !.cost = observed[id].cost, !.currency = observed[id].currency,
                           !.source = "history"]
         ELSE item]

\* quotes: what the model answered with; none when the call or its answer failed.
Apply(items, quotes, currency) ==
  [id \in DOMAIN items |->
     IF /\ ~ Trustworthy(items[id].source) /\ items[id].cost # 0
        /\ id \in DOMAIN quotes /\ quotes[id] >= 0
     THEN [items[id] EXCEPT !.cost = quotes[id], !.currency = currency, !.source = "model"]
     ELSE items[id]]

\* What came from a person or from history stays, ticks stay, what no longer
\* applies goes, what was added by hand is never swept.
ReplaceItems(lines, items) ==
  LET own == {i \in DOMAIN lines : ~ lines[i].catalog} IN
  [id \in own \cup DOMAIN items |->
     IF id \in own THEN lines[id]
     ELSE IF id \notin DOMAIN lines THEN items[id]
     ELSE IF Trustworthy(lines[id].source)
     THEN [lines[id] EXCEPT !.quantity = items[id].quantity]
     ELSE [items[id] EXCEPT !.status = lines[id].status]]

Build(lines, catalog, s, observed, quotes, currency) ==
  ReplaceItems(lines, Apply(Drafted(catalog, s, observed), quotes, currency))

ReplacePitfalls(acknowledged, pitfalls) ==
  [id \in {p.id : p \in ToSet(pitfalls)} |-> id \in DOMAIN acknowledged /\ acknowledged[id]]

\* A price is the person's own, and remembered for the city, when it differs
\* from the one the line had.
Typed(line, cost) == cost # Unknown /\ cost # line.cost

\* cost Unknown, quantity 0 and status "" leave the field as it is.
UpdateItem(line, cost, quantity, status) ==
  [line EXCEPT !.cost = IF cost = Unknown THEN @ ELSE cost,
               !.source = IF Typed(line, cost) THEN "user" ELSE @,
               !.quantity = IF quantity > 0 THEN quantity ELSE @,
               !.status = IF status = "" THEN @ ELSE status]

Record(observed, id, line, cost) ==
  IF line.catalog /\ Typed(line, cost)
  THEN [o \in DOMAIN observed \cup {id} |->
          IF o = id THEN [cost |-> cost, currency |-> line.currency] ELSE observed[o]]
  ELSE observed

-----------------------------------------------------------------------------
(* What the stay will cost.                                                *)

Resolved == {"have", "skipped", "bought"}
NotSpent == {"have", "skipped"}

SumOf(lines, S) == MapThenSumSet(LAMBDA i : lines[i].cost * lines[i].quantity, S)

\* The currency with the most in it, over every priced line, covered or not.
reportingCurrency(lines, default) ==
  LET priced == {i \in Known(lines) : lines[i].currency # 0}
      used == {lines[i].currency : i \in priced}
      total == [c \in used |-> SumOf(lines, {i \in priced : lines[i].currency = c})]
      best == CHOOSE c \in used :
                \A d \in used \ {c} : total[c] > total[d] \/ (total[c] = total[d] /\ c < d)
  IN  IF used = {} THEN [currency |-> default, others |-> {}]
      ELSE [currency |-> best, others |-> used \ {best}]

ComputeBudget(lines, default) ==
  LET reporting == reportingCurrency(lines, default)
      In(S) == {i \in S \cap Known(lines) : lines[i].currency = reporting.currency}
      all == DOMAIN lines
      covered == {i \in all : lines[i].status \in NotSpent}
      spent == all \ covered
      sure == {i \in In(spent) : Trustworthy(lines[i].source)}
  IN  [currency |-> reporting.currency, mixed |-> reporting.others # {}, others |-> reporting.others,
       confirmed |-> SumOf(lines, sure),
       estimated |-> SumOf(lines, In(spent) \ sure),
       total |-> SumOf(lines, In(spent)),
       covered |-> SumOf(lines, In(covered)),
       unpriced |-> Cardinality(spent \ In(spent)),
       resolved |-> Cardinality({i \in all : lines[i].status \in Resolved}),
       needed |-> Cardinality({i \in all : lines[i].status \notin Resolved})]

\* The live stays on a front, with what the campaign is told of each.
Deployments(plans, default) ==
  {[front |-> p.front, budget |-> ComputeBudget(p.lines, default),
    criticalOpen |-> Cardinality({f \in p.critical : ~ p.acknowledged[f]})] :
      p \in {q \in plans : q.front # "" /\ q.status \in {"draft", "active"}}}
=============================================================================
