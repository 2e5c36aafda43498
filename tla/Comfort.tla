------------------------------- MODULE Comfort -------------------------------
(***************************************************************************)
(* How livable a stay is with what is there (relocation/service/comfort.go *)
(* and relocation/domain/comfort.go).  A line that counts is               *)
(* [dim, weight, arrival, covered]; Scored makes them from a plan.         *)
(***************************************************************************)
EXTENDS Relocation

capOneCritical == 35
capManyCritical == 15
importantPenalty == 8
floorWithoutCritical == 50
floorOnlyNice == 80
radarSize == 3

Points(weight) ==
  CASE weight = "critical" -> 5 [] weight = "important" -> 3 [] weight = "nice" -> 1 [] OTHER -> 0

\* rules: what the catalogue says of an entry's comfort, by id.
Scored(lines, rules) ==
  [id \in {i \in DOMAIN lines \cap DOMAIN rules : lines[i].catalog /\ lines[i].status # "skipped"} |->
     [dim |-> rules[id].dim, weight |-> rules[id].weight, arrival |-> rules[id].arrival,
      covered |-> lines[id].status \in {"have", "bought"}]]

Atleast(n, floor) == IF n < floor THEN floor ELSE n
Atmost(n, cap) == IF n > cap THEN cap ELSE n
Rounded(n, d) == (2 * n + d) \div (2 * d)

scoreDimension(all, dim) ==
  LET entries == {i \in DOMAIN all : all[i].dim = dim}
      missing == {i \in entries : ~ all[i].covered}
      Count(weight) == Cardinality({i \in missing : all[i].weight = weight})
      Sum(S) == MapThenSumSet(LAMBDA i : Points(all[i].weight), S)
      share == IF Sum(entries) = 0 THEN 100
               ELSE Rounded(100 * Sum(entries \ missing), Sum(entries))
      value == share - importantPenalty * Count("important")
      held == IF missing = {} THEN value
              ELSE IF Count("critical") >= 2 THEN Atmost(value, capManyCritical)
              ELSE IF Count("critical") = 1 THEN Atmost(value, capOneCritical)
              ELSE IF Count("important") = 0 THEN Atleast(value, floorOnlyNice)
              ELSE Atleast(value, floorWithoutCritical)
  IN  Atleast(Atmost(held, 100), 0)

Dimensions(all) == {all[i].dim : i \in DOMAIN all}

\* Three quarters the worst dimension, one quarter their mean; Unknown when
\* nothing counts.
Score(all) ==
  LET dims == Dimensions(all)
      n == Cardinality(dims)
      scores == {scoreDimension(all, d) : d \in dims}
  IN  IF dims = {} THEN Unknown
      ELSE Rounded(3 * Min(scores) * n + MapThenSumSet(LAMBDA d : scoreDimension(all, d), dims), 4 * n)

Arrival(all) == Score(RestrictDomain(all, LAMBDA i : all[i].arrival))

ComfortLabel(score) ==
  CASE score >= 85       -> "comfortable"
    [] score \in 65 .. 84 -> "livable"
    [] score \in 40 .. 64 -> "rough"
    [] OTHER             -> "miserable"

Cover(all, i) == [all EXCEPT ![i].covered = TRUE]

\* The one item that raises the score most: the heavier of two that raise it
\* alike, then the earlier in the catalogue.
Best(all) ==
  LET after == [i \in {j \in DOMAIN all : ~ all[j].covered} |-> Score(Cover(all, i))]
      up == {i \in DOMAIN after : after[i] > Score(all)}
      Beats(i, j) == \/ after[i] > after[j]
                     \/ /\ after[i] = after[j]
                        /\ \/ Points(all[i].weight) > Points(all[j].weight)
                           \/ Points(all[i].weight) = Points(all[j].weight) /\ i < j
  IN  {i \in up : \A j \in up \ {i} : Beats(i, j)}

Radar(all) ==
  LET state[k \in 0..radarSize] ==
        IF k = 0 THEN [all |-> all, steps |-> << >>]
        ELSE LET so == state[k - 1] IN
             IF Best(so.all) = {} \/ Len(so.steps) < k - 1 THEN so
             ELSE LET i == CHOOSE b \in Best(so.all) : TRUE
                      now == Cover(so.all, i)
                  IN  [all |-> now, steps |-> Append(so.steps, [item |-> i, after |-> Score(now)])]
  IN  state[radarSize].steps
=============================================================================
