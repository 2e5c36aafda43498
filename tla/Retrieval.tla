------------------------------ MODULE Retrieval ------------------------------
(***************************************************************************)
(* What a question reads: the fusion of the search arms                    *)
(* (memory/usecase/retrieve.go, memory/service/rrf.go), the score of each  *)
(* candidate and the selection of the few that reach the prompt            *)
(* (rerank.go), and what the deep tier takes from the model: extra         *)
(* searches (decompose.go) and an order (llm_rerank.go).                   *)
(*                                                                         *)
(* Memories are numbers.  Scores are integers in a fixed scale where the   *)
(* code has floating-point numbers; a score keeps its order, and the ratio *)
(* of relevance, recency and kind.  Recency is an age in half-lives.       *)
(***************************************************************************)
EXTENDS Integers, Sequences, SequencesExt, FiniteSetsExt

defaultRRFK == 60
MaxSubQueries == 3

\* Reciprocals of 60 plus a rank are whole numbers in this scale, for ranks up to three.
Scale == 61 * 62 * 63

\* The lists of one question: of each query the vector arm's rows, and the
\* text arm's unless the query had no content words.  Empty arms drop out.
RankedLists(results) ==
  SelectSeq(FlattenSeq([i \in DOMAIN results |-> <<results[i].vector, results[i].text>>]),
            LAMBDA list : list # <<>>)

Found(lists) == UNION {ToSet(lists[i]) : i \in DOMAIN lists}

\* A row found by several lists, or high up in one, rises.
ReciprocalRankFusion(lists) ==
  [id \in Found(lists) |->
     MapThenSumSet(LAMBDA at : Scale \div (defaultRRFK + at[2]),
                   {at \in UNION {{i} \X DOMAIN lists[i] : i \in DOMAIN lists} :
                      lists[at[1]][at[2]] = id})]

SortByScore(scores) ==
  SetToSortSeq(DOMAIN scores,
               LAMBDA a, b : scores[a] > scores[b] \/ (scores[a] = scores[b] /\ a < b))

-----------------------------------------------------------------------------
(* Scoring: 75 parts relevance, 15 recency, 10 kind, in thousandths *)

normalize(rrf, top) == IF top <= 0 THEN 0 ELSE (1000 * rrf) \div top

\* One half-life halves it.  A date in the future counts as today.
recencyScore(age) == 1000 \div 2^(IF age < 0 THEN 0 ELSE age)

\* A boost for the kinds the mode asks for, never a filter.
kindScore(kind, bias) == IF kind \in bias.kinds THEN bias.boost ELSE 0

\* c is a candidate: [id, rrf, age, kind].
FinalScore(c, top, bias) ==
  75 * normalize(c.rrf, top) + 15 * recencyScore(c.age) + 10 * kindScore(c.kind, bias)

ScoreCandidates(cands, bias) ==
  LET top == Max({0} \cup {c.rrf : c \in ToSet(cands)})
      final(c) == FinalScore(c, top, bias)
      scored == [i \in DOMAIN cands |->
                   [id |-> cands[i].id, score |-> final(cands[i])]]
  IN  SetToSortSeq(ToSet(scored),
                   LAMBDA a, b : a.score > b.score \/ (a.score = b.score /\ a.id < b.id))

-----------------------------------------------------------------------------
(* Selection: seven parts score against three parts likeness to what is    *)
(* already picked, the likeness in the scale of the score                  *)

Likeness(c, picked, sim) == Max({0} \cup {sim[c.id, p.id] : p \in ToSet(picked)})

Worth(c, picked, sim) == 7 * c.score - 3 * Likeness(c, picked, sim)

\* The first of the best.
BestAt(cands, picked, sim) ==
  CHOOSE i \in DOMAIN cands :
    \A j \in DOMAIN cands :
      LET wi == Worth(cands[i], picked, sim)
          wj == Worth(cands[j], picked, sim)
      IN  wi > wj \/ (wi = wj /\ i <= j)

mmrSelect(cands, topK, sim) ==
  LET pick(acc, k) ==
        LET i == BestAt(acc.left, acc.picked, sim) IN
        [picked |-> Append(acc.picked, acc.left[i]), left |-> RemoveAt(acc.left, i)]
  IN  IF Len(cands) <= topK
      THEN cands
      ELSE FoldLeft(pick, [picked |-> <<>>, left |-> cands], [k \in 1..topK |-> k]).picked

-----------------------------------------------------------------------------
(* What the model is asked for at depth.  Its answers are never trusted to *)
(* be well formed, and never fail a question.                              *)

\* A line is a query or "", a line that cleaning throws away.
ParseSubQueries(lines, original) ==
  FoldLeft(LAMBDA out, q :
             IF q = "" \/ q = original \/ Contains(out, q) \/ Len(out) = MaxSubQueries
             THEN out ELSE Append(out, q),
           <<>>, lines)

\* The numbers in an answer that name a candidate, each once.
ParseRerankOrder(numbers, count) ==
  FoldLeft(LAMBDA out, n : IF n \in 1..count /\ ~ Contains(out, n) THEN Append(out, n) ELSE out,
           <<>>, numbers)

\* Candidates the model left out follow in the order they had.
ApplyRerankOrder(cands, order) ==
  [k \in DOMAIN order |-> cands[order[k]]] \o
  [k \in 1..(Len(cands) - Len(order)) |->
     cands[SetToSortSeq(DOMAIN cands \ ToSet(order), <)[k]]]
=============================================================================
