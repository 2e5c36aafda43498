----------------------------- MODULE DeepSearch -----------------------------
(***************************************************************************)
(* The search behind one deep answer (retrieveFor in                       *)
(* memory/usecase/consult.go, Rerank in deep.go): the arms are fused and   *)
(* scored, the model is asked to order the candidates, and the few that    *)
(* reach the prompt are selected.  The most recent memories, which are     *)
(* merged in afterwards, are not among these rows.                         *)
(***************************************************************************)
EXTENDS Retrieval

CONSTANTS
  Rows,                 \* the memories, numbers
  TopK,                 \* how many reach the prompt
  maxRerankCandidates,  \* how many the model is asked to judge
  Ages,                 \* ages of a memory, in half-lives
  MaxNumbers            \* bound: numbers in the model's answer

VARIABLES
  pc,     \* "search", "rank", "select", "read"
  cands,  \* the scored candidates, in the order they have
  top,    \* the memory the model put first, 0 when its answer was no use
  read    \* the memories that reach the prompt

vars == <<pc, cands, top, read>>

\* No two memories here are alike, and no kind is preferred.
Unlike == [p \in Rows \X Rows |-> 0]
NoBias == [kinds |-> {}, boost |-> 0]

Lists == {s \in SeqOf(Rows, Cardinality(Rows)) : Cardinality(ToSet(s)) = Len(s)}

Init == pc = "search" /\ cands = <<>> /\ top = 0 /\ read = <<>>

\* One query's two arms, fused and scored.  The whole list is kept.
Candidates ==
  /\ pc = "search"
  /\ \E vector, text \in Lists, age \in [Rows -> Ages] :
       LET rrf == ReciprocalRankFusion(RankedLists(<<[vector |-> vector, text |-> text]>>))
           order == SortByScore(rrf)
           all == ScoreCandidates([i \in DOMAIN order |->
                    [id |-> order[i], rrf |-> rrf[order[i]], age |-> age[order[i]], kind |-> "note"]],
                    NoBias)
       IN  cands' = SubSeq(all, 1, Min({Len(all), maxRerankCandidates}))
  /\ pc' = IF cands' = <<>> THEN "read" ELSE "rank"
  /\ UNCHANGED <<top, read>>

\* The model's answer is a few numbers, or nothing usable, or the call failed.
Rerank ==
  /\ pc = "rank"
  /\ pc' = "select"
  /\ \E numbers \in SeqOf(1..Cardinality(Rows), MaxNumbers) :
       LET order == ParseRerankOrder(numbers, Len(cands)) IN
       IF Len(cands) < 2 \/ order = <<>>
       THEN UNCHANGED <<cands, top>>
       ELSE cands' = ApplyRerankOrder(cands, order) /\ top' = cands[order[1]].id
  /\ UNCHANGED read

SelectCandidates ==
  /\ pc = "select"
  /\ read' = [i \in DOMAIN mmrSelect(cands, TopK, Unlike) |-> mmrSelect(cands, TopK, Unlike)[i].id]
  /\ pc' = "read"
  /\ UNCHANGED <<cands, top>>

Next == Candidates \/ Rerank \/ SelectCandidates

Spec == Init /\ [][Next]_vars

-----------------------------------------------------------------------------
\* The memory the model judged most useful is one the answer reads: deep
\* answers are "model-reranked" (README.md:87), and the ranking runs on the
\* full list because "reordering a list that has already been cut is
\* pointless" (consult.go:334).
RankedFirstIsRead == (pc = "read" /\ top # 0) => Contains(read, top)
=============================================================================
