------------------------------- MODULE MCTurn -------------------------------
(***************************************************************************)
(* One turn: every plan a request can resolve to, a chain of two models,   *)
(* up to three seats, one retry of a busy model, one piece a call.         *)
(***************************************************************************)
EXTENDS Turn

\* The plan of memory/usecase/plan.go, for every request and every setting:
\* no tier above the ceiling runs, a model without tools is never given tools
\* or a council, a plain message has no lenses, and an escalation stays under
\* the ceiling and adds no lens.
ASSUME PlanIsCapped ==
  \A in \in Inputs :
    LET p == Resolve(in) IN
    /\ Rank(p.tier) <= Rank(in.max)
    /\ in.toolless => ~ UsesTools(p) /\ ~ UsesCouncil(in, p) /\ ~ Escalates(in, p)
    /\ in.plain => p.generals = 0
    /\ UsesCouncil(in, p) => UsesTools(p)
    /\ Escalates(in, p) => /\ Rank(Escalated(p).tier) <= Rank(in.max)
                           /\ Escalated(p).generals <= p.generals
                           /\ ~ UsesCouncil(in, Escalated(p))

R == INSTANCE Retrieval

Pool(n) == [i \in 1..n |-> [id |-> i, score |-> 100 - 10 * i]]
Rankings(S) == {s \in R!SeqOf(S, 3) : R!Cardinality(R!ToSet(s)) = Len(s)}

\* A row more lists found never scores lower for it, and rank decides within a
\* list (ReciprocalRankFusion in memory/service/rrf.go).
ASSUME FusionRises ==
  \A one, two \in Rankings(1..3) :
    LET alone == R!ReciprocalRankFusion(<<one>>)
        both == R!ReciprocalRankFusion(<<one, two>>)
    IN  /\ DOMAIN both = R!ToSet(one) \cup R!ToSet(two)
        /\ \A id \in R!ToSet(one) : both[id] >= alone[id]
        /\ R!SortByScore(alone) = one

\* Whatever numbers a model answers with, no candidate is lost or doubled, and
\* the ones it named lead in the order it named them (llm_rerank.go).
ASSUME RerankKeepsAll ==
  \A n \in 0..3, numbers \in R!SeqOf(0..4, 3) :
    LET order == R!ParseRerankOrder(numbers, n)
        out == R!ApplyRerankOrder(Pool(n), order)
    IN  /\ Len(out) = n
        /\ R!ToSet(out) = R!ToSet(Pool(n))
        /\ \A k \in DOMAIN order : out[k].id = order[k]

\* The selection is as long as asked for, repeats nothing, and opens with the
\* best score whatever the likenesses are (mmrSelect in rerank.go).
ASSUME SelectionOpensWithBest ==
  \A topK \in 1..3, likes \in [1..3 -> {0, 50}] :
    LET sim == [p \in (1..3) \X (1..3) |-> IF p[1] = p[2] THEN 100 ELSE likes[6 - p[1] - p[2]]]
        out == R!mmrSelect(Pool(3), topK, sim)
    IN  /\ Len(out) = topK
        /\ R!Cardinality(R!ToSet(out)) = topK
        /\ out[1].id = 1

\* At most three extra searches, none of them the question itself, none twice
\* (ParseSubQueries in decompose.go).
ASSUME FewSubQueries ==
  \A lines \in R!SeqOf({"", "q", "a", "b", "c", "d"}, 4) :
    LET out == R!ParseSubQueries(lines, "q") IN
    /\ Len(out) <= R!MaxSubQueries
    /\ R!Cardinality(R!ToSet(out)) = Len(out)
    /\ R!ToSet(out) \subseteq R!ToSet(lines) \ {"", "q"}

-----------------------------------------------------------------------------
W == INSTANCE Roster

\* Four lenses of four families; the first two are rivals.
Lenses ==
  << [family |-> "scouting", rivals |-> {2}], [family |-> "contact", rivals |-> {1}],
     [family |-> "endurance", rivals |-> {4}], [family |-> "preservation", rivals |-> {3}] >>
LensSeqs(n) == {s \in R!SeqOf(1..4, n) : R!Cardinality(R!ToSet(s)) = Len(s)}
Asks ==
  [hits : [1..4 -> 0..2], defaults : {{}, {1}}, explicit : {<<>>, <<9>>, <<3, 2>>},
   recent : {{}, {3}}, seated : LensSeqs(2), max : 1..3]

\* A question always gets lenses, as many as there is room for at most, none
\* twice, and the person's own pick goes before everything (Select in
\* generals/service/select.go).
ASSUME RosterFits ==
  \A in \in Asks :
    LET out == W!Select(Lenses, in, 1) IN
    /\ Len(out.lenses) \in 1..in.max
    /\ R!Cardinality(R!ToSet(out.lenses)) = Len(out.lenses)
    /\ out.method = "explicit" <=> in.explicit = <<3, 2>>
    /\ out.method = "explicit" => out.lenses = R!SubSeq(<<3, 2>>, 1, R!Min({2, in.max}))

\* A roster that fits stays where it sits unless a lens off the bench has two
\* phrases behind it, and who is displaced was outscored by a phrase (hold).
ASSUME RosterHolds ==
  \A in \in {a \in Asks : a.explicit = <<>> /\ Len(a.seated) \in 1..a.max} :
    LET out == W!Select(Lenses, in, 1).lenses
        bench == 1..4 \ R!ToSet(in.seated)
    IN  \A i \in DOMAIN in.seated :
          out[i] # in.seated[i] =>
            /\ out[i] \in bench
            /\ in.hits[out[i]] >= 2
            /\ W!score(in)[out[i]] >= W!score(in)[in.seated[i]] + W!challengeMargin

\* An explicit choice or a locked mode is never overridden by detection, and a
\* conversation leaves a mode it is in only for one with a strong case
\* (Detect in modes/service/detect.go).
ASSUME ModeIsHeld ==
  \A in \in [hits : [1..3 -> 0..3], leads : {[m \in 1..3 |-> 0], [m \in 1..3 |-> 1]},
             explicit : {0, 3}, session : 0..3, locked : BOOLEAN, turn : 0..1] :
    LET modes == << [weight |-> 0, explicitOnly |-> FALSE],
                    [weight |-> 10, explicitOnly |-> FALSE],
                    [weight |-> 10, explicitOnly |-> TRUE] >>
        out == W!Detect(modes, in, 1)
    IN  /\ in.explicit # 0 => out.mode = in.explicit
        /\ in.explicit = 0 /\ in.locked /\ in.session # 0 => out.mode = in.session
        /\ in.explicit = 0 /\ ~ in.locked => out.mode # 3
        /\ out.mode = 2 /\ out.method = "keyword" => in.hits[2] > 0

\* Ordinary speech suggests nothing: without a strong trap found or flagged
\* there is no suggestion, and a strong one always leads it
\* (DetectTraps in generals/service/traps.go, suggest in interrogation.go).
ASSUME StrongTrapLeads ==
  \A text \in [1..4 -> {<<>>, <<TRUE>>, <<TRUE, FALSE>>}], flagged \in R!SeqOf(0..4, 2) :
    LET weak == <<TRUE, FALSE, TRUE, FALSE>>
        hits == W!DetectTraps(weak, text)
        out == W!suggest(weak, hits, flagged, FALSE)
    IN  /\ Len(out) <= W!maxSuggestedTraps
        /\ out # <<>> => ~ weak[out[1].id]
        /\ out = <<>> <=> /\ \A t \in {2, 4} : text[t] # <<TRUE, FALSE>>
                          /\ ~ \E t \in {2, 4} : R!Contains(flagged, t)
=============================================================================
