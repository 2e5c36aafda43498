------------------------------- MODULE Roster -------------------------------
(***************************************************************************)
(* Who answers a question and in what mode, decided without a model:       *)
(* generals/service/select.go picks the lenses, modes/service/detect.go    *)
(* the mode, generals/service/traps.go the thinking traps that may be      *)
(* worth a suggestion (suggest in memory/usecase/interrogation.go).        *)
(*                                                                         *)
(* Matching words is left out: of a question only the evidence remains,    *)
(* how many routing phrases of each lens it contains, how many triggers of *)
(* each mode (near the start or not), which trap signals, negated or not.  *)
(* No caller of the selection names families, so that nudge is left out.   *)
(* Scores are the code's in twentieths.  A lens is the number that gives   *)
(* its place among the ids in alphabetical order.                          *)
(***************************************************************************)
EXTENDS Integers, Sequences, SequencesExt, FiniteSetsExt

seedScore == 20
keywordHit == 12
maxKeywordGain == 24
recentPenalty == 5
rivalBonus == 10
minScore == 10
challengeGain == maxKeywordGain
challengeMargin == keywordHit

complements ==
  [scouting      |-> <<"contact", "preservation">>,
   contact       |-> <<"preservation", "scouting">>,
   endurance     |-> <<"preservation", "adaptation">>,
   adaptation    |-> <<"endurance", "concentration">>,
   systems       |-> <<"contact", "adaptation">>,
   concentration |-> <<"scouting", "preservation">>,
   preservation  |-> <<"contact", "concentration">>]
allFamilies == <<"contact", "scouting", "endurance", "adaptation", "systems",
                 "concentration", "preservation">>

-----------------------------------------------------------------------------
(* The lenses.  "of" is the roster: of[l] = [family, rivals], rivals a set. *)
(* "in" is the request: [hits, defaults, explicit, recent, seated, max],   *)
(* hits[l] the routing phrases of l found in the question.                 *)

gains(in) == [l \in DOMAIN in.hits |-> Min({in.hits[l] * keywordHit, maxKeywordGain})]
score(in) ==
  [l \in DOMAIN in.hits |-> (IF l \in in.defaults THEN seedScore ELSE 0) + gains(in)[l]]

Better(scores, a, b) == scores[a] > scores[b] \/ (scores[a] = scores[b] /\ a < b)
BestOf(scores, S) == CHOOSE a \in S : \A b \in S \ {a} : Better(scores, a, b)
Ranked(scores, S) == SetToSortSeq(S, LAMBDA a, b : Better(scores, a, b))

Most(in) == IF in.max <= 0 THEN 1 ELSE in.max
Cut(s, n) == SubSeq(s, 1, Min({Len(s), n}))

\* Fills the seats that are left from the families that argue against those
\* already seated, then from any family not heard yet.
backfill(of, chosen, scores, max) ==
  LET wanted == FlattenSeq([i \in DOMAIN chosen |-> complements[of[chosen[i]].family]])
                  \o allFamilies
      add(out, family) ==
        LET free == {l \in DOMAIN of : of[l].family = family /\ ~ Contains(out, l)}
            heard == {of[l].family : l \in ToSet(out)}
        IN  IF Len(out) >= max \/ family \in heard \/ free = {}
            THEN out
            ELSE Append(out, BestOf(scores, free))
  IN  FoldLeft(add, chosen, wanted)

\* The roster of the conversation stays, unless a lens off the bench has two
\* phrases of the question behind it and clearly beats the weakest that sits.
hold(of, in, seated, max) ==
  LET scores == score(in)
      start == Cut(seated, max)
      bench == Ranked(scores, {l \in DOMAIN of : ~ Contains(start, l) /\ gains(in)[l] >= challengeGain})
      weakest(roster, fresh) ==
        LET old == {i \in DOMAIN roster : roster[i] \notin fresh} IN
        CHOOSE i \in old : \A j \in old \ {i} :
          \/ scores[roster[i]] < scores[roster[j]]
          \/ scores[roster[i]] = scores[roster[j]] /\ i > j
      challenge(acc, l) ==
        IF acc.over \/ ToSet(acc.roster) \subseteq acc.fresh
        THEN [acc EXCEPT !.over = TRUE]
        ELSE LET w == weakest(acc.roster, acc.fresh) IN
             IF scores[l] < scores[acc.roster[w]] + challengeMargin
             THEN [acc EXCEPT !.over = TRUE]
             ELSE [acc EXCEPT !.roster[w] = l, !.fresh = @ \cup {l}]
      end == FoldLeft(challenge, [roster |-> start, fresh |-> {}, over |-> FALSE], bench)
      full == IF Len(end.roster) < max THEN backfill(of, end.roster, scores, max) ELSE end.roster
  IN  [lenses |-> full,
       method |-> IF end.fresh = {} /\ Len(end.roster) >= max THEN "sticky" ELSE "auto"]

\* With room for two, the rivals of the leader are drawn in.  Only a lens that
\* something speaks for, or against, can lead.
fresh(of, in, max, defaultLens) ==
  LET base == [l \in DOMAIN of |-> score(in)[l] - (IF l \in in.recent THEN recentPenalty ELSE 0)]
      rated == {l \in DOMAIN of : in.hits[l] > 0 \/ l \in in.defaults \cup in.recent}
      rivals == IF max < 2 \/ rated = {} THEN {} ELSE of[BestOf(base, rated)].rivals
      scores == [l \in DOMAIN of |-> base[l] + (IF l \in rivals THEN rivalBonus ELSE 0)]
      above == SelectSeq(Ranked(scores, DOMAIN of), LAMBDA l : scores[l] >= minScore)
      out == IF above = <<>> THEN <<defaultLens>> ELSE Cut(above, max)
  IN  [lenses |-> IF Len(out) < max THEN backfill(of, out, scores, max) ELSE out,
       method |-> "auto"]

\* The person's own pick first, then the roster that sits, then a fresh one.
Select(of, in, defaultLens) ==
  LET picked == SelectSeq(in.explicit, LAMBDA l : l \in DOMAIN of)
      seated == SelectSeq(in.seated, LAMBDA l : l \in DOMAIN of)
  IN  IF picked # <<>>
      THEN [lenses |-> Cut(picked, Most(in)), method |-> "explicit"]
      ELSE IF seated # <<>>
      THEN hold(of, in, seated, Most(in))
      ELSE fresh(of, in, Most(in), defaultLens)

-----------------------------------------------------------------------------
(* The mode.  modes[m] = [weight, explicitOnly], the weight in tenths.     *)
(* "in": [hits, leads, explicit, session, locked, turn], leads[m] of the   *)
(* hits[m] triggers near the start.  Mode 0 is none.                       *)

modeHit == 10
leadBonus == 3
acceptScore == 120
challengeScore == 220

\* Tenths of a tenth: hits and weights are both in tenths.
modeScore(modes, in, m) ==
  IF modes[m].explicitOnly THEN 0
  ELSE (modeHit * in.hits[m] + leadBonus * in.leads[m]) * modes[m].weight

Detect(modes, in, fallback) ==
  LET scores == [m \in DOMAIN modes |-> modeScore(modes, in, m)]
      scored == Ranked(scores, {m \in DOMAIN modes : scores[m] > 0})
      best == IF scored = <<>> THEN 0 ELSE scored[1]
      runnerUp == IF Len(scored) < 2 THEN 0 ELSE scores[scored[2]]
      clear == best # 0 /\ scores[best] >= acceptScore /\ 10 * scores[best] >= 14 * runnerUp
      known(m) == m \in DOMAIN modes
      sticks == /\ in.turn > 0 /\ known(in.session) /\ in.session # fallback
                /\ ~ modes[in.session].explicitOnly
                /\ \/ best \in {0, in.session}
                   \/ scores[best] < challengeScore
  IN  CASE known(in.explicit) -> [mode |-> in.explicit, method |-> "explicit"]
        [] OTHER ->
             IF in.locked /\ known(in.session) THEN [mode |-> in.session, method |-> "explicit"]
             ELSE IF sticks THEN [mode |-> in.session, method |-> "sticky"]
             ELSE IF clear THEN [mode |-> best, method |-> "keyword"]
             ELSE [mode |-> fallback, method |-> "default"]

-----------------------------------------------------------------------------
(* Traps.  weak[t] for each trap of the catalogue, a sequence; "text" gives *)
(* for each trap its signals in the text in order, TRUE where negated.     *)

maxSuggestedTraps == 3

\* A weak trap counts only beside one that is not.
DetectTraps(weak, text) ==
  LET hits == SelectSeq([t \in DOMAIN weak |-> t],
                        LAMBDA t : \E i \in DOMAIN text[t] : ~ text[t][i])
  IN  IF \A i \in DOMAIN hits : weak[hits[i]] THEN <<>> ELSE hits

\* The seated lens whose job the earliest of the traps is, else the first seated.
signer(kills, lenses, found) ==
  LET jobs == {at \in (DOMAIN found) \X (DOMAIN lenses) : found[at[1]].id \in kills[lenses[at[2]]]}
      first == CHOOSE a \in jobs :
                 \A b \in jobs \ {a} : a[1] < b[1] \/ (a[1] = b[1] /\ a[2] < b[2])
  IN  CASE jobs # {} -> lenses[first[2]]
        [] jobs = {} /\ lenses # <<>> -> lenses[1]
        [] OTHER -> 0

\* What the words gave away and what the model flagged, strong ones first.
suggest(weak, hits, flagged, quiet) ==
  LET model == SelectSeq(flagged, LAMBDA t : t \in DOMAIN weak /\ ~ Contains(hits, t))
      found == [i \in DOMAIN hits |->
                  [id |-> hits[i], source |-> IF Contains(flagged, hits[i]) THEN "both" ELSE "signal"]]
               \o [i \in DOMAIN model |-> [id |-> model[i], source |-> "model"]]
      strong == SelectSeq(found, LAMBDA f : ~ weak[f.id])
      soft == SelectSeq(found, LAMBDA f : weak[f.id])
  IN  IF quiet \/ strong = <<>> THEN <<>> ELSE Cut(strong \o soft, maxSuggestedTraps)
=============================================================================
