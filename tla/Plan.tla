-------------------------------- MODULE Plan --------------------------------
(***************************************************************************)
(* How much work one question is worth: the tiers with their knobs         *)
(* (memory/domain/tier.go) and the plan a consult resolves once, before it *)
(* reads or writes anything (memory/usecase/plan.go).                      *)
(*                                                                         *)
(* Only the knobs that decide which calls are made are kept: how many      *)
(* lenses, how many tool rounds, council or not.  How much is retrieved    *)
(* and how it is worded is left out.                                       *)
(***************************************************************************)
EXTENDS Integers, FiniteSets

Tiers == {"quick", "standard", "deep"}

Rank(t) == CASE t = "quick" -> 0 [] t = "deep" -> 2 [] OTHER -> 1

CapTo(t, max) == IF Rank(t) > Rank(max) THEN max ELSE t

\* An unknown tier is not an error, it is the default.
ParseTier(asked, fallback) == IF asked \in Tiers THEN asked ELSE fallback

PolicyFor(t) ==
  CASE t = "quick" -> [tier |-> "quick", generals |-> 1, rounds |-> 0,
                       council |-> FALSE, decompose |-> FALSE]
    [] t = "deep"  -> [tier |-> "deep", generals |-> 3, rounds |-> 3,
                       council |-> TRUE, decompose |-> TRUE]
    [] OTHER       -> [tier |-> "standard", generals |-> 2, rounds |-> 1,
                       council |-> FALSE, decompose |-> FALSE]

Min2(a, b) == IF a < b THEN a ELSE b

\* What a request and the settings of the day say.  "toolless": the model in
\* use cannot call tools.  "voice": the mode runs one voice by design (beast,
\* interrogation, red team).  "cap": how many lenses the mode allows, 0 for
\* no opinion.  "greeting": nothing to search for.
Inputs ==
  [asked : Tiers \cup {"?"}, def : Tiers, max : Tiers, toolless : BOOLEAN,
   voice : BOOLEAN, cap : {0, 1, 2}, plain : BOOLEAN, conclude : BOOLEAN,
   greeting : BOOLEAN]

Ceiling(in) == IF in.toolless THEN "quick" ELSE in.max

\* The plan of a request: the tier that runs, under the ceiling, and as many
\* lenses as tier and mode allow.  A plain message is written through none.
Resolve(in) ==
  LET tier == CapTo(ParseTier(in.asked, in.def), Ceiling(in))
      policy == PolicyFor(tier)
      most == IF in.cap > 0 THEN Min2(in.cap, policy.generals) ELSE policy.generals
  IN  [policy EXCEPT !.generals = IF in.plain THEN 0 ELSE most]

\* An empty search on the cheapest tier buys one more attempt with the
\* standard one, but no more lenses than were selected.
Escalates(in, policy) ==
  /\ policy.tier = "quick"
  /\ Rank(Ceiling(in)) > Rank("quick")

Escalated(policy) ==
  [PolicyFor("standard") EXCEPT !.generals = Min2(@, policy.generals)]

UsesTools(policy) == policy.rounds > 0

\* Only the ordinary exchange of two or more lenses is held as a council.
UsesCouncil(in, policy) ==
  /\ policy.council
  /\ policy.generals >= 2
  /\ ~ in.plain
  /\ ~ in.conclude
  /\ ~ in.voice
=============================================================================
