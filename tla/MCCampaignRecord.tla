-------------------------- MODULE MCCampaignRecord --------------------------
(* Small instances of CampaignRecord for TLC. *)
EXTENDS CampaignRecord, CampaignReadings, TLC

CONSTANTS r1, r2, q1, p1, p2, t1, o1, c1, c2

MCCampaign1 == {r1}
MCCampaigns == {r1, r2}
MCQuarters  == {q1}
MCPredictions == {p1, p2}
MCTexts     == {t1}
MCObjectives == {o1}
MCNone      == {}
MCNotes     == {"", "line"}
MCNoNote    == {""}
MCChances   == {"even"}
MCOutcomes  == {"called", "missed"}
MCClients   == {c1, c2}

\* Objectives and the after-action on one hand, predictions on the other: they
\* share no statement, and the seal takes each by itself.  Of two requests and
\* the review at most two are under way.
Apart ==
    /\ \E c \in Worker : req[c] = Idle
    /\ (\E p \in Prediction : Filed(p)) =>
            /\ req[Reviewer] = Idle
            /\ assigned = {}
            /\ \A o \in Objective, c \in Client :
                  map[o] = "off" /\ req[c].op \notin {"onmap", "assign", "unassign"}

Symmetry ==
    Permutations(MCClients) \cup Permutations(MCCampaigns) \cup Permutations(MCPredictions)
=============================================================================
