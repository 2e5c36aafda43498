---------------------------- MODULE MCCampaignMap -----------------------------
(* Bounds for TLC: two items, one front, one order, two requests.           *)
EXTENDS CampaignMap, StayReadings, TLC

CONSTANTS i1, i2, f1

Nothing == [text |-> Same, front |-> Same, bears |-> Same, strength |-> Same,
            worth |-> FALSE, to |-> Same]

Entered(type, front, bears, strength) ==
    [type |-> type, status |-> "active", text |-> "t", front |-> front, bears |-> bears,
     strength |-> strength, answered |-> FALSE]

\* What is entered by hand: placed, bearing on another, and neither.
MCDraft ==
    {Entered("objective", f1, Nowhere, "none"),
     Entered("obstacle", Nowhere, i1, "confirmed"), Entered("unknown", Nowhere, i1, "none")}

\* One field at a time, the empty body, and a proposal edited and dropped.
MCPatch ==
    {Nothing, [Nothing EXCEPT !.bears = i1],
     [Nothing EXCEPT !.bears = Nowhere, !.to = "dropped"],
     [Nothing EXCEPT !.strength = "confirm"]}
        \cup {[Nothing EXCEPT !.to = s] : s \in {"active", "withdrawn"}}

Clients == Permutations(Client)

\* Items are entered in their order.  Of fronts, items and orders at most two
\* are there at once: what relates them relates two of them; and fronts are
\* changed and sorties flown while the map is empty.  With both items there,
\* two requests are in flight together only when both change items.
Apart ==
    /\ Held(i2) =>
        /\ Held(i1)
        /\ \/ \E c \in Client : req[c] = Idle
           \/ \A c \in Client : req[c].op = "item"
    /\ Held(i1) =>
        /\ \A f \in Front, l \in Loop : fronts[f] = None \/ loops[l] = None
        /\ \A f \in Front : fronts[f] # None => ~fronts[f].funds
        /\ sorties = {}
        /\ \A c \in Client : req[c].op \notin {"front", "sortie"}

=============================================================================
