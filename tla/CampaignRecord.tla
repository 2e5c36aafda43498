--------------------------- MODULE CampaignRecord ---------------------------
(***************************************************************************)
(* The campaign record: quarters from planning to closed, the predictions  *)
(* filed on them, the objectives assigned to them, the after-action that a *)
(* background call writes, and what is sealed when a quarter closes.       *)
(* campaign/usecase (record, record_prediction, record_view, after_action) *)
(* over the tables of migration 013.                                       *)
(*                                                                         *)
(* Each SQL statement is one step, and so is the seal's transaction.  The  *)
(* use cases read a row, change it and write the whole row back; what they *)
(* read is in req until then.                                              *)
(***************************************************************************)
EXTENDS Integers, FiniteSets

CONSTANTS
    Client,     \* requests that may be in flight together
    Reviewer,   \* the background call that writes an after-action
    Campaign,   \* rows campaigns may ever hold; a deleted one is not reused
    Quarter,    \* quarter labels
    Prediction, \* rows predictions may ever hold
    Text,       \* wordings of a prediction up to its fingerprint
    Objective,  \* objectives of the campaign map
    Note,       \* lines a person may write on a quarter, "" among them
    Chance,     \* chances a person may give a failure
    Outcome,    \* of "called" and "missed", those a person may score one with
    Unfiled     \* a prediction that is on no quarter

ASSUME RecordAssumption ==
    /\ Reviewer \notin Client
    /\ Unfiled \notin Campaign
    /\ "" \in Note
    /\ "" \notin Chance
    /\ Outcome \subseteq {"called", "missed"}
    /\ IsFiniteSet(Prediction) /\ IsFiniteSet(Objective)

VARIABLES
    camp,     \* camp[r], a row of campaigns
    pred,     \* pred[p], a row of predictions
    assigned, \* campaign_objectives
    map,      \* the status of each objective on the map
    sealed,   \* sealed[r], the commendations and calibration_n of the row
    req       \* req[c], what c carries to its next statement

vars == <<camp, pred, assigned, map, sealed, req>>

-----------------------------------------------------------------------------

Phase == {"planning", "operations", "review", "closed"}

Quarters == [quarter : Quarter, phase : Phase \cup {"none", "deleted"},
             note : Note, review : BOOLEAN]

Rows == [status : {"none", "proposed", "kept", "dropped"}, text : Text,
         chance : Chance \cup {""}, outcome : Outcome \cup {""},
         campaign : Campaign \cup {Unfiled}]

\* A sealed quarter: the objectives and predictions its lines are about, and
\* how many predictions its calibration was taken over.
Seals == [taken : SUBSET Objective, called : SUBSET Prediction, n : Nat]

\* Slip: a count that is not known yet is stored as -1.
NoSealUnset == [taken |-> {}, called |-> {}, n |-> -1]

NoSeal == [taken |-> {}, called |-> {}, n |-> 0]

Exists(r) == camp[r].phase \in Phase

Open(r) == camp[r].phase \in Phase \ {"closed"}

Filed(p) == pred[p].status # "none"

LiveRow(row) == row.status \in {"proposed", "kept"}

\* Slip: an index on kept rows only.
FreeOfKept(p, t) == \A m \in Prediction \ {p} : pred[m].status = "kept" => pred[m].text # t

\* idx_predictions_live_fingerprint lets row p be live with wording t.
Free(p, t) == \A m \in Prediction \ {p} : LiveRow(pred[m]) => pred[m].text # t

Worker == Client \cup {Reviewer}

Request ==
    [op : {"idle"}]
        \cup [op : {"asking", "load", "delete"}, id : Campaign]
        \cup [op : {"campaign"}, id : Campaign, row : Quarters]
        \cup [op : {"seal"}, id : Campaign, as : Seals]
        \cup [op : {"onmap", "assign", "unassign"}, id : Campaign, objective : Objective]
        \cup [op : {"from", "to", "prediction"}, id : Prediction, from : Campaign \cup {Unfiled},
              row : Rows]
        \cup [op : {"file"}, campaign : Campaign \cup {Unfiled}, left : SUBSET Text]

Idle == [op |-> "idle"]

TypeOK ==
    /\ camp \in [Campaign -> Quarters]
    /\ pred \in [Prediction -> Rows]
    /\ assigned \subseteq Campaign \X Objective
    /\ map \in [Objective -> {"active", "resolved", "withdrawn", "off"}]
    /\ sealed \in [Campaign -> Seals]
    /\ req \in [Worker -> Request]

Init ==
    /\ \E q \in Quarter :
        camp = [r \in Campaign |-> [quarter |-> q, phase |-> "none", note |-> "", review |-> FALSE]]
    /\ \E t \in Text :
        pred = [p \in Prediction |-> [status |-> "none", text |-> t, chance |-> "",
                                      outcome |-> "", campaign |-> Unfiled]]
    /\ assigned = {}
    /\ map \in [Objective -> {"active", "off"}]
    /\ sealed = [r \in Campaign |-> NoSeal]
    /\ req = [c \in Worker |-> Idle]

Then(c, r) == req' = [req EXCEPT ![c] = r]

Decide(c, r) ==
    /\ req[c] = Idle
    /\ Then(c, r)
    /\ UNCHANGED <<camp, pred, assigned, map, sealed>>

-----------------------------------------------------------------------------
(* Quarters.                                                               *)

\* Open starts a quarter in planning, one campaign per quarter.
OpenQuarter(r, q) ==
    /\ camp[r].phase = "none"
    /\ \A s \in Campaign : Exists(s) => camp[s].quarter # q
    /\ camp' = [camp EXCEPT ![r] = [quarter |-> q, phase |-> "planning", note |-> "",
                                    review |-> FALSE]]
    /\ UNCHANGED <<pred, assigned, map, sealed, req>>

phaseAllowed(from, to) ==
    \/ from = "planning" /\ to = "operations"
    \/ from = "operations" /\ to = "review"
    \/ from = "review" /\ to \in {"operations", "closed"}

\* Advance reads the quarter; closing it goes on to the seal.
AdvanceRead(c, r, to) ==
    /\ Open(r)
    /\ phaseAllowed(camp[r].phase, to)
    /\ Decide(c, IF to = "closed" THEN [op |-> "load", id |-> r]
                 ELSE [op |-> "campaign", id |-> r, row |-> [camp[r] EXCEPT !.phase = to]])

\* SetNote reads the quarter.
SetNoteRead(c, r, note) ==
    /\ Open(r)
    /\ Decide(c, [op |-> "campaign", id |-> r, row |-> [camp[r] EXCEPT !.note = note]])

\* Delete reads the quarter.
DeleteRead(c, r) == Open(r) /\ Decide(c, [op |-> "delete", id |-> r])

\* Slip: the statements ask for the id alone.
WritableById(r) == Exists(r)

\* The WHERE of UpdateCampaign, DeleteCampaign and SealCampaign.
Writable(r) == Open(r)

\* UpdateCampaign, for Advance, SetNote and writeReview: the whole row as it
\* was read, unless the quarter is closed or gone by now.
UpdateCampaign(c) ==
    LET r == req[c].id IN
    /\ req[c].op = "campaign"
    /\ IF Writable(r) THEN camp' = [camp EXCEPT ![r] = req[c].row] ELSE UNCHANGED camp
    /\ Then(c, Idle)
    /\ UNCHANGED <<pred, assigned, map, sealed>>

\* The calibration and the commendations of quarter r, as it is now.
SealOf(r) ==
    LET filed == {p \in Prediction : pred[p].campaign = r /\ pred[p].status = "kept"} IN
    [taken  |-> {o \in Objective : <<r, o>> \in assigned /\ map[o] \in {"resolved", "withdrawn"}},
     called |-> {p \in filed : pred[p].outcome = "called"},
     n      |-> Cardinality({p \in filed : pred[p].chance # "" /\ pred[p].outcome # ""})]

\* seal loads the record before its transaction.
SealLoad(c) ==
    /\ req[c].op = "load"
    /\ Then(c, [op |-> "seal", id |-> req[c].id, as |-> SealOf(req[c].id)])
    /\ UNCHANGED <<camp, pred, assigned, map, sealed>>

\* SealCampaign, one transaction.
SealCampaign(c) ==
    LET r == req[c].id IN
    /\ req[c].op = "seal"
    /\ IF Writable(r)
       THEN /\ camp' = [camp EXCEPT ![r].phase = "closed"]
            /\ sealed' = [sealed EXCEPT ![r] = req[c].as]
       ELSE UNCHANGED <<camp, sealed>>
    /\ Then(c, Idle)
    /\ UNCHANGED <<pred, assigned, map>>

\* DeleteCampaign: assignments go with the row, predictions become unfiled.
DeleteCampaign(c) ==
    LET r == req[c].id IN
    /\ req[c].op = "delete"
    /\ IF Writable(r)
       THEN /\ camp' = [camp EXCEPT ![r].phase = "deleted"]
            /\ assigned' = {a \in assigned : a[1] # r}
            /\ pred' = [p \in Prediction |->
                            IF pred[p].campaign = r THEN [pred[p] EXCEPT !.campaign = Unfiled]
                            ELSE pred[p]]
       ELSE UNCHANGED <<camp, assigned, pred>>
    /\ Then(c, Idle)
    /\ UNCHANGED <<map, sealed>>

-----------------------------------------------------------------------------
(* Objectives on a quarter.                                                *)

AssignRead(c, r, o) == Open(r) /\ Decide(c, [op |-> "onmap", id |-> r, objective |-> o])

\* objectiveOnMap, for Assign.
ObjectiveOnMap(c) ==
    /\ req[c].op = "onmap"
    /\ Then(c, IF map[req[c].objective] = "off" THEN Idle ELSE [req[c] EXCEPT !.op = "assign"])
    /\ UNCHANGED <<camp, pred, assigned, map, sealed>>

UnassignRead(c, r, o) == Open(r) /\ Decide(c, [op |-> "unassign", id |-> r, objective |-> o])

\* AssignObjective; the foreign key refuses a quarter that is gone.
AssignObjective(c) ==
    /\ req[c].op = "assign"
    /\ IF Exists(req[c].id)
       THEN assigned' = assigned \cup {<<req[c].id, req[c].objective>>}
       ELSE UNCHANGED assigned
    /\ Then(c, Idle)
    /\ UNCHANGED <<camp, pred, map, sealed>>

UnassignObjective(c) ==
    /\ req[c].op = "unassign"
    /\ assigned' = assigned \ {<<req[c].id, req[c].objective>>}
    /\ Then(c, Idle)
    /\ UNCHANGED <<camp, pred, map, sealed>>

\* Manage.Update moves an objective on the map, on it or off it.
MapMoves(o, s) ==
    /\ s # map[o]
    /\ map' = [map EXCEPT ![o] = s]
    /\ UNCHANGED <<camp, pred, assigned, sealed, req>>

-----------------------------------------------------------------------------
(* Predictions.                                                            *)

\* Slip: a proposal is scored without being kept.
PatchedUnkept(row) ==
    {new \in Rows :
        /\ new.text = row.text
        /\ new.status # row.status => row.status = "proposed" /\ new.status \in {"kept", "dropped"}}

\* What applyPrediction can make of a row: a proposal is kept or dropped, a
\* kept one is given or cleared of a chance and an outcome, either is filed
\* anywhere, and a dropped one is cleared of what was said of it.
Patched(row) ==
    {new \in Rows :
        /\ new.text = row.text
        /\ new.status # row.status => row.status = "proposed" /\ new.status \in {"kept", "dropped"}
        /\ new.status = "dropped" => new.chance = "" /\ new.outcome = ""
        /\ new.status \notin {"kept", "dropped"} =>
             new.chance = row.chance /\ new.outcome = row.outcome}

\* PatchPrediction reads the row and applies the patch to it.
PatchRead(c, p, row) ==
    /\ Filed(p)
    /\ row \in Patched(pred[p])
    /\ Decide(c, [op |-> "from", id |-> p, from |-> pred[p].campaign, row |-> row])

\* rejectClosed passes: no quarter, or one that is there and not closed.
NotClosed(f) == f # Unfiled => Open(f)

\* PatchPrediction asks it of the quarter the row was on, then of the quarter
\* it goes to.
RejectClosed(c) ==
    /\ req[c].op \in {"from", "to"}
    /\ LET first == req[c].op = "from" IN
       Then(c, IF ~NotClosed(IF first THEN req[c].from ELSE req[c].row.campaign) THEN Idle
               ELSE [req[c] EXCEPT !.op = IF first THEN "to" ELSE "prediction"])
    /\ UNCHANGED <<camp, pred, assigned, map, sealed>>

\* The foreign key on campaign_id.
Fileable(f) == f # Unfiled => Exists(f)

\* UpdatePrediction, by id alone.
UpdatePrediction(c) ==
    LET p == req[c].id
        row == req[c].row
    IN
    /\ req[c].op = "prediction"
    /\ IF Fileable(row.campaign) /\ (LiveRow(row) => Free(p, row.text))
       THEN pred' = [pred EXCEPT ![p] = row]
       ELSE UNCHANGED pred
    /\ Then(c, Idle)
    /\ UNCHANGED <<camp, assigned, map, sealed>>

\* FromPreMortem finds today's quarter, if it is not closed, and will file the
\* failures T on it.
FilingCampaign(c, q, T) ==
    LET today == {r \in Campaign : Open(r) /\ camp[r].quarter = q} IN
    /\ T # {}
    /\ \E f \in IF today = {} THEN {Unfiled} ELSE today :
        Decide(c, [op |-> "file", campaign |-> f, left |-> T])

\* CreatePrediction of one failure. The unique index is checked first, and a
\* duplicate is skipped; a quarter that is gone ends the filing.
FileFailure(c, t) ==
    LET f == req[c].campaign
        said == \E m \in Prediction : LiveRow(pred[m]) /\ pred[m].text = t
        next == IF req[c].left = {t} THEN Idle ELSE [req[c] EXCEPT !.left = @ \ {t}]
    IN
    /\ req[c].op = "file"
    /\ t \in req[c].left
    /\ IF ~said /\ Fileable(f)
       THEN \E p \in Prediction :
                /\ ~Filed(p)
                /\ pred' = [pred EXCEPT ![p] =
                      [status |-> "proposed", text |-> t, chance |-> "", outcome |-> "",
                       campaign |-> f]]
       ELSE UNCHANGED pred
    /\ Then(c, IF said \/ Fileable(f) THEN next ELSE Idle)
    /\ UNCHANGED <<camp, assigned, map, sealed>>

-----------------------------------------------------------------------------
(* The after-action.                                                       *)

\* StartReview takes the one slot for a quarter in review.
StartReview(r) ==
    /\ camp[r].phase = "review"
    /\ Decide(Reviewer, [op |-> "asking", id |-> r])

\* writeReview has its answer and reads the quarter again.
ReviewRead ==
    LET r == req[Reviewer].id IN
    /\ req[Reviewer].op = "asking"
    /\ Then(Reviewer, IF camp[r].phase = "review"
                      THEN [op |-> "campaign", id |-> r, row |-> [camp[r] EXCEPT !.review = TRUE]]
                      ELSE Idle)
    /\ UNCHANGED <<camp, pred, assigned, map, sealed>>

\* A request or the review fails, times out or loses its process.
Fail(c) ==
    /\ req[c] # Idle
    /\ Then(c, Idle)
    /\ UNCHANGED <<camp, pred, assigned, map, sealed>>

Reads(c) ==
    \/ \E r \in Campaign :
        \/ \E to \in Phase : AdvanceRead(c, r, to)
        \/ \E note \in Note : SetNoteRead(c, r, note)
        \/ DeleteRead(c, r)
        \/ \E o \in Objective : AssignRead(c, r, o) \/ UnassignRead(c, r, o)
    \/ \E p \in Prediction : \E row \in Patched(pred[p]) : PatchRead(c, p, row)
    \/ \E q \in Quarter, T \in SUBSET Text : FilingCampaign(c, q, T)

Writes(c) ==
    \/ UpdateCampaign(c)
    \/ SealLoad(c)
    \/ SealCampaign(c)
    \/ DeleteCampaign(c)
    \/ ObjectiveOnMap(c)
    \/ AssignObjective(c)
    \/ UnassignObjective(c)
    \/ RejectClosed(c)
    \/ UpdatePrediction(c)
    \/ \E t \in Text : FileFailure(c, t)
    \/ Fail(c)

Next ==
    \/ \E r \in Campaign : StartReview(r) \/ \E q \in Quarter : OpenQuarter(r, q)
    \/ \E o \in Objective, s \in {"active", "resolved", "withdrawn", "off"} : MapMoves(o, s)
    \/ \E c \in Client : Reads(c)
    \/ \E c \in Worker : Writes(c)
    \/ ReviewRead

Spec == Init /\ [][Next]_vars

-----------------------------------------------------------------------------
(* Safety.                                                                 *)

\* A closed quarter is left as it was sealed: no write decided while it was
\* open reopens it, rewrites its note or after-action, seals it again or
\* deletes it (UpdateCampaign, SealCampaign, DeleteCampaign).
ClosedIsFinal ==
    [][\A r \in Campaign : camp[r].phase = "closed"
        => camp'[r] = camp[r] /\ sealed'[r] = sealed[r]]_vars

\* Commendations and calibration are only ever those of a closed quarter: while
\* it is open they are a view (SealCampaign, campaigns_closed_check).
SealedOnlyClosed == \A r \in Campaign : sealed[r] # NoSeal => camp[r].phase = "closed"

\* A deleted quarter leaves nothing behind: a prediction or assignment decided
\* before is not filed on it after (Delete, the foreign keys of migration 013).
NothingOnDeleted ==
    /\ \A p \in Prediction : pred[p].campaign # Unfiled => Exists(pred[p].campaign)
    /\ \A a \in assigned : Exists(a[1])

\* Live predictions say different things: a wording that was dropped may be
\* filed again, and a write of an older read that would bring the first row back
\* beside it is refused (UpdatePrediction, idx_predictions_live_fingerprint).
LivePredictionOnce ==
    \A p, m \in Prediction : p # m /\ LiveRow(pred[p]) /\ LiveRow(pred[m])
        => pred[p].text # pred[m].text

\* Only a kept prediction has a chance or an outcome, and no write of an old
\* read leaves one on a row dropped meanwhile: the CHECKs of migration 013 never
\* have to refuse a patch (applyPrediction).
ScoredIsKept ==
    \A p \in Prediction :
        pred[p].status # "kept" => pred[p].chance = "" /\ pred[p].outcome = ""

\* The rows agree with one another at every step: nothing filed on a quarter
\* that is gone, nothing sealed that is open, none scored that was not kept and
\* no wording live twice, while requests write back what they read before (the
\* constraints of migration 013 and the checks of the use cases).
RecordConsistent ==
    /\ SealedOnlyClosed
    /\ NothingOnDeleted
    /\ LivePredictionOnce
    /\ ScoredIsKept
=============================================================================
