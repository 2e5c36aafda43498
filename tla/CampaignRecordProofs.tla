------------------------ MODULE CampaignRecordProofs -------------------------
(***************************************************************************)
(* What the campaign record keeps for any rows, texts and requests.        *)
(*                                                                         *)
(* Every request writes back a row it read some statements ago, so the     *)
(* rows agree only because of what such a request can hold: Carried says   *)
(* it, and with it the agreement of the rows is inductive.                  *)
(***************************************************************************)
EXTENDS CampaignRecord, FiniteSetTheorems, TLAPS

\* A scored row is a kept one.
Scorable(row) == row.status # "kept" => row.chance = "" /\ row.outcome = ""

\* A quarter is written back as one that is there and not closed, a prediction
\* as one that is filed and scored only if kept.
CarriedBy(r) ==
    /\ r.op = "campaign" => r.row.phase \in Phase \ {"closed"}
    /\ r.op \in {"from", "to", "prediction"} => r.row.status # "none" /\ Scorable(r.row)

Carried == \A c \in Worker : CarriedBy(req[c])

Inv == TypeOK /\ RecordConsistent /\ Carried

-----------------------------------------------------------------------------
(* Requests and rows.                                                      *)

\* The fields a request carries, by its operation.
LEMMA RequestFields ==
    ASSUME NEW r \in Request
    PROVE  /\ r.op = "campaign" => r.id \in Campaign /\ r.row \in Quarters
           /\ r.op = "seal" => r.id \in Campaign /\ r.as \in Seals
           /\ r.op \in {"asking", "load", "delete"} => r.id \in Campaign
           /\ r.op \in {"onmap", "assign", "unassign"} => r.id \in Campaign /\ r.objective \in Objective
           /\ r.op \in {"from", "to", "prediction"} =>
                r.id \in Prediction /\ r.from \in Campaign \cup {Unfiled} /\ r.row \in Rows
           /\ r.op = "file" => r.campaign \in Campaign \cup {Unfiled} /\ r.left \subseteq Text
  BY DEF Request

\* The requests the actions leave behind.
LEMMA RequestForms ==
    /\ Idle \in Request
    /\ \A r \in Campaign : /\ [op |-> "asking", id |-> r] \in Request
                           /\ [op |-> "load", id |-> r] \in Request
                           /\ [op |-> "delete", id |-> r] \in Request
    /\ \A r \in Campaign, row \in Quarters : [op |-> "campaign", id |-> r, row |-> row] \in Request
    /\ \A r \in Campaign, as \in Seals : [op |-> "seal", id |-> r, as |-> as] \in Request
    /\ \A r \in Campaign, o \in Objective :
          /\ [op |-> "onmap", id |-> r, objective |-> o] \in Request
          /\ [op |-> "unassign", id |-> r, objective |-> o] \in Request
    /\ \A p \in Prediction, f \in Campaign \cup {Unfiled}, row \in Rows :
          [op |-> "from", id |-> p, from |-> f, row |-> row] \in Request
    /\ \A f \in Campaign \cup {Unfiled}, T \in SUBSET Text :
          [op |-> "file", campaign |-> f, left |-> T] \in Request
  BY DEF Request, Idle

\* A request that goes on with what it holds.
LEMMA RequestMoves ==
    ASSUME NEW r \in Request
    PROVE  /\ r.op = "onmap" => [r EXCEPT !.op = "assign"] \in Request
           /\ r.op \in {"from", "to"} =>
                \A op \in {"to", "prediction"} :
                   [r EXCEPT !.op = op] \in Request /\ [r EXCEPT !.op = op].row = r.row
           /\ r.op = "file" => \A t : [r EXCEPT !.left = @ \ {t}] \in Request
                                      /\ [r EXCEPT !.left = @ \ {t}].op = "file"
  <1>1. ASSUME r.op = "onmap" PROVE [r EXCEPT !.op = "assign"] \in Request
    <2>1. r \in [op : {"onmap", "assign", "unassign"}, id : Campaign, objective : Objective]
      BY <1>1 DEF Request
    <2>2. [r EXCEPT !.op = "assign"] \in [op : {"onmap", "assign", "unassign"}, id : Campaign, objective : Objective]
      BY <2>1
    <2> QED BY <2>2 DEF Request
  <1>2. ASSUME r.op \in {"from", "to"}, NEW op \in {"to", "prediction"}
        PROVE  [r EXCEPT !.op = op] \in Request /\ [r EXCEPT !.op = op].row = r.row
    <2> DEFINE S == [op : {"from", "to", "prediction"}, id : Prediction,
                     from : Campaign \cup {Unfiled}, row : Rows]
    <2>1. r \in S
      BY <1>2 DEF Request
    <2>2. [r EXCEPT !.op = op] \in S /\ [r EXCEPT !.op = op].row = r.row
      BY <2>1
    <2> QED BY <2>2 DEF Request
  <1>3. ASSUME r.op = "file", NEW t
        PROVE  [r EXCEPT !.left = @ \ {t}] \in Request /\ [r EXCEPT !.left = @ \ {t}].op = "file"
    <2> DEFINE S == [op : {"file"}, campaign : Campaign \cup {Unfiled}, left : SUBSET Text]
    <2>1. r \in S
      BY <1>3 DEF Request
    <2>2. [r EXCEPT !.left = @ \ {t}] \in S
      BY <2>1
    <2> QED BY <2>2 DEF Request
  <1> QED BY <1>1, <1>2, <1>3

\* What a patch makes of a filed row is a row, and scored only if kept.
LEMMA PatchedRow ==
    ASSUME NEW row \in Rows, row.status # "none", Scorable(row), NEW new \in Patched(row)
    PROVE  new \in Rows /\ new.status # "none" /\ Scorable(new)
  BY DEF Patched, Scorable

\* A seal counts what there is.
LEMMA SealShape ==
    ASSUME NEW r \in Campaign
    PROVE  SealOf(r) \in Seals
  <1> DEFINE filed == {p \in Prediction : pred[p].campaign = r /\ pred[p].status = "kept"}
             scored == {p \in filed : pred[p].chance # "" /\ pred[p].outcome # ""}
  <1>1. Cardinality(scored) \in Nat
    BY RecordAssumption, FS_Subset, FS_CardinalityType
  <1> QED BY <1>1 DEF SealOf, Seals

-----------------------------------------------------------------------------
(* Steps that only decide.                                                 *)

\* The part of the invariant that speaks of the tables.
RowsOK ==
    /\ camp \in [Campaign -> Quarters]
    /\ pred \in [Prediction -> Rows]
    /\ assigned \subseteq Campaign \X Objective
    /\ map \in [Objective -> {"active", "resolved", "withdrawn", "off"}]
    /\ sealed \in [Campaign -> Seals]
    /\ RecordConsistent

LEMMA ThenKeeps ==
    ASSUME req \in [Worker -> Request], Carried, NEW c \in Worker, NEW r \in Request,
           CarriedBy(r), Then(c, r)
    PROVE  req' \in [Worker -> Request] /\ Carried'
  BY DEF Then, Carried

LEMMA SameRows ==
    ASSUME RowsOK, UNCHANGED <<camp, pred, assigned, map, sealed>>
    PROVE  RowsOK'
  BY DEF RowsOK, RecordConsistent, SealedOnlyClosed, NothingOnDeleted, LivePredictionOnce,
         ScoredIsKept, Exists, LiveRow

LEMMA DecideInv ==
    ASSUME Inv, NEW c \in Worker, NEW r \in Request, CarriedBy(r), Decide(c, r)
    PROVE  Inv'
  BY ThenKeeps, SameRows DEF Decide, Inv, RowsOK, TypeOK

LEMMA GoesOnInv ==
    ASSUME Inv, NEW c \in Worker, NEW r \in Request, CarriedBy(r), Then(c, r),
           UNCHANGED <<camp, pred, assigned, map, sealed>>
    PROVE  Inv'
  BY ThenKeeps, SameRows DEF Inv, RowsOK, TypeOK

LEMMA IdleCarried == Idle \in Request /\ CarriedBy(Idle)
  BY RequestForms DEF Idle, CarriedBy

\* A step that ends a request once its rows are written.
LEMMA EndsInv ==
    ASSUME Inv, NEW c \in Worker, RowsOK', Then(c, Idle)
    PROVE  Inv'
  BY ThenKeeps, IdleCarried DEF Inv, RowsOK, TypeOK

\* What is filed is scored only if kept, so patches of it are too.
LEMMA FiledScorable ==
    ASSUME Inv, NEW p \in Prediction
    PROVE  pred[p] \in Rows /\ Scorable(pred[p])
  BY DEF Inv, TypeOK, RecordConsistent, ScoredIsKept, Scorable

LEMMA ReadsInv ==
    ASSUME Inv, NEW c \in Client, Reads(c)
    PROVE  Inv'
  <1>0. c \in Worker /\ camp \in [Campaign -> Quarters] /\ Phase \subseteq Phase \cup {"none", "deleted"}
    BY DEF Worker, Inv, TypeOK
  <1>1. ASSUME NEW r \in Campaign, NEW to \in Phase, AdvanceRead(c, r, to)
        PROVE  Inv'
    <2>1. CASE to = "closed"
      BY <1>0, <1>1, <2>1, RequestForms, DecideInv DEF AdvanceRead, CarriedBy
    <2>2. CASE to # "closed"
      <3> DEFINE row == [camp[r] EXCEPT !.phase = to]
      <3>1. row \in Quarters /\ row.phase = to
        BY <1>0 DEF Quarters
      <3> HIDE DEF row
      <3>2. CarriedBy([op |-> "campaign", id |-> r, row |-> row])
        BY <2>2, <3>1 DEF CarriedBy
      <3>3. Decide(c, [op |-> "campaign", id |-> r, row |-> row])
        BY <1>1, <2>2 DEF AdvanceRead, row
      <3> QED BY <1>0, <3>1, <3>2, <3>3, RequestForms, DecideInv
    <2> QED BY <2>1, <2>2
  <1>2. ASSUME NEW r \in Campaign, NEW note \in Note, SetNoteRead(c, r, note)
        PROVE  Inv'
    <2> DEFINE row == [camp[r] EXCEPT !.note = note]
    <2>1. row \in Quarters /\ row.phase = camp[r].phase
      BY <1>0 DEF Quarters
    <2>2. camp[r].phase \in Phase \ {"closed"} /\ Decide(c, [op |-> "campaign", id |-> r, row |-> row])
      BY <1>2 DEF SetNoteRead, Open
    <2> HIDE DEF row
    <2>3. CarriedBy([op |-> "campaign", id |-> r, row |-> row])
      BY <2>1, <2>2 DEF CarriedBy
    <2> QED BY <1>0, <2>1, <2>2, <2>3, RequestForms, DecideInv
  <1>3. ASSUME NEW r \in Campaign, DeleteRead(c, r)
        PROVE  Inv'
    BY <1>0, <1>3, RequestForms, DecideInv DEF DeleteRead, CarriedBy
  <1>4. ASSUME NEW r \in Campaign, NEW o \in Objective, AssignRead(c, r, o) \/ UnassignRead(c, r, o)
        PROVE  Inv'
    BY <1>0, <1>4, RequestForms, DecideInv DEF AssignRead, UnassignRead, CarriedBy
  <1>5. ASSUME NEW p \in Prediction, NEW row \in Patched(pred[p]), PatchRead(c, p, row)
        PROVE  Inv'
    <2>1. row \in Rows /\ row.status # "none" /\ Scorable(row)
      BY <1>5, FiledScorable, PatchedRow DEF PatchRead, Filed
    <2>2. pred[p].campaign \in Campaign \cup {Unfiled}
      BY DEF Inv, TypeOK, Rows
    <2> DEFINE r == [op |-> "from", id |-> p, from |-> pred[p].campaign, row |-> row]
    <2>3. r \in Request /\ CarriedBy(r)
      BY <2>1, <2>2, RequestForms DEF CarriedBy
    <2> QED BY <1>0, <1>5, <2>3, DecideInv DEF PatchRead
  <1>6. ASSUME NEW q \in Quarter, NEW T \in SUBSET Text, FilingCampaign(c, q, T)
        PROVE  Inv'
    <2>1. PICK f \in Campaign \cup {Unfiled} : Decide(c, [op |-> "file", campaign |-> f, left |-> T])
      BY <1>6 DEF FilingCampaign
    <2> QED BY <1>0, <2>1, RequestForms, DecideInv DEF CarriedBy
  <1> QED BY <1>1, <1>2, <1>3, <1>4, <1>5, <1>6 DEF Reads

-----------------------------------------------------------------------------
(* Steps that write a table.                                               *)

LEMMA InvRows == ASSUME Inv PROVE RowsOK
  BY DEF Inv, TypeOK, RowsOK

\* A quarter that is not closed becomes another such: what is on it stays on it.
LEMMA QuarterWritten ==
    ASSUME Inv, NEW r \in Campaign, camp[r].phase # "closed",
           NEW row \in Quarters, row.phase \in Phase \ {"closed"},
           camp' = [camp EXCEPT ![r] = row], UNCHANGED <<pred, assigned, map, sealed>>
    PROVE  RowsOK'
  <1>1. camp' \in [Campaign -> Quarters] /\ camp'[r] = row /\ \A s \in Campaign \ {r} : camp'[s] = camp[s]
    BY DEF Inv, TypeOK
  <1>2. SealedOnlyClosed'
    BY <1>1 DEF Inv, RecordConsistent, SealedOnlyClosed
  <1>3. \A s \in Campaign : Exists(s) => Exists(s)'
    BY <1>1 DEF Exists
  <1>4. NothingOnDeleted'
    BY <1>3 DEF NothingOnDeleted, Inv, TypeOK, RecordConsistent, Rows
  <1> QED BY <1>1, <1>2, <1>4
          DEF Inv, TypeOK, RowsOK, RecordConsistent, LivePredictionOnce, ScoredIsKept, LiveRow

\* A quarter that is open is sealed.
LEMMA QuarterSealed ==
    ASSUME Inv, NEW r \in Campaign, Open(r), NEW as \in Seals,
           camp' = [camp EXCEPT ![r].phase = "closed"], sealed' = [sealed EXCEPT ![r] = as],
           UNCHANGED <<pred, assigned, map>>
    PROVE  RowsOK'
  <1>1. camp' \in [Campaign -> Quarters] /\ camp'[r].phase = "closed"
           /\ \A s \in Campaign \ {r} : camp'[s] = camp[s]
    BY DEF Inv, TypeOK, Quarters, Phase
  <1>2. sealed' \in [Campaign -> Seals] /\ \A s \in Campaign \ {r} : sealed'[s] = sealed[s]
    BY DEF Inv, TypeOK
  <1>3. SealedOnlyClosed'
    BY <1>1, <1>2 DEF Inv, RecordConsistent, SealedOnlyClosed, NoSeal
  <1>4. \A s \in Campaign : Exists(s) => Exists(s)'
    BY <1>1 DEF Exists, Phase
  <1>5. NothingOnDeleted'
    BY <1>4 DEF NothingOnDeleted, Inv, TypeOK, RecordConsistent, Rows
  <1> QED BY <1>1, <1>2, <1>3, <1>5
          DEF Inv, TypeOK, RowsOK, RecordConsistent, LivePredictionOnce, ScoredIsKept, LiveRow

\* A quarter that is open goes, with its assignments; its predictions stay.
LEMMA QuarterDeleted ==
    ASSUME Inv, NEW r \in Campaign, Open(r),
           camp' = [camp EXCEPT ![r].phase = "deleted"],
           assigned' = {a \in assigned : a[1] # r},
           pred' = [p \in Prediction |->
                       IF pred[p].campaign = r THEN [pred[p] EXCEPT !.campaign = Unfiled]
                       ELSE pred[p]],
           UNCHANGED <<map, sealed>>
    PROVE  RowsOK'
  <1>1. camp' \in [Campaign -> Quarters] /\ \A s \in Campaign \ {r} : camp'[s] = camp[s]
    BY DEF Inv, TypeOK, Quarters
  <1>2. ASSUME NEW p \in Prediction
        PROVE  /\ pred'[p] \in Rows
               /\ pred'[p].campaign = (IF pred[p].campaign = r THEN Unfiled ELSE pred[p].campaign)
               /\ pred'[p].status = pred[p].status
               /\ pred'[p].text = pred[p].text
               /\ pred'[p].chance = pred[p].chance
               /\ pred'[p].outcome = pred[p].outcome
    <2>1. pred[p] \in Rows
      BY DEF Inv, TypeOK
    <2> QED BY <2>1 DEF Rows
  <1>3. pred' \in [Prediction -> Rows]
    BY <1>2
  <1>4. SealedOnlyClosed'
    BY <1>1 DEF Inv, RecordConsistent, SealedOnlyClosed, Open
  <1>5. \A s \in Campaign \ {r} : Exists(s) => Exists(s)'
    BY <1>1 DEF Exists
  <1>6. \A p \in Prediction : pred[p].campaign \in Campaign \cup {Unfiled}
    BY DEF Inv, TypeOK, Rows
  <1>7. NothingOnDeleted'
    <2>1. ASSUME NEW p \in Prediction, pred'[p].campaign # Unfiled
          PROVE  Exists(pred[p].campaign)' /\ pred'[p].campaign = pred[p].campaign
      BY <1>2, <1>5, <1>6, <2>1 DEF Inv, RecordConsistent, NothingOnDeleted
    <2>2. \A a \in assigned' : Exists(a[1])'
      BY <1>5 DEF Inv, TypeOK, RecordConsistent, NothingOnDeleted
    <2> QED BY <2>1, <2>2 DEF NothingOnDeleted, Exists
  <1>8. LivePredictionOnce'
    <2>1. ASSUME NEW p \in Prediction, NEW m \in Prediction, p # m,
                 pred'[p].status \in {"proposed", "kept"}, pred'[m].status \in {"proposed", "kept"}
          PROVE  pred'[p].text # pred'[m].text
      <3>1. LiveRow(pred[p]) /\ LiveRow(pred[m])
        BY <1>2, <2>1 DEF LiveRow
      <3> QED BY <1>2, <2>1, <3>1 DEF Inv, RecordConsistent, LivePredictionOnce
    <2> QED BY <2>1 DEF LivePredictionOnce, LiveRow
  <1>9. ScoredIsKept'
    <2>1. ASSUME NEW p \in Prediction, pred'[p].status # "kept"
          PROVE  pred'[p].chance = "" /\ pred'[p].outcome = ""
      BY <1>2, <2>1 DEF Inv, RecordConsistent, ScoredIsKept
    <2> QED BY <2>1 DEF ScoredIsKept
  <1> QED BY <1>1, <1>3, <1>4, <1>7, <1>8, <1>9 DEF Inv, TypeOK, RowsOK, RecordConsistent

\* A prediction is written, filed somewhere that is there, under a wording no
\* other live one has, and scored only if kept.
LEMMA PredictionWritten ==
    ASSUME Inv, NEW p \in Prediction, NEW row \in Rows,
           Fileable(row.campaign), LiveRow(row) => Free(p, row.text), Scorable(row),
           pred' = [pred EXCEPT ![p] = row], UNCHANGED <<camp, assigned, map, sealed>>
    PROVE  RowsOK'
  <1>1. pred' \in [Prediction -> Rows] /\ pred'[p] = row
           /\ \A m \in Prediction \ {p} : pred'[m] = pred[m]
    BY DEF Inv, TypeOK
  <1>2. NothingOnDeleted'
    BY <1>1 DEF NothingOnDeleted, Inv, RecordConsistent, Fileable, Exists
  <1>3. LivePredictionOnce'
    BY <1>1 DEF Inv, RecordConsistent, LivePredictionOnce, LiveRow, Free
  <1>4. ScoredIsKept'
    BY <1>1 DEF Inv, RecordConsistent, ScoredIsKept, Scorable
  <1> QED BY <1>1, <1>2, <1>3, <1>4 DEF Inv, TypeOK, RowsOK, RecordConsistent, SealedOnlyClosed

\* An objective is assigned to a quarter that is there, or taken off one.
LEMMA AssignmentWritten ==
    ASSUME Inv, NEW r \in Campaign, NEW o \in Objective,
           \/ assigned' = assigned \cup {<<r, o>>} /\ Exists(r)
           \/ assigned' = assigned \ {<<r, o>>},
           UNCHANGED <<camp, pred, map, sealed>>
    PROVE  RowsOK'
  <1>1. assigned' \subseteq Campaign \X Objective
    BY DEF Inv, TypeOK
  <1>2. NothingOnDeleted'
    BY DEF Inv, RecordConsistent, NothingOnDeleted, Exists
  <1> QED BY <1>1, <1>2
          DEF Inv, TypeOK, RowsOK, RecordConsistent, SealedOnlyClosed, LivePredictionOnce,
              ScoredIsKept, LiveRow

LEMMA UpdateCampaignInv ==
    ASSUME Inv, NEW c \in Worker, UpdateCampaign(c)
    PROVE  Inv'
  <1>1. req[c].id \in Campaign /\ req[c].row \in Quarters /\ req[c].row.phase \in Phase \ {"closed"}
    BY RequestFields DEF UpdateCampaign, Inv, TypeOK, Carried, CarriedBy
  <1>2. RowsOK'
    <2>1. CASE Writable(req[c].id)
      BY <1>1, <2>1, QuarterWritten DEF UpdateCampaign, Writable, Open
    <2>2. CASE ~Writable(req[c].id)
      BY <2>2, InvRows, SameRows DEF UpdateCampaign
    <2> QED BY <2>1, <2>2
  <1> QED BY <1>2, EndsInv DEF UpdateCampaign

LEMMA SealInv ==
    ASSUME Inv, NEW c \in Worker, SealLoad(c) \/ SealCampaign(c)
    PROVE  Inv'
  <1>1. CASE SealLoad(c)
    <2>1. req[c].id \in Campaign
      BY <1>1, RequestFields DEF SealLoad, Inv, TypeOK
    <2> DEFINE r == [op |-> "seal", id |-> req[c].id, as |-> SealOf(req[c].id)]
    <2>2. r \in Request /\ CarriedBy(r)
      BY <2>1, SealShape, RequestForms DEF CarriedBy
    <2> QED BY <1>1, <2>2, GoesOnInv DEF SealLoad
  <1>2. CASE SealCampaign(c)
    <2>1. req[c].id \in Campaign /\ req[c].as \in Seals
      BY <1>2, RequestFields DEF SealCampaign, Inv, TypeOK
    <2>2. RowsOK'
      <3>1. CASE Writable(req[c].id)
        BY <1>2, <2>1, <3>1, QuarterSealed DEF SealCampaign, Writable
      <3>2. CASE ~Writable(req[c].id)
        BY <1>2, <3>2, InvRows, SameRows DEF SealCampaign
      <3> QED BY <3>1, <3>2
    <2> QED BY <1>2, <2>2, EndsInv DEF SealCampaign
  <1> QED BY <1>1, <1>2

LEMMA DeleteCampaignInv ==
    ASSUME Inv, NEW c \in Worker, DeleteCampaign(c)
    PROVE  Inv'
  <1>1. req[c].id \in Campaign
    BY RequestFields DEF DeleteCampaign, Inv, TypeOK
  <1>2. RowsOK'
    <2>1. CASE Writable(req[c].id)
      BY <1>1, <2>1, QuarterDeleted DEF DeleteCampaign, Writable
    <2>2. CASE ~Writable(req[c].id)
      BY <2>2, InvRows, SameRows DEF DeleteCampaign
    <2> QED BY <2>1, <2>2
  <1> QED BY <1>2, EndsInv DEF DeleteCampaign

LEMMA ObjectivesInv ==
    ASSUME Inv, NEW c \in Worker, ObjectiveOnMap(c) \/ AssignObjective(c) \/ UnassignObjective(c)
    PROVE  Inv'
  <1>0. req[c] \in Request /\ CarriedBy(req[c])
    BY DEF Inv, TypeOK, Carried
  <1>1. CASE ObjectiveOnMap(c)
    <2> DEFINE r == [req[c] EXCEPT !.op = "assign"]
    <2>1. r \in Request
      BY <1>0, <1>1, RequestMoves DEF ObjectiveOnMap
    <2>2. CarriedBy(r)
      <3>1. r.op = "assign"
        BY <1>0, <1>1, RequestFields DEF ObjectiveOnMap, Request
      <3> QED BY <3>1 DEF CarriedBy
    <2>3. Then(c, Idle) \/ Then(c, r)
      BY <1>1 DEF ObjectiveOnMap
    <2> HIDE DEF r
    <2> QED BY <1>1, <2>1, <2>2, <2>3, IdleCarried, GoesOnInv DEF ObjectiveOnMap
  <1>2. CASE AssignObjective(c)
    <2>1. req[c].id \in Campaign /\ req[c].objective \in Objective
      BY <1>0, <1>2, RequestFields DEF AssignObjective
    <2>2. RowsOK'
      BY <1>2, <2>1, AssignmentWritten, InvRows, SameRows DEF AssignObjective
    <2> QED BY <1>2, <2>2, EndsInv DEF AssignObjective
  <1>3. CASE UnassignObjective(c)
    <2>1. req[c].id \in Campaign /\ req[c].objective \in Objective
      BY <1>0, <1>3, RequestFields DEF UnassignObjective
    <2>2. RowsOK'
      BY <1>3, <2>1, AssignmentWritten DEF UnassignObjective
    <2> QED BY <1>3, <2>2, EndsInv DEF UnassignObjective
  <1> QED BY <1>1, <1>2, <1>3

LEMMA RejectClosedInv ==
    ASSUME Inv, NEW c \in Worker, RejectClosed(c)
    PROVE  Inv'
  <1>0. req[c] \in Request /\ CarriedBy(req[c]) /\ req[c].op \in {"from", "to"}
    BY DEF Inv, TypeOK, Carried, RejectClosed
  <1>1. ASSUME NEW op \in {"to", "prediction"}
        PROVE  [req[c] EXCEPT !.op = op] \in Request /\ CarriedBy([req[c] EXCEPT !.op = op])
    <2> DEFINE r == [req[c] EXCEPT !.op = op]
    <2>1. r \in Request /\ r.row = req[c].row
      BY <1>0, RequestMoves
    <2>2. r.op = op
      BY <1>0, RequestFields DEF Request
    <2> HIDE DEF r
    <2>3. CarriedBy(r)
      BY <1>0, <2>1, <2>2 DEF CarriedBy
    <2> QED BY <2>1, <2>3 DEF r
  <1>2. \/ Then(c, Idle)
        \/ \E op \in {"to", "prediction"} : Then(c, [req[c] EXCEPT !.op = op])
    BY DEF RejectClosed
  <1> QED BY <1>1, <1>2, IdleCarried, GoesOnInv DEF RejectClosed

LEMMA UpdatePredictionInv ==
    ASSUME Inv, NEW c \in Worker, UpdatePrediction(c)
    PROVE  Inv'
  <1> DEFINE p == req[c].id
             row == req[c].row
  <1>1. p \in Prediction /\ row \in Rows /\ Scorable(row)
    BY RequestFields DEF UpdatePrediction, Inv, TypeOK, Carried, CarriedBy
  <1>2. RowsOK'
    <2>1. CASE Fileable(row.campaign) /\ (LiveRow(row) => Free(p, row.text))
      BY <1>1, <2>1, PredictionWritten DEF UpdatePrediction
    <2>2. CASE ~(Fileable(row.campaign) /\ (LiveRow(row) => Free(p, row.text)))
      BY <2>2, InvRows, SameRows DEF UpdatePrediction
    <2> QED BY <2>1, <2>2
  <1> QED BY <1>2, EndsInv DEF UpdatePrediction

LEMMA FileFailureInv ==
    ASSUME Inv, NEW c \in Worker, NEW t \in Text, FileFailure(c, t)
    PROVE  Inv'
  <1> DEFINE f == req[c].campaign
             said == \E m \in Prediction : LiveRow(pred[m]) /\ pred[m].text = t
             row == [status |-> "proposed", text |-> t, chance |-> "", outcome |-> "",
                     campaign |-> f]
             left == [req[c] EXCEPT !.left = @ \ {t}]
  <1>1. req[c] \in Request /\ req[c].op = "file" /\ f \in Campaign \cup {Unfiled}
    BY RequestFields DEF FileFailure, Inv, TypeOK
  <1>2. left \in Request /\ CarriedBy(left)
    BY <1>1, RequestMoves DEF CarriedBy
  <1>3. row \in Rows /\ Scorable(row)
    BY <1>1 DEF Rows, Scorable
  <1>4. RowsOK'
    <2>1. CASE ~said /\ Fileable(f)
      <3>1. PICK p \in Prediction : pred' = [pred EXCEPT ![p] = row]
        BY <2>1 DEF FileFailure
      <3>2. Free(p, t)
        BY <2>1 DEF Free
      <3> QED BY <1>3, <2>1, <3>1, <3>2, PredictionWritten DEF FileFailure
    <2>2. CASE ~(~said /\ Fileable(f))
      BY <2>2, InvRows, SameRows DEF FileFailure
    <2> QED BY <2>1, <2>2
  <1>5. Then(c, Idle) \/ Then(c, left)
    BY DEF FileFailure
  <1> HIDE DEF left
  <1> QED BY <1>2, <1>4, <1>5, IdleCarried, ThenKeeps DEF Inv, RowsOK, TypeOK

LEMMA WritesInv ==
    ASSUME Inv, NEW c \in Worker, Writes(c)
    PROVE  Inv'
  <1>1. ASSUME Fail(c) PROVE Inv'
    BY <1>1, IdleCarried, GoesOnInv DEF Fail
  <1> QED BY <1>1, UpdateCampaignInv, SealInv, DeleteCampaignInv, ObjectivesInv, RejectClosedInv,
             UpdatePredictionInv, FileFailureInv DEF Writes

-----------------------------------------------------------------------------
(* The invariant.                                                          *)

LEMMA InitInv == ASSUME Init PROVE Inv
  <1>0. PICK q \in Quarter, t \in Text :
          /\ camp = [r \in Campaign |-> [quarter |-> q, phase |-> "none", note |-> "", review |-> FALSE]]
          /\ pred = [p \in Prediction |-> [status |-> "none", text |-> t, chance |-> "",
                                           outcome |-> "", campaign |-> Unfiled]]
    BY DEF Init
  <1>1. TypeOK
    <2>1. camp \in [Campaign -> Quarters]
      BY <1>0, RecordAssumption DEF Quarters
    <2>2. pred \in [Prediction -> Rows]
      BY <1>0 DEF Rows
    <2>3. NoSeal \in Seals
      BY DEF NoSeal, Seals
    <2> QED BY <2>1, <2>2, <2>3, IdleCarried DEF Init, TypeOK
  <1>2. RecordConsistent
    BY <1>0 DEF Init, RecordConsistent, SealedOnlyClosed, NothingOnDeleted, LivePredictionOnce,
                ScoredIsKept, LiveRow
  <1>3. Carried
    BY IdleCarried DEF Init, Carried
  <1> QED BY <1>1, <1>2, <1>3 DEF Inv

LEMMA NextInv == ASSUME Inv, [Next]_vars PROVE Inv'
  <1>0. Reviewer \in Worker /\ req[Reviewer] \in Request
    BY DEF Worker, Inv, TypeOK
  <1>1. ASSUME NEW r \in Campaign, StartReview(r) PROVE Inv'
    BY <1>0, <1>1, RequestForms, DecideInv DEF StartReview, CarriedBy
  <1>2. ASSUME NEW r \in Campaign, NEW q \in Quarter, OpenQuarter(r, q) PROVE Inv'
    <2> DEFINE row == [quarter |-> q, phase |-> "planning", note |-> "", review |-> FALSE]
    <2>1. row \in Quarters /\ row.phase \in Phase \ {"closed"}
      BY RecordAssumption DEF Quarters, Phase
    <2>2. RowsOK'
      BY <1>2, <2>1, QuarterWritten DEF OpenQuarter
    <2> QED BY <1>2, <2>2 DEF OpenQuarter, Inv, TypeOK, RowsOK, Carried
  <1>3. ASSUME NEW o \in Objective, NEW s \in {"active", "resolved", "withdrawn", "off"},
               MapMoves(o, s)
        PROVE  Inv'
    BY <1>3 DEF MapMoves, Inv, TypeOK, Carried, RecordConsistent, SealedOnlyClosed,
                NothingOnDeleted, LivePredictionOnce, ScoredIsKept, Exists, LiveRow
  <1>4. ASSUME ReviewRead PROVE Inv'
    <2> DEFINE r == req[Reviewer].id
               row == [camp[r] EXCEPT !.review = TRUE]
               asked == [op |-> "campaign", id |-> r, row |-> row]
    <2>1. r \in Campaign /\ camp[r] \in Quarters
      BY <1>0, <1>4, RequestFields DEF ReviewRead, Inv, TypeOK
    <2>2. row \in Quarters /\ row.phase = camp[r].phase
      BY <2>1 DEF Quarters
    <2>3. CASE camp[r].phase = "review"
      <3>1. Then(Reviewer, asked)
        BY <1>4, <2>3 DEF ReviewRead
      <3> HIDE DEF row
      <3>2. asked \in Request /\ CarriedBy(asked)
        BY <2>1, <2>2, <2>3, RequestForms DEF CarriedBy, Phase
      <3> QED BY <1>0, <1>4, <3>1, <3>2, GoesOnInv DEF ReviewRead
    <2>4. CASE camp[r].phase # "review"
      BY <1>0, <1>4, <2>4, IdleCarried, GoesOnInv DEF ReviewRead
    <2> QED BY <2>3, <2>4
  <1>5. ASSUME UNCHANGED vars PROVE Inv'
    BY <1>5 DEF vars, Inv, TypeOK, Carried, RecordConsistent, SealedOnlyClosed,
                NothingOnDeleted, LivePredictionOnce, ScoredIsKept, Exists, LiveRow
  <1> QED BY <1>1, <1>2, <1>3, <1>4, <1>5, ReadsInv, WritesInv DEF Next

\* The record's variables keep to their types.
THEOREM RecordTypeOK == Spec => []TypeOK
  <1>1. Inv => TypeOK
    BY DEF Inv
  <1> QED BY InitInv, NextInv, <1>1, PTL DEF Spec

\* Nothing is filed on a quarter that is gone, nothing sealed is open and none
\* scored that was not kept, for any number of requests
\* that write back what they read before (UpdateCampaign, SealCampaign,
\* DeleteCampaign, UpdatePrediction and the constraints of migration 013).
THEOREM RowsAgree == Spec => []RecordConsistent
  <1>1. Inv => RecordConsistent
    BY DEF Inv, RecordConsistent
  <1> QED BY InitInv, NextInv, <1>1, PTL DEF Spec

\* No write that was decided while a quarter was open changes it once it is
\* closed (the WHERE of UpdateCampaign, SealCampaign and DeleteCampaign).
THEOREM ClosedStaysSealed == Spec => ClosedIsFinal
  <1>1. ASSUME Inv, [Next]_vars, NEW r \in Campaign, camp[r].phase = "closed"
        PROVE  camp'[r] = camp[r] /\ sealed'[r] = sealed[r]
    <2>0. /\ camp \in [Campaign -> Quarters] /\ sealed \in [Campaign -> Seals]
          /\ ~Open(r)
      BY <1>1 DEF Inv, TypeOK, Open
    <2>1. CASE UNCHANGED <<camp, sealed>>
      BY <2>1
    <2>2. ASSUME NEW s \in Campaign, NEW q \in Quarter, OpenQuarter(s, q)
          PROVE  camp'[r] = camp[r] /\ sealed'[r] = sealed[r]
      BY <1>1, <2>0, <2>2 DEF OpenQuarter
    <2>3. ASSUME NEW c \in Worker, UpdateCampaign(c) \/ SealCampaign(c) \/ DeleteCampaign(c)
          PROVE  camp'[r] = camp[r] /\ sealed'[r] = sealed[r]
      BY <2>0, <2>3 DEF UpdateCampaign, SealCampaign, DeleteCampaign, Writable
    <2>4. ASSUME NEW c \in Client, Reads(c) PROVE UNCHANGED <<camp, sealed>>
      BY <2>4 DEF Reads, AdvanceRead, SetNoteRead, DeleteRead, AssignRead, UnassignRead,
                  PatchRead, FilingCampaign, Decide
    <2>5. ASSUME NEW c \in Worker, Writes(c),
                 ~(UpdateCampaign(c) \/ SealCampaign(c) \/ DeleteCampaign(c))
          PROVE  UNCHANGED <<camp, sealed>>
      BY <2>5 DEF Writes, SealLoad, ObjectiveOnMap, AssignObjective, UnassignObjective,
                  RejectClosed, UpdatePrediction, FileFailure, Fail
    <2>6. ASSUME \/ \E s \in Campaign : StartReview(s)
                 \/ \E o \in Objective, s \in {"active", "resolved", "withdrawn", "off"} : MapMoves(o, s)
                 \/ ReviewRead
                 \/ UNCHANGED vars
          PROVE  UNCHANGED <<camp, sealed>>
      BY <2>6 DEF StartReview, MapMoves, ReviewRead, Decide, vars
    <2> QED BY <1>1, <2>1, <2>2, <2>3, <2>4, <2>5, <2>6 DEF Next
  <1>2. Inv /\ [Next]_vars => [\A r \in Campaign : camp[r].phase = "closed"
                                  => camp'[r] = camp[r] /\ sealed'[r] = sealed[r]]_vars
    BY <1>1
  <1> QED BY InitInv, NextInv, <1>2, PTL DEF Spec, ClosedIsFinal
=============================================================================
