-------------------------- MODULE CommitmentsProofs -------------------------
(***************************************************************************)
(* What Commitments keeps for any rows, wordings and requests.             *)
(*                                                                         *)
(* A decided write is carried in req between two statements, so no safety  *)
(* property of the table is inductive alone: Inv adds what is known of the *)
(* rows the pending writes are for.                                        *)
(***************************************************************************)
EXTENDS Commitments, TLAPS

Inv ==
    /\ TypeOK
    /\ LiveFingerprintUnique
    /\ PendingDecisionsSound

-----------------------------------------------------------------------------
(* Facts about the operators.                                              *)

\* A proposal leads to open and dropped only; nothing leads back to proposed.
LEMMA AllowedFacts ==
    /\ allowed["proposed"] = {"open", "dropped"}
    /\ \A s \in Status : allowed[s] \subseteq Status \ {"proposed"}
  BY DEF allowed, Status

\* The fields a request carries, by its operation.
LEMMA RequestFields ==
    ASSUME NEW r \in Request
    PROVE  /\ r.op = "write" => r.id \in Loop /\ r.to \in Status
           /\ r.op = "reword" => r.id \in Loop /\ r.text \in Text /\ r.accept \in BOOLEAN
           /\ r.op = "find" => r.text \in Text
  BY DEF Request

\* Replacing one request by a request keeps the others.
LEMMA ThenFacts ==
    ASSUME TypeOK, NEW c \in Client, NEW r \in Request, Then(c, r)
    PROVE  /\ req' \in [Client -> Request]
           /\ req'[c] = r
           /\ \A d \in Client \ {c} : req'[d] = req[d]
  BY DEF TypeOK, Then

\* The requests the actions leave behind.
LEMMA RequestForms ==
    /\ Idle \in Request
    /\ [op |-> "refused"] \in Request
    /\ \A t \in Text : [op |-> "find", text |-> t] \in Request
    /\ \A l \in Loop, to \in Status : [op |-> "write", id |-> l, to |-> to] \in Request
    /\ \A l \in Loop, t \in Text, a \in BOOLEAN :
         [op |-> "reword", id |-> l, text |-> t, accept |-> a] \in Request
  BY DEF Request, Idle

\* The part of the invariant that speaks of the table alone.
RowsOK ==
    /\ status \in [Loop -> Status \cup {"none"}]
    /\ text \in [Loop -> Text]
    /\ resolved \subseteq Loop
    /\ untouched \subseteq Loop
    /\ LiveFingerprintUnique
    /\ ResolvedStamp

\* A step of the table that pending requests survive: rows stay, and none
\* becomes a proposal that was not one, except by being inserted.
Survivable ==
    \A l \in Loop : Exists(l) =>
        Exists(l)' /\ (status'[l] = "proposed" => status[l] = "proposed")

LEMMA InsertRows ==
    ASSUME RowsOK, NEW l \in Loop, NEW t \in Text, NEW s \in LiveStatus, Insert(l, t, s)
    PROVE  RowsOK' /\ Survivable
  <1>1. /\ status' \in [Loop -> Status \cup {"none"}]
        /\ text' \in [Loop -> Text]
        /\ resolved' \subseteq Loop
        /\ untouched' \subseteq Loop
    BY DEF RowsOK, Insert, Status, LiveStatus
  <1>2. LiveFingerprintUnique'
    BY DEF RowsOK, Insert, LiveFingerprintUnique, Live, Free
  <1>3. ResolvedStamp'
    BY DEF RowsOK, Insert, ResolvedStamp, ResolvedStatus, LiveStatus, Status
  <1>4. Survivable
    BY DEF RowsOK, Insert, Survivable, Exists, LiveStatus
  <1> QED BY <1>1, <1>2, <1>3, <1>4 DEF RowsOK

LEMMA StampRows ==
    ASSUME RowsOK, NEW l \in Loop, NEW to \in Status,
           status[l] = "proposed" \/ to # "proposed", Stamp(l, to)
    PROVE  RowsOK' /\ Survivable
  <1>1. /\ status' \in [Loop -> Status \cup {"none"}]
        /\ text' \in [Loop -> Text]
        /\ resolved' \subseteq Loop
        /\ untouched' \subseteq Loop
    BY DEF RowsOK, Stamp, Resolution
  <1>2. LiveFingerprintUnique'
    BY DEF RowsOK, Stamp, LiveFingerprintUnique, Live, Free
  <1>3. ResolvedStamp'
    BY DEF RowsOK, Stamp, Resolution, ResolvedStamp, ResolvedStatus
  <1>4. Survivable
    BY DEF RowsOK, Stamp, Survivable, Exists, Status
  <1> QED BY <1>1, <1>2, <1>3, <1>4 DEF RowsOK

LEMMA RewriteRows ==
    ASSUME RowsOK, NEW l \in Loop, NEW t \in Text, Rewrite(l, t)
    PROVE  RowsOK' /\ Survivable
  <1>1. LiveFingerprintUnique'
    BY DEF RowsOK, Rewrite, LiveFingerprintUnique, Live, Free
  <1> QED BY <1>1 DEF RowsOK, Rewrite, ResolvedStamp, Survivable, Exists

LEMMA SweepRows ==
    ASSUME RowsOK, Sweep
    PROVE  RowsOK' /\ Survivable
  <1>1. status' \in [Loop -> Status \cup {"none"}]
    BY DEF RowsOK, Sweep, Status
  <1>2. LiveFingerprintUnique'
    BY DEF RowsOK, Sweep, LiveFingerprintUnique, Live, LiveStatus
  <1>3. ResolvedStamp'
    BY DEF RowsOK, Sweep, ResolvedStamp, ResolvedStatus
  <1>4. Survivable
    BY DEF RowsOK, Sweep, Survivable, Exists
  <1> QED BY <1>1, <1>2, <1>3, <1>4 DEF RowsOK, Sweep

LEMMA UnchangedRows ==
    ASSUME RowsOK, status' = status, text' = text, resolved' = resolved,
           untouched' \subseteq Loop
    PROVE  RowsOK' /\ Survivable
  BY DEF RowsOK, LiveFingerprintUnique, Live, ResolvedStamp, Survivable, Exists

-----------------------------------------------------------------------------
(* The requests.                                                           *)

\* A sound decision stays sound through a step of the table.
LEMMA DecisionSurvives ==
    ASSUME NEW r \in Request, PendingDecision(r), Survivable
    PROVE  PendingDecision(r)'
  BY RequestFields DEF PendingDecision, Survivable, Exists

\* A step of the table that leaves the requests alone.
LEMMA RowStep ==
    ASSUME Inv, RowsOK', Survivable, req' = req,
           extract' \in {"idle", "asking", "storing", "late"}, left' \subseteq Text
    PROVE  Inv'
  <1>1. ASSUME NEW c \in Client PROVE PendingDecision(req[c])'
    BY <1>1, DecisionSurvives DEF Inv, TypeOK, PendingDecisionsSound, PendingDecision
  <1> QED BY <1>1 DEF Inv, TypeOK, RowsOK, PendingDecisionsSound, PendingDecision

\* A step of one request, which leaves it with a sound decision.
LEMMA RequestStep ==
    ASSUME Inv, RowsOK', Survivable, slot' = slot,
           NEW c \in Client, NEW r \in Request, Then(c, r),
           PendingDecision(r)'
    PROVE  Inv'
  <1>1. /\ req' \in [Client -> Request]
        /\ req'[c] = r
        /\ \A d \in Client \ {c} : req'[d] = req[d]
    BY ThenFacts DEF Inv
  <1>2. ASSUME NEW d \in Client PROVE PendingDecision(req[d])'
    <2>1. CASE d = c
      BY <1>1, <2>1 DEF PendingDecision
    <2>2. CASE d # c
      BY <1>1, <2>2, DecisionSurvives DEF Inv, TypeOK, PendingDecisionsSound, PendingDecision
    <2> QED BY <2>1, <2>2
  <1> QED BY <1>1, <1>2 DEF Inv, TypeOK, RowsOK, slot, PendingDecisionsSound, PendingDecision

\* The initial table is empty and nothing is pending.
LEMMA InitInv == Init => Inv
  BY RequestForms
  DEF Init, Inv, TypeOK, LiveFingerprintUnique, Live, LiveStatus, ResolvedStamp,
      ResolvedStatus, PendingDecisionsSound, PendingDecision, Idle

LEMMA InvRows == Inv => RowsOK
  BY DEF Inv, RowsOK, TypeOK

\* Creating finds nothing pending and leaves either a row or a search.
LEMMA CreateSteps ==
    ASSUME Inv, NEW c \in Client, NEW t \in Text,
           CreateNew(c, t) \/ CreateDuplicate(c, t)
    PROVE  Inv'
  <1>1. CASE CreateNew(c, t)
    <2>1. PICK l \in Loop : Insert(l, t, "open") BY <1>1 DEF CreateNew
    <2>2. RowsOK' /\ Survivable BY <2>1, InvRows, InsertRows DEF LiveStatus
    <2> QED BY <1>1, <2>2, RowStep DEF CreateNew, slot, Inv, TypeOK
  <1>2. CASE CreateDuplicate(c, t)
    <2> DEFINE r == [op |-> "find", text |-> t]
    <2>1. r \in Request BY RequestForms
    <2>2. PendingDecision(r)' BY DEF PendingDecision
    <2>3. RowsOK' /\ Survivable
      BY <1>2, InvRows, UnchangedRows DEF CreateDuplicate, rows, RowsOK
    <2>4. Then(c, r) /\ slot' = slot BY <1>2 DEF CreateDuplicate, slot
    <2> HIDE DEF r
    <2> QED BY <2>1, <2>2, <2>3, <2>4, RequestStep
  <1> QED BY <1>1, <1>2

\* A confirming findLive decides only on a proposal it has just listed.
LEMMA FindSteps ==
    ASSUME Inv, NEW c \in Client, FindLive(c) \/ Answer(c) \/ Disconnect(c)
    PROVE  Inv'
  <1>1. PICK r \in Request : Then(c, r) /\ PendingDecision(r)
    <2>1. CASE FindLive(c)
      <3>1. PICK S \in SUBSET Loop :
              LET same == {l \in S : text[l] = req[c].text} IN
              \/ Then(c, [op |-> "refused"])
              \/ \E l \in same :
                   Then(c, IF status[l] = "proposed"
                           THEN [op |-> "write", id |-> l, to |-> "open"]
                           ELSE Idle)
        BY <2>1 DEF FindLive
      <3>2. CASE Then(c, [op |-> "refused"])
        BY <3>2, RequestForms DEF PendingDecision
      <3>3. CASE ~Then(c, [op |-> "refused"])
        <4>1. PICK l \in Loop :
                Then(c, IF status[l] = "proposed"
                        THEN [op |-> "write", id |-> l, to |-> "open"]
                        ELSE Idle)
          BY <3>1, <3>3
        <4>2. CASE status[l] = "proposed"
          BY <4>1, <4>2, RequestForms DEF PendingDecision, Exists, Status
        <4>3. CASE status[l] # "proposed"
          BY <4>1, <4>3, RequestForms DEF PendingDecision, Idle
        <4> QED BY <4>2, <4>3
      <3> QED BY <3>2, <3>3
    <2>2. CASE Answer(c) \/ Disconnect(c)
      BY <2>2, RequestForms DEF Answer, Disconnect, PendingDecision, Idle
    <2> QED BY <2>1, <2>2
  <1>2. status' = status /\ text' = text /\ resolved' = resolved
          /\ untouched' = untouched /\ slot' = slot
    BY DEF FindLive, Answer, Disconnect, rows, slot
  <1>3. RowsOK' /\ Survivable
    BY <1>2, InvRows, UnchangedRows DEF RowsOK
  <1>4. PendingDecision(r)'
    BY <1>1, <1>2 DEF PendingDecision, Exists
  <1> QED BY <1>1, <1>2, <1>3, <1>4, RequestStep

\* SetStatus and Edit decide on the row they read.
LEMMA ReadSteps ==
    ASSUME Inv, NEW c \in Client, NEW l \in Loop, NEW to \in Status, NEW t \in Text,
           SetStatusRead(c, l, to) \/ EditRead(c, l, t)
    PROVE  Inv'
  <1>1. PICK r \in Request : Then(c, r) /\ PendingDecision(r)
    <2>1. CASE SetStatusRead(c, l, to)
      <3>1. status[l] \in Status BY <2>1 DEF SetStatusRead, Inv, TypeOK, Exists
      <3>2. to # "proposed" /\ (status[l] = "proposed" => to \in {"open", "dropped"})
        BY <2>1, <3>1, AllowedFacts DEF SetStatusRead
      <3> QED BY <2>1, <3>2, RequestForms DEF SetStatusRead, PendingDecision
    <2>2. CASE EditRead(c, l, t)
      BY <2>2, RequestForms DEF EditRead, PendingDecision
    <2> QED BY <2>1, <2>2
  <1>2. status' = status /\ text' = text /\ resolved' = resolved
          /\ untouched' = untouched /\ slot' = slot
    BY DEF SetStatusRead, EditRead, rows, slot
  <1>3. RowsOK' /\ Survivable
    BY <1>2, InvRows, UnchangedRows DEF RowsOK
  <1>4. PendingDecision(r)'
    BY <1>1, <1>2 DEF PendingDecision, Exists
  <1> QED BY <1>1, <1>2, <1>3, <1>4, RequestStep

\* A decided write meets the row as it is by now.
LEMMA WriteStep ==
    ASSUME Inv, NEW c \in Client, SetStatusWrite(c)
    PROVE  Inv'
  <1>1. req[c] \in Request /\ PendingDecision(req[c]) /\ req[c].op = "write"
    BY DEF Inv, TypeOK, PendingDecisionsSound, SetStatusWrite
  <1>2. req[c].id \in Loop /\ req[c].to \in Status /\ req[c].to # "proposed"
    BY <1>1, RequestFields DEF PendingDecision
  <1>3. RowsOK' /\ Survivable
    <2>1. CASE Stamp(req[c].id, req[c].to)
      BY <1>2, <2>1, InvRows, StampRows
    <2>2. CASE UNCHANGED rows
      BY <2>2, InvRows, UnchangedRows DEF rows, RowsOK
    <2> QED BY <2>1, <2>2 DEF SetStatusWrite
  <1>4. Idle \in Request /\ Then(c, Idle) /\ PendingDecision(Idle)' /\ slot' = slot
    BY RequestForms DEF SetStatusWrite, PendingDecision, Idle, slot
  <1> QED BY <1>3, <1>4, RequestStep

\* An edit rewrites the row; if it read a proposal, it decides to accept it.
LEMMA EditStep ==
    ASSUME Inv, NEW c \in Client, EditWrite(c)
    PROVE  Inv'
  <1>1. req[c] \in Request /\ PendingDecision(req[c]) /\ req[c].op = "reword"
    BY DEF Inv, TypeOK, PendingDecisionsSound, EditWrite
  <1>2. req[c].id \in Loop /\ req[c].text \in Text /\ Exists(req[c].id)
    BY <1>1, RequestFields DEF PendingDecision
  <1>3. CASE Rewrite(req[c].id, req[c].text)
    <2>1. RowsOK' /\ Survivable
      BY <1>2, <1>3, InvRows, RewriteRows
    <2>2. PICK r \in Request : Then(c, r) /\ (r = Idle \/ r = [op |-> "write", id |-> req[c].id, to |-> "open"])
      BY <1>2, RequestForms DEF EditWrite, Status
    <2>3. PendingDecision(r)'
      BY <1>2, <1>3, <2>2 DEF PendingDecision, Exists, Rewrite, Idle
    <2> QED BY <2>1, <2>2, <2>3, RequestStep DEF EditWrite, slot
  <1>4. CASE UNCHANGED rows /\ Then(c, Idle)
    <2>1. RowsOK' /\ Survivable
      BY <1>4, InvRows, UnchangedRows DEF rows, RowsOK
    <2>2. Idle \in Request /\ PendingDecision(Idle)' /\ slot' = slot
      BY RequestForms DEF EditWrite, PendingDecision, Idle, slot
    <2> QED BY <1>4, <2>1, <2>2, RequestStep
  <1> QED BY <1>3, <1>4 DEF EditWrite

\* Proposals stored without a request, by the campaign or the extraction.
LEMMA StoreSteps ==
    ASSUME Inv, NEW t \in Text, Propose(t) \/ StoreCandidate(t)
    PROVE  Inv'
  <1>1. RowsOK' /\ Survivable
    <2>1. CASE \E l \in Loop : Insert(l, t, "proposed")
      BY <2>1, InvRows, InsertRows DEF LiveStatus
    <2>2. CASE UNCHANGED rows
      BY <2>2, InvRows, UnchangedRows DEF rows, RowsOK
    <2> QED BY <2>1, <2>2 DEF Propose, StoreCandidate
  <1>2. req' = req /\ extract' = extract /\ left' \subseteq Text
    BY DEF Propose, StoreCandidate, slot, Inv, TypeOK
  <1> QED BY <1>1, <1>2, RowStep DEF Inv, TypeOK

\* Touching, ageing and sweeping, the extraction slot, and a restart.
LEMMA OtherSteps ==
    ASSUME Inv,
           \/ \E l \in Loop : SetTarget(l) \/ Age(l)
           \/ ObserveTurn \/ ParseCandidates \/ TimeOut \/ Returns \/ ExtractionFails
           \/ Sweep
           \/ Restart
    PROVE  Inv'
  <1>1. CASE \E l \in Loop : SetTarget(l) \/ Age(l)
    <2>1. status' = status /\ text' = text /\ resolved' = resolved
            /\ untouched' \subseteq Loop /\ req' = req /\ slot' = slot
      BY <1>1 DEF SetTarget, Age, slot, Inv, TypeOK
    <2>2. RowsOK' /\ Survivable BY <2>1, InvRows, UnchangedRows
    <2> QED BY <2>1, <2>2, RowStep DEF slot, Inv, TypeOK
  <1>2. CASE ObserveTurn \/ ParseCandidates \/ TimeOut \/ Returns \/ ExtractionFails
    <2>1. /\ UNCHANGED <<rows, req>>
          /\ extract' \in {"idle", "asking", "storing", "late"}
          /\ left' \subseteq Text
      BY <1>2 DEF ObserveTurn, ParseCandidates, TimeOut, Returns, ExtractionFails, FreeSlot,
                  Inv, TypeOK
    <2>2. RowsOK' /\ Survivable
      BY <2>1, InvRows, UnchangedRows DEF rows, RowsOK
    <2> QED BY <2>1, <2>2, RowStep
  <1>3. CASE Sweep
    <2>1. RowsOK' /\ Survivable BY <1>3, InvRows, SweepRows
    <2> QED BY <1>3, <2>1, RowStep DEF Sweep, slot, Inv, TypeOK
  <1>4. CASE Restart
    BY <1>4, RequestForms
    DEF Restart, rows, Inv, TypeOK, LiveFingerprintUnique, Live, ResolvedStamp,
        PendingDecisionsSound, PendingDecision, Idle
  <1> QED BY <1>1, <1>2, <1>3, <1>4

LEMMA NextInv == Inv /\ [Next]_vars => Inv'
  <1> SUFFICES ASSUME Inv, [Next]_vars PROVE Inv'
    OBVIOUS
  <1>1. CASE UNCHANGED vars
    BY <1>1 DEF vars, Inv, TypeOK, LiveFingerprintUnique, Live, ResolvedStamp,
                PendingDecisionsSound, PendingDecision, Exists
  <1>2. ASSUME NEW c \in Client,
               \/ \E t \in Text : CreateNew(c, t) \/ CreateDuplicate(c, t)
               \/ FindLive(c) \/ Answer(c) \/ Disconnect(c)
               \/ SetStatusWrite(c) \/ EditWrite(c)
        PROVE  Inv'
    BY <1>2, CreateSteps, FindSteps, WriteStep, EditStep
  <1>3. ASSUME NEW c \in Client, NEW l \in Loop, NEW to \in Status, SetStatusRead(c, l, to)
        PROVE  Inv'
    <2>1. PICK t \in Text : TRUE BY CommitmentsAssumption
    <2> QED BY <1>3, ReadSteps
  <1>4. ASSUME NEW c \in Client, NEW l \in Loop, NEW t \in Text, EditRead(c, l, t)
        PROVE  Inv'
    <2>1. "open" \in Status BY DEF Status
    <2> QED BY <1>4, <2>1, ReadSteps
  <1>5. ASSUME NEW t \in Text, Propose(t) \/ StoreCandidate(t)
        PROVE  Inv'
    BY <1>5, StoreSteps
  <1> QED BY <1>1, <1>2, <1>3, <1>4, <1>5, OtherSteps DEF Next

-----------------------------------------------------------------------------
(* The theorems.                                                           *)

LEMMA InvHolds == Spec => []Inv
  <1>1. Init => Inv BY InitInv
  <1>2. Inv /\ [Next]_vars => Inv' BY NextInv
  <1> QED BY <1>1, <1>2, PTL DEF Spec

\* Every variable keeps to its type (the columns of the commitments table, the
\* requests of manage.go and the slot of extract.go), and the resolution time is
\* set exactly on done and dropped rows.
THEOREM CommitmentsTypeOK == Spec => []TypeOK
  <1>1. Inv => TypeOK BY DEF Inv
  <1> QED BY <1>1, InvHolds, PTL

\* One promise is one outstanding row, however requests cross: the index is
\* enough because every statement that makes or rewords a live row meets it.
THEOREM FingerprintUnique == Spec => []LiveFingerprintUnique
  <1>1. Inv => LiveFingerprintUnique BY DEF Inv
  <1> QED BY <1>1, InvHolds, PTL

\* A decision taken on a read stays sound for a proposal until it is written.
THEOREM DecisionsSound == Spec => []PendingDecisionsSound
  <1>1. Inv => PendingDecisionsSound BY DEF Inv
  <1> QED BY <1>1, InvHolds, PTL

-----------------------------------------------------------------------------
(* The list implements the ledger.                                         *)

\* The statements of the table are the ledger's operations.
LEMMA StatementsAreLedgerSteps ==
    ASSUME Inv, NEW l \in Loop, NEW t \in Text, NEW s \in LiveStatus, NEW to \in Status
    PROVE  /\ Insert(l, t, s) => Ledger!Next
           /\ /\ Exists(l) /\ to # "proposed"
              /\ status[l] = "proposed" => to \in {"open", "dropped"}
              /\ Stamp(l, to)
              => Ledger!Next
           /\ Exists(l) /\ Rewrite(l, t) => Ledger!Next
  <1>1. ASSUME Insert(l, t, s) PROVE Ledger!Next
    <2>1. Ledger!Add(l, t, s)
      BY <1>1 DEF Insert, Free, Live, LiveStatus, Ledger!Add, Ledger!Free, Ledger!Live,
                  Ledger!LiveStatus
    <2>2. s \in Ledger!LiveStatus BY DEF LiveStatus, Ledger!LiveStatus
    <2> QED BY <2>1, <2>2 DEF Ledger!Next
  <1>2. ASSUME Exists(l), to # "proposed",
               status[l] = "proposed" => to \in {"open", "dropped"}, Stamp(l, to)
        PROVE  Ledger!Next
    <2>1. Ledger!Move(l, to)
      BY <1>2 DEF Stamp, Exists, Free, Live, LiveStatus, Status, Ledger!Move, Ledger!Leaves,
                  Ledger!Free, Ledger!Live, Ledger!LiveStatus, Ledger!Status
    <2>2. to \in Ledger!Status BY DEF Status, Ledger!Status
    <2> QED BY <2>1, <2>2 DEF Ledger!Next
  <1>3. ASSUME Exists(l), Rewrite(l, t) PROVE Ledger!Next
    <2>1. Ledger!Reword(l, t)
      BY <1>3 DEF Rewrite, Exists, Free, Live, LiveStatus, Ledger!Reword, Ledger!Free,
                  Ledger!Live, Ledger!LiveStatus
    <2> QED BY <2>1 DEF Ledger!Next
  <1> QED BY <1>1, <1>2, <1>3

LEMMA LedgerStep ==
    ASSUME Inv, [Next]_vars
    PROVE  Ledger!Next \/ UNCHANGED <<status, text>>
  <1>1. ASSUME NEW l \in Loop, NEW t \in Text, NEW s \in LiveStatus, Insert(l, t, s)
        PROVE  Ledger!Next
    <2>1. "open" \in Status BY DEF Status
    <2> QED BY <1>1, <2>1, StatementsAreLedgerSteps
  <1>2. ASSUME NEW c \in Client, SetStatusWrite(c)
        PROVE  Ledger!Next \/ UNCHANGED <<status, text>>
    <2>1. /\ req[c].id \in Loop /\ req[c].to \in Status
          /\ Exists(req[c].id) /\ req[c].to # "proposed"
          /\ status[req[c].id] = "proposed" => req[c].to \in {"open", "dropped"}
      BY <1>2, RequestFields
      DEF Inv, TypeOK, PendingDecisionsSound, PendingDecision, SetStatusWrite
    <2>2. CASE Stamp(req[c].id, req[c].to)
      <3>1. PICK t \in Text : TRUE BY CommitmentsAssumption
      <3>2. "open" \in LiveStatus BY DEF LiveStatus
      <3> QED BY <2>1, <2>2, <3>1, <3>2, StatementsAreLedgerSteps
    <2>3. CASE UNCHANGED rows BY <2>3 DEF rows
    <2> QED BY <1>2, <2>2, <2>3 DEF SetStatusWrite
  <1>3. ASSUME NEW c \in Client, EditWrite(c)
        PROVE  Ledger!Next \/ UNCHANGED <<status, text>>
    <2>1. req[c].id \in Loop /\ req[c].text \in Text /\ Exists(req[c].id)
      BY <1>3, RequestFields
      DEF Inv, TypeOK, PendingDecisionsSound, PendingDecision, EditWrite
    <2>2. CASE Rewrite(req[c].id, req[c].text)
      <3>1. "open" \in LiveStatus /\ "open" \in Status BY DEF LiveStatus, Status
      <3> QED BY <2>1, <2>2, <3>1, StatementsAreLedgerSteps
    <2>3. CASE UNCHANGED rows BY <2>3 DEF rows
    <2> QED BY <1>3, <2>2, <2>3 DEF EditWrite
  <1>4. ASSUME Sweep PROVE Ledger!Next
    <2> DEFINE S == {l \in Loop : status[l] = "open" /\ l \in untouched}
    <2>1. Ledger!Tire(S) BY <1>4 DEF Sweep, Ledger!Tire
    <2>2. S \in SUBSET Loop OBVIOUS
    <2> QED BY <2>1, <2>2 DEF Ledger!Next
  <1>5. "open" \in LiveStatus /\ "proposed" \in LiveStatus BY DEF LiveStatus
  <1>6. CASE \E c \in Client :
               \/ \E t \in Text : CreateNew(c, t) \/ CreateDuplicate(c, t)
               \/ FindLive(c) \/ Answer(c) \/ Disconnect(c)
               \/ \E l \in Loop, to \in Status : SetStatusRead(c, l, to)
               \/ \E l \in Loop, t \in Text : EditRead(c, l, t)
    BY <1>1, <1>5, <1>6
    DEF CreateNew, CreateDuplicate, FindLive, Answer, Disconnect, SetStatusRead, EditRead, rows
  <1>7. CASE \E t \in Text : Propose(t) \/ StoreCandidate(t)
    BY <1>1, <1>5, <1>7 DEF Propose, StoreCandidate, rows
  <1>8. CASE \/ \E l \in Loop : SetTarget(l) \/ Age(l)
             \/ ObserveTurn \/ ParseCandidates \/ TimeOut \/ Returns \/ ExtractionFails
             \/ Restart
             \/ UNCHANGED vars
    BY <1>8
    DEF SetTarget, Age, ObserveTurn, ParseCandidates, TimeOut, Returns, ExtractionFails,
        FreeSlot, Restart, rows, vars
  <1> QED BY <1>2, <1>3, <1>4, <1>6, <1>7, <1>8 DEF Next

\* The list implements the ledger: behind requests that read and then write,
\* a reader of the table sees loops added, moved and reworded one at a time.
THEOREM CommitmentsImplementLedger == Spec => ImplementsLedger
  <1>1. Init => Ledger!Init BY DEF Init, Ledger!Init
  <1>2. Inv /\ [Next]_vars => [Ledger!Next]_(Ledger!vars)
    BY LedgerStep DEF Ledger!vars
  <1> QED BY <1>1, <1>2, InvHolds, PTL DEF Spec, ImplementsLedger, Ledger!Spec

\* No statement takes a proposal to done or to stale.
THEOREM ProposalsAcceptedFirst == Spec => ProposalAcceptedFirst
  <1>1. ASSUME Inv, [Next]_vars, NEW l \in Loop,
               status[l] = "proposed", status'[l] # "proposed"
        PROVE  status'[l] \in {"open", "dropped"}
    <2>1. Ledger!Next BY <1>1, LedgerStep
    <2> QED BY <1>1, <2>1
        DEF Ledger!Next, Ledger!Add, Ledger!Move, Ledger!Leaves, Ledger!Reword,
            Ledger!Tire, Ledger!Status, Inv, TypeOK
  <1>2. Inv /\ [Next]_vars =>
          [\A l \in Loop : status[l] = "proposed" /\ status'[l] # "proposed"
             => status'[l] \in {"open", "dropped"}]_vars
    BY <1>1
  <1> QED BY <1>2, InvHolds, PTL DEF Spec, ProposalAcceptedFirst
=============================================================================
