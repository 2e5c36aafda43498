----------------------------- MODULE CampaignMap ------------------------------
(***************************************************************************)
(* The campaign map: campaign/usecase (manage, extract and the writes of   *)
(* logistics) over the tables fronts, campaign_items and sorties, and the  *)
(* orders of the open-loop list that are aimed at its items.               *)
(*                                                                         *)
(* Each SQL statement is one step.  A request reads a row, builds the row  *)
(* it will write, checks the front and the objective it names and writes   *)
(* the whole row by id; req[c] carries it from statement to statement.  A  *)
(* turn read for intelligence lists the map, asks the model and inserts    *)
(* its proposals one by one against what it listed.  A request refused for *)
(* what it asks changes nothing and has no action.  Dates, costs, kinds of *)
(* stuck and resolved_at follow the row and are left out.                  *)
(***************************************************************************)
EXTENDS FiniteSets, Integers

CONSTANTS
    Item,         \* rows campaign_items may ever hold (the bound on inserts)
    Front,        \* rows fronts may ever hold
    Name,         \* names of fronts, up to case
    Starters,     \* StarterFronts
    Text,         \* wordings up to service.Fingerprint
    Loop,         \* orders the open-loop list may ever hold
    Client,       \* requests and read turns in flight together
    Patch,        \* bodies of PATCH /campaign/items/{id} that are sent
    Draft,        \* rows asked of POST /campaign/items
    MaxProposals, \* proposals one read turn may store
    MaxSorties,   \* sorties logged (the bound on inserts)
    Nowhere,      \* no front, no objective, no target
    Same          \* a field the body does not name

Type == {"objective", "obstacle", "unknown"}

Status == {"proposed", "active", "resolved", "withdrawn", "dropped"}

Live == {"proposed", "active"}

ASSUME MapAssumption ==
    /\ IsFiniteSet(Item) /\ IsFiniteSet(Front)
    /\ Starters \subseteq Name
    /\ MaxProposals \in Nat /\ MaxSorties \in Nat
    /\ Nowhere \notin Item \cup Front
    /\ Same \notin Item \cup Front \cup Text \cup Status \cup {Nowhere, "set", "confirm"}
    /\ Patch \subseteq
        [text : Text \cup {Same}, front : Front \cup {Nowhere, Same},
         bears : Item \cup {Nowhere, Same}, strength : {Same, "set", "confirm"},
         worth : BOOLEAN, to : Status \cup {Same}]

Row ==
    [type : Type, status : Status, text : Text, front : Front \cup {Nowhere},
     bears : Item \cup {Nowhere}, strength : {"none", "estimate", "confirmed"},
     answered : BOOLEAN]

ASSUME DraftAssumption ==
    \A row \in Draft : row \in Row /\ row.status = "active" /\ ~row.answered /\ row.strength # "estimate"

VARIABLES
    rows,    \* campaign_items
    fronts,  \* the fronts table
    loops,   \* commitments: status, kind and target
    sorties, \* what was flown: front and order
    req,     \* req[c], what request c carries to its next statement
    agreed   \* history: items the owner entered, or asked to keep

vars == <<rows, fronts, loops, sorties, req, agreed>>

None == [status |-> "none"]

FrontRow == [status : {"active", "withdrawn"}, name : Name, funds : BOOLEAN]

LoopRow ==
    [status : {"proposed", "open", "ended"}, text : Text,
     kind : {"order", "recon"}, target : Item \cup {Nowhere}]

Held(i) == rows[i] # None

Idle == [op |-> "idle"]

Ops == {"idle", "item", "create", "order", "find", "accept", "aim", "front",
        "sortie", "read", "probe"}

\* The CHECKs of the table are part of the type: a row that failed one would
\* be an error of the database the code does not expect.
TypeOK ==
    /\ rows \in [Item -> Row \cup {None}]
    /\ \A i \in Item : Held(i) =>
        /\ rows[i].status = "withdrawn" => rows[i].type = "objective"
        /\ rows[i].strength # "none" => rows[i].type = "obstacle"
        /\ rows[i].answered => rows[i].type = "unknown"
    /\ fronts \in [Front -> FrontRow \cup {None}]
    /\ loops \in [Loop -> LoopRow \cup {None}]
    /\ sorties \in SUBSET [front : Front, order : Loop \cup {Nowhere}]
    /\ \A c \in Client : req[c].op \in Ops
    /\ agreed \subseteq Item

Init ==
    /\ rows = [i \in Item |-> None]
    /\ fronts = [f \in Front |-> None]
    /\ loops = [l \in Loop |-> None]
    /\ sorties = {}
    /\ req = [c \in Client |-> Idle]
    /\ agreed = {}

Goto(c, r) == req' = [req EXCEPT ![c] = r]

-----------------------------------------------------------------------------
(* The statements of the repository.                                       *)

\* uq_campaign_items_live_fingerprint lets row i be live as type and wording.
FreeItem(i, type, text) ==
    \A j \in Item \ {i} :
        Held(j) /\ rows[j].status \in Live => <<rows[j].type, rows[j].text>> # <<type, text>>

\* Repository.UpdateItem: the whole row by id, whatever it says by now.
UpdateItem(i, row) ==
    /\ row.status \in Live => FreeItem(i, row.type, row.text)
    /\ rows' = [rows EXCEPT ![i] = row]

\* Repository.CreateItem when the index lets it in; ErrDuplicate otherwise.
InsertItem(i, row) ==
    /\ ~Held(i)
    /\ UpdateItem(i, row)

ActiveFronts == {f \in Front : fronts[f] # None /\ fronts[f].status = "active"}

\* uq_fronts_active_name.
FreeName(f, n) ==
    \A g \in ActiveFronts \ {f} : fronts[g].name # n

UpdateFrontRow(f, row) ==
    /\ row.status = "active" => FreeName(f, row.name)
    /\ fronts' = [fronts EXCEPT ![f] = row]

InsertFront(f, n) ==
    /\ fronts[f] = None
    /\ UpdateFrontRow(f, [status |-> "active", name |-> n, funds |-> FALSE])

LoopFree(l, t) ==
    \A m \in Loop \ {l} : loops[m] # None /\ loops[m].status # "ended" => loops[m].text # t

InsertLoop(l, row) ==
    /\ loops[l] = None
    /\ LoopFree(l, row.text)
    /\ loops' = [loops EXCEPT ![l] = row]

LoopTaken(t) == \E l \in Loop : loops[l] # None /\ loops[l].status # "ended" /\ loops[l].text = t

-----------------------------------------------------------------------------
(* Fronts.                                                                 *)

CreateFront(c, f, n) ==
    /\ req[c] = Idle
    /\ InsertFront(f, n)
    /\ UNCHANGED <<rows, loops, sorties, req, agreed>>

\* AddStarters: one insert per starter, those that exist are skipped.
AddStarters(c) ==
    /\ req[c] = Idle
    /\ Goto(c, [op |-> "front", at |-> "starters", left |-> Starters])
    /\ UNCHANGED <<rows, fronts, loops, sorties, agreed>>

AddStarter(c, n) ==
    /\ req[c].op = "front" /\ req[c].at = "starters" /\ n \in req[c].left
    /\ \/ \E f \in Front : InsertFront(f, n)
       \/ /\ \E f \in ActiveFronts : fronts[f].name = n
          /\ UNCHANGED fronts
    /\ Goto(c, IF req[c].left = {n} THEN Idle ELSE [req[c] EXCEPT !.left = @ \ {n}])
    /\ UNCHANGED <<rows, loops, sorties, agreed>>

\* UpdateFront and SetFunds: both read the row and write all of it.
ReadFront(c, f) ==
    /\ req[c] = Idle
    /\ fronts[f] # None
    /\ \E row \in {new \in FrontRow : new.funds = fronts[f].funds}
                  \cup {[fronts[f] EXCEPT !.funds = b] : b \in BOOLEAN} :
        Goto(c, [op |-> "front", at |-> "write", id |-> f, row |-> row])
    /\ UNCHANGED <<rows, fronts, loops, sorties, agreed>>

WriteFront(c) ==
    /\ req[c].op = "front" /\ req[c].at = "write"
    /\ UpdateFrontRow(req[c].id, req[c].row)
    /\ Goto(c, Idle)
    /\ UNCHANGED <<rows, loops, sorties, agreed>>

-----------------------------------------------------------------------------
(* Items.                                                                  *)

\* Slip: any change of status is one.
allowedAnything == [s \in Status |-> Status \ {s}]

\* The transitions of Manage.Update.
allowed ==
    [s \in Status |->
        CASE s = "proposed" -> {"active", "dropped"}
          [] s = "active"   -> {"resolved", "withdrawn", "dropped"}
          [] OTHER          -> {"active"}]

\* Slip: anything may be withdrawn.
TransitionOfAny(row, to) == to = row.status \/ to \in allowed[row.status]

Transition(row, to) ==
    \/ to = row.status
    \/ to \in allowed[row.status] /\ (to = "withdrawn" => row.type = "objective")

\* place runs for a new wording too, over the places the row already has.
Replaced(p) == p.text # Same \/ p.front # Same \/ p.bears # Same

Edited(p) == Replaced(p) \/ p.strength # Same \/ p.worth

Or(new, old) == IF new = Same THEN old ELSE new

Target(row, p) ==
    IF p.to # Same THEN p.to
    ELSE IF Edited(p) /\ row.status = "proposed" THEN "active" ELSE row.status

Strength(row, p) ==
    CASE p.strength = "set"     -> "confirmed"
      [] p.strength = "confirm" -> IF row.strength = "none" THEN "none" ELSE "confirmed"
      [] OTHER                  -> row.strength

\* The row an update will write, apart from a front it inherits.
Patched(row, p) ==
    [row EXCEPT !.text = Or(p.text, @), !.front = Or(p.front, @), !.bears = Or(p.bears, @),
                !.strength = Strength(row, p), !.status = Target(row, p)]

\* What place has to look up for a row, in its order.
Lookups(row) ==
    (IF row.front = Nowhere THEN {} ELSE {"front"})
        \cup (IF row.bears = Nowhere THEN {} ELSE {"bears"})

\* An update of item i: read, with what it asks settled against the row read.
Update(c, i, p) ==
    /\ req[c] = Idle
    /\ Held(i)
    /\ p.strength # Same => rows[i].type = "obstacle"
    /\ p.worth => rows[i].type = "objective"
    /\ Transition(rows[i], Target(rows[i], p))
    /\ LET row == Patched(rows[i], p) IN
        /\ Replaced(p) /\ row.type = "objective" => row.bears = Nowhere
        /\ Goto(c, [op |-> "item", id |-> i, row |-> row, recon |-> FALSE,
                    todo |-> IF Replaced(p) THEN Lookups(row) ELSE {}])
    /\ agreed' = IF p.to = "active" \/ (p.to = Same /\ Edited(p)) THEN agreed \cup {i} ELSE agreed
    /\ UNCHANGED <<rows, fronts, loops, sorties>>

\* Manage.CreateItem up to its first statement.
Create(c, row) ==
    /\ req[c] = Idle
    /\ row.bears # Nowhere => Held(row.bears) /\ row.type # "objective"
    /\ row.strength # "none" => row.type = "obstacle"
    /\ Goto(c, [op |-> "create", row |-> row, todo |-> Lookups(row)])
    /\ UNCHANGED <<rows, fronts, loops, sorties, agreed>>

\* place, the front: GetFront, refused when withdrawn.
CheckFront(c) ==
    /\ req[c].op \in {"item", "create"}
    /\ "front" \in req[c].todo
    /\ Goto(c, IF fronts[req[c].row.front].status = "active"
               THEN [req[c] EXCEPT !.todo = @ \ {"front"}] ELSE Idle)
    /\ UNCHANGED <<rows, fronts, loops, sorties, agreed>>

\* Slip: an item bears on whatever it is pointed at.
BearableAny(i) == Held(i)

Bearable(i) == Held(i) /\ rows[i].type = "objective"

\* place, the objective: GetItem, and its front when the row has none.
CheckObjective(c) ==
    /\ req[c].op \in {"item", "create"}
    /\ req[c].todo = {"bears"}
    /\ LET o == req[c].row.bears IN
        Goto(c, IF Bearable(o)
                THEN [req[c] EXCEPT !.todo = {},
                                    !.row.front = IF @ = Nowhere THEN rows[o].front ELSE @]
                ELSE Idle)
    /\ UNCHANGED <<rows, fronts, loops, sorties, agreed>>

InsertManual(c, i) ==
    /\ req[c].op = "create" /\ req[c].todo = {}
    /\ InsertItem(i, req[c].row)
    /\ agreed' = agreed \cup {i}
    /\ Goto(c, Idle)
    /\ UNCHANGED <<fronts, loops, sorties>>

WriteItem(c) ==
    /\ req[c].op = "item" /\ req[c].todo = {}
    /\ UpdateItem(req[c].id, req[c].row)
    /\ Goto(c, IF req[c].recon
               THEN [op |-> "order", id |-> req[c].id, text |-> req[c].row.text] ELSE Idle)
    /\ UNCHANGED <<fronts, loops, sorties, agreed>>

\* Lift: a proposed unknown is kept and lifted in one write.
Lift(c, i) ==
    /\ req[c] = Idle
    /\ Held(i) /\ rows[i].type = "unknown" /\ rows[i].status \in Live
    /\ Goto(c, [op |-> "item", id |-> i, todo |-> {}, recon |-> FALSE,
                row |-> [rows[i] EXCEPT !.status = "resolved", !.answered = TRUE]])
    /\ agreed' = agreed \cup {i}
    /\ UNCHANGED <<rows, fronts, loops, sorties>>

-----------------------------------------------------------------------------
(* Orders.                                                                 *)

\* SendRecon: keeps a proposed unknown first, then creates the order.
SendRecon(c, i) ==
    /\ req[c] = Idle
    /\ Held(i) /\ rows[i].type = "unknown" /\ rows[i].status \in Live
    /\ Goto(c, IF rows[i].status = "proposed"
               THEN [op |-> "item", id |-> i, todo |-> {}, recon |-> TRUE,
                     row |-> [rows[i] EXCEPT !.status = "active"]]
               ELSE [op |-> "order", id |-> i, text |-> rows[i].text])
    /\ agreed' = agreed \cup {i}
    /\ UNCHANGED <<rows, fronts, loops, sorties>>

\* commitments Manage.Create: the live order of that wording when there is one,
\* aimed as it was.
CreateOrder(c) ==
    /\ req[c].op = "order"
    /\ \/ /\ \E l \in Loop : InsertLoop(l, [status |-> "open", text |-> req[c].text,
                                            kind |-> "recon", target |-> req[c].id])
          /\ Goto(c, Idle)
       \/ /\ LoopTaken(req[c].text)
          /\ Goto(c, [op |-> "find", text |-> req[c].text])
          /\ UNCHANGED loops
    /\ UNCHANGED <<rows, fronts, sorties, agreed>>

FindLive(c) ==
    /\ req[c].op = "find"
    /\ LET found == {l \in Loop : loops[l] # None /\ loops[l].status # "ended"
                                    /\ loops[l].text = req[c].text}
           proposed == {l \in found : loops[l].status = "proposed"}
       IN  IF proposed = {} THEN Goto(c, Idle)
           ELSE \E l \in proposed : Goto(c, [op |-> "accept", id |-> l])
    /\ UNCHANGED <<rows, fronts, loops, sorties, agreed>>

Accept(c) ==
    /\ req[c].op = "accept"
    /\ LoopFree(req[c].id, loops[req[c].id].text)
    /\ loops' = [loops EXCEPT ![req[c].id].status = "open"]
    /\ Goto(c, Idle)
    /\ UNCHANGED <<rows, fronts, sorties, agreed>>

KindOf(i) == IF rows[i].type = "unknown" THEN "recon" ELSE "order"

\* Aim at a live item: reads it, then SetTarget writes target and kind.
Aim(c, l, i) ==
    /\ req[c] = Idle
    /\ loops[l] # None
    /\ Held(i) /\ rows[i].status \in Live
    /\ Goto(c, [op |-> "aim", id |-> l, target |-> i, kind |-> KindOf(i)])
    /\ UNCHANGED <<rows, fronts, loops, sorties, agreed>>

SetTarget(c) ==
    /\ req[c].op = "aim"
    /\ loops' = [loops EXCEPT ![req[c].id].target = req[c].target,
                              ![req[c].id].kind = req[c].kind]
    /\ Goto(c, Idle)
    /\ UNCHANGED <<rows, fronts, sorties, agreed>>

AimNowhere(c, l) ==
    /\ req[c] = Idle
    /\ loops[l] # None
    /\ loops' = [loops EXCEPT ![l].target = Nowhere, ![l].kind = "order"]
    /\ UNCHANGED <<rows, fronts, sorties, req, agreed>>

\* The list's own life: an order proposed of the turn, accepted, ended or
\* reopened.  Commitments has the requests behind it.
LoopMoves(l) ==
    /\ loops[l] # None
    /\ \E s \in CASE loops[l].status = "proposed" -> {"open", "ended"}
                  [] loops[l].status = "open"     -> {"ended"}
                  [] OTHER                        -> {"open"} :
        /\ s = "open" => LoopFree(l, loops[l].text)
        /\ loops' = [loops EXCEPT ![l].status = s]
    /\ UNCHANGED <<rows, fronts, sorties, req, agreed>>

\* The extraction of loops aims a promise at an active objective it serves.
Promise(l, o, t) ==
    /\ o # Nowhere => Held(o) /\ rows[o].type = "objective"
    /\ InsertLoop(l, [status |-> "proposed", text |-> t, kind |-> "order", target |-> o])
    /\ UNCHANGED <<rows, fronts, sorties, req, agreed>>

\* LogSortie refuses an order that is proposed, or dropped.
Flyable(l) == loops[l] # None /\ loops[l].status # "proposed"

\* LogSortie: the front is read, then the order, then the sortie inserted.
LogSortie(c, f) ==
    /\ req[c] = Idle
    /\ fronts[f] # None /\ fronts[f].status = "active"
    /\ \E l \in {Nowhere} \cup Loop :
        Goto(c, [op |-> "sortie", front |-> f, order |-> l, checked |-> l = Nowhere])
    /\ UNCHANGED <<rows, fronts, loops, sorties, agreed>>

CheckOrder(c) ==
    /\ req[c].op = "sortie" /\ ~req[c].checked
    /\ Goto(c, IF Flyable(req[c].order) THEN [req[c] EXCEPT !.checked = TRUE] ELSE Idle)
    /\ UNCHANGED <<rows, fronts, loops, sorties, agreed>>

InsertSortie(c) ==
    /\ req[c].op = "sortie" /\ req[c].checked
    /\ Cardinality(sorties) < MaxSorties
    /\ sorties' = sorties \cup {[front |-> req[c].front, order |-> req[c].order]}
    /\ Goto(c, Idle)
    /\ UNCHANGED <<rows, fronts, loops, agreed>>

DeleteSortie(c, s) ==
    /\ req[c] = Idle /\ s \in sorties
    /\ sorties' = sorties \ {s}
    /\ UNCHANGED <<rows, fronts, loops, req, agreed>>

-----------------------------------------------------------------------------
(* Turns read for intelligence.                                            *)

ActiveObjectives ==
    {i \in Item : Held(i) /\ rows[i].type = "objective" /\ rows[i].status = "active"}

\* Extract.ObserveTurn.  An ordinary turn takes the one slot or is skipped;
\* an interrogation and a red team are read beside it, as many as come.
ObserveTurn(c, mode) ==
    /\ req[c] = Idle
    /\ mode = "chat" => \A d \in Client : req[d].op = "read" => req[d].mode # "chat"
    /\ Goto(c, [op |-> "read", mode |-> mode, left |-> MaxProposals, last |-> "objective",
                fronts |-> IF mode = "chat" THEN ActiveFronts ELSE {},
                seen |-> IF mode = "interrogation" THEN <<>>
                         ELSE [o \in ActiveObjectives |-> rows[o].front]])
    /\ UNCHANGED <<rows, fronts, loops, sorties, agreed>>

\* What a proposal may bear on: in an ordinary turn an objective by number or
\* by the wording of one just proposed, in a red team the one it plainly hits.
Bears(r, type) ==
    LET seen == DOMAIN r.seen IN
    IF r.mode = "interrogation" \/ type = "objective" THEN {Nowhere}
    ELSE IF r.mode = "red_team" /\ Cardinality(seen) = 1 THEN seen
    ELSE {Nowhere} \cup seen

\* The front a proposal names, or that of the objective it bears on.
FrontsOf(r, o) ==
    LET named == IF r.mode = "chat" THEN r.fronts ELSE {} IN
    named \cup {IF o = Nowhere THEN Nowhere ELSE r.seen[o]}

TypesOf(r) ==
    IF r.mode = "interrogation" \/ r.last = "unknown" THEN {"unknown"}
    ELSE IF r.mode = "red_team" \/ r.last = "obstacle" THEN {"obstacle", "unknown"}
    ELSE Type

\* One proposal stored.  A model's answer is any, objectives before obstacles
\* before unknowns; an objective stored can be named by what comes after it.
Propose(c, i, type, text) ==
    /\ req[c].op = "read" /\ req[c].left > 0
    /\ type \in TypesOf(req[c])
    /\ \E o \in Bears(req[c], type) : \E f \in FrontsOf(req[c], o) :
        InsertItem(i, [type |-> type, status |-> "proposed", text |-> text, front |-> f,
                       bears |-> o, answered |-> FALSE,
                       strength |-> IF type = "obstacle" THEN "estimate" ELSE "none"])
    /\ Goto(c, [req[c] EXCEPT !.left = @ - 1, !.last = type,
                    !.seen = IF type # "objective" THEN @
                             ELSE [o \in DOMAIN @ \cup {i} |-> IF o = i THEN Nowhere ELSE @[o]]])
    /\ UNCHANGED <<fronts, loops, sorties, agreed>>

\* proposeProbe lists what is live and picks the target by the words shared.
AimProbe(c) ==
    /\ req[c].op = "read" /\ req[c].mode = "interrogation"
    /\ \E i \in {Nowhere} \cup {j \in Item : Held(j) /\ rows[j].status \in Live
                                                /\ rows[j].type # "objective"} :
        Goto(c, [op |-> "probe", target |-> i, kind |-> IF i = Nowhere THEN "order" ELSE KindOf(i)])
    /\ UNCHANGED <<rows, fronts, loops, sorties, agreed>>

\* The probe, then the orders of a closing turn; a wording already tracked is
\* left as it is.
ProposeOrder(c, l, t) ==
    /\ req[c].op = "probe"
    /\ InsertLoop(l, [status |-> "proposed", text |-> t,
                      kind |-> req[c].kind, target |-> req[c].target])
    /\ Goto(c, [req[c] EXCEPT !.target = Nowhere, !.kind = "order"])
    /\ UNCHANGED <<rows, fronts, sorties, agreed>>

\* A read turn is done, a request's context is cancelled, a statement fails or
\* is refused by an index, or the process dies.
End(c) ==
    /\ req[c] # Idle
    /\ Goto(c, Idle)
    /\ UNCHANGED <<rows, fronts, loops, sorties, agreed>>

-----------------------------------------------------------------------------

Next ==
    \/ \E c \in Client :
        \/ \E f \in Front, n \in Name : CreateFront(c, f, n)
        \/ AddStarters(c)
        \/ \E n \in Name : AddStarter(c, n)
        \/ \E f \in Front : ReadFront(c, f)
        \/ WriteFront(c)
        \/ \E i \in Item, p \in Patch : Update(c, i, p)
        \/ \E row \in Draft : Create(c, row)
        \/ CheckFront(c) \/ CheckObjective(c) \/ WriteItem(c)
        \/ \E i \in Item : InsertManual(c, i) \/ Lift(c, i) \/ SendRecon(c, i)
        \/ CreateOrder(c) \/ FindLive(c) \/ Accept(c)
        \/ \E l \in Loop, i \in Item : Aim(c, l, i)
        \/ SetTarget(c)
        \/ \E l \in Loop : AimNowhere(c, l)
        \/ \E f \in Front : LogSortie(c, f)
        \/ CheckOrder(c) \/ InsertSortie(c)
        \/ \E s \in sorties : DeleteSortie(c, s)
        \/ \E mode \in {"chat", "interrogation", "red_team"} : ObserveTurn(c, mode)
        \/ \E i \in Item, type \in Type, t \in Text : Propose(c, i, type, t)
        \/ AimProbe(c)
        \/ \E l \in Loop, t \in Text : ProposeOrder(c, l, t)
        \/ End(c)
    \/ \E l \in Loop : LoopMoves(l)
    \/ \E l \in Loop, o \in Item \cup {Nowhere}, t \in Text : Promise(l, o, t)

Spec == Init /\ [][Next]_vars

-----------------------------------------------------------------------------
(* Properties.                                                             *)

\* Nothing is on the map, or in the record of what moved or was flown, that
\* the owner never agreed to: an item is active, resolved or withdrawn only
\* after its owner entered it or asked to keep it, and a sortie's order is no
\* proposal.  The comment on allowed in campaign/usecase/manage.go names it.
KeptFirst ==
    /\ \A i \in Item : rows[i].status \in {"active", "resolved", "withdrawn"} => i \in agreed
    /\ \A s \in sorties : s.order # Nowhere => loops[s.order].status # "proposed"

\* What bears on something bears on an objective, which bears on nothing; an
\* aimed order is reconnaissance exactly when its target is an unknown.  The
\* reads of place, Aim and the read turns are all older than their writes.
AimsFit ==
    /\ \A i \in Item : Held(i) /\ rows[i].bears # Nowhere =>
        rows[i].type # "objective" /\ rows[rows[i].bears].type = "objective"
    /\ \A l \in Loop : loops[l] # None =>
        (loops[l].kind = "recon" <=>
            loops[l].target # Nowhere /\ rows[loops[l].target].type = "unknown")

=============================================================================
