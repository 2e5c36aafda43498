-------------------------- MODULE CampaignMapProofs --------------------------
(***************************************************************************)
(* What the campaign map keeps for any items, fronts, orders and requests. *)
(*                                                                         *)
(* A request writes a row it read some statements ago, aims an order at an *)
(* item it looked up, flies an order it checked.  Nothing is read again,   *)
(* so what holds of the tables holds because of what a request can still   *)
(* carry: Vouched says it, and it stays true because an item, once there,  *)
(* stays and keeps its type, and an order never goes back to a proposal    *)
(* (Grows).                                                                *)
(***************************************************************************)
EXTENDS CampaignMap, TLAPS

Places == Front \cup {Nowhere}

Kinds == {"order", "recon"}

Seen == UNION {[S -> Places] : S \in SUBSET Item}

Request ==
    {Idle}
        \cup [op : {"front"}, at : {"starters"}, left : SUBSET Name]
        \cup [op : {"front"}, at : {"write"}, id : Front, row : FrontRow]
        \cup [op : {"item"}, id : Item, row : Row, recon : BOOLEAN, todo : SUBSET {"front", "bears"}]
        \cup [op : {"create"}, row : Row, todo : SUBSET {"front", "bears"}]
        \cup [op : {"order"}, id : Item, text : Text]
        \cup [op : {"find"}, text : Text]
        \cup [op : {"accept"}, id : Loop]
        \cup [op : {"aim"}, id : Loop, target : Item, kind : Kinds]
        \cup [op : {"sortie"}, front : Front, order : Loop \cup {Nowhere}, checked : BOOLEAN]
        \cup [op : {"read"}, mode : {"chat", "interrogation", "red_team"}, left : Nat, last : Type,
              fronts : SUBSET Front, seen : Seen]
        \cup [op : {"probe"}, target : Item \cup {Nowhere}, kind : Kinds]

Typed ==
    /\ rows \in [Item -> Row \cup {None}]
    /\ fronts \in [Front -> FrontRow \cup {None}]
    /\ loops \in [Loop -> LoopRow \cup {None}]
    /\ sorties \in SUBSET [front : Front, order : Loop \cup {Nowhere}]
    /\ req \in [Client -> Request]
    /\ agreed \subseteq Item

\* The CHECKs of the table, and of the row that will be written.
Checked(row) ==
    /\ row.status = "withdrawn" => row.type = "objective"
    /\ row.strength # "none" => row.type = "obstacle"
    /\ row.answered => row.type = "unknown"

Is(i, type) == Held(i) /\ rows[i].type = type

Bearing(row) == row.bears # Nowhere => row.type # "objective" /\ Is(row.bears, "objective")

Agreed(i, row) == row.status \in {"active", "resolved", "withdrawn"} => i \in agreed

RowsOK ==
    \A i \in Item : Held(i) => Checked(rows[i]) /\ Bearing(rows[i]) /\ Agreed(i, rows[i])

\* A target is there, and an unknown exactly when it is scouted.
Aimed(target, kind) ==
    /\ target # Nowhere => Held(target)
    /\ kind = "recon" <=> target # Nowhere /\ rows[target].type = "unknown"

LoopsOK == \A l \in Loop : loops[l] # None => Aimed(loops[l].target, loops[l].kind)

Flown(l) == l # Nowhere => Flyable(l)

SortiesOK == \A s \in sorties : Flown(s.order)

Vouched(r) ==
    /\ r.op = "item" =>
        /\ Is(r.id, r.row.type) /\ Checked(r.row) /\ Agreed(r.id, r.row)
        /\ r.recon => r.row.type = "unknown"
        /\ r.row.bears # Nowhere => r.row.type # "objective"
        /\ "bears" \in r.todo => r.row.bears # Nowhere
        /\ "bears" \notin r.todo => Bearing(r.row)
    /\ r.op = "create" =>
        /\ Checked(r.row)
        /\ r.row.bears # Nowhere => r.row.type # "objective"
        /\ "bears" \in r.todo => r.row.bears # Nowhere
        /\ "bears" \notin r.todo => Bearing(r.row)
    /\ r.op = "order" => Is(r.id, "unknown")
    /\ r.op = "accept" => loops[r.id] # None
    /\ r.op = "aim" => loops[r.id] # None /\ Aimed(r.target, r.kind)
    /\ r.op = "sortie" => (r.checked => Flown(r.order)) /\ (~r.checked => r.order \in Loop)
    /\ r.op = "read" => \A o \in DOMAIN r.seen : Is(o, "objective")
    /\ r.op = "probe" => Aimed(r.target, r.kind)

RequestsOK == \A c \in Client : Vouched(req[c])

Inv == Typed /\ RowsOK /\ LoopsOK /\ SortiesOK /\ RequestsOK

-----------------------------------------------------------------------------
(* Requests.                                                               *)

LEMMA SeenIs ==
    /\ \A S \in SUBSET Item : \A f \in [S -> Places] : f \in Seen
    /\ \A f \in Seen : DOMAIN f \subseteq Item /\ \A o \in DOMAIN f : f[o] \in Places
  BY DEF Seen

\* The fields a request carries, by its operation.
LEMMA RequestFields ==
    ASSUME NEW r \in Request
    PROVE  /\ r.op = "item" =>
                r.id \in Item /\ r.row \in Row /\ r.recon \in BOOLEAN /\ r.todo \in SUBSET {"front", "bears"}
           /\ r.op = "create" => r.row \in Row /\ r.todo \in SUBSET {"front", "bears"}
           /\ r.op = "order" => r.id \in Item /\ r.text \in Text
           /\ r.op = "find" => r.text \in Text
           /\ r.op = "accept" => r.id \in Loop
           /\ r.op = "aim" => r.id \in Loop /\ r.target \in Item /\ r.kind \in Kinds
           /\ r.op = "sortie" =>
                r.front \in Front /\ r.order \in Loop \cup {Nowhere} /\ r.checked \in BOOLEAN
           /\ r.op = "read" =>
                /\ r.mode \in {"chat", "interrogation", "red_team"} /\ r.left \in Nat
                /\ r.last \in Type /\ r.fronts \in SUBSET Front /\ r.seen \in Seen
           /\ r.op = "probe" => r.target \in Item \cup {Nowhere} /\ r.kind \in Kinds
           /\ r.op \in Ops
  BY DEF Request, Idle, Ops

\* What a request for the fronts carries.
LEMMA FrontFields ==
    ASSUME NEW r \in Request, r.op = "front"
    PROVE  /\ r.at = "starters" => r.left \in SUBSET Name
           /\ r.at = "write" => r.id \in Front /\ r.row \in FrontRow
  BY DEF Request, Idle

\* The requests the actions leave behind.
LEMMA RequestForms ==
    /\ Idle \in Request
    /\ \A left \in SUBSET Name : [op |-> "front", at |-> "starters", left |-> left] \in Request
    /\ \A f \in Front, row \in FrontRow : [op |-> "front", at |-> "write", id |-> f, row |-> row] \in Request
    /\ \A i \in Item, row \in Row, b \in BOOLEAN, T \in SUBSET {"front", "bears"} :
          [op |-> "item", id |-> i, row |-> row, recon |-> b, todo |-> T] \in Request
    /\ \A row \in Row, T \in SUBSET {"front", "bears"} : [op |-> "create", row |-> row, todo |-> T] \in Request
    /\ \A i \in Item, t \in Text : [op |-> "order", id |-> i, text |-> t] \in Request
    /\ \A t \in Text : [op |-> "find", text |-> t] \in Request
    /\ \A l \in Loop : [op |-> "accept", id |-> l] \in Request
  BY DEF Request, Idle

LEMMA MoreRequestForms ==
    /\ \A l \in Loop, i \in Item, k \in Kinds : [op |-> "aim", id |-> l, target |-> i, kind |-> k] \in Request
    /\ \A f \in Front, l \in Loop \cup {Nowhere}, b \in BOOLEAN :
          [op |-> "sortie", front |-> f, order |-> l, checked |-> b] \in Request
    /\ \A m \in {"chat", "interrogation", "red_team"}, n \in Nat, t \in Type, F \in SUBSET Front, s \in Seen :
          [op |-> "read", mode |-> m, left |-> n, last |-> t, fronts |-> F, seen |-> s] \in Request
    /\ \A i \in Item \cup {Nowhere}, k \in Kinds : [op |-> "probe", target |-> i, kind |-> k] \in Request
  BY DEF Request

\* Idle carries nothing.
LEMMA IdleVouched == Vouched(Idle)
  BY DEF Vouched, Idle

-----------------------------------------------------------------------------
(* What a step leaves standing.                                            *)

\* Items stay, with their types; orders stay, and none is a proposal again;
\* what was agreed is.
Grows ==
    /\ \A i \in Item : Held(i) => rows'[i] # None /\ rows'[i].type = rows[i].type
    /\ \A l \in Loop : Flyable(l) => loops'[l] # None /\ loops'[l].status # "proposed"
    /\ \A l \in Loop : loops[l] # None => loops'[l] # None
    /\ agreed \subseteq agreed'

LEMMA IsStays ==
    ASSUME Grows, NEW i \in Item, NEW type, Is(i, type)
    PROVE  Is(i, type)'
  BY DEF Grows, Is, Held

LEMMA BearingStays ==
    ASSUME Grows, NEW row \in Row, Bearing(row)
    PROVE  Bearing(row)'
  BY IsStays DEF Bearing, Row

LEMMA AgreedStays ==
    ASSUME Grows, NEW i \in Item, NEW row, Agreed(i, row)
    PROVE  Agreed(i, row)'
  BY DEF Grows, Agreed

LEMMA AimedStays ==
    ASSUME Grows, NEW target \in Item \cup {Nowhere}, NEW kind, Aimed(target, kind)
    PROVE  Aimed(target, kind)'
  BY DEF Grows, Aimed, Held

LEMMA FlownStays ==
    ASSUME Grows, NEW l \in Loop \cup {Nowhere}, Flown(l)
    PROVE  Flown(l)'
  BY DEF Grows, Flown, Flyable

LEMMA VouchedStays ==
    ASSUME Grows, NEW r \in Request, Vouched(r)
    PROVE  Vouched(r)'
  <1>1. CASE r.op = "item"
    <2>1. r.id \in Item /\ r.row \in Row
      BY <1>1, RequestFields
    <2>2. Is(r.id, r.row.type)' /\ Agreed(r.id, r.row)'
      BY <1>1, <2>1, IsStays, AgreedStays DEF Vouched
    <2>3. "bears" \notin r.todo => Bearing(r.row)'
      BY <1>1, <2>1, BearingStays DEF Vouched
    <2> QED BY <1>1, <2>2, <2>3 DEF Vouched, Checked
  <1>2. CASE r.op = "create"
    <2>1. r.row \in Row
      BY <1>2, RequestFields
    <2>2. "bears" \notin r.todo => Bearing(r.row)'
      BY <1>2, <2>1, BearingStays DEF Vouched
    <2> QED BY <1>2, <2>2 DEF Vouched, Checked
  <1>3. CASE r.op = "order"
    <2>1. Is(r.id, "unknown")'
      BY <1>3, RequestFields, IsStays DEF Vouched
    <2> QED BY <1>3, <2>1 DEF Vouched
  <1>4. CASE r.op = "accept"
    <2>1. loops'[r.id] # None
      BY <1>4, RequestFields DEF Vouched, Grows
    <2> QED BY <1>4, <2>1 DEF Vouched
  <1>5. CASE r.op = "aim"
    <2>1. loops'[r.id] # None
      BY <1>5, RequestFields DEF Vouched, Grows
    <2>2. Aimed(r.target, r.kind)'
      BY <1>5, RequestFields, AimedStays DEF Vouched
    <2> QED BY <1>5, <2>1, <2>2 DEF Vouched
  <1>6. CASE r.op = "sortie"
    <2>1. r.checked => Flown(r.order)'
      BY <1>6, RequestFields, FlownStays DEF Vouched
    <2> QED BY <1>6, <2>1 DEF Vouched
  <1>7. CASE r.op = "read"
    <2>1. \A o \in DOMAIN r.seen : o \in Item
      BY <1>7, RequestFields, SeenIs
    <2>2. \A o \in DOMAIN r.seen : Is(o, "objective")'
      BY <1>7, <2>1, IsStays DEF Vouched
    <2> QED BY <1>7, <2>2 DEF Vouched
  <1>8. CASE r.op = "probe"
    <2>1. Aimed(r.target, r.kind)'
      BY <1>8, RequestFields, AimedStays DEF Vouched
    <2> QED BY <1>8, <2>1 DEF Vouched
  <1>9. CASE r.op \in {"idle", "find", "front"}
    BY <1>9 DEF Vouched
  <1> QED BY <1>1, <1>2, <1>3, <1>4, <1>5, <1>6, <1>7, <1>8, <1>9, RequestFields DEF Ops

-----------------------------------------------------------------------------
(* The tables after a step, and the requests.                              *)

LEMMA NotNone ==
    /\ \A row \in Row : row # None
    /\ \A row \in LoopRow : row # None
    /\ \A row \in FrontRow : row # None
  BY DEF Row, LoopRow, FrontRow, None, Status

\* A step that adds to what is agreed at most.
LEMMA GrowsAgreed ==
    ASSUME UNCHANGED <<rows, loops>>, agreed \subseteq agreed'
    PROVE  Grows
  BY DEF Grows, Held, Flyable

LEMMA RowsKept ==
    ASSUME Typed, RowsOK, Grows, UNCHANGED rows
    PROVE  RowsOK'
  <1> SUFFICES ASSUME NEW i \in Item, Held(i)
               PROVE  Checked(rows[i]) /\ Bearing(rows[i])' /\ Agreed(i, rows[i])'
    BY DEF RowsOK, Held, Bearing, Agreed
  <1>1. PICK row \in Row : row = rows[i]
    BY DEF Typed, Held
  <1>2. Checked(row) /\ Bearing(row)' /\ Agreed(i, row)'
    BY <1>1, BearingStays, AgreedStays DEF RowsOK
  <1> QED BY <1>1, <1>2 DEF Bearing, Agreed

LEMMA RowsWritten ==
    ASSUME Typed, RowsOK, NEW i \in Item, NEW row \in Row,
           rows' = [rows EXCEPT ![i] = row],
           Held(i) => row.type = rows[i].type,
           UNCHANGED loops, agreed \subseteq agreed',
           Checked(row), Bearing(row), Agreed(i, row)'
    PROVE  /\ Grows
           /\ RowsOK'
           /\ rows' \in [Item -> Row \cup {None}]
  <1>1. /\ rows'[i] = row /\ \A j \in Item \ {i} : rows'[j] = rows[j]
        /\ rows' \in [Item -> Row \cup {None}]
    BY DEF Typed
  <1>2. Grows
    BY <1>1, NotNone DEF Grows, Flyable, Held
  <1>3. Bearing(row)'
    BY <1>2, BearingStays
  <1>4. ASSUME NEW j \in Item, Held(j)'
        PROVE  Checked(rows'[j]) /\ Bearing(rows[j])' /\ Agreed(j, rows[j])'
    <2>1. CASE j = i
      BY <2>1, <1>1, <1>3 DEF Bearing, Agreed
    <2>2. CASE j # i
      <3>1. rows'[j] = rows[j] /\ Held(j)
        BY <2>2, <1>1, <1>4 DEF Held
      <3>2. PICK r \in Row : r = rows[j]
        BY <3>1 DEF Typed, Held
      <3>3. Checked(r) /\ Bearing(r)' /\ Agreed(j, r)'
        BY <3>1, <3>2, <1>2, BearingStays, AgreedStays DEF RowsOK
      <3> QED BY <3>1, <3>2, <3>3 DEF Bearing, Agreed
    <2> QED BY <2>1, <2>2
  <1> QED BY <1>1, <1>2, <1>4 DEF RowsOK, Checked

LEMMA LoopsKept ==
    ASSUME Typed, LoopsOK, Grows, UNCHANGED loops
    PROVE  LoopsOK'
  <1> SUFFICES ASSUME NEW l \in Loop, loops[l] # None
               PROVE  Aimed(loops[l].target, loops[l].kind)'
    BY DEF LoopsOK
  <1>1. PICK row \in LoopRow : row = loops[l]
    BY DEF Typed
  <1>2. row.target \in Item \cup {Nowhere}
    BY DEF LoopRow
  <1>3. Aimed(row.target, row.kind)'
    BY <1>1, <1>2, AimedStays DEF LoopsOK
  <1> QED BY <1>1, <1>3 DEF Aimed

LEMMA LoopsWritten ==
    ASSUME Typed, LoopsOK, NEW l \in Loop, NEW row \in LoopRow,
           loops' = [loops EXCEPT ![l] = row],
           UNCHANGED <<rows, agreed>>,
           Flyable(l) => row.status # "proposed",
           Aimed(row.target, row.kind)
    PROVE  /\ Grows
           /\ LoopsOK'
           /\ loops' \in [Loop -> LoopRow \cup {None}]
  <1>1. /\ loops'[l] = row /\ \A m \in Loop \ {l} : loops'[m] = loops[m]
        /\ loops' \in [Loop -> LoopRow \cup {None}]
    BY DEF Typed
  <1>2. Grows
    BY <1>1, NotNone DEF Grows, Flyable, Held
  <1>3. Aimed(row.target, row.kind)'
    BY DEF Aimed, Held
  <1>4. ASSUME NEW m \in Loop, loops'[m] # None
        PROVE  Aimed(loops[m].target, loops[m].kind)'
    <2>1. CASE m = l
      BY <2>1, <1>1, <1>3 DEF Aimed
    <2>2. CASE m # l
      BY <2>2, <1>1, <1>4 DEF Aimed, Held, LoopsOK
    <2> QED BY <2>1, <2>2
  <1> QED BY <1>1, <1>2, <1>4 DEF LoopsOK

LEMMA SortiesKept ==
    ASSUME Typed, SortiesOK, Grows, sorties' \subseteq sorties
    PROVE  SortiesOK'
  <1> SUFFICES ASSUME NEW s \in sorties PROVE Flown(s.order)'
    BY DEF SortiesOK
  <1>1. s.order \in Loop \cup {Nowhere}
    BY DEF Typed
  <1> QED BY <1>1, FlownStays DEF SortiesOK

\* One request goes on as r.
LEMMA RequestsMoved ==
    ASSUME Typed, RequestsOK, Grows, NEW c \in Client, NEW r \in Request,
           req' = [req EXCEPT ![c] = r], Vouched(r)'
    PROVE  RequestsOK' /\ req' \in [Client -> Request]
  <1>1. /\ req'[c] = r /\ \A d \in Client \ {c} : req'[d] = req[d]
        /\ req' \in [Client -> Request]
    BY DEF Typed
  <1>2. ASSUME NEW d \in Client
        PROVE  Vouched(req[d])'
    <2>1. CASE d = c
      <3>1. req'[d] = r
        BY <2>1, <1>1
      <3> QED BY <3>1 DEF Vouched
    <2>2. CASE d # c
      <3>1. PICK q \in Request : q = req[d]
        BY DEF Typed
      <3>2. Vouched(q)'
        BY <3>1, VouchedStays DEF RequestsOK
      <3>3. req'[d] = q
        BY <2>2, <1>1, <3>1
      <3> QED BY <3>2, <3>3 DEF Vouched
    <2> QED BY <2>1, <2>2
  <1> QED BY <1>1, <1>2 DEF RequestsOK

LEMMA RequestsKept ==
    ASSUME Typed, RequestsOK, Grows, UNCHANGED req
    PROVE  RequestsOK'
  <1> SUFFICES ASSUME NEW c \in Client PROVE Vouched(req[c])'
    BY DEF RequestsOK
  <1>1. PICK q \in Request : q = req[c]
    BY DEF Typed
  <1>2. Vouched(q)'
    BY <1>1, VouchedStays DEF RequestsOK
  <1> QED BY <1>1, <1>2 DEF Vouched

\* A step that changes no row, order or sortie: one request goes on as r.
LEMMA CarryInv ==
    ASSUME Inv, NEW c \in Client, NEW r \in Request, Goto(c, r), Vouched(r)',
           UNCHANGED <<rows, loops, sorties>>, agreed \subseteq agreed', agreed' \subseteq Item,
           fronts' \in [Front -> FrontRow \cup {None}]
    PROVE  Inv'
  <1>1. Grows
    BY GrowsAgreed
  <1>2. RequestsOK' /\ req' \in [Client -> Request]
    BY <1>1, RequestsMoved DEF Inv, Goto
  <1>3. RowsOK' /\ LoopsOK' /\ SortiesOK'
    BY <1>1, RowsKept, LoopsKept, SortiesKept DEF Inv
  <1>4. Typed'
    BY <1>2 DEF Inv, Typed
  <1> QED BY <1>2, <1>3, <1>4 DEF Inv

\* The same when nothing new is agreed: what vouched for r before it vouches
\* for it after.
LEMMA GoInv ==
    ASSUME Inv, NEW c \in Client, NEW r \in Request, Goto(c, r), Vouched(r),
           UNCHANGED <<rows, loops, sorties, agreed, fronts>>
    PROVE  Inv'
  <1>1. Vouched(r)'
    BY GrowsAgreed, VouchedStays
  <1> QED BY <1>1, CarryInv DEF Inv, Typed

\* A row is written, and the request goes on as r.
LEMMA WriteInv ==
    ASSUME Inv, NEW c \in Client, NEW r \in Request, Goto(c, r), Vouched(r)',
           NEW i \in Item, NEW row \in Row, rows' = [rows EXCEPT ![i] = row],
           Held(i) => row.type = rows[i].type,
           Checked(row), Bearing(row), Agreed(i, row)',
           UNCHANGED <<fronts, loops, sorties>>, agreed \subseteq agreed', agreed' \subseteq Item
    PROVE  Inv'
  <1>1. Grows /\ RowsOK' /\ rows' \in [Item -> Row \cup {None}]
    BY RowsWritten DEF Inv
  <1>2. RequestsOK' /\ req' \in [Client -> Request]
    BY <1>1, RequestsMoved DEF Inv, Goto
  <1>3. LoopsOK' /\ SortiesOK'
    BY <1>1, LoopsKept, SortiesKept DEF Inv
  <1>4. Typed'
    BY <1>1, <1>2 DEF Inv, Typed
  <1> QED BY <1>1, <1>2, <1>3, <1>4 DEF Inv

\* An order is written, and requests are as they were or one goes on as r.
LEMMA OrderInv ==
    ASSUME Inv, NEW l \in Loop, NEW row \in LoopRow, loops' = [loops EXCEPT ![l] = row],
           Flyable(l) => row.status # "proposed", Aimed(row.target, row.kind),
           \/ UNCHANGED req
           \/ \E c \in Client, r \in Request : Goto(c, r) /\ Vouched(r),
           UNCHANGED <<rows, fronts, sorties, agreed>>
    PROVE  Inv'
  <1>1. Grows /\ LoopsOK' /\ loops' \in [Loop -> LoopRow \cup {None}]
    BY LoopsWritten DEF Inv
  <1>2. RequestsOK' /\ req' \in [Client -> Request]
    <2>1. CASE UNCHANGED req
      BY <2>1, <1>1, RequestsKept DEF Inv, Typed
    <2>2. ASSUME NEW c \in Client, NEW r \in Request, Goto(c, r), Vouched(r)
          PROVE  RequestsOK' /\ req' \in [Client -> Request]
      <3>1. Vouched(r)'
        BY <2>2, <1>1, VouchedStays
      <3> QED BY <2>2, <3>1, <1>1, RequestsMoved DEF Inv, Goto
    <2> QED BY <2>1, <2>2
  <1>3. RowsOK' /\ SortiesOK'
    BY <1>1, RowsKept, SortiesKept DEF Inv
  <1>4. Typed'
    BY <1>1, <1>2 DEF Inv, Typed
  <1> QED BY <1>1, <1>2, <1>3, <1>4 DEF Inv

-----------------------------------------------------------------------------
(* Fronts.                                                                 *)

\* A step on fronts alone: one request goes on as r, which names no item.
LEMMA FrontInv ==
    ASSUME Inv, fronts' \in [Front -> FrontRow \cup {None}],
           NEW c \in Client, NEW r \in Request, Goto(c, r), r.op \in {"front", "idle"},
           UNCHANGED <<rows, loops, sorties, agreed>>
    PROVE  Inv'
  <1>1. Vouched(r)
    BY DEF Vouched
  <1>2. Vouched(r)'
    BY <1>1, GrowsAgreed, VouchedStays
  <1> QED BY <1>2, CarryInv DEF Inv, Typed

LEMMA InsertFrontTyped ==
    ASSUME Typed, NEW f \in Front, NEW n \in Name, InsertFront(f, n)
    PROVE  fronts' \in [Front -> FrontRow \cup {None}]
  BY DEF Typed, InsertFront, UpdateFrontRow, FrontRow

LEMMA CreateFrontInv ==
    ASSUME Inv, NEW c \in Client, NEW f \in Front, NEW n \in Name, CreateFront(c, f, n)
    PROVE  Inv'
  <1>1. fronts' \in [Front -> FrontRow \cup {None}]
    BY InsertFrontTyped DEF Inv, CreateFront
  <1>2. UNCHANGED <<rows, loops, sorties, req, agreed>>
    BY DEF CreateFront
  <1>3. Goto(c, req[c]) /\ req[c] \in Request /\ Vouched(req[c])
    BY <1>2 DEF Goto, Inv, Typed, RequestsOK
  <1>4. PICK r \in Request : r = req[c]
    BY <1>3
  <1>5. Vouched(r)'
    BY <1>2, <1>3, <1>4, GrowsAgreed, VouchedStays
  <1>6. Goto(c, r)
    BY <1>3, <1>4
  <1> QED BY <1>1, <1>2, <1>5, <1>6, CarryInv DEF Inv, Typed

LEMMA AddStartersInv ==
    ASSUME Inv, NEW c \in Client, AddStarters(c)
    PROVE  Inv'
  <1>1. PICK r : r = [op |-> "front", at |-> "starters", left |-> Starters]
    OBVIOUS
  <1>2. r \in Request /\ r.op = "front"
    BY <1>1, MapAssumption, RequestForms
  <1>3. fronts' \in [Front -> FrontRow \cup {None}]
    BY DEF AddStarters, Inv, Typed
  <1>4. Goto(c, r)
    BY <1>1 DEF AddStarters
  <1> QED BY <1>2, <1>3, <1>4, FrontInv DEF AddStarters

LEMMA AddStarterInv ==
    ASSUME Inv, NEW c \in Client, NEW n \in Name, AddStarter(c, n)
    PROVE  Inv'
  <1>1. fronts' \in [Front -> FrontRow \cup {None}]
    <2>1. CASE \E f \in Front : InsertFront(f, n)
      BY <2>1, InsertFrontTyped DEF Inv
    <2>2. CASE UNCHANGED fronts
      BY <2>2 DEF Inv, Typed
    <2> QED BY <2>1, <2>2 DEF AddStarter
  <1>2. req[c] \in Request /\ req[c].op = "front" /\ req[c].at = "starters"
    BY DEF AddStarter, Inv, Typed
  <1>3. PICK q \in Request : q = req[c]
    BY <1>2
  <1>4. q = [op |-> "front", at |-> "starters", left |-> q.left] /\ q.left \in SUBSET Name
    BY <1>2, <1>3 DEF Request, Idle
  <1>5. PICK r : r = IF q.left = {n} THEN Idle ELSE [q EXCEPT !.left = @ \ {n}]
    OBVIOUS
  <1>6. r \in Request /\ r.op \in {"front", "idle"}
    <2>1. [q EXCEPT !.left = @ \ {n}] = [op |-> "front", at |-> "starters", left |-> q.left \ {n}]
      BY <1>4
    <2>2. q.left \ {n} \in SUBSET Name
      BY <1>4
    <2>3. [op |-> "front", at |-> "starters", left |-> q.left \ {n}] \in Request
      BY <2>2, RequestForms
    <2> QED BY <2>1, <2>3, <1>5, RequestForms DEF Idle
  <1>7. Goto(c, r)
    BY <1>3, <1>5 DEF AddStarter
  <1> QED BY <1>1, <1>6, <1>7, FrontInv DEF AddStarter

LEMMA ReadFrontInv ==
    ASSUME Inv, NEW c \in Client, NEW f \in Front, ReadFront(c, f)
    PROVE  Inv'
  <1>1. fronts[f] \in FrontRow
    BY DEF ReadFront, Inv, Typed
  <1>2. PICK row \in {new \in FrontRow : new.funds = fronts[f].funds}
                     \cup {[fronts[f] EXCEPT !.funds = b] : b \in BOOLEAN} :
           Goto(c, [op |-> "front", at |-> "write", id |-> f, row |-> row])
    BY DEF ReadFront
  <1>3. row \in FrontRow
    <2>1. ASSUME NEW b \in BOOLEAN
          PROVE  [fronts[f] EXCEPT !.funds = b] \in FrontRow
      BY <1>1 DEF FrontRow
    <2> QED BY <1>2, <2>1
  <1>4. PICK r : r = [op |-> "front", at |-> "write", id |-> f, row |-> row]
    OBVIOUS
  <1>5. r \in Request /\ r.op = "front"
    BY <1>3, <1>4, RequestForms
  <1>6. fronts' \in [Front -> FrontRow \cup {None}]
    BY DEF ReadFront, Inv, Typed
  <1>7. Goto(c, r)
    BY <1>2, <1>4
  <1> QED BY <1>5, <1>6, <1>7, FrontInv DEF ReadFront

LEMMA WriteFrontInv ==
    ASSUME Inv, NEW c \in Client, WriteFront(c)
    PROVE  Inv'
  <1>1. req[c].id \in Front /\ req[c].row \in FrontRow
    BY FrontFields DEF WriteFront, Inv, Typed
  <1>2. fronts' \in [Front -> FrontRow \cup {None}]
    BY <1>1 DEF WriteFront, UpdateFrontRow, Inv, Typed
  <1>3. Idle \in Request /\ Idle.op = "idle"
    BY RequestForms DEF Idle
  <1> QED BY <1>2, <1>3, FrontInv DEF WriteFront

-----------------------------------------------------------------------------
(* Items.                                                                  *)

\* What an update will write, field by field.
LEMMA PatchedRow ==
    ASSUME NEW row \in Row, NEW p \in Patch, Target(row, p) \in Status,
           p.strength # Same => row.type = "obstacle"
    PROVE  /\ Patched(row, p) \in Row
           /\ Patched(row, p).type = row.type
           /\ Patched(row, p).answered = row.answered
           /\ Patched(row, p).status = Target(row, p)
           /\ Patched(row, p).bears = Or(p.bears, row.bears)
           /\ Patched(row, p).strength # "none" => row.strength # "none" \/ row.type = "obstacle"
  <1>1. /\ p.text \in Text \cup {Same} /\ p.front \in Front \cup {Nowhere, Same}
        /\ p.bears \in Item \cup {Nowhere, Same} /\ p.strength \in {Same, "set", "confirm"}
    BY MapAssumption
  <1>2. /\ Or(p.text, row.text) \in Text /\ Or(p.front, row.front) \in Front \cup {Nowhere}
        /\ Or(p.bears, row.bears) \in Item \cup {Nowhere}
    BY <1>1 DEF Or, Row
  <1>3. /\ Strength(row, p) \in {"none", "estimate", "confirmed"}
        /\ Strength(row, p) # "none" => row.strength # "none" \/ row.type = "obstacle"
    BY <1>1, MapAssumption DEF Strength, Row
  <1>4. PICK a : a = [row EXCEPT !.text = Or(p.text, @)]
    OBVIOUS
  <1>5. /\ a \in Row /\ a.front = row.front /\ a.bears = row.bears /\ a.type = row.type
        /\ a.answered = row.answered /\ a.strength = row.strength
    BY <1>2, <1>4 DEF Row
  <1>6. PICK b : b = [a EXCEPT !.front = Or(p.front, @)]
    OBVIOUS
  <1>7. /\ b \in Row /\ b.bears = row.bears /\ b.type = row.type
        /\ b.answered = row.answered /\ b.strength = row.strength
    BY <1>2, <1>5, <1>6 DEF Row
  <1>8. PICK d : d = [b EXCEPT !.bears = Or(p.bears, @)]
    OBVIOUS
  <1>9. /\ d \in Row /\ d.bears = Or(p.bears, row.bears) /\ d.type = row.type
        /\ d.answered = row.answered
    BY <1>2, <1>7, <1>8 DEF Row
  <1>10. PICK e : e = [d EXCEPT !.strength = Strength(row, p)]
    OBVIOUS
  <1>11. /\ e \in Row /\ e.bears = Or(p.bears, row.bears) /\ e.type = row.type
         /\ e.answered = row.answered /\ e.strength = Strength(row, p)
    BY <1>3, <1>9, <1>10 DEF Row
  <1>12. PICK f : f = [e EXCEPT !.status = Target(row, p)]
    OBVIOUS
  <1>13. /\ f \in Row /\ f.bears = Or(p.bears, row.bears) /\ f.type = row.type
         /\ f.answered = row.answered /\ f.strength = Strength(row, p) /\ f.status = Target(row, p)
    BY <1>11, <1>12 DEF Row
  <1>14. Patched(row, p) = f
    BY <1>4, <1>6, <1>8, <1>10, <1>12 DEF Patched
  <1> QED BY <1>3, <1>13, <1>14

\* A row that is there.
LEMMA HeldRow ==
    ASSUME Inv, NEW i \in Item, Held(i)
    PROVE  /\ rows[i] \in Row
           /\ Checked(rows[i]) /\ Bearing(rows[i]) /\ Agreed(i, rows[i])
  BY DEF Inv, Typed, RowsOK, Held

LEMMA LookupsOf ==
    ASSUME NEW row
    PROVE  /\ Lookups(row) \in SUBSET {"front", "bears"}
           /\ "bears" \in Lookups(row) <=> row.bears # Nowhere
  BY DEF Lookups

\* Resolved and withdrawn are reached from active only.
LEMMA AllowedFrom ==
    ASSUME NEW s \in Status, NEW to \in allowed[s]
    PROVE  to \in {"resolved", "withdrawn"} => s = "active"
  BY DEF allowed, Status

\* The status an update asks for is one the row may take, and what is kept by
\* it was agreed before or is agreed now.
LEMMA TargetAgreed ==
    ASSUME Inv, NEW i \in Item, Held(i), NEW p \in Patch,
           Transition(rows[i], Target(rows[i], p)),
           agreed' = IF p.to = "active" \/ (p.to = Same /\ Edited(p)) THEN agreed \cup {i} ELSE agreed
    PROVE  /\ Target(rows[i], p) \in Status
           /\ Target(rows[i], p) = "withdrawn" => rows[i].type = "objective"
           /\ Target(rows[i], p) \in {"active", "resolved", "withdrawn"} => i \in agreed'
  <1> DEFINE old == rows[i]  to == Target(rows[i], p)
  <1>1. old \in Row /\ Checked(old) /\ Agreed(i, old) /\ old.status \in Status
    BY HeldRow DEF Row
  <1>2. p.to \in Status \cup {Same} /\ Same \notin Status
    BY MapAssumption
  <1>3. to \in Status
    BY <1>1, <1>2 DEF Target, Status
  <1>4. to = "withdrawn" => old.type = "objective"
    BY <1>1 DEF Transition, Checked
  <1>5. to \in {"active", "resolved", "withdrawn"} => i \in agreed'
    <2> SUFFICES ASSUME to \in {"active", "resolved", "withdrawn"} PROVE i \in agreed'
      OBVIOUS
    <2>1. CASE to = old.status
      BY <2>1, <1>1 DEF Agreed
    <2>2. CASE to # old.status
      <3>1. to \in allowed[old.status]
        BY <2>2 DEF Transition
      <3>2. to \in {"resolved", "withdrawn"} => old.status = "active"
        BY <3>1, <1>1, AllowedFrom
      <3>3. to = "active" => p.to = "active" \/ (p.to = Same /\ Edited(p))
        BY <2>2 DEF Target
      <3> QED BY <3>2, <3>3, <1>1 DEF Agreed
    <2> QED BY <2>1, <2>2
  <1> QED BY <1>3, <1>4, <1>5

LEMMA UpdateInv ==
    ASSUME Inv, NEW c \in Client, NEW i \in Item, NEW p \in Patch, Update(c, i, p)
    PROVE  Inv'
  <1>1. Held(i) /\ UNCHANGED <<rows, fronts, loops, sorties>>
    BY DEF Update
  <1>2. PICK old \in Row : old = rows[i] /\ Checked(old) /\ Bearing(old)
    BY <1>1, HeldRow
  <1>3. /\ Target(old, p) \in Status
        /\ Target(old, p) = "withdrawn" => old.type = "objective"
        /\ Target(old, p) \in {"active", "resolved", "withdrawn"} => i \in agreed'
    BY <1>1, <1>2, TargetAgreed DEF Update
  <1>4. PICK row : row = Patched(old, p)
    OBVIOUS
  <1>5. /\ row \in Row /\ row.type = old.type /\ row.answered = old.answered
        /\ row.status = Target(old, p) /\ row.bears = Or(p.bears, old.bears)
        /\ row.strength # "none" => old.strength # "none" \/ old.type = "obstacle"
    BY <1>1, <1>2, <1>3, <1>4, PatchedRow DEF Update
  <1>6. Checked(row)
    BY <1>2, <1>3, <1>5 DEF Checked
  <1>7. Agreed(i, row)'
    BY <1>3, <1>5 DEF Agreed
  <1>8. PICK r : r = [op |-> "item", id |-> i, row |-> row, recon |-> FALSE,
                      todo |-> IF Replaced(p) THEN Lookups(row) ELSE {}]
    OBVIOUS
  <1>9. r \in Request /\ r.todo = IF Replaced(p) THEN Lookups(row) ELSE {}
    <2>1. (IF Replaced(p) THEN Lookups(row) ELSE {}) \in SUBSET {"front", "bears"}
      BY LookupsOf
    <2> QED BY <2>1, <1>5, <1>8, RequestForms
  <1>10. agreed \subseteq agreed' /\ agreed' \subseteq Item
    BY DEF Update, Inv, Typed
  <1>11. Grows
    BY <1>1, <1>10, GrowsAgreed
  <1>12. Is(i, row.type)'
    BY <1>1, <1>2, <1>5 DEF Is, Held
  <1>13. /\ row.bears # Nowhere => row.type # "objective"
         /\ "bears" \in r.todo => row.bears # Nowhere
         /\ "bears" \notin r.todo => Bearing(row)
    <2>1. CASE Replaced(p)
      <3>1. row.type = "objective" => row.bears = Nowhere
        BY <2>1, <1>2, <1>4 DEF Update
      <3> QED BY <2>1, <3>1, <1>9, LookupsOf DEF Bearing
    <2>2. CASE ~Replaced(p)
      BY <2>2, <1>2, <1>5, <1>9 DEF Replaced, Or, Bearing
    <2> QED BY <2>1, <2>2
  <1>14. "bears" \notin r.todo => Bearing(row)'
    BY <1>5, <1>11, <1>13, BearingStays
  <1>15. Vouched(r)'
    BY <1>6, <1>7, <1>8, <1>12, <1>13, <1>14 DEF Vouched, Checked
  <1>16. Goto(c, r)
    BY <1>2, <1>4, <1>8 DEF Update
  <1>17. fronts' \in [Front -> FrontRow \cup {None}]
    BY <1>1 DEF Inv, Typed
  <1> QED BY <1>1, <1>9, <1>10, <1>15, <1>16, <1>17, CarryInv

LEMMA CreateInv ==
    ASSUME Inv, NEW c \in Client, NEW row \in Draft, Create(c, row)
    PROVE  Inv'
  <1>1. /\ row \in Row /\ row.status = "active" /\ ~row.answered
    BY DraftAssumption
  <1>2. PICK r : r = [op |-> "create", row |-> row, todo |-> Lookups(row)]
    OBVIOUS
  <1>3. r \in Request
    BY <1>1, <1>2, LookupsOf, RequestForms
  <1>4. Checked(row) /\ (row.bears # Nowhere => row.type # "objective")
    BY <1>1 DEF Create, Checked
  <1>5. "bears" \notin Lookups(row) => Bearing(row)
    BY LookupsOf DEF Bearing
  <1>6. Vouched(r)
    BY <1>2, <1>4, <1>5, LookupsOf DEF Vouched
  <1>7. Goto(c, r)
    BY <1>2 DEF Create
  <1> QED BY <1>3, <1>6, <1>7, GoInv DEF Create

\* The lookup of a request that is being placed, and the request without it.
LEMMA Placing ==
    ASSUME NEW r \in Request, r.op \in {"item", "create"}, NEW T \in SUBSET {"front", "bears"},
           NEW q, q = [r EXCEPT !.todo = T]
    PROVE  /\ q \in Request /\ q.op = r.op /\ q.todo = T /\ q.row = r.row
           /\ r.op = "item" => q.id = r.id /\ q.recon = r.recon
  <1>1. CASE r.op = "item"
    <2>1. r \in [op : {"item"}, id : Item, row : Row, recon : BOOLEAN, todo : SUBSET {"front", "bears"}]
      BY <1>1 DEF Request, Idle
    <2>2. q = [op |-> "item", id |-> r.id, row |-> r.row, recon |-> r.recon, todo |-> T]
      BY <2>1
    <2> QED BY <2>1, <2>2, <1>1, RequestForms
  <1>2. CASE r.op = "create"
    <2>1. r \in [op : {"create"}, row : Row, todo : SUBSET {"front", "bears"}]
      BY <1>2 DEF Request, Idle
    <2>2. q = [op |-> "create", row |-> r.row, todo |-> T]
      BY <2>1
    <2> QED BY <2>1, <2>2, <1>2, RequestForms
  <1> QED BY <1>1, <1>2

LEMMA CheckFrontInv ==
    ASSUME Inv, NEW c \in Client, CheckFront(c)
    PROVE  Inv'
  <1>1. PICK q \in Request : q = req[c] /\ Vouched(q)
    BY DEF Inv, Typed, RequestsOK
  <1>2. q.op \in {"item", "create"} /\ q.todo \in SUBSET {"front", "bears"}
    BY <1>1, RequestFields DEF CheckFront
  <1>3. PICK a : a = [q EXCEPT !.todo = @ \ {"front"}]
    OBVIOUS
  <1>4. q.todo \ {"front"} \in SUBSET {"front", "bears"}
    BY <1>2
  <1>5. /\ a \in Request /\ a.op = q.op /\ a.todo = q.todo \ {"front"} /\ a.row = q.row
        /\ q.op = "item" => a.id = q.id /\ a.recon = q.recon
    BY <1>2, <1>3, <1>4, Placing
  <1>6. Vouched(a)
    BY <1>1, <1>2, <1>5 DEF Vouched
  <1>7. Goto(c, a) \/ Goto(c, Idle)
    BY <1>1, <1>3 DEF CheckFront
  <1> QED BY <1>5, <1>6, <1>7, IdleVouched, RequestForms, GoInv DEF CheckFront

LEMMA CheckObjectiveInv ==
    ASSUME Inv, NEW c \in Client, CheckObjective(c)
    PROVE  Inv'
  <1>1. PICK q \in Request : q = req[c] /\ Vouched(q)
    BY DEF Inv, Typed, RequestsOK
  <1>2. q.op \in {"item", "create"} /\ q.todo = {"bears"} /\ q.row \in Row
    BY <1>1, RequestFields DEF CheckObjective
  <1> DEFINE o == q.row.bears
  <1>3. o # Nowhere /\ o \in Item
    BY <1>1, <1>2 DEF Vouched, Row
  <1>4. CASE Bearable(o)
    <2>1. rows[o] \in Row
      BY <1>3, <1>4, HeldRow DEF Bearable
    <2>2. PICK a : a = [q EXCEPT !.todo = {}]
      OBVIOUS
    <2>3. /\ a \in Request /\ a.op = q.op /\ a.todo = {} /\ a.row = q.row
          /\ q.op = "item" => a.id = q.id /\ a.recon = q.recon
      <3>1. PICK r, T : r = q /\ T = {}
        OBVIOUS
      <3>2. r \in Request /\ r.op \in {"item", "create"}
        BY <1>1, <1>2, <3>1
      <3>3. T \in SUBSET {"front", "bears"}
        BY <3>1
      <3>4. a = [r EXCEPT !.todo = T]
        BY <2>2, <3>1
      <3>5. /\ a \in Request /\ a.op = r.op /\ a.todo = T /\ a.row = r.row
            /\ r.op = "item" => a.id = r.id /\ a.recon = r.recon
        BY <3>2, <3>3, <3>4, Placing
      <3> QED BY <3>1, <3>5
    <2>4. PICK row : row = [q.row EXCEPT !.front = IF @ = Nowhere THEN rows[o].front ELSE @]
      OBVIOUS
    <2>5. /\ row \in Row /\ row.type = q.row.type /\ row.bears = o /\ row.status = q.row.status
          /\ row.strength = q.row.strength /\ row.answered = q.row.answered
      BY <1>2, <2>1, <2>4 DEF Row
    <2>6. PICK b : b = [a EXCEPT !.row = row]
      OBVIOUS
    <2>7. /\ b \in Request /\ b.op = q.op /\ b.todo = {} /\ b.row = row
          /\ q.op = "item" => b.id = q.id /\ b.recon = q.recon
      <3>1. CASE q.op = "item"
        <4>1. a \in [op : {"item"}, id : Item, row : Row, recon : BOOLEAN, todo : SUBSET {"front", "bears"}]
          BY <2>3, <3>1 DEF Request, Idle
        <4>2. b = [op |-> "item", id |-> a.id, row |-> row, recon |-> a.recon, todo |-> {}]
          BY <4>1, <2>3, <2>6
        <4> QED BY <4>1, <4>2, <2>3, <2>5, <3>1, RequestForms
      <3>2. CASE q.op = "create"
        <4>1. a \in [op : {"create"}, row : Row, todo : SUBSET {"front", "bears"}]
          BY <2>3, <3>2 DEF Request, Idle
        <4>2. b = [op |-> "create", row |-> row, todo |-> {}]
          BY <4>1, <2>3, <2>6
        <4> QED BY <4>1, <4>2, <2>3, <2>5, <3>2, RequestForms
      <3> QED BY <3>1, <3>2, <1>2
    <2>8. Bearing(row)
      BY <1>1, <1>2, <1>3, <1>4, <2>5 DEF Bearing, Bearable, Is, Vouched
    <2>9. Vouched(b)
      BY <1>1, <1>2, <2>5, <2>7, <2>8 DEF Vouched, Checked, Agreed
    <2>10. b = [q EXCEPT !.todo = {}, !.row.front = IF @ = Nowhere THEN rows[o].front ELSE @]
      BY <2>2, <2>3, <2>4, <2>6
    <2>11. Goto(c, b)
      BY <1>1, <1>4, <2>10 DEF CheckObjective
    <2> QED BY <2>7, <2>9, <2>11, GoInv DEF CheckObjective
  <1>5. CASE ~Bearable(o)
    <2>1. Goto(c, Idle)
      BY <1>1, <1>5 DEF CheckObjective
    <2> QED BY <2>1, IdleVouched, RequestForms, GoInv DEF CheckObjective
  <1> QED BY <1>4, <1>5

LEMMA IdleVouchedAfter == Vouched(Idle)'
  BY DEF Vouched, Idle

LEMMA InsertManualInv ==
    ASSUME Inv, NEW c \in Client, NEW i \in Item, InsertManual(c, i)
    PROVE  Inv'
  <1>1. PICK q \in Request : q = req[c] /\ Vouched(q)
    BY DEF Inv, Typed, RequestsOK
  <1>2. q.op = "create" /\ q.todo = {} /\ q.row \in Row
    BY <1>1, RequestFields DEF InsertManual
  <1>3. Checked(q.row) /\ Bearing(q.row)
    BY <1>1, <1>2 DEF Vouched
  <1>4. Agreed(i, q.row)' /\ agreed \subseteq agreed' /\ agreed' \subseteq Item
    BY DEF InsertManual, Agreed, Inv, Typed
  <1>5. rows' = [rows EXCEPT ![i] = q.row] /\ ~Held(i)
    BY <1>1 DEF InsertManual, InsertItem, UpdateItem
  <1> QED BY <1>2, <1>3, <1>4, <1>5, IdleVouchedAfter, RequestForms, WriteInv DEF InsertManual

LEMMA WriteItemInv ==
    ASSUME Inv, NEW c \in Client, WriteItem(c)
    PROVE  Inv'
  <1>1. PICK q \in Request : q = req[c] /\ Vouched(q)
    BY DEF Inv, Typed, RequestsOK
  <1>2. q.op = "item" /\ q.todo = {} /\ q.row \in Row /\ q.id \in Item
    BY <1>1, RequestFields DEF WriteItem
  <1>3. /\ Checked(q.row) /\ Bearing(q.row) /\ Is(q.id, q.row.type) /\ Agreed(q.id, q.row)
        /\ q.recon => q.row.type = "unknown"
    BY <1>1, <1>2 DEF Vouched
  <1>4. rows' = [rows EXCEPT ![q.id] = q.row] /\ UNCHANGED <<fronts, loops, sorties, agreed>>
    BY <1>1 DEF WriteItem, UpdateItem
  <1>5. Agreed(q.id, q.row)'
    BY <1>3, <1>4 DEF Agreed
  <1>6. Grows
    BY <1>2, <1>3, <1>4, <1>5, RowsWritten DEF Inv, Is
  <1>7. PICK r : r = IF q.recon THEN [op |-> "order", id |-> q.id, text |-> q.row.text] ELSE Idle
    OBVIOUS
  <1>8. r \in Request /\ Vouched(r)
    <2>1. q.row.text \in Text
      BY <1>2 DEF Row
    <2> QED BY <2>1, <1>2, <1>3, <1>7, RequestForms, IdleVouched DEF Vouched
  <1>9. Vouched(r)'
    BY <1>6, <1>8, VouchedStays
  <1>10. Goto(c, r)
    BY <1>1, <1>7 DEF WriteItem
  <1>11. agreed' \subseteq Item
    BY <1>4 DEF Inv, Typed
  <1> QED BY <1>2, <1>3, <1>4, <1>5, <1>8, <1>9, <1>10, <1>11, WriteInv DEF Is

\* A request for item i that will write row, with nothing left to look up: it
\* agrees to what it keeps.
LEMMA KeepInv ==
    ASSUME Inv, NEW c \in Client, NEW i \in Item, NEW row \in Row, NEW b \in BOOLEAN,
           Goto(c, [op |-> "item", id |-> i, todo |-> {}, recon |-> b, row |-> row]),
           Is(i, row.type), row.type = "unknown", Checked(row), Bearing(row),
           agreed' = agreed \cup {i}, UNCHANGED <<rows, fronts, loops, sorties>>
    PROVE  Inv'
  <1>1. PICK r : r = [op |-> "item", id |-> i, row |-> row, recon |-> b, todo |-> {}]
    OBVIOUS
  <1>2. r \in Request
    <2>1. {} \in SUBSET {"front", "bears"}
      OBVIOUS
    <2> QED BY <2>1, <1>1, RequestForms
  <1>3. agreed \subseteq agreed' /\ agreed' \subseteq Item
    BY DEF Inv, Typed
  <1>4. Grows
    BY <1>3, GrowsAgreed
  <1>5. Is(i, row.type)' /\ Bearing(row)' /\ Agreed(i, row)'
    <2>1. Is(i, row.type)'
      BY <1>4, IsStays
    <2> QED BY <2>1, <1>4, BearingStays DEF Agreed
  <1>6. Vouched(r)'
    BY <1>1, <1>5 DEF Vouched, Checked
  <1>7. Goto(c, r)
    BY <1>1
  <1> QED BY <1>2, <1>3, <1>6, <1>7, CarryInv DEF Inv, Typed

LEMMA LiftInv ==
    ASSUME Inv, NEW c \in Client, NEW i \in Item, Lift(c, i)
    PROVE  Inv'
  <1>1. PICK old \in Row : old = rows[i] /\ Checked(old) /\ Bearing(old)
    BY HeldRow DEF Lift
  <1>2. PICK a : a = [old EXCEPT !.status = "resolved"]
    OBVIOUS
  <1>3. /\ a \in Row /\ a.type = old.type /\ a.status = "resolved" /\ a.strength = old.strength
        /\ a.bears = old.bears
    BY <1>2 DEF Row, Status
  <1>4. PICK row : row = [a EXCEPT !.answered = TRUE]
    OBVIOUS
  <1>5. /\ row \in Row /\ row.type = "unknown" /\ row.status = "resolved"
        /\ row.strength = old.strength /\ row.bears = old.bears
    BY <1>1, <1>3, <1>4 DEF Row, Lift
  <1>6. Checked(row) /\ Bearing(row) /\ Is(i, row.type)
    BY <1>1, <1>5 DEF Checked, Bearing, Is, Lift
  <1>7. Goto(c, [op |-> "item", id |-> i, todo |-> {}, recon |-> FALSE, row |-> row])
    BY <1>1, <1>2, <1>4 DEF Lift
  <1> QED BY <1>5, <1>6, <1>7, KeepInv DEF Lift

-----------------------------------------------------------------------------
(* Orders and sorties.                                                     *)

LEMMA SendReconInv ==
    ASSUME Inv, NEW c \in Client, NEW i \in Item, SendRecon(c, i)
    PROVE  Inv'
  <1>1. PICK old \in Row : old = rows[i] /\ Checked(old) /\ Bearing(old)
    BY HeldRow DEF SendRecon
  <1>2. old.type = "unknown" /\ Held(i)
    BY <1>1 DEF SendRecon
  <1>3. CASE old.status = "proposed"
    <2>1. PICK row : row = [old EXCEPT !.status = "active"]
      OBVIOUS
    <2>2. /\ row \in Row /\ row.type = old.type /\ row.status = "active" /\ row.strength = old.strength
          /\ row.bears = old.bears /\ row.answered = old.answered
      BY <2>1 DEF Row, Status
    <2>3. Checked(row) /\ Bearing(row) /\ Is(i, row.type)
      BY <1>1, <1>2, <2>2 DEF Checked, Bearing, Is
    <2>4. Goto(c, [op |-> "item", id |-> i, todo |-> {}, recon |-> TRUE, row |-> row])
      BY <1>1, <1>3, <2>1 DEF SendRecon
    <2> QED BY <1>2, <2>2, <2>3, <2>4, KeepInv DEF SendRecon
  <1>4. CASE old.status # "proposed"
    <2>1. PICK r : r = [op |-> "order", id |-> i, text |-> old.text]
      OBVIOUS
    <2>2. r \in Request
      <3>1. old.text \in Text
        BY DEF Row
      <3> QED BY <3>1, <2>1, RequestForms
    <2>3. agreed \subseteq agreed' /\ agreed' \subseteq Item /\ UNCHANGED <<rows, fronts, loops, sorties>>
      BY DEF SendRecon, Inv, Typed
    <2>4. Vouched(r)'
      BY <1>1, <1>2, <2>1, <2>3 DEF Vouched, Is, Held
    <2>5. Goto(c, r)
      BY <1>1, <1>4, <2>1 DEF SendRecon
    <2> QED BY <2>2, <2>3, <2>4, <2>5, CarryInv DEF Inv, Typed
  <1> QED BY <1>3, <1>4

LEMMA LoopForms ==
    \A s \in {"proposed", "open", "ended"}, t \in Text, k \in Kinds, i \in Item \cup {Nowhere} :
        [status |-> s, text |-> t, kind |-> k, target |-> i] \in LoopRow
  BY DEF LoopRow, Kinds

LEMMA HeldLoop ==
    ASSUME Inv, NEW l \in Loop, loops[l] # None
    PROVE  loops[l] \in LoopRow /\ Aimed(loops[l].target, loops[l].kind)
  BY DEF Inv, Typed, LoopsOK

LEMMA CreateOrderInv ==
    ASSUME Inv, NEW c \in Client, CreateOrder(c)
    PROVE  Inv'
  <1>1. PICK q \in Request : q = req[c] /\ Vouched(q)
    BY DEF Inv, Typed, RequestsOK
  <1>2. q.op = "order" /\ q.id \in Item /\ q.text \in Text /\ Is(q.id, "unknown")
    BY <1>1, RequestFields DEF CreateOrder, Vouched
  <1>3. ASSUME NEW l \in Loop,
               InsertLoop(l, [status |-> "open", text |-> q.text, kind |-> "recon", target |-> q.id]),
               Goto(c, Idle)
        PROVE  Inv'
    <2>1. PICK row : row = [status |-> "open", text |-> q.text, kind |-> "recon", target |-> q.id]
      OBVIOUS
    <2>2. row \in LoopRow /\ row.status = "open"
      BY <1>2, <2>1, LoopForms DEF Kinds
    <2>3. Aimed(row.target, row.kind)
      BY <1>2, <2>1, MapAssumption DEF Aimed, Is
    <2>4. loops' = [loops EXCEPT ![l] = row]
      BY <1>3, <2>1 DEF InsertLoop
    <2>5. UNCHANGED <<rows, fronts, sorties, agreed>>
      BY DEF CreateOrder
    <2> QED BY <1>3, <2>2, <2>3, <2>4, <2>5, OrderInv, RequestForms, IdleVouched
  <1>4. CASE UNCHANGED loops /\ Goto(c, [op |-> "find", text |-> q.text])
    <2>1. PICK r : r = [op |-> "find", text |-> q.text]
      OBVIOUS
    <2>2. r \in Request /\ Vouched(r)
      BY <1>2, <2>1, RequestForms DEF Vouched
    <2> QED BY <1>4, <2>1, <2>2, GoInv DEF CreateOrder
  <1> QED BY <1>1, <1>3, <1>4 DEF CreateOrder

LEMMA FindLiveInv ==
    ASSUME Inv, NEW c \in Client, FindLive(c)
    PROVE  Inv'
  <1>1. CASE Goto(c, Idle)
    BY <1>1, IdleVouched, RequestForms, GoInv DEF FindLive
  <1>2. ASSUME NEW l \in Loop, loops[l] # None, Goto(c, [op |-> "accept", id |-> l])
        PROVE  Inv'
    <2>1. PICK r : r = [op |-> "accept", id |-> l]
      OBVIOUS
    <2>2. r \in Request /\ Vouched(r)
      BY <1>2, <2>1, RequestForms DEF Vouched
    <2> QED BY <1>2, <2>1, <2>2, GoInv DEF FindLive
  <1> QED BY <1>1, <1>2 DEF FindLive

LEMMA AcceptInv ==
    ASSUME Inv, NEW c \in Client, Accept(c)
    PROVE  Inv'
  <1>1. PICK q \in Request : q = req[c] /\ Vouched(q)
    BY DEF Inv, Typed, RequestsOK
  <1>2. q.op = "accept" /\ q.id \in Loop /\ loops[q.id] # None
    BY <1>1, RequestFields DEF Accept, Vouched
  <1>3. PICK old \in LoopRow : old = loops[q.id] /\ Aimed(old.target, old.kind)
    BY <1>2, HeldLoop
  <1>4. PICK row : row = [old EXCEPT !.status = "open"]
    OBVIOUS
  <1>5. row \in LoopRow /\ row.status = "open" /\ row.target = old.target /\ row.kind = old.kind
    BY <1>4 DEF LoopRow
  <1>6. loops' = [loops EXCEPT ![q.id] = row]
    BY <1>1, <1>3, <1>4 DEF Accept
  <1>7. Goto(c, Idle) /\ UNCHANGED <<rows, fronts, sorties, agreed>>
    BY DEF Accept
  <1>8. Aimed(row.target, row.kind)
    BY <1>3, <1>5
  <1> QED BY <1>2, <1>5, <1>6, <1>7, <1>8, OrderInv, RequestForms, IdleVouched

LEMMA KindFits ==
    ASSUME NEW i \in Item, Held(i)
    PROVE  KindOf(i) \in Kinds /\ Aimed(i, KindOf(i))
  BY MapAssumption DEF KindOf, Kinds, Aimed

LEMMA AimedNowhere == Aimed(Nowhere, "order")
  BY DEF Aimed

LEMMA AimInv ==
    ASSUME Inv, NEW c \in Client, NEW l \in Loop, NEW i \in Item, Aim(c, l, i)
    PROVE  Inv'
  <1>1. PICK k : k = KindOf(i)
    OBVIOUS
  <1>2. k \in Kinds /\ Aimed(i, k)
    BY <1>1, KindFits DEF Aim
  <1>3. PICK r : r = [op |-> "aim", id |-> l, target |-> i, kind |-> k]
    OBVIOUS
  <1>4. r \in Request
    BY <1>2, <1>3, MoreRequestForms
  <1>5. Vouched(r)
    BY <1>2, <1>3 DEF Vouched, Aim
  <1>6. Goto(c, r)
    BY <1>1, <1>3 DEF Aim
  <1> QED BY <1>4, <1>5, <1>6, GoInv DEF Aim

LEMMA SetTargetInv ==
    ASSUME Inv, NEW c \in Client, SetTarget(c)
    PROVE  Inv'
  <1>1. PICK q \in Request : q = req[c] /\ Vouched(q)
    BY DEF Inv, Typed, RequestsOK
  <1>2. /\ q.id \in Loop /\ q.target \in Item /\ q.kind \in Kinds
        /\ loops[q.id] # None /\ Aimed(q.target, q.kind)
    BY <1>1, RequestFields DEF SetTarget, Vouched
  <1>3. PICK old \in LoopRow : old = loops[q.id]
    BY <1>2, HeldLoop
  <1>4. PICK a : a = [old EXCEPT !.target = q.target]
    OBVIOUS
  <1>5. PICK row : row = [a EXCEPT !.kind = q.kind]
    OBVIOUS
  <1>6. row \in LoopRow /\ row.target = q.target /\ row.kind = q.kind /\ row.status = old.status
    <2>1. a \in LoopRow /\ a.target = q.target /\ a.status = old.status
      BY <1>2, <1>4 DEF LoopRow
    <2> QED BY <2>1, <1>2, <1>5 DEF LoopRow, Kinds
  <1>7. loops' = [loops EXCEPT ![q.id] = row]
    BY <1>1, <1>3, <1>4, <1>5 DEF SetTarget
  <1>8. Goto(c, Idle) /\ UNCHANGED <<rows, fronts, sorties, agreed>>
    BY DEF SetTarget
  <1>9. Flyable(q.id) => row.status # "proposed"
    BY <1>3, <1>6 DEF Flyable
  <1>10. Aimed(row.target, row.kind)
    BY <1>2, <1>6
  <1> QED BY <1>2, <1>6, <1>7, <1>8, <1>9, <1>10, OrderInv, RequestForms, IdleVouched

LEMMA AimNowhereInv ==
    ASSUME Inv, NEW c \in Client, NEW l \in Loop, AimNowhere(c, l)
    PROVE  Inv'
  <1>1. PICK old \in LoopRow : old = loops[l]
    BY HeldLoop DEF AimNowhere
  <1>2. PICK a : a = [old EXCEPT !.target = Nowhere]
    OBVIOUS
  <1>3. PICK row : row = [a EXCEPT !.kind = "order"]
    OBVIOUS
  <1>4. row \in LoopRow /\ row.target = Nowhere /\ row.kind = "order" /\ row.status = old.status
    <2>1. a \in LoopRow /\ a.target = Nowhere /\ a.status = old.status
      BY <1>2 DEF LoopRow
    <2> QED BY <2>1, <1>3 DEF LoopRow
  <1>5. loops' = [loops EXCEPT ![l] = row]
    BY <1>1, <1>2, <1>3 DEF AimNowhere
  <1>6. Flyable(l) => row.status # "proposed"
    BY <1>1, <1>4 DEF Flyable
  <1>7. Aimed(row.target, row.kind)
    BY <1>4, AimedNowhere
  <1> QED BY <1>4, <1>5, <1>6, <1>7, OrderInv DEF AimNowhere

LEMMA LoopMovesInv ==
    ASSUME Inv, NEW l \in Loop, LoopMoves(l)
    PROVE  Inv'
  <1>1. PICK old \in LoopRow : old = loops[l] /\ Aimed(old.target, old.kind)
    BY HeldLoop DEF LoopMoves
  <1>2. PICK s \in {"open", "ended"} : loops' = [loops EXCEPT ![l].status = s]
    BY DEF LoopMoves
  <1>3. PICK row : row = [old EXCEPT !.status = s]
    OBVIOUS
  <1>4. row \in LoopRow /\ row.status = s /\ row.target = old.target /\ row.kind = old.kind
    BY <1>3 DEF LoopRow
  <1>5. loops' = [loops EXCEPT ![l] = row]
    BY <1>1, <1>2, <1>3
  <1>6. Aimed(row.target, row.kind)
    BY <1>1, <1>4
  <1> QED BY <1>2, <1>4, <1>5, <1>6, OrderInv DEF LoopMoves

LEMMA PromiseInv ==
    ASSUME Inv, NEW l \in Loop, NEW o \in Item \cup {Nowhere}, NEW t \in Text, Promise(l, o, t)
    PROVE  Inv'
  <1>1. PICK row : row = [status |-> "proposed", text |-> t, kind |-> "order", target |-> o]
    OBVIOUS
  <1>2. row \in LoopRow /\ row.kind = "order" /\ row.target = o
    BY <1>1, LoopForms DEF Kinds
  <1>3. Aimed(row.target, row.kind)
    BY <1>2 DEF Aimed, Promise
  <1>4. loops' = [loops EXCEPT ![l] = row] /\ ~Flyable(l)
    BY <1>1 DEF Promise, InsertLoop, Flyable
  <1> QED BY <1>2, <1>3, <1>4, OrderInv DEF Promise

LEMMA LogSortieInv ==
    ASSUME Inv, NEW c \in Client, NEW f \in Front, LogSortie(c, f)
    PROVE  Inv'
  <1>1. PICK l \in {Nowhere} \cup Loop :
           Goto(c, [op |-> "sortie", front |-> f, order |-> l, checked |-> l = Nowhere])
    BY DEF LogSortie
  <1>2. PICK r : r = [op |-> "sortie", front |-> f, order |-> l, checked |-> l = Nowhere]
    OBVIOUS
  <1>3. r \in Request
    <2>1. (l = Nowhere) \in BOOLEAN
      OBVIOUS
    <2> QED BY <2>1, <1>2, MoreRequestForms
  <1>4. Vouched(r)
    BY <1>1, <1>2 DEF Vouched, Flown
  <1>5. Goto(c, r)
    BY <1>1, <1>2
  <1> QED BY <1>3, <1>4, <1>5, GoInv DEF LogSortie

LEMMA CheckOrderInv ==
    ASSUME Inv, NEW c \in Client, CheckOrder(c)
    PROVE  Inv'
  <1>1. PICK q \in Request : q = req[c] /\ Vouched(q)
    BY DEF Inv, Typed, RequestsOK
  <1>2. q.op = "sortie" /\ ~q.checked
    BY <1>1 DEF CheckOrder
  <1>3. CASE Flyable(q.order)
    <2>1. PICK r : r = [q EXCEPT !.checked = TRUE]
      OBVIOUS
    <2>2. q \in [op : {"sortie"}, front : Front, order : Loop \cup {Nowhere}, checked : BOOLEAN]
      BY <1>2 DEF Request, Idle
    <2>3. r = [op |-> "sortie", front |-> q.front, order |-> q.order, checked |-> TRUE]
      BY <2>1, <2>2
    <2>4. r \in Request
      BY <2>2, <2>3, MoreRequestForms
    <2>5. Vouched(r)
      BY <1>3, <2>3 DEF Vouched, Flown
    <2>6. Goto(c, r)
      BY <1>1, <1>3, <2>1 DEF CheckOrder
    <2> QED BY <2>4, <2>5, <2>6, GoInv DEF CheckOrder
  <1>4. CASE ~Flyable(q.order)
    <2>1. Goto(c, Idle)
      BY <1>1, <1>4 DEF CheckOrder
    <2> QED BY <2>1, IdleVouched, RequestForms, GoInv DEF CheckOrder
  <1> QED BY <1>3, <1>4

LEMMA InsertSortieInv ==
    ASSUME Inv, NEW c \in Client, InsertSortie(c)
    PROVE  Inv'
  <1>1. PICK q \in Request : q = req[c] /\ Vouched(q)
    BY DEF Inv, Typed, RequestsOK
  <1>2. q.op = "sortie" /\ q.front \in Front /\ q.order \in Loop \cup {Nowhere} /\ Flown(q.order)
    BY <1>1, RequestFields DEF InsertSortie, Vouched
  <1>3. PICK s : s = [front |-> q.front, order |-> q.order]
    OBVIOUS
  <1>4. sorties' = sorties \cup {s} /\ UNCHANGED <<rows, fronts, loops, agreed>> /\ Goto(c, Idle)
    BY <1>1, <1>3 DEF InsertSortie
  <1>5. Grows
    BY <1>4, GrowsAgreed
  <1>6. RequestsOK' /\ req' \in [Client -> Request]
    BY <1>4, <1>5, RequestsMoved, RequestForms, IdleVouchedAfter DEF Inv, Goto
  <1>7. SortiesOK'
    <2>1. \A x \in sorties' : Flown(x.order)
      BY <1>2, <1>3, <1>4 DEF Inv, SortiesOK
    <2> QED BY <2>1, <1>4 DEF SortiesOK, Flown, Flyable
  <1>8. RowsOK' /\ LoopsOK'
    BY <1>4, <1>5, RowsKept, LoopsKept DEF Inv
  <1>9. Typed'
    BY <1>2, <1>3, <1>4, <1>6 DEF Inv, Typed
  <1> QED BY <1>6, <1>7, <1>8, <1>9 DEF Inv

LEMMA DeleteSortieInv ==
    ASSUME Inv, NEW c \in Client, NEW s \in sorties, DeleteSortie(c, s)
    PROVE  Inv'
  <1>1. UNCHANGED <<rows, fronts, loops, req, agreed>> /\ sorties' \subseteq sorties
    BY DEF DeleteSortie
  <1>2. Grows
    BY <1>1, GrowsAgreed
  <1>3. RowsOK' /\ LoopsOK' /\ SortiesOK' /\ RequestsOK'
    BY <1>1, <1>2, RowsKept, LoopsKept, SortiesKept, RequestsKept DEF Inv
  <1>4. Typed'
    BY <1>1 DEF Inv, Typed
  <1> QED BY <1>3, <1>4 DEF Inv

-----------------------------------------------------------------------------
(* Turns read for intelligence.                                            *)

LEMMA ObserveTurnInv ==
    ASSUME Inv, NEW c \in Client, NEW mode \in {"chat", "interrogation", "red_team"},
           ObserveTurn(c, mode)
    PROVE  Inv'
  <1>1. PICK seen : seen = IF mode = "interrogation" THEN <<>>
                           ELSE [o \in ActiveObjectives |-> rows[o].front]
    OBVIOUS
  <1>2. seen \in Seen /\ \A o \in DOMAIN seen : Is(o, "objective")
    <2>1. CASE mode = "interrogation"
      <3>1. <<>> \in [{} -> Places] /\ {} \in SUBSET Item /\ DOMAIN <<>> = {}
        OBVIOUS
      <3> QED BY <2>1, <3>1, <1>1, SeenIs
    <2>2. CASE mode # "interrogation"
      <3>1. ActiveObjectives \in SUBSET Item /\ \A o \in ActiveObjectives : Is(o, "objective")
        BY DEF ActiveObjectives, Is
      <3>2. \A o \in ActiveObjectives : rows[o].front \in Places
        BY <3>1, HeldRow DEF Is, Row, Places
      <3>3. seen \in [ActiveObjectives -> Places]
        BY <2>2, <3>2, <1>1
      <3> QED BY <3>1, <3>3, SeenIs
    <2> QED BY <2>1, <2>2
  <1>3. PICK F : F = IF mode = "chat" THEN ActiveFronts ELSE {}
    OBVIOUS
  <1>4. F \in SUBSET Front
    BY <1>3 DEF ActiveFronts
  <1>5. PICK r : r = [op |-> "read", mode |-> mode, left |-> MaxProposals, last |-> "objective",
                      fronts |-> F, seen |-> seen]
    OBVIOUS
  <1>6. r \in Request
    BY <1>2, <1>4, <1>5, MapAssumption, MoreRequestForms DEF Type
  <1>7. Vouched(r)
    BY <1>2, <1>5 DEF Vouched
  <1>8. Goto(c, r)
    BY <1>1, <1>3, <1>5 DEF ObserveTurn
  <1> QED BY <1>6, <1>7, <1>8, GoInv DEF ObserveTurn

\* What a read turn can place its proposals on.
LEMMA ProposalPlaces ==
    ASSUME NEW q \in Request, q.op = "read", Vouched(q), NEW type \in Type,
           NEW o \in Bears(q, type), NEW f \in FrontsOf(q, o)
    PROVE  /\ o = Nowhere \/ (type # "objective" /\ o \in Item /\ Is(o, "objective"))
           /\ f \in Places
  <1>1. /\ q.seen \in Seen /\ q.fronts \in SUBSET Front
        /\ DOMAIN q.seen \subseteq Item /\ \A x \in DOMAIN q.seen : q.seen[x] \in Places
        /\ \A x \in DOMAIN q.seen : Is(x, "objective")
    BY RequestFields, SeenIs DEF Vouched
  <1>2. o = Nowhere \/ (type # "objective" /\ o \in DOMAIN q.seen)
    BY DEF Bears
  <1>3. f \in Places
    BY <1>1, <1>2 DEF FrontsOf, Places
  <1> QED BY <1>1, <1>2, <1>3

LEMMA ProposeInv ==
    ASSUME Inv, NEW c \in Client, NEW i \in Item, NEW type \in Type, NEW text \in Text,
           Propose(c, i, type, text)
    PROVE  Inv'
  <1>1. PICK q \in Request : q = req[c] /\ Vouched(q)
    BY DEF Inv, Typed, RequestsOK
  <1>2. /\ q.op = "read" /\ q.left \in Nat /\ q.left > 0
        /\ q.mode \in {"chat", "interrogation", "red_team"} /\ q.last \in Type
        /\ q.fronts \in SUBSET Front /\ q.seen \in Seen
    BY <1>1, RequestFields DEF Propose
  <1>3. PICK o \in Bears(q, type) : \E f \in FrontsOf(q, o) :
           InsertItem(i, [type |-> type, status |-> "proposed", text |-> text, front |-> f,
                          bears |-> o, answered |-> FALSE,
                          strength |-> IF type = "obstacle" THEN "estimate" ELSE "none"])
    BY <1>1 DEF Propose
  <1>4. PICK f \in FrontsOf(q, o) :
           InsertItem(i, [type |-> type, status |-> "proposed", text |-> text, front |-> f,
                          bears |-> o, answered |-> FALSE,
                          strength |-> IF type = "obstacle" THEN "estimate" ELSE "none"])
    BY <1>3
  <1>5. /\ o = Nowhere \/ (type # "objective" /\ o \in Item /\ Is(o, "objective"))
        /\ f \in Places
    BY <1>1, <1>2, ProposalPlaces
  <1>6. PICK row : row = [type |-> type, status |-> "proposed", text |-> text, front |-> f,
                          bears |-> o, answered |-> FALSE,
                          strength |-> IF type = "obstacle" THEN "estimate" ELSE "none"]
    OBVIOUS
  <1>7. /\ row \in Row /\ row.type = type /\ row.status = "proposed" /\ row.bears = o
        /\ ~row.answered
        /\ row.strength # "none" => type = "obstacle"
    BY <1>5, <1>6 DEF Row, Places, Status, Type
  <1>8. Checked(row) /\ Bearing(row) /\ Agreed(i, row)'
    BY <1>5, <1>7 DEF Checked, Bearing, Agreed
  <1>9. ~Held(i) /\ rows' = [rows EXCEPT ![i] = row]
    BY <1>4, <1>6 DEF InsertItem, UpdateItem
  <1>10. UNCHANGED <<fronts, loops, sorties, agreed>>
    BY DEF Propose
  <1>11. Grows
    BY <1>7, <1>8, <1>9, <1>10, RowsWritten DEF Inv
  <1>12. PICK seen : seen = IF type # "objective" THEN q.seen
                            ELSE [x \in DOMAIN q.seen \cup {i} |-> IF x = i THEN Nowhere ELSE q.seen[x]]
    OBVIOUS
  <1>13. /\ seen \in Seen
         /\ \A x \in DOMAIN seen : x \in DOMAIN q.seen \/ (x = i /\ type = "objective")
    <2>1. CASE type # "objective"
      BY <2>1, <1>2, <1>12
    <2>2. CASE type = "objective"
      <3>1. DOMAIN q.seen \subseteq Item /\ \A x \in DOMAIN q.seen : q.seen[x] \in Places
        BY <1>2, SeenIs
      <3>2. PICK S : S = DOMAIN q.seen \cup {i}
        OBVIOUS
      <3>3. S \in SUBSET Item
        BY <3>1, <3>2
      <3>4. seen \in [S -> Places]
        BY <2>2, <3>1, <3>2, <1>12 DEF Places
      <3> QED BY <2>2, <3>2, <3>3, <3>4, SeenIs
    <2> QED BY <2>1, <2>2
  <1>14. PICK r : r = [op |-> "read", mode |-> q.mode, left |-> q.left - 1, last |-> type,
                       fronts |-> q.fronts, seen |-> seen]
    OBVIOUS
  <1>15. r \in Request
    <2>1. q.left - 1 \in Nat
      BY <1>2
    <2> QED BY <2>1, <1>2, <1>13, <1>14, MoreRequestForms
  <1>16. \A x \in DOMAIN seen : Is(x, "objective")'
    <2> SUFFICES ASSUME NEW x \in DOMAIN seen PROVE Is(x, "objective")'
      OBVIOUS
    <2>1. CASE x = i /\ type = "objective"
      <3>1. rows'[i] = row /\ row # None
        BY <1>7, <1>9, NotNone DEF Inv, Typed
      <3> QED BY <2>1, <3>1, <1>7 DEF Is, Held
    <2>2. CASE x \in DOMAIN q.seen
      <3>1. x \in Item /\ Is(x, "objective")
        BY <2>2, <1>1, <1>2, SeenIs DEF Vouched
      <3> QED BY <3>1, <1>11, IsStays
    <2> QED BY <2>1, <2>2, <1>13
  <1>17. Vouched(r)'
    BY <1>14, <1>16 DEF Vouched
  <1>18. Goto(c, r)
    <2>1. q = [op |-> "read", mode |-> q.mode, left |-> q.left, last |-> q.last,
               fronts |-> q.fronts, seen |-> q.seen]
      BY <1>2 DEF Request, Idle
    <2>2. PICK a : a = [q EXCEPT !.left = @ - 1]
      OBVIOUS
    <2>3. a = [op |-> "read", mode |-> q.mode, left |-> q.left - 1, last |-> q.last,
               fronts |-> q.fronts, seen |-> q.seen]
      BY <2>1, <2>2
    <2>4. PICK b : b = [a EXCEPT !.last = type]
      OBVIOUS
    <2>5. b = [op |-> "read", mode |-> q.mode, left |-> q.left - 1, last |-> type,
               fronts |-> q.fronts, seen |-> q.seen]
      BY <2>3, <2>4
    <2>6. r = [b EXCEPT !.seen = seen]
      BY <2>5, <1>14
    <2>7. r = [q EXCEPT !.left = @ - 1, !.last = type, !.seen = seen]
      BY <2>2, <2>4, <2>6
    <2>8. Goto(c, [q EXCEPT !.left = @ - 1, !.last = type,
                      !.seen = IF type # "objective" THEN q.seen
                               ELSE [x \in DOMAIN q.seen \cup {i} |-> IF x = i THEN Nowhere ELSE q.seen[x]]])
      BY <1>1 DEF Propose
    <2> QED BY <2>7, <2>8, <1>12
  <1>19. agreed \subseteq agreed' /\ agreed' \subseteq Item
    BY <1>10 DEF Inv, Typed
  <1> QED BY <1>7, <1>8, <1>9, <1>10, <1>15, <1>17, <1>18, <1>19, WriteInv

LEMMA AimProbeInv ==
    ASSUME Inv, NEW c \in Client, AimProbe(c)
    PROVE  Inv'
  <1>1. PICK i \in {Nowhere} \cup {j \in Item : Held(j) /\ rows[j].status \in Live
                                                  /\ rows[j].type # "objective"} :
           Goto(c, [op |-> "probe", target |-> i, kind |-> IF i = Nowhere THEN "order" ELSE KindOf(i)])
    BY DEF AimProbe
  <1>2. PICK k : k = IF i = Nowhere THEN "order" ELSE KindOf(i)
    OBVIOUS
  <1>3. k \in Kinds /\ Aimed(i, k)
    BY <1>1, <1>2, KindFits, AimedNowhere DEF Kinds
  <1>4. PICK r : r = [op |-> "probe", target |-> i, kind |-> k]
    OBVIOUS
  <1>5. r \in Request
    BY <1>1, <1>3, <1>4, MoreRequestForms
  <1>6. Vouched(r)
    BY <1>3, <1>4 DEF Vouched
  <1>7. Goto(c, r)
    BY <1>1, <1>2, <1>4
  <1> QED BY <1>5, <1>6, <1>7, GoInv DEF AimProbe

LEMMA ProposeOrderInv ==
    ASSUME Inv, NEW c \in Client, NEW l \in Loop, NEW t \in Text, ProposeOrder(c, l, t)
    PROVE  Inv'
  <1>1. PICK q \in Request : q = req[c] /\ Vouched(q)
    BY DEF Inv, Typed, RequestsOK
  <1>2. q.op = "probe" /\ q.target \in Item \cup {Nowhere} /\ q.kind \in Kinds /\ Aimed(q.target, q.kind)
    BY <1>1, RequestFields DEF ProposeOrder, Vouched
  <1>3. PICK row : row = [status |-> "proposed", text |-> t, kind |-> q.kind, target |-> q.target]
    OBVIOUS
  <1>4. row \in LoopRow /\ row.kind = q.kind /\ row.target = q.target
    BY <1>2, <1>3, LoopForms
  <1>5. Aimed(row.target, row.kind)
    BY <1>2, <1>4
  <1>6. loops' = [loops EXCEPT ![l] = row] /\ ~Flyable(l)
    BY <1>1, <1>3 DEF ProposeOrder, InsertLoop, Flyable
  <1>7. PICK r : r = [op |-> "probe", target |-> Nowhere, kind |-> "order"]
    OBVIOUS
  <1>8. r \in Request /\ Vouched(r)
    BY <1>7, AimedNowhere, MoreRequestForms DEF Kinds, Vouched
  <1>9. Goto(c, r)
    <2>1. q = [op |-> "probe", target |-> q.target, kind |-> q.kind]
      BY <1>2 DEF Request, Idle
    <2>2. PICK a : a = [q EXCEPT !.target = Nowhere]
      OBVIOUS
    <2>3. a = [op |-> "probe", target |-> Nowhere, kind |-> q.kind]
      BY <2>1, <2>2
    <2>4. r = [a EXCEPT !.kind = "order"]
      BY <2>3, <1>7
    <2> QED BY <2>2, <2>4, <1>1 DEF ProposeOrder
  <1>10. UNCHANGED <<rows, fronts, sorties, agreed>>
    BY DEF ProposeOrder
  <1> QED BY <1>4, <1>5, <1>6, <1>8, <1>9, <1>10, OrderInv

LEMMA EndInv ==
    ASSUME Inv, NEW c \in Client, End(c)
    PROVE  Inv'
  BY IdleVouched, RequestForms, GoInv DEF End

-----------------------------------------------------------------------------
(* Theorems.                                                               *)

LEMMA InitInv == Init => Inv
  <1> SUFFICES ASSUME Init PROVE Inv
    OBVIOUS
  <1>1. Typed
    BY RequestForms DEF Init, Typed
  <1>2. RowsOK /\ LoopsOK /\ SortiesOK
    BY DEF Init, RowsOK, LoopsOK, SortiesOK, Held
  <1>3. RequestsOK
    BY IdleVouched DEF Init, RequestsOK
  <1> QED BY <1>1, <1>2, <1>3 DEF Inv

LEMMA NextInv == Inv /\ [Next]_vars => Inv'
  <1> SUFFICES ASSUME Inv, [Next]_vars PROVE Inv'
    OBVIOUS
  <1>1. CASE UNCHANGED vars
    <2>1. UNCHANGED <<rows, fronts, loops, sorties, req, agreed>>
      BY <1>1 DEF vars
    <2>2. Grows
      BY <2>1, GrowsAgreed
    <2>3. RowsOK' /\ LoopsOK' /\ SortiesOK' /\ RequestsOK'
      BY <2>1, <2>2, RowsKept, LoopsKept, SortiesKept, RequestsKept DEF Inv
    <2> QED BY <2>1, <2>3 DEF Inv, Typed
  <1>2. ASSUME NEW c \in Client,
               \/ \E f \in Front, n \in Name : CreateFront(c, f, n)
               \/ AddStarters(c)
               \/ \E n \in Name : AddStarter(c, n)
               \/ \E f \in Front : ReadFront(c, f)
               \/ WriteFront(c)
        PROVE  Inv'
    BY <1>2, CreateFrontInv, AddStartersInv, AddStarterInv, ReadFrontInv, WriteFrontInv
  <1>3. ASSUME NEW c \in Client,
               \/ \E i \in Item, p \in Patch : Update(c, i, p)
               \/ \E row \in Draft : Create(c, row)
               \/ CheckFront(c) \/ CheckObjective(c) \/ WriteItem(c)
               \/ \E i \in Item : InsertManual(c, i) \/ Lift(c, i) \/ SendRecon(c, i)
        PROVE  Inv'
    BY <1>3, UpdateInv, CreateInv, CheckFrontInv, CheckObjectiveInv, WriteItemInv, InsertManualInv,
       LiftInv, SendReconInv
  <1>4. ASSUME NEW c \in Client,
               \/ CreateOrder(c) \/ FindLive(c) \/ Accept(c)
               \/ \E l \in Loop, i \in Item : Aim(c, l, i)
               \/ SetTarget(c)
               \/ \E l \in Loop : AimNowhere(c, l)
               \/ \E f \in Front : LogSortie(c, f)
               \/ CheckOrder(c) \/ InsertSortie(c)
               \/ \E s \in sorties : DeleteSortie(c, s)
        PROVE  Inv'
    BY <1>4, CreateOrderInv, FindLiveInv, AcceptInv, AimInv, SetTargetInv, AimNowhereInv,
       LogSortieInv, CheckOrderInv, InsertSortieInv, DeleteSortieInv
  <1>5. ASSUME NEW c \in Client,
               \/ \E mode \in {"chat", "interrogation", "red_team"} : ObserveTurn(c, mode)
               \/ \E i \in Item, type \in Type, t \in Text : Propose(c, i, type, t)
               \/ AimProbe(c)
               \/ \E l \in Loop, t \in Text : ProposeOrder(c, l, t)
               \/ End(c)
        PROVE  Inv'
    BY <1>5, ObserveTurnInv, ProposeInv, AimProbeInv, ProposeOrderInv, EndInv
  <1>6. ASSUME \/ \E l \in Loop : LoopMoves(l)
               \/ \E l \in Loop, o \in Item \cup {Nowhere}, t \in Text : Promise(l, o, t)
        PROVE  Inv'
    BY <1>6, LoopMovesInv, PromiseInv
  <1> QED BY <1>1, <1>2, <1>3, <1>4, <1>5, <1>6 DEF Next

LEMMA InvType == Inv => TypeOK
  <1> SUFFICES ASSUME Inv PROVE TypeOK
    OBVIOUS
  <1>1. \A c \in Client : req[c].op \in Ops
    BY RequestFields DEF Inv, Typed
  <1> QED BY <1>1 DEF Inv, Typed, RowsOK, Checked, TypeOK

\* The rows the requests write are rows the table takes, its CHECKs with them,
\* whatever they were built from: for any items, fronts, orders and requests.
THEOREM MapTypeOK == Spec => []TypeOK
  BY InitInv, NextInv, InvType, PTL DEF Spec

LEMMA InvKept == Inv => KeptFirst
  <1> SUFFICES ASSUME Inv PROVE KeptFirst
    OBVIOUS
  <1>1. ASSUME NEW i \in Item, rows[i].status \in {"active", "resolved", "withdrawn"}
        PROVE  i \in agreed
    <2>1. Held(i)
      BY <1>1 DEF Held, None
    <2> QED BY <2>1, <1>1, HeldRow DEF Agreed
  <1>2. \A s \in sorties : s.order # Nowhere => loops[s.order].status # "proposed"
    BY DEF Inv, SortiesOK, Flown, Flyable
  <1> QED BY <1>1, <1>2 DEF KeptFirst

\* What moves on the map the owner entered or asked to keep, and what was flown
\* was accepted, however requests and read turns interleave: the transitions of
\* Manage.Update and the check of LogSortie are enough, although both are made
\* on rows read before the write.
THEOREM MapKeptFirst == Spec => []KeptFirst
  BY InitInv, NextInv, InvKept, PTL DEF Spec

LEMMA InvAims == Inv => AimsFit
  BY DEF Inv, RowsOK, LoopsOK, Bearing, Is, Aimed, AimsFit

\* What bears on something bears on an objective, and what scouts, scouts an
\* unknown: place, Aim and the read turns look before they write, and what they
\* saw cannot have become anything else.
THEOREM MapAimsFit == Spec => []AimsFit
  BY InitInv, NextInv, InvAims, PTL DEF Spec

=============================================================================
