--------------------------- MODULE CheckInsProofs ----------------------------
(***************************************************************************)
(* Proofs about CheckIns, for any clients, slots, hours, loops and bounds. *)
(***************************************************************************)
EXTENDS CheckIns, FiniteSetTheorems, TLAPS

\* The check-ins that name loop l.
Naming(l) == {k \in DOMAIN checkin : l \in checkin[k].names}

\* What TypeOK leaves open: a tick is a record, made at a time of the clock.
Ticks ==
    /\ tick \in [at : Int, todo : SUBSET DOMAIN Slots, nudge : BOOLEAN]
    /\ tick.todo # {} \/ tick.nudge => tick.at # -1

\* What checkIdle found is so for as long as the nudge waits for the lock.
Nudging ==
    tick.nudge =>
        /\ Active(tick.at)
        /\ wrote # -1
        /\ wrote >= tick.at \/ tick.at - wrote >= IdleAfter

\* News is paid for before it is told.
Told ==
    /\ IsFiniteSet(DOMAIN checkin)
    /\ \A l \in Loop :
        Cardinality(Naming(l)) + (IF l \in news.of THEN 1 ELSE 0) <= went[l]

Inv == TypeOK /\ Ticks /\ NoCallWasted /\ Nudging /\ Told

\* The actions, by what they may change: neither rows, tick nor lock; the tick
\* and the lock; the rows.
Around ==
    \/ \E S \in SUBSET Loop : MarkStale(S)
    \/ OnStale
    \/ \E l \in Loop : Reopen(l)
    \/ \E c \in Client :
        \/ \E k \in DOMAIN checkin : OpenRead(c, k)
        \/ \E s \in Session : StartSession(c, s)
        \/ Fail(c)
    \/ TimePasses \/ UserWrites \/ Toggle

Turns == Tick \/ ScheduledAsk \/ CheckIdle \/ (\E c \in Client : NowAsk(c)) \/ Restart

Writes ==
    \/ ScheduledStore \/ IdleNudge \/ StaleNudge
    \/ \E c \in Client : NowStore(c)

Edits ==
    \/ \E c \in Client : AttachSession(c)
    \/ \E k \in DOMAIN checkin : Dismiss(k)
    \/ \E s \in Session : DeleteSession(s)

-----------------------------------------------------------------------------
(* Helpers.                                                                *)

\* The day of a time of the model is a day of the model.
LEMMA DayIn ==
    ASSUME NEW t \in Time
    PROVE  Day(t) \in 0 .. Day(LastTime)
  <1>1. LastTime \in Nat /\ DayLength \in Nat \ {0}
    BY CheckInsAssumption
  <1> QED BY <1>1 DEF Day, Time

\* Every key a check-in is written under is a key of the table.
LEMMA Keys ==
    ASSUME NEW t \in Time
    PROVE  /\ \A i \in DOMAIN Slots : KeyOf(<<"slot", Slots[i].name>>, Day(t)) \in Key
           /\ KeyOf(<<"idle", 0>>, Day(t)) \in Key
           /\ KeyOf(<<"now", t>>, Day(t)) \in Key
           /\ \A l \in Loop : KeyOf(<<"stale", l>>, Day(t)) \in Key
  <1>1. Day(t) \in 0 .. Day(LastTime)
    BY DayIn
  <1>2. ASSUME NEW i \in DOMAIN Slots
        PROVE  KeyOf(<<"slot", Slots[i].name>>, Day(t)) \in Key
    <2>1. Slots[i].name \in Names
      BY DEF Names
    <2> QED BY <1>1, <2>1 DEF KeyOf, Key
  <1>3. KeyOf(<<"idle", 0>>, Day(t)) \in Key
    BY <1>1 DEF KeyOf, Key
  <1>4. KeyOf(<<"now", t>>, Day(t)) \in Key
    BY <1>1 DEF KeyOf, Key
  <1>5. ASSUME NEW l \in Loop PROVE KeyOf(<<"stale", l>>, Day(t)) \in Key
    BY <1>1 DEF KeyOf, Key
  <1> QED BY <1>2, <1>3, <1>4, <1>5

\* The table as TypeOK has it, and its rows counted.
Table ==
    /\ DOMAIN checkin \subseteq Key
    /\ \A k \in DOMAIN checkin : checkin[k] \in Row
    /\ IsFiniteSet(DOMAIN checkin)

\* A row created is one more, and names its loops once more.
LEMMA CreatedRow ==
    ASSUME Table, NEW k \in Key, NEW S \in SUBSET Loop, Create(k, S)
    PROVE  /\ Table'
           /\ DOMAIN checkin' = DOMAIN checkin \cup {k}
           /\ \A l \in Loop :
                Cardinality(Naming(l)') = Cardinality(Naming(l)) + (IF l \in S THEN 1 ELSE 0)
  <1>1. /\ k \notin DOMAIN checkin
        /\ DOMAIN checkin' = DOMAIN checkin \cup {k}
        /\ checkin'[k] = [session |-> "none", seen |-> FALSE, names |-> S]
        /\ \A m \in DOMAIN checkin : checkin'[m] = checkin[m]
    BY DEF Create
  <1>2. IsFiniteSet(DOMAIN checkin')
    BY <1>1, FS_AddElement DEF Table
  <1>3. \A m \in DOMAIN checkin' : checkin'[m] \in Row
    <2>1. checkin'[k] \in Row
      BY <1>1 DEF Row
    <2> QED BY <1>1, <2>1 DEF Table
  <1>4. ASSUME NEW l \in Loop
        PROVE  Cardinality(Naming(l)') = Cardinality(Naming(l)) + (IF l \in S THEN 1 ELSE 0)
    <2>1. IsFiniteSet(Naming(l)) /\ k \notin Naming(l)
      BY <1>1, FS_Subset DEF Naming, Table
    <2>2. Cardinality(Naming(l)) \in Nat
      BY <2>1, FS_CardinalityType
    <2>3. CASE l \in S
      <3>1. Naming(l)' = Naming(l) \cup {k}
        BY <1>1, <2>3 DEF Naming
      <3> QED BY <2>1, <2>2, <2>3, <3>1, FS_AddElement
    <2>4. CASE l \notin S
      <3>1. Naming(l)' = Naming(l)
        BY <1>1, <2>4 DEF Naming
      <3> QED BY <2>2, <2>4, <3>1
    <2> QED BY <2>3, <2>4
  <1> QED BY <1>1, <1>2, <1>3, <1>4 DEF Table

\* Rows edited in place name what they named.
LEMMA EditedRows ==
    ASSUME Table, DOMAIN checkin' = DOMAIN checkin,
           \A k \in DOMAIN checkin :
             checkin'[k] \in Row /\ checkin'[k].names = checkin[k].names
    PROVE  /\ Table'
           /\ \A l \in Loop : Naming(l)' = Naming(l)
  BY DEF Table, Naming

LEMMA CountType ==
    ASSUME Table, NEW l \in Loop
    PROVE  Cardinality(Naming(l)) \in Nat
  <1>1. IsFiniteSet(Naming(l))
    BY FS_Subset DEF Naming, Table
  <1> QED BY <1>1, FS_CardinalityType

LEMMA InvTable == Inv => Table
  BY DEF Inv, TypeOK, Told, Table

-----------------------------------------------------------------------------
(* The initial states.                                                     *)

LEMMA InitInv == Init => Inv
  <1>1. ASSUME Init PROVE Inv
    <2>1. DOMAIN checkin = {}
      BY <1>1 DEF Init
    <2>2. TypeOK
      <3>1. 0 \in Time /\ {0, LastTime} \subseteq Nat
        BY CheckInsAssumption DEF Time
      <3>2. \A c \in Client : lock # c /\ req[c].do # "now"
        BY <1>1, CheckInsAssumption DEF Init, Idle
      <3>3. went \in [Loop -> 0 .. MaxStale]
        BY <1>1, CheckInsAssumption DEF Init
      <3> QED BY <1>1, <2>1, <3>1, <3>2, <3>3 DEF Init, TypeOK, NoTick, NoNews, Idle
    <2>3. Ticks /\ NoCallWasted /\ Nudging
      BY <1>1 DEF Init, Ticks, NoCallWasted, Nudging, NoTick
    <2>4. Told
      <3>1. IsFiniteSet(DOMAIN checkin)
        BY <2>1, FS_EmptySet
      <3>2. \A l \in Loop : Naming(l) = {}
        BY <2>1 DEF Naming
      <3>3. \A l \in Loop : Cardinality(Naming(l)) = 0
        BY <3>2, FS_EmptySet
      <3>4. \A l \in Loop : l \notin news.of /\ went[l] = 0
        BY <1>1 DEF Init, NoNews
      <3> QED BY <3>1, <3>3, <3>4 DEF Told
    <2> QED BY <2>2, <2>3, <2>4 DEF Inv
  <1> QED BY <1>1

-----------------------------------------------------------------------------
(* The steps around: clocks, loops and what requests read.                 *)

\* Rows that stay leave what is named as it is.
LEMMA SameRows ==
    ASSUME Inv, UNCHANGED checkin
    PROVE  IsFiniteSet(DOMAIN checkin') /\ \A l \in Loop : Naming(l)' = Naming(l)
  BY DEF Inv, Told, Naming

LEMMA MarkStaleInv ==
    ASSUME Inv, NEW S \in SUBSET Loop, MarkStale(S)
    PROVE  Inv'
  <1>1. /\ UNCHANGED <<now, on, checkin, started, used, wrote, lock, tick, req>>
        /\ news.of = {} /\ S \cap stale = {}
        /\ stale' = stale \cup S
        /\ news' = [of |-> S, heard |-> FALSE]
        /\ \A l \in S : went[l] < MaxStale
        /\ went' = [l \in Loop |-> IF l \in S THEN went[l] + 1 ELSE went[l]]
    BY DEF MarkStale, Sweepable, chats, NoNews
  <1>2. MaxStale \in Nat /\ \A l \in Loop : went[l] \in 0 .. MaxStale
    BY CheckInsAssumption DEF Inv, TypeOK
  <1>3. went' \in [Loop -> 0 .. MaxStale]
    BY <1>1, <1>2
  <1>4. TypeOK'
    BY <1>1, <1>3 DEF Inv, TypeOK
  <1>5. Told'
    <2>1. ASSUME NEW l \in Loop
          PROVE  Cardinality(Naming(l)') + (IF l \in news'.of THEN 1 ELSE 0) <= went'[l]
      <3>1. Cardinality(Naming(l)) <= went[l] /\ Cardinality(Naming(l)) \in Nat
        BY <1>1, <1>2, InvTable, CountType DEF Inv, Told
      <3>2. Naming(l)' = Naming(l) /\ news'.of = S
        BY <1>1, SameRows
      <3>3. went'[l] = IF l \in S THEN went[l] + 1 ELSE went[l]
        BY <1>1
      <3> QED BY <1>2, <3>1, <3>2, <3>3
    <2> QED BY <1>1, <2>1, SameRows DEF Told
  <1> QED BY <1>1, <1>4, <1>5 DEF Inv, Ticks, NoCallWasted, First, SlotKey, Nudging

LEMMA AroundInv ==
    ASSUME Inv, Around
    PROVE  Inv'
  <1>1. ASSUME UNCHANGED <<checkin, tick, lock, went>>, TypeOK', Nudging',
               news'.of \subseteq news.of
        PROVE  Inv'
    <2>1. ASSUME NEW l \in Loop
          PROVE  Cardinality(Naming(l)') + (IF l \in news'.of THEN 1 ELSE 0) <= went'[l]
      <3>1. /\ Cardinality(Naming(l)) \in Nat /\ went[l] \in Int
            /\ Cardinality(Naming(l)) + (IF l \in news.of THEN 1 ELSE 0) <= went[l]
        BY InvTable, CountType DEF Inv, Told, TypeOK
      <3>2. Naming(l)' = Naming(l)
        BY <1>1, SameRows
      <3> QED BY <1>1, <3>1, <3>2
    <2>2. Told'
      BY <1>1, <2>1, SameRows DEF Told
    <2> QED BY <1>1, <2>2 DEF Inv, Ticks, NoCallWasted, First, SlotKey
  <1>2. CASE \E S \in SUBSET Loop : MarkStale(S)
    BY <1>2, MarkStaleInv
  <1>3. CASE OnStale
    BY <1>1, <1>3 DEF OnStale, NoNews, Inv, TypeOK, Nudging, chats
  <1>4. CASE \E l \in Loop : Reopen(l)
    BY <1>1, <1>4 DEF Reopen, Inv, TypeOK, Nudging, chats
  <1>5. ASSUME NEW c \in Client, NEW k \in DOMAIN checkin, OpenRead(c, k)
        PROVE  Inv'
    <2>1. k \in Key
      BY DEF Inv, TypeOK
    <2>2. [do |-> "start", key |-> k] \in [do : {"start"}, key : Key]
      BY <2>1
    <2>3. lock # c
      BY <1>5 DEF OpenRead, Inv, TypeOK, Idle
    <2>4. TypeOK'
      BY <1>5, <2>2, <2>3 DEF OpenRead, Goes, Inv, TypeOK, chats, loops
    <2> QED BY <1>1, <1>5, <2>4 DEF OpenRead, Inv, Nudging, chats, loops
  <1>6. ASSUME NEW c \in Client, NEW s \in Session, StartSession(c, s)
        PROVE  Inv'
    <2>1. req[c].key \in Key
      BY <1>6 DEF StartSession, Inv, TypeOK, Idle
    <2>2. [do |-> "attach", key |-> req[c].key, session |-> s]
            \in [do : {"attach"}, key : Key, session : Session]
      BY <2>1
    <2>3. lock # c
      BY <1>6 DEF StartSession, Inv, TypeOK
    <2>4. TypeOK'
      BY <1>6, <2>2, <2>3 DEF StartSession, Goes, Inv, TypeOK, loops
    <2> QED BY <1>1, <1>6, <2>4 DEF StartSession, Inv, Nudging, loops
  <1>7. ASSUME NEW c \in Client, Fail(c)
        PROVE  Inv'
    <2>1. lock # c
      BY <1>7 DEF Fail, Inv, TypeOK
    <2>2. TypeOK'
      BY <1>7, <2>1 DEF Fail, Goes, Idle, Inv, TypeOK, chats, loops
    <2> QED BY <1>1, <1>7, <2>2 DEF Fail, Inv, Nudging, chats, loops
  <1>8. CASE TimePasses
    <2>1. now' \in Time /\ tick.at \in -1 .. now'
      BY <1>8, CheckInsAssumption DEF TimePasses, Inv, TypeOK, Time
    <2>2. TypeOK'
      BY <1>8, <2>1 DEF TimePasses, Inv, TypeOK, chats, loops
    <2> QED BY <1>1, <1>8, <2>2 DEF TimePasses, Inv, Nudging, chats, loops
  <1>9. CASE UserWrites
    <2>1. wrote' \in Time /\ wrote' # -1 /\ wrote' >= tick.at
      BY <1>9, CheckInsAssumption DEF UserWrites, Inv, TypeOK, Time
    <2>2. TypeOK'
      BY <1>9, <2>1 DEF UserWrites, Inv, TypeOK, chats, loops
    <2> QED BY <1>1, <1>9, <2>1, <2>2 DEF UserWrites, Inv, Nudging, chats, loops
  <1>10. CASE Toggle
    BY <1>1, <1>10 DEF Toggle, Inv, TypeOK, Nudging, chats, loops
  <1> QED BY <1>2, <1>3, <1>4, <1>5, <1>6, <1>7, <1>8, <1>9, <1>10 DEF Around

-----------------------------------------------------------------------------
(* The tick and the lock.                                                  *)

LEMMA TickTime ==
    ASSUME Inv, tick.todo # {} \/ tick.nudge
    PROVE  tick.at \in Time /\ tick.at \in Int
  BY CheckInsAssumption DEF Inv, TypeOK, Ticks, Time

LEMMA TurnsInv ==
    ASSUME Inv, Turns
    PROVE  Inv'
  <1>1. ASSUME UNCHANGED <<checkin, went>>, TypeOK', Ticks', Nudging', NoCallWasted',
               news'.of \subseteq news.of
        PROVE  Inv'
    <2>1. ASSUME NEW l \in Loop
          PROVE  Cardinality(Naming(l)') + (IF l \in news'.of THEN 1 ELSE 0) <= went'[l]
      <3>1. /\ Cardinality(Naming(l)) \in Nat /\ went[l] \in Int
            /\ Cardinality(Naming(l)) + (IF l \in news.of THEN 1 ELSE 0) <= went[l]
        BY InvTable, CountType DEF Inv, Told, TypeOK
      <3>2. Naming(l)' = Naming(l)
        BY <1>1, SameRows
      <3> QED BY <1>1, <3>1, <3>2
    <2>2. Told'
      BY <1>1, <2>1, SameRows DEF Told
    <2> QED BY <1>1, <2>2 DEF Inv
  <1>2. CASE Tick
    <2>1. /\ tick' = [at |-> now, todo |-> {i \in DOMAIN Slots : Due(Slots[i], now)}, nudge |-> FALSE]
          /\ UNCHANGED <<now, on, checkin, started, used, wrote, lock, req, stale, went, news>>
      BY <1>2 DEF Tick, chats, loops
    <2>2. lock # "scheduler"
      BY <1>2 DEF Tick, NoTick, Inv, TypeOK
    <2>3. now \in Int /\ now # -1 /\ now \in -1 .. now
      BY CheckInsAssumption DEF Inv, TypeOK, Time
    <2>4. TypeOK'
      BY <2>1, <2>2, <2>3 DEF Inv, TypeOK
    <2>5. Ticks' /\ Nudging' /\ NoCallWasted'
      BY <2>1, <2>2, <2>3 DEF Ticks, Nudging, NoCallWasted
    <2> QED BY <1>1, <2>1, <2>4, <2>5
  <1>3. CASE ScheduledAsk
    <2>1. PICK i \in tick.todo :
            /\ First(i)
            /\ IF Fired(SlotKey(i))
               THEN FirstDone(i) /\ UNCHANGED lock
               ELSE lock' = "scheduler" /\ UNCHANGED tick
      BY <1>3 DEF ScheduledAsk
    <2>2. /\ lock = "free"
          /\ UNCHANGED <<now, on, checkin, started, used, wrote, req, stale, went, news>>
      BY <1>3 DEF ScheduledAsk, chats, loops
    <2>3. CASE Fired(SlotKey(i))
      <3>1. tick' = [tick EXCEPT !.todo = @ \ {i}] /\ lock' = "free"
        BY <2>1, <2>2, <2>3 DEF FirstDone
      <3>2. Ticks' /\ Nudging' /\ NoCallWasted'
        BY <2>2, <3>1 DEF Inv, Ticks, Nudging, NoCallWasted
      <3>3. TypeOK'
        BY <2>2, <3>1 DEF Inv, TypeOK, Ticks
      <3> QED BY <1>1, <2>2, <3>2, <3>3
    <2>4. CASE ~Fired(SlotKey(i))
      <3>1. tick' = tick /\ lock' = "scheduler"
        BY <2>1, <2>4
      <3>2. \A j \in tick.todo : First(j) => j = i
        BY <2>1, CheckInsAssumption DEF First, Inv, TypeOK
      <3>3. NoCallWasted'
        BY <2>2, <2>4, <3>1, <3>2 DEF NoCallWasted, First, SlotKey, Fired
      <3>4. TypeOK'
        BY <2>1, <2>2, <3>1, CheckInsAssumption DEF Inv, TypeOK
      <3> QED BY <1>1, <2>2, <3>1, <3>3, <3>4 DEF Inv, Ticks, Nudging
    <2> QED BY <2>3, <2>4
  <1>4. CASE CheckIdle
    <2>1. /\ tick.todo = {} /\ tick # NoTick
          /\ UNCHANGED <<now, on, checkin, started, used, wrote, lock, req, stale, went, news>>
      BY <1>4 DEF CheckIdle, Ticking, chats, loops
    <2>2. lock # "scheduler"
      BY <2>1 DEF Inv, TypeOK
    <2>3. CASE tick' = NoTick
      BY <1>1, <2>1, <2>2, <2>3, CheckInsAssumption
         DEF Inv, TypeOK, Ticks, Nudging, NoCallWasted, NoTick, Time
    <2>4. CASE tick' = [tick EXCEPT !.nudge = TRUE] /\ Active(tick.at) /\ Quiet
      <3>1. /\ tick'.at = tick.at /\ tick'.todo = {} /\ tick'.nudge = TRUE
            /\ tick' \in [at : Int, todo : SUBSET DOMAIN Slots, nudge : BOOLEAN]
        BY <2>1, <2>4 DEF Inv, Ticks
      <3>2. tick.at # -1
        BY <2>1 DEF Inv, Ticks, NoTick, CheckIdle
      <3>3. Ticks' /\ NoCallWasted'
        BY <2>1, <2>2, <3>1, <3>2 DEF Ticks, NoCallWasted
      <3>4. Nudging'
        BY <2>1, <2>4, <3>1 DEF Nudging, Quiet, Active
      <3>5. TypeOK'
        BY <2>1, <2>2, <3>1 DEF Inv, TypeOK
      <3> QED BY <1>1, <2>1, <3>3, <3>4, <3>5
    <2> QED BY <1>4, <2>3, <2>4 DEF CheckIdle
  <1>5. ASSUME NEW c \in Client, NowAsk(c)
        PROVE  Inv'
    <2>1. /\ lock = "free" /\ lock' = c
          /\ req' = [req EXCEPT ![c] = [do |-> "now", minute |-> now]]
          /\ UNCHANGED <<now, on, checkin, started, used, wrote, tick, stale, went, news>>
      BY <1>5 DEF NowAsk, Goes, chats, loops
    <2>2. c # "scheduler" /\ \A d \in Client : d # "free"
      BY CheckInsAssumption
    <2>3. [do |-> "now", minute |-> now] \in [do : {"now"}, minute : Time]
      BY DEF Inv, TypeOK
    <2>4. TypeOK'
      BY <2>1, <2>2, <2>3 DEF Inv, TypeOK
    <2>5. NoCallWasted' /\ Ticks' /\ Nudging'
      BY <2>1, <2>2 DEF Inv, NoCallWasted, Ticks, Nudging
    <2> QED BY <1>1, <2>1, <2>4, <2>5
  <1>6. CASE Restart
    <2>1. \A c \in Client : c # "free"
      BY CheckInsAssumption
    <2>2. TypeOK'
      BY <1>6, <2>1, CheckInsAssumption DEF Restart, Inv, TypeOK, NoTick, NoNews, Idle, chats, Time
    <2>3. NoCallWasted' /\ Ticks' /\ Nudging'
      BY <1>6 DEF Restart, NoCallWasted, Ticks, Nudging, NoTick
    <2> QED BY <1>1, <1>6, <2>2, <2>3 DEF Restart, NoNews, chats
  <1> QED BY <1>2, <1>3, <1>4, <1>5, <1>6 DEF Turns

-----------------------------------------------------------------------------
(* What is written.                                                        *)

\* A check-in written or not, names S only if news was of S and is told.
LEMMA WrittenInv ==
    ASSUME Inv, NEW k \in Key, NEW S \in SUBSET Loop, CreateOrNot(k, S),
           UNCHANGED <<now, wrote, went, started, used, on, stale>>,
           S = {} \/ (S = news.of /\ news' = NoNews),
           news' = news \/ news' = NoNews
    PROVE  Table' /\ Told'
  <1>1. Table /\ \A l \in Loop : Cardinality(Naming(l)) \in Nat
    BY InvTable, CountType
  <1>2. \A l \in Loop : went[l] \in Int
    BY DEF Inv, TypeOK
  <1>3. /\ Table'
        /\ \A l \in Loop :
             \/ Naming(l)' = Naming(l)
             \/ Cardinality(Naming(l)') = Cardinality(Naming(l)) + (IF l \in S THEN 1 ELSE 0)
    <2>1. CASE Create(k, S)
      BY <1>1, <2>1, CreatedRow
    <2>2. CASE UNCHANGED checkin
      BY <1>1, <2>2 DEF Table, Naming
    <2> QED BY <2>1, <2>2 DEF CreateOrNot
  <1>4. ASSUME NEW l \in Loop
        PROVE  Cardinality(Naming(l)') + (IF l \in news'.of THEN 1 ELSE 0) <= went'[l]
    <2>1. Cardinality(Naming(l)) + (IF l \in news.of THEN 1 ELSE 0) <= went[l]
      BY DEF Inv, Told
    <2>2. Cardinality(Naming(l)') = Cardinality(Naming(l))
            \/ Cardinality(Naming(l)') = Cardinality(Naming(l)) + (IF l \in S THEN 1 ELSE 0)
      BY <1>3
    <2>3. l \in news'.of => news' = news /\ l \notin S
      BY DEF NoNews
    <2>4. l \in S => l \in news.of /\ l \notin news'.of
      BY DEF NoNews
    <2> QED BY <1>1, <1>2, <2>1, <2>2, <2>3, <2>4
  <1> QED BY <1>3, <1>4 DEF Told, Table

LEMMA WrittenNamingNone ==
    ASSUME Inv, NEW k \in Key, CreateOrNot(k, {}),
           UNCHANGED <<now, wrote, went, started, used, on, stale, news>>
    PROVE  Table' /\ Told'
  <1>1. PICK S \in SUBSET Loop : S = {}
    OBVIOUS
  <1>2. CreateOrNot(k, S)
    BY <1>1
  <1>3. S = {} \/ (S = news.of /\ news' = NoNews)
    BY <1>1
  <1> QED BY <1>2, <1>3, WrittenInv

LEMMA WritesInv ==
    ASSUME Inv, Writes
    PROVE  Inv'
  <1>1. \A c \in Client : c # "free" /\ c # "scheduler"
    BY CheckInsAssumption
  <1>2. CASE ScheduledStore
    <2>1. PICK i \in tick.todo : First(i) /\ CreateOrNot(SlotKey(i), {}) /\ FirstDone(i)
      BY <1>2 DEF ScheduledStore
    <2>2. /\ lock = "scheduler" /\ lock' = "free"
          /\ UNCHANGED <<now, on, started, used, wrote, req, stale, went, news>>
      BY <1>2 DEF ScheduledStore, Unlock, chats, loops
    <2>3. SlotKey(i) \in Key
      BY <2>1, TickTime, Keys DEF SlotKey, Inv, TypeOK
    <2>4. Table' /\ Told'
      BY <2>1, <2>2, <2>3, WrittenNamingNone
    <2>5. tick' = [tick EXCEPT !.todo = @ \ {i}]
      BY <2>1 DEF FirstDone
    <2>6. Ticks' /\ Nudging' /\ NoCallWasted'
      BY <2>2, <2>5 DEF Inv, Ticks, Nudging, NoCallWasted
    <2>7. TypeOK'
      BY <1>1, <2>2, <2>4, <2>5 DEF Inv, TypeOK, Ticks, Table
    <2> QED BY <2>4, <2>6, <2>7 DEF Inv
  <1>3. CASE IdleNudge
    <2>1. /\ tick.nudge /\ lock = "free" /\ tick' = NoTick
          /\ CreateOrNot(KeyOf(<<"idle", 0>>, Day(now)), {})
          /\ UNCHANGED <<now, on, started, used, wrote, lock, req, stale, went, news>>
      BY <1>3 DEF IdleNudge, chats, loops
    <2>2. now \in Time
      BY DEF Inv, TypeOK
    <2>3. Table' /\ Told'
      BY <2>1, <2>2, Keys, WrittenNamingNone
    <2>4. TypeOK'
      BY <2>1, <2>2, <2>3, CheckInsAssumption DEF Inv, TypeOK, Table, NoTick, Time
    <2>5. Ticks' /\ Nudging' /\ NoCallWasted'
      BY <2>1 DEF Ticks, Nudging, NoCallWasted, NoTick
    <2> QED BY <2>3, <2>4, <2>5 DEF Inv
  <1>4. CASE StaleNudge
    <2>1. PICK l \in news.of : CreateOrNot(KeyOf(<<"stale", l>>, Day(now)), news.of)
      BY <1>4 DEF StaleNudge
    <2>2. /\ lock = "free" /\ news' = NoNews
          /\ UNCHANGED <<now, on, started, used, wrote, lock, tick, req, stale, went>>
      BY <1>4 DEF StaleNudge, chats
    <2>3. now \in Time /\ news.of \in SUBSET Loop /\ l \in Loop
      BY DEF Inv, TypeOK
    <2>4. Table' /\ Told'
      BY <2>1, <2>2, <2>3, Keys, WrittenInv
    <2>5. TypeOK'
      BY <2>2, <2>4 DEF Inv, TypeOK, Table, NoNews
    <2>6. Ticks' /\ Nudging' /\ NoCallWasted'
      BY <2>2 DEF Inv, Ticks, Nudging, NoCallWasted
    <2> QED BY <2>4, <2>5, <2>6 DEF Inv
  <1>5. ASSUME NEW c \in Client, NowStore(c)
        PROVE  Inv'
    <2>1. /\ lock = c /\ lock' = "free" /\ req[c].do = "now"
          /\ CreateOrNot(KeyOf(<<"now", req[c].minute>>, Day(req[c].minute)), {})
          /\ req' = [req EXCEPT ![c] = Idle]
          /\ UNCHANGED <<now, on, started, used, wrote, tick, stale, went, news>>
      BY <1>5 DEF NowStore, Unlock, Goes, chats, loops
    <2>2. req[c].minute \in Time
      BY <2>1 DEF Inv, TypeOK, Idle
    <2>3. Table' /\ Told'
      BY <2>1, <2>2, Keys, WrittenNamingNone
    <2>4. TypeOK'
      BY <1>1, <2>1, <2>3 DEF Inv, TypeOK, Table, Idle
    <2>5. Ticks' /\ Nudging' /\ NoCallWasted'
      BY <2>1 DEF Inv, Ticks, Nudging, NoCallWasted
    <2> QED BY <2>3, <2>4, <2>5 DEF Inv
  <1> QED BY <1>2, <1>3, <1>4, <1>5 DEF Writes

-----------------------------------------------------------------------------
(* Rows edited in place.                                                   *)

LEMMA EditsInv ==
    ASSUME Inv, Edits
    PROVE  Inv'
  <1>1. ASSUME DOMAIN checkin' = DOMAIN checkin,
               \A k \in DOMAIN checkin :
                 checkin'[k] \in Row /\ checkin'[k].names = checkin[k].names,
               UNCHANGED <<tick, lock, wrote, news, went>>, TypeOK'
        PROVE  Inv'
    <2>1. Table' /\ \A l \in Loop : Naming(l)' = Naming(l)
      BY <1>1, InvTable, EditedRows
    <2>2. Told'
      BY <1>1, <2>1 DEF Inv, Told, Table
    <2> QED BY <1>1, <2>2 DEF Inv, Ticks, Nudging, NoCallWasted, First, SlotKey
  <1>2. ASSUME NEW c \in Client, AttachSession(c)
        PROVE  Inv'
    <2>1. /\ req[c].do = "attach" /\ req[c].session \in started
          /\ checkin' = [checkin EXCEPT ![req[c].key] = AttachedSeen(@, req[c].session)]
          /\ req' = [req EXCEPT ![c] = Idle]
          /\ UNCHANGED <<now, on, started, used, wrote, lock, tick, stale, went, news>>
      BY <1>2 DEF AttachSession, Goes, chats, loops
    <2>2. req[c].session \in Session
      BY <2>1 DEF Inv, TypeOK
    <2>3. ASSUME NEW row \in Row
          PROVE  /\ AttachedSeen(row, req[c].session) \in Row
                 /\ AttachedSeen(row, req[c].session).names = row.names
      <3>1. PICK one : one = [row EXCEPT !.session = req[c].session]
        OBVIOUS
      <3>2. one \in Row /\ one.names = row.names
        BY <2>2, <3>1 DEF Row
      <3>3. PICK two : two = [one EXCEPT !.seen = TRUE]
        OBVIOUS
      <3>4. two \in Row /\ two.names = row.names
        BY <3>2, <3>3 DEF Row
      <3>5. AttachedSeen(row, req[c].session) = two
        BY <3>1, <3>3 DEF AttachedSeen
      <3> QED BY <3>4, <3>5
    <2>4. /\ DOMAIN checkin' = DOMAIN checkin
          /\ \A k \in DOMAIN checkin :
               checkin'[k] \in Row /\ checkin'[k].names = checkin[k].names
      BY <2>1, <2>3 DEF Inv, TypeOK
    <2>5. lock # c
      BY <2>1 DEF Inv, TypeOK
    <2>6. TypeOK'
      BY <2>1, <2>4, <2>5 DEF Inv, TypeOK, Idle
    <2> QED BY <1>1, <2>1, <2>4, <2>6
  <1>3. ASSUME NEW k \in DOMAIN checkin, Dismiss(k)
        PROVE  Inv'
    <2>1. /\ checkin' = [checkin EXCEPT ![k].seen = TRUE]
          /\ UNCHANGED <<now, on, started, used, wrote, lock, tick, req, stale, went, news>>
      BY <1>3 DEF Dismiss, chats, loops
    <2>2. ASSUME NEW row \in Row
          PROVE  [row EXCEPT !.seen = TRUE] \in Row /\ [row EXCEPT !.seen = TRUE].names = row.names
      BY DEF Row
    <2>3. /\ DOMAIN checkin' = DOMAIN checkin
          /\ \A m \in DOMAIN checkin :
               checkin'[m] \in Row /\ checkin'[m].names = checkin[m].names
      BY <2>1, <2>2 DEF Inv, TypeOK
    <2>4. TypeOK'
      BY <2>1, <2>3 DEF Inv, TypeOK
    <2> QED BY <1>1, <2>1, <2>3, <2>4
  <1>4. ASSUME NEW s \in Session, DeleteSession(s)
        PROVE  Inv'
    <2>1. /\ started' = started \ {s}
          /\ checkin' = [k \in DOMAIN checkin |->
                           IF checkin[k].session = s
                           THEN [checkin[k] EXCEPT !.session = "none"] ELSE checkin[k]]
          /\ UNCHANGED <<now, on, used, wrote, lock, tick, req, stale, went, news>>
      BY <1>4 DEF DeleteSession, loops
    <2>2. ASSUME NEW row \in Row
          PROVE  [row EXCEPT !.session = "none"] \in Row /\ [row EXCEPT !.session = "none"].names = row.names
      BY DEF Row
    <2>3. /\ DOMAIN checkin' = DOMAIN checkin
          /\ \A m \in DOMAIN checkin :
               checkin'[m] \in Row /\ checkin'[m].names = checkin[m].names
      BY <2>1, <2>2 DEF Inv, TypeOK
    <2>4. TypeOK'
      BY <2>1, <2>3 DEF Inv, TypeOK
    <2> QED BY <1>1, <2>1, <2>3, <2>4
  <1> QED BY <1>2, <1>3, <1>4 DEF Edits

LEMMA NextInv == Inv /\ [Next]_vars => Inv'
  <1>1. ASSUME Inv, UNCHANGED vars PROVE Inv'
    BY <1>1 DEF vars, chats, loops, Inv, TypeOK, Ticks, NoCallWasted, First, SlotKey,
                Nudging, Told, Naming
  <1>2. ASSUME Inv, Next PROVE Around \/ Turns \/ Writes \/ Edits
    BY <1>2 DEF Next, Around, Turns, Writes, Edits
  <1> QED BY <1>1, <1>2, AroundInv, TurnsInv, WritesInv, EditsInv

-----------------------------------------------------------------------------
(* What follows.                                                           *)

\* Rows, tick, lock and requests keep to their types: the lock is a request's
\* exactly while it waits for the model (Generate.mu).
THEOREM CheckInsTypeOK == Spec => []TypeOK
  <1>1. Inv => TypeOK
    BY DEF Inv
  <1> QED BY InitInv, NextInv, <1>1, PTL DEF Spec

\* No call is spent on a slot that has its check-in, for any slots, restarts,
\* failures and requests in between: Exists is asked, and the row written, under
\* one lock (Generate.Scheduled).
THEOREM SlotAskedOnce == Spec => []NoCallWasted
  <1>1. Inv => NoCallWasted
    BY DEF Inv
  <1> QED BY InitInv, NextInv, <1>1, PTL DEF Spec

\* A loop is named once at most for each time it went stale: what MarkStale
\* returns is told once or lost (Stale, OnStale).
THEOREM StaleToldOnce == Spec => []StaleNamedOnce
  <1>1. ASSUME Inv, NEW l \in Loop
        PROVE  Cardinality({k \in DOMAIN checkin : l \in checkin[k].names}) <= went[l]
    <2>1. Cardinality(Naming(l)) \in Nat /\ went[l] \in Int
      BY <1>1, InvTable, CountType DEF Inv, TypeOK
    <2>2. Cardinality(Naming(l)) <= went[l]
      BY <1>1, <2>1 DEF Inv, Told
    <2> QED BY <2>2 DEF Naming
  <1>2. Inv => StaleNamedOnce
    BY <1>1 DEF StaleNamedOnce
  <1> QED BY InitInv, NextInv, <1>2, PTL DEF Spec

\* Who is nudged had been quiet when the tick began, within the hours of the
\* day, or has written only since; no other step writes an idle nudge.
THEOREM NudgesTheQuiet == Spec => NudgedWhenQuiet
  <1> DEFINE Right ==
        /\ \E i, j \in DOMAIN Slots : Clock(tick.at) \in Slots[i].at .. Slots[j].at
        /\ wrote # -1
        /\ wrote >= tick.at \/ tick.at - wrote >= IdleAfter
  <1>1. ASSUME Inv, IdleNudge
        PROVE  Right
    <2>1. tick.nudge
      BY <1>1 DEF IdleNudge
    <2>2. /\ Active(tick.at)
          /\ wrote # -1
          /\ wrote >= tick.at \/ tick.at - wrote >= IdleAfter
      BY <1>1, <2>1 DEF Inv, Nudging
    <2>3. PICK i \in DOMAIN Slots, j \in DOMAIN Slots :
            Slots[i].at <= Clock(tick.at) /\ Slots[j].at >= Clock(tick.at)
      BY <2>2 DEF Active
    <2>4. /\ Slots[i].at \in Int /\ Slots[j].at \in Int /\ Clock(tick.at) \in Int
      BY <1>1, <2>1, TickTime, CheckInsAssumption DEF Clock
    <2>5. Clock(tick.at) \in Slots[i].at .. Slots[j].at
      BY <2>3, <2>4
    <2> QED BY <2>2, <2>5
  <1>2. ASSUME Inv, [Next]_vars, NEW k \in DOMAIN checkin' \ DOMAIN checkin,
               k.slot[1] = "idle"
        PROVE  IdleNudge
    <2>1. CASE Around \/ Turns \/ UNCHANGED vars
      <3>1. UNCHANGED checkin
        BY <2>1 DEF Around, Turns, vars, MarkStale, OnStale, Reopen, OpenRead, StartSession,
                    Fail, TimePasses, UserWrites, Toggle, Tick, ScheduledAsk, CheckIdle,
                    NowAsk, Restart
      <3> QED BY <3>1
    <2>2. CASE Edits
      <3>1. DOMAIN checkin' = DOMAIN checkin
        BY <2>2 DEF Edits, AttachSession, Dismiss, DeleteSession
      <3> QED BY <3>1
    <2>3. ASSUME NEW m, NEW S, CreateOrNot(m, S)
          PROVE  k = m
      BY <2>3 DEF CreateOrNot, Create
    <2>4. CASE ScheduledStore
      <3>1. PICK i \in tick.todo : CreateOrNot(SlotKey(i), {})
        BY <2>4 DEF ScheduledStore
      <3> QED BY <1>2, <2>3, <3>1 DEF SlotKey, KeyOf
    <2>5. CASE StaleNudge
      <3>1. PICK l \in news.of : CreateOrNot(KeyOf(<<"stale", l>>, Day(now)), news.of)
        BY <2>5 DEF StaleNudge
      <3> QED BY <1>2, <2>3, <3>1 DEF KeyOf
    <2>6. CASE \E c \in Client : NowStore(c)
      <3>1. PICK c \in Client :
              CreateOrNot(KeyOf(<<"now", req[c].minute>>, Day(req[c].minute)), {})
        BY <2>6 DEF NowStore
      <3> QED BY <1>2, <2>3, <3>1 DEF KeyOf
    <2> QED BY <1>2, <2>1, <2>2, <2>4, <2>5, <2>6 DEF Next, Around, Turns, Writes, Edits
  <1>3. Inv /\ [Next]_vars =>
          [\A k \in DOMAIN checkin' \ DOMAIN checkin : k.slot[1] = "idle" => Right]_vars
    BY <1>1, <1>2
  <1> QED BY InitInv, NextInv, <1>3, PTL DEF Spec, NudgedWhenQuiet

=============================================================================
