------------------------------ MODULE CheckIns -------------------------------
(***************************************************************************)
(* Check-ins: the scheduler's ticks, the nudges, "check in now", and the   *)
(* conversation a check-in becomes when it is opened.                      *)
(* checkin/usecase (scheduler, generate) and checkin/service/schedule over *)
(* the checkins table, and the sweep of commitments/module.go that tells   *)
(* of stale loops.                                                         *)
(*                                                                         *)
(* Generation is serialised by Generate.mu, which a check-in that needs    *)
(* the model holds for as long as the model takes.  What is done under the *)
(* lock without the model is one step; so is each statement outside it.    *)
(***************************************************************************)
EXTENDS Integers, Sequences, FiniteSets

CONSTANTS
    Client,    \* requests that may be in flight together
    Slots,     \* the configured slots: [name, at], at a time of day
    DayLength, \* times in a day
    LastTime,  \* bound: the time goes from 0 to this
    Grace,     \* how late a slot may fire, 0 for any time that day
    IdleAfter, \* how long one must be quiet to be nudged, 0 for never
    Loop,      \* open loops that can go stale
    MaxStale,  \* bound: times a loop goes stale
    MaxRows,   \* bound: check-ins ever written
    Session    \* bound: conversations that may ever be started

ASSUME CheckInsAssumption ==
    /\ DayLength \in Nat \ {0} /\ LastTime \in Nat
    /\ Len(Slots) \in Nat /\ DOMAIN Slots = 1 .. Len(Slots)
    /\ \A i \in DOMAIN Slots : Slots[i].at \in 0 .. DayLength - 1
    /\ \A i, j \in DOMAIN Slots : Slots[i].name = Slots[j].name => i = j
    /\ {Grace, IdleAfter, MaxStale, MaxRows} \subseteq Nat
    /\ "none" \notin Session /\ {"scheduler", "free"} \cap Client = {}

VARIABLES
    now,     \* the time
    on,      \* CHECKIN_ENABLED, which Settings changes
    checkin, \* the rows, by slot and local date
    started, \* chat sessions check-ins have become, while they are there
    used,    \* chat sessions ever started
    wrote,   \* when the person last wrote, -1 for never
    lock,    \* who holds Generate.mu
    tick,    \* the tick the scheduler is in
    req,     \* req[c], what request c has to do
    stale,   \* loops that are stale
    went,    \* went[l], how often l went stale
    news     \* the loops the sweep has marked and has still to tell of

vars == <<now, on, checkin, started, used, wrote, lock, tick, req, stale, went, news>>

loops == <<stale, went, news>>
chats == <<started, used>>

-----------------------------------------------------------------------------

Time == 0 .. LastTime

Day(t) == t \div DayLength

Clock(t) == t % DayLength

Names == {Slots[i].name : i \in DOMAIN Slots}

\* A row's slot and date: a configured slot, the idle nudge, a check-in asked
\* for in some minute, or a stale nudge keyed on one of its loops.
Key == [slot : ({"slot"} \X Names) \cup {<<"idle", 0>>}
               \cup ({"now"} \X Time) \cup ({"stale"} \X Loop),
        day : 0 .. Day(LastTime)]

KeyOf(slot, day) == [slot |-> slot, day |-> day]

Row == [session : Session \cup {"none"}, seen : BOOLEAN, names : SUBSET Loop]

\* A tick has slots to fire, by their place, and then looks at idleness.
NoTick == [at |-> -1, todo |-> {}, nudge |-> FALSE]

Idle == [do |-> "nothing"]

NoNews == [of |-> {}, heard |-> FALSE]

TypeOK ==
    /\ now \in Time /\ on \in BOOLEAN
    /\ DOMAIN checkin \subseteq Key
    /\ \A k \in DOMAIN checkin : checkin[k] \in Row
    /\ started \subseteq used /\ used \subseteq Session
    /\ wrote \in Time \cup {-1}
    /\ lock \in {"free", "scheduler"} \cup Client
    /\ lock = "scheduler" => tick.todo # {}
    /\ tick.at \in -1 .. now /\ tick.todo \subseteq DOMAIN Slots /\ tick.nudge \in BOOLEAN
    /\ req \in [Client -> {Idle} \cup [do : {"now"}, minute : Time]
                    \cup [do : {"start"}, key : Key]
                    \cup [do : {"attach"}, key : Key, session : Session]]
    /\ \A c \in Client : lock = c <=> req[c].do = "now"
    /\ stale \subseteq Loop /\ went \in [Loop -> 0 .. MaxStale]
    /\ news \in [of : SUBSET Loop, heard : BOOLEAN]

Init ==
    /\ now = 0 /\ on \in BOOLEAN
    /\ checkin = <<>>
    /\ started = {} /\ used = {}
    /\ wrote = -1
    /\ lock = "free"
    /\ tick = NoTick
    /\ req = [c \in Client |-> Idle]
    /\ stale = {} /\ went = [l \in Loop |-> 0] /\ news = NoNews

-----------------------------------------------------------------------------
(* The table.                                                              *)

\* Slip: a row is looked for among today's that were not seen yet.
FiredUnseen(k) == k \in DOMAIN checkin /\ ~checkin[k].seen

\* Exists.
Fired(k) == k \in DOMAIN checkin

\* Create, past the unique index on slot and date; a failure leaves no row.
Create(k, names) ==
    /\ k \notin DOMAIN checkin /\ Cardinality(DOMAIN checkin) < MaxRows
    /\ checkin' = [m \in DOMAIN checkin \cup {k} |->
                     IF m = k THEN [session |-> "none", seen |-> FALSE, names |-> names]
                     ELSE checkin[m]]

CreateOrNot(k, names) == Create(k, names) \/ UNCHANGED checkin

-----------------------------------------------------------------------------
(* The scheduler.                                                          *)

\* Due: the slot's time today has passed, and not by more than the grace.
Due(slot, t) ==
    /\ Clock(t) >= slot.at
    /\ Grace > 0 => Clock(t) - slot.at <= Grace

\* Enabled.
Enabled == on /\ Slots # <<>>

\* Tick: the slots that are due at its time will be fired in turn.
Tick ==
    /\ tick = NoTick
    /\ Enabled
    /\ tick' = [at |-> now, todo |-> {i \in DOMAIN Slots : Due(Slots[i], now)}, nudge |-> FALSE]
    /\ UNCHANGED <<now, on, checkin, chats, wrote, lock, req, loops>>

Ticking == tick # NoTick

\* The slot the tick is at, and the row it would be.
First(i) == i \in tick.todo /\ \A j \in tick.todo : i <= j

SlotKey(i) == KeyOf(<<"slot", Slots[i].name>>, Day(tick.at))

FirstDone(i) == tick' = [tick EXCEPT !.todo = @ \ {i}]

\* Scheduled takes the lock and asks the model, if the slot has not fired.
ScheduledAsk ==
    /\ lock = "free"
    /\ \E i \in tick.todo :
        /\ First(i)
        /\ IF Fired(SlotKey(i))
           THEN FirstDone(i) /\ UNCHANGED lock
           ELSE lock' = "scheduler" /\ UNCHANGED tick
    /\ UNCHANGED <<now, on, checkin, chats, wrote, req, loops>>

\* Slip: a check-in that could not be written keeps the lock.
UnlockIfWritten == lock' = IF checkin' = checkin THEN lock ELSE "free"

\* The deferred unlock.
Unlock == lock' = "free"

\* The model has written the check-in; or it failed, wrote nothing or ran into
\* its deadline, and the next tick will try again.
ScheduledStore ==
    /\ lock = "scheduler"
    /\ \E i \in tick.todo :
        /\ First(i)
        /\ CreateOrNot(SlotKey(i), {})
        /\ FirstDone(i)
    /\ Unlock
    /\ UNCHANGED <<now, on, chats, wrote, req, loops>>

\* ActiveHours: between the first and the last slot of the day.
Active(t) ==
    /\ \E i \in DOMAIN Slots : Slots[i].at <= Clock(t)
    /\ \E i \in DOMAIN Slots : Slots[i].at >= Clock(t)

\* Slip: someone who has never written counts as idle.
QuietOrNew == wrote < tick.at

\* Someone who has written, and not for a while.
Quiet == wrote # -1 /\ tick.at - wrote >= IdleAfter

\* checkIdle ends the tick unless the person has gone quiet.
CheckIdle ==
    /\ Ticking /\ tick.todo = {} /\ ~tick.nudge
    /\ tick' = IF IdleAfter > 0 /\ Active(tick.at) /\ Quiet
               THEN [tick EXCEPT !.nudge = TRUE] ELSE NoTick
    /\ UNCHANGED <<now, on, checkin, chats, wrote, lock, req, loops>>

\* Idle waits for the lock; its date is the day it got it.
IdleNudge ==
    /\ tick.nudge /\ lock = "free"
    /\ tick' = NoTick
    /\ CreateOrNot(KeyOf(<<"idle", 0>>, Day(now)), {})
    /\ UNCHANGED <<now, on, chats, wrote, lock, req, loops>>

-----------------------------------------------------------------------------
(* The sweep's stale loops, and OnStale.                                   *)

\* Slip: the sweep takes every old loop, stale ones too.
OldLoops == Loop

\* MarkStale only takes loops that are open.
Sweepable == Loop \ stale

MarkStale(S) ==
    /\ news = NoNews
    /\ S # {} /\ S \subseteq Sweepable
    /\ \A l \in S \ stale : went[l] < MaxStale
    /\ stale' = stale \cup S
    /\ went' = [l \in Loop |-> IF l \in S \ stale THEN went[l] + 1 ELSE went[l]]
    /\ news' = [of |-> S, heard |-> FALSE]
    /\ UNCHANGED <<now, on, checkin, chats, wrote, lock, tick, req>>

\* OnStale: nobody is told while check-ins are off.
OnStale ==
    /\ news.of # {} /\ ~news.heard
    /\ news' = IF Enabled THEN [news EXCEPT !.heard = TRUE] ELSE NoNews
    /\ UNCHANGED <<now, on, checkin, chats, wrote, lock, tick, req, stale, went>>

\* One nudge names them all, keyed on the first that the statement returned.
StaleNudge ==
    /\ news.heard /\ lock = "free"
    /\ \E l \in news.of : CreateOrNot(KeyOf(<<"stale", l>>, Day(now)), news.of)
    /\ news' = NoNews
    /\ UNCHANGED <<now, on, chats, wrote, lock, tick, req, stale, went>>

\* The person picks a stale loop up again.
Reopen(l) ==
    /\ l \in stale
    /\ stale' = stale \ {l}
    /\ UNCHANGED <<now, on, checkin, chats, wrote, lock, tick, req, went, news>>

-----------------------------------------------------------------------------
(* Requests.                                                               *)

Goes(c, r) == req' = [req EXCEPT ![c] = r]

\* Now takes the lock and asks the model, whether or not check-ins are on.
NowAsk(c) ==
    /\ req[c] = Idle /\ lock = "free"
    /\ lock' = c
    /\ Goes(c, [do |-> "now", minute |-> now])
    /\ UNCHANGED <<now, on, checkin, chats, wrote, tick, loops>>

NowStore(c) ==
    /\ lock = c /\ req[c].do = "now"
    /\ CreateOrNot(KeyOf(<<"now", req[c].minute>>, Day(req[c].minute)), {})
    /\ Unlock
    /\ Goes(c, Idle)
    /\ UNCHANGED <<now, on, chats, wrote, tick, loops>>

\* Open reads the check-in: one with a conversation is answered with it.
OpenRead(c, k) ==
    /\ req[c] = Idle
    /\ checkin[k].session = "none"
    /\ Goes(c, [do |-> "start", key |-> k])
    /\ UNCHANGED <<now, on, checkin, chats, wrote, lock, tick, loops>>

StartSession(c, s) ==
    /\ req[c].do = "start"
    /\ s \notin used
    /\ started' = started \cup {s} /\ used' = used \cup {s}
    /\ Goes(c, [do |-> "attach", key |-> req[c].key, session |-> s])
    /\ UNCHANGED <<now, on, checkin, wrote, lock, tick, loops>>

AttachedSeen(row, s) == [row EXCEPT !.session = s, !.seen = TRUE]

\* AttachSession; the foreign key refuses a session that was deleted.
AttachSession(c) ==
    /\ req[c].do = "attach"
    /\ req[c].session \in started
    /\ checkin' = [checkin EXCEPT ![req[c].key] = AttachedSeen(@, req[c].session)]
    /\ Goes(c, Idle)
    /\ UNCHANGED <<now, on, chats, wrote, lock, tick, loops>>

\* A statement fails, or the client goes away.
Fail(c) ==
    /\ req[c].do \in {"start", "attach"}
    /\ Goes(c, Idle)
    /\ UNCHANGED <<now, on, checkin, chats, wrote, lock, tick, loops>>

\* Dismiss.
Dismiss(k) ==
    /\ ~checkin[k].seen
    /\ checkin' = [checkin EXCEPT ![k].seen = TRUE]
    /\ UNCHANGED <<now, on, chats, wrote, lock, tick, req, loops>>

\* Deleting a conversation leaves its check-in without one.
DeleteSession(s) ==
    /\ s \in started
    /\ started' = started \ {s}
    /\ checkin' = [k \in DOMAIN checkin |->
                     IF checkin[k].session = s THEN [checkin[k] EXCEPT !.session = "none"]
                     ELSE checkin[k]]
    /\ UNCHANGED <<now, on, used, wrote, lock, tick, req, loops>>

-----------------------------------------------------------------------------
(* Around it.                                                              *)

TimePasses ==
    /\ now < LastTime
    /\ now' = now + 1
    /\ UNCHANGED <<on, checkin, chats, wrote, lock, tick, req, loops>>

UserWrites ==
    /\ wrote # now
    /\ wrote' = now
    /\ UNCHANGED <<now, on, checkin, chats, lock, tick, req, loops>>

Toggle ==
    /\ on' = ~on
    /\ UNCHANGED <<now, checkin, chats, wrote, lock, tick, req, loops>>

\* The process stops and starts: only the tables stay.
Restart ==
    /\ lock' = "free" /\ tick' = NoTick /\ news' = NoNews
    /\ req' = [c \in Client |-> Idle]
    /\ UNCHANGED <<now, on, checkin, chats, wrote, stale, went>>

Next ==
    \/ Tick \/ ScheduledAsk \/ ScheduledStore \/ CheckIdle \/ IdleNudge
    \/ \E S \in SUBSET Loop : MarkStale(S)
    \/ OnStale \/ StaleNudge
    \/ \E l \in Loop : Reopen(l)
    \/ \E c \in Client :
        \/ NowAsk(c) \/ NowStore(c)
        \/ \E k \in DOMAIN checkin : OpenRead(c, k)
        \/ \E s \in Session : StartSession(c, s)
        \/ AttachSession(c) \/ Fail(c)
    \/ \E k \in DOMAIN checkin : Dismiss(k)
    \/ \E s \in Session : DeleteSession(s)
    \/ TimePasses \/ UserWrites \/ Toggle \/ Restart

Spec == Init /\ [][Next]_vars

\* The scheduler's goroutine goes on; a call to the model ends by its deadline;
\* a goroutine waiting for the mutex gets it, however often others take it.
Fairness ==
    /\ SF_vars(ScheduledAsk) /\ WF_vars(ScheduledStore)
    /\ WF_vars(CheckIdle) /\ SF_vars(IdleNudge)
    /\ \A c \in Client : WF_vars(NowStore(c))

FairSpec == Spec /\ Fairness

-----------------------------------------------------------------------------
(* Safety.                                                                 *)

\* The scheduler never spends a call on a slot that has its check-in: after a
\* restart, a failed try or beside requests, none is there when the model is
\* asked and none appears while it answers (Scheduled, under Generate.mu).
NoCallWasted ==
    lock = "scheduler" => \A i \in tick.todo : First(i) => SlotKey(i) \notin DOMAIN checkin

\* A loop is named at most once each time it goes stale, also over restarts and
\* days (Stale: "names each item exactly once").
StaleNamedOnce ==
    \A l \in Loop :
        Cardinality({k \in DOMAIN checkin : l \in checkin[k].names}) <= went[l]

\* Someone is nudged who had been quiet long enough when the tick began, inside
\* the hours of the day, or who has written only since (checkIdle, Idle).
NudgedWhenQuiet ==
    [][\A k \in DOMAIN checkin' \ DOMAIN checkin : k.slot[1] = "idle" =>
        /\ \E i, j \in DOMAIN Slots : Clock(tick.at) \in Slots[i].at .. Slots[j].at
        /\ wrote # -1
        /\ wrote >= tick.at \/ tick.at - wrote >= IdleAfter]_vars

(* Liveness.                                                               *)

\* However often the lock is taken and however many calls fail, a tick comes to
\* its end, so the scheduler can see the next slot (Tick, Scheduled, Now).
TickEnds == Ticking ~> ~Ticking
=============================================================================
