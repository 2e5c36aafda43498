----------------------------- MODULE BeastBoard -----------------------------
(***************************************************************************)
(* Beast mode's board: orders with a clock on them, in one chat session.   *)
(* beast/usecase/board.go over the beast_tasks table, and the part of a    *)
(* chat turn that fires an eruption when a clock runs out (beastBrief,     *)
(* eruptedRecently, expiryQuestion in memory/usecase/chat.go).             *)
(*                                                                         *)
(* A request is the sequence of statements it has still to run; each one   *)
(* is a step.  A loop over rows is one entry of it, with the rows left and *)
(* their numbers, taken from the least.  Edit, Abandon, StandDown and      *)
(* complete write back the whole row they read, so what they read is in    *)
(* the statement.  A request that fails, or whose process stops, drops the *)
(* statements it has left.                                                 *)
(***************************************************************************)
EXTENDS Integers, Sequences, FiniteSets

CONSTANTS
    Caller,     \* requests that may be in flight together
    Text,       \* wordings of an order, compared without case
    Loop,       \* open loops an order can finish
    NoLoop,     \* an order that finishes none
    Asked,      \* minutes a person or the generals may ask for
    MaxMinutes, \* the longest clock (240)
    MinRearm,   \* the shortest clock a missed deadline is re-armed to (5)
    EruptionCooldown, \* minutes between eruptions (2)
    Attempts,   \* inserts tried for one number (3)
    MaxTask,    \* bound: rows the session may ever hold
    MaxTime,    \* bound: minutes that pass
    MaxMisses,  \* bound: misses of one task
    MaxOrders,  \* bound: orders in one turn
    MaxIds      \* bound: tasks named in one report or turn

ASSUME BeastAssumption ==
    /\ NoLoop \notin Loop
    /\ Asked \subseteq Int
    /\ {MaxMinutes, MinRearm, Attempts, MaxTask, MaxOrders} \subseteq Nat \ {0}
    /\ {EruptionCooldown, MaxTime, MaxMisses, MaxIds} \subseteq Nat

VARIABLES
    task,    \* the rows, by their number in the session
    closed,  \* open loops the board has closed
    erupted, \* when each eruption's message was stored, in order
    todo,    \* todo[c], the statements request c has still to run
    now      \* the clock, in minutes

boardVars == <<task, closed, erupted, todo, now>>

-----------------------------------------------------------------------------

Number == 1 .. MaxTask

Status == {"open", "done", "abandoned"}

Larger(a, b)  == IF a > b THEN a ELSE b
Smaller(a, b) == IF a < b THEN a ELSE b

\* Slip: only the upper end is kept.
ClampAbove(m) == Smaller(MaxMinutes, m)

ClampMinutes(m) == Larger(1, Smaller(MaxMinutes, m))

\* The clock after the k-th miss: the allotment halved per miss, with a floor.
RearmWindow(minutes, k) ==
    IF 2^k \in 1 .. minutes THEN Larger(MinRearm, minutes \div 2^k) ELSE MinRearm

Task ==
    [status : Status \cup {"none"}, text : Text, minutes : 1 .. MaxMinutes,
     deadline : Int, expiries : Nat, loop : Loop \cup {NoLoop},
     issued : BOOLEAN] \* whether message_id is set: an answer issued it

Exists(n) == task[n].status # "none"

Resolved(row) == row.status \in {"done", "abandoned"}

Overdue(row, at) == row.status = "open" /\ row.deadline <= at

\* The highest number in the session.
LastNumber == Cardinality({n \in Number : \E m \in n .. MaxTask : Exists(m)})

\* Up to k of S, in any order.
Lists(S, k) == UNION {[1 .. m -> S] : m \in 0 .. k}

Order == [text : Text, minutes : Asked, loop : Loop \cup {NoLoop}]

Position == 1 .. MaxOrders

\* The next a loop goes through of what it has left.
Least(e, left) == e \in left /\ \A f \in left : e.n <= f.n

Stmt ==
         [do : {"late"}, at : Nat]
    \cup [do : {"rearm"}, at : Nat, due : SUBSET [n : Number, deadline : Int], missed : BOOLEAN]
    \cup [do : {"erupt"}]
    \cup [do : {"report"}, n : Number]
    \cup [do : {"complete"}, n : Number, row : Task]
    \cup [do : {"update"}, rows : SUBSET [n : Number, row : Task]]
    \cup [do : {"close"}, loop : Loop]
    \cup [do : {"issue"}, answer : BOOLEAN, orders : SUBSET [n : Position, order : Order]]
    \cup [do : {"insert"}, rows : SUBSET [n : Position, row : Task],
           seq : 0 .. MaxTask, tries : 0 .. Attempts - 1]

Updates(rows) == IF rows = {} THEN <<>> ELSE <<[do |-> "update", rows |-> rows]>>

Inserts(rows) ==
    IF rows = {} THEN <<>>
    ELSE <<[do |-> "insert", rows |-> rows, seq |-> 0, tries |-> 0]>>

\* A turn that re-armed something erupts after the last of them.
Rearms(at, due, missed) ==
    IF due # {} THEN <<[do |-> "rearm", at |-> at, due |-> due, missed |-> missed]>>
    ELSE IF missed THEN <<[do |-> "erupt"]>> ELSE <<>>

Free(c) == todo[c] = <<>>

\* Request c goes on with s and then with what it had left after this one.
Continue(c, s) == todo' = [todo EXCEPT ![c] = s \o Tail(@)]

Start(c, s) == Free(c) /\ todo' = [todo EXCEPT ![c] = s]

Runs(c, do) == ~Free(c) /\ Head(todo[c]).do = do

\* A clock is listed as late by a turn that has begun, and re-armed to no less
\* than the shortest clock from then.
Timely(s) ==
    /\ s.do \in {"late", "rearm"} => s.at <= now
    /\ s.do = "rearm" => \A d \in s.due : d.deadline >= s.at + MinRearm

BoardTypeOK ==
    /\ task \in [Number -> Task]
    /\ closed \subseteq Loop
    /\ erupted \in Seq(0 .. MaxTime)
    /\ now \in 0 .. MaxTime
    /\ todo \in [Caller -> Seq(Stmt)]
    /\ \A c \in Caller : \A i \in DOMAIN todo[c] : Timely(todo[c][i])

BoardInit ==
    /\ \E t \in Text : task = [n \in Number |->
            [status |-> "none", text |-> t, minutes |-> 1, deadline |-> 0,
             expiries |-> 0, loop |-> NoLoop, issued |-> FALSE]]
    /\ closed = {}
    /\ erupted = <<>>
    /\ todo = [c \in Caller |-> <<>>]
    /\ now = 0

-----------------------------------------------------------------------------
(* Statements a request runs.                                              *)

\* Slip: every column of the row is in the UPDATE.
WrittenWhole(n, row) == row

\* The row an UPDATE of row n leaves: expiries is not a column of it.
Kept(n, row) == [row EXCEPT !.expiries = task[n].expiries]

\* Repository.Update, of each row in turn: the wording, the clock and the status
\* as they were read or changed.
Update(c) ==
    LET rows == Head(todo[c]).rows IN
    /\ Runs(c, "update")
    /\ \E e \in rows :
        /\ Least(e, rows)
        /\ task' = [task EXCEPT ![e.n] = Kept(e.n, e.row)]
        /\ Continue(c, Updates(rows \ {e}))
    /\ UNCHANGED <<closed, erupted, now>>

\* complete: a task read as open is done, and then its loop.
Complete(c) ==
    LET s == Head(todo[c]) IN
    /\ Runs(c, "complete")
    /\ task' = [task EXCEPT ![s.n] = Kept(s.n, [s.row EXCEPT !.status = "done"])]
    /\ Continue(c, IF s.row.loop = NoLoop THEN <<>>
                   ELSE <<[do |-> "close", loop |-> s.row.loop]>>)
    /\ UNCHANGED <<closed, erupted, now>>

\* loops.Done: the loop is closed, or could not be, which is only logged.
CloseLoop(c) ==
    /\ Runs(c, "close")
    /\ closed' \in {closed, closed \cup {Head(todo[c]).loop}}
    /\ Continue(c, <<>>)
    /\ UNCHANGED <<task, erupted, now>>

\* Report and Complete read one task, and complete it unless it is resolved.
ReportNext(c) ==
    LET n == Head(todo[c]).n IN
    /\ Runs(c, "report")
    /\ Continue(c, IF task[n].status # "open" THEN <<>>
                   ELSE <<[do |-> "complete", n |-> n, row |-> task[n]]>>)
    /\ UNCHANGED <<task, closed, erupted, now>>

\* The row of an order, its clock started.
Issued(o, answer) ==
    [status |-> "open", text |-> o.text, minutes |-> ClampMinutes(o.minutes),
     deadline |-> now + ClampMinutes(o.minutes), expiries |-> 0, loop |-> o.loop,
     issued |-> answer]

\* Add, or the second half of Apply: the clocks start when the orders are issued.
Issue(c) ==
    LET s == Head(todo[c]) IN
    /\ Runs(c, "issue")
    /\ Continue(c, Inserts({[n |-> o.n, row |-> Issued(o.order, s.answer)] : o \in s.orders}))
    /\ UNCHANGED <<task, closed, erupted, now>>

\* COALESCE(MAX(seq), 0) + 1.
NextNumber == LastNumber + 1

\* The INSERT of the next order computes the next number on its own snapshot ...
TakeNumber(c) ==
    LET s == Head(todo[c]) IN
    /\ Runs(c, "insert") /\ s.seq = 0
    /\ NextNumber \in Number
    /\ Continue(c, <<[s EXCEPT !.seq = NextNumber]>>)
    /\ UNCHANGED <<task, closed, erupted, now>>

\* ... and the unique index takes it, or has it taken again up to Attempts.
Insert(c) ==
    LET s == Head(todo[c]) IN
    /\ Runs(c, "insert") /\ s.seq # 0
    /\ \/ \E e \in s.rows :
            /\ ~Exists(s.seq)
            /\ Least(e, s.rows)
            /\ task' = [task EXCEPT ![s.seq] = e.row]
            /\ Continue(c, Inserts(s.rows \ {e}))
       \/ /\ Exists(s.seq)
          /\ s.tries + 1 < Attempts
          /\ Continue(c, <<[s EXCEPT !.seq = 0, !.tries = @ + 1]>>)
          /\ UNCHANGED task
       \/ /\ Exists(s.seq)
          /\ s.tries + 1 = Attempts
          /\ todo' = [todo EXCEPT ![c] = <<>>]
          /\ UNCHANGED task
    /\ UNCHANGED <<closed, erupted, now>>

\* Expire lists the board and will re-arm what was late when the turn began.
ListLate(c) ==
    LET at == Head(todo[c]).at
        Deadline(row) == at + RearmWindow(row.minutes, row.expiries + 1)
    IN
    /\ Runs(c, "late")
    /\ Continue(c, Rearms(at, {[n |-> n, deadline |-> Deadline(task[n])] :
                                 n \in {m \in Number : Overdue(task[m], at)}}, FALSE))
    /\ UNCHANGED <<task, closed, erupted, now>>

\* Slip: the re-arm asks only whether the task is open.
StillOpen(n, at) == task[n].status = "open"

\* The WHERE of Rearm.
StillLate(n, at) == Overdue(task[n], at)

\* Repository.Rearm, only if the task is still open and late.
Rearm(c) ==
    LET s == Head(todo[c]) IN
    /\ Runs(c, "rearm")
    /\ \E e \in s.due :
        /\ Least(e, s.due)
        /\ task[e.n].expiries < MaxMisses
        /\ \/ /\ StillLate(e.n, s.at)
              /\ task' = [task EXCEPT ![e.n].expiries = @ + 1, ![e.n].deadline = e.deadline]
              /\ Continue(c, Rearms(s.at, s.due \ {e}, TRUE))
           \/ /\ ~StillLate(e.n, s.at)
              /\ Continue(c, Rearms(s.at, s.due \ {e}, s.missed))
              /\ UNCHANGED task
    /\ UNCHANGED <<closed, erupted, now>>

\* The eruption's message is stored; the answer to it is another turn's Apply.
Erupt(c) ==
    /\ Runs(c, "erupt")
    /\ erupted' = Append(erupted, now)
    /\ Continue(c, <<>>)
    /\ UNCHANGED <<task, closed, now>>

-----------------------------------------------------------------------------
(* Requests.                                                               *)

\* Add puts an order on the board by hand.
Add(c, t, m) ==
    /\ Start(c, <<[do |-> "issue", answer |-> FALSE,
                   orders |-> {[n |-> 1, order |-> [text |-> t, minutes |-> m, loop |-> NoLoop]]}]>>)
    /\ UNCHANGED <<task, closed, erupted, now>>

\* Edit reads an open task; the change is made to what was read.
Edit(c, n, row) ==
    /\ task[n].status = "open"
    /\ Start(c, Updates({[n |-> n, row |-> row]}))
    /\ UNCHANGED <<task, closed, erupted, now>>

EditText(c, n, t) == Edit(c, n, [task[n] EXCEPT !.text = t])

EditMinutes(c, n, m) ==
    Edit(c, n, [task[n] EXCEPT !.minutes = ClampMinutes(m), !.deadline = now + ClampMinutes(m)])

\* A clock is not pulled closer than a minute from now, and (the bound on
\* deadlines) not pushed out of the time there is.
EditExtend(c, n, by) ==
    /\ by # 0
    /\ task[n].deadline + by <= MaxTime + MaxMinutes
    /\ Edit(c, n, [task[n] EXCEPT !.deadline = Larger(@ + by, now + 1)])

Abandon(c, n) == Edit(c, n, [task[n] EXCEPT !.status = "abandoned"])

\* Complete of one task, or a report turn over several.
Report(c, ids) ==
    /\ ids # <<>>
    /\ Start(c, [i \in DOMAIN ids |-> [do |-> "report", n |-> ids[i]]])
    /\ UNCHANGED <<task, closed, erupted, now>>

\* The orders of a turn that are not on the board as open tasks already, nor
\* earlier in the turn, by the listing the turn began with.
NotOpenYet(orders) ==
    {i \in DOMAIN orders :
        /\ \A n \in Number : task[n].status = "open" => task[n].text # orders[i].text
        /\ \A j \in DOMAIN orders : j < i => orders[j].text # orders[i].text}

\* Apply lists the board once, completes what the generals call done on those
\* rows (a number that is no open task's is passed over), and issues their orders.
Apply(c, orders, done) ==
    LET fresh == {[n |-> i, order |-> orders[i]] : i \in NotOpenYet(orders)} IN
    /\ \A i \in DOMAIN done : task[done[i]].status = "open"
    /\ Start(c, [i \in DOMAIN done |-> [do |-> "complete", n |-> done[i], row |-> task[done[i]]]]
                \o IF fresh = {} THEN <<>>
                   ELSE <<[do |-> "issue", answer |-> TRUE, orders |-> fresh]>>)
    /\ UNCHANGED <<task, closed, erupted, now>>

\* StandDown lists the board and abandons every row it read as open.
StandDown(c) ==
    /\ Start(c, Updates({[n |-> n, row |-> [task[n] EXCEPT !.status = "abandoned"]] :
                          n \in {m \in Number : task[m].status = "open"}}))
    /\ UNCHANGED <<task, closed, erupted, now>>

\* A tab reports a clock run out: too soon after an eruption is turned away.
ExpiredTurn(c) ==
    /\ erupted # <<>> => now - erupted[Len(erupted)] >= EruptionCooldown
    /\ Start(c, <<[do |-> "late", at |-> now]>>)
    /\ UNCHANGED <<task, closed, erupted, now>>

\* The request fails, is cancelled, or its process stops.
RequestFails(c) ==
    /\ ~Free(c)
    /\ todo' = [todo EXCEPT ![c] = <<>>]
    /\ UNCHANGED <<task, closed, erupted, now>>

Tick ==
    /\ now < MaxTime
    /\ now' = now + 1
    /\ UNCHANGED <<task, closed, erupted, todo>>

Statement(c) ==
    \/ Update(c)
    \/ Complete(c)
    \/ CloseLoop(c)
    \/ ReportNext(c)
    \/ Issue(c)
    \/ TakeNumber(c)
    \/ Insert(c)
    \/ ListLate(c)
    \/ Rearm(c)
    \/ Erupt(c)

Request(c) ==
    \/ \E t \in Text, m \in Asked : Add(c, t, m)
    \/ \E n \in Number :
        \/ \E t \in Text : EditText(c, n, t)
        \/ \E m \in Asked : EditMinutes(c, n, m) \/ EditExtend(c, n, m)
        \/ Abandon(c, n)
    \/ \E ids \in Lists(Number, MaxIds) :
        \/ Report(c, ids)
        \/ \E orders \in Lists(Order, MaxOrders) : Apply(c, orders, ids)
    \/ StandDown(c)
    \/ ExpiredTurn(c)

BoardNext ==
    \/ \E c \in Caller : Statement(c) \/ Request(c) \/ RequestFails(c)
    \/ Tick

BoardSpec == BoardInit /\ [][BoardNext]_boardVars

-----------------------------------------------------------------------------
(* Safety.                                                                 *)

\* A whole-row write decided before a miss does not lose the miss: the count
\* of expiries never goes back (repository.Update beside Rearm).
MissesKept ==
    [][\A n \in Number : Exists(n) => task'[n].expiries >= task[n].expiries]_boardVars

\* Two tabs racing one clock re-arm it once: whoever counts a miss does it on an
\* open row that was late and moves the clock on, by at least the shortest
\* clock from the miss, though it was listed earlier (Expire, Rearm).
MissMovesClockOn ==
    [][\A n \in Number : Exists(n) /\ task'[n].expiries > task[n].expiries
        => /\ Overdue(task[n], now)
           /\ task'[n].status = "open"
           /\ task'[n].deadline >= task[n].deadline + MinRearm]_boardVars
=============================================================================
