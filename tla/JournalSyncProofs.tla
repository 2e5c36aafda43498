------------------------- MODULE JournalSyncProofs --------------------------
(***************************************************************************)
(* What the journal's rows are for any files, edits, crashes and failures. *)
(*                                                                         *)
(* Rows are written one statement at a time by a task that forgot nothing  *)
(* of the file it read: that they are one version's first chunks rests on  *)
(* the lock, which one task of a path may hold (Owned), and on what the    *)
(* holder has written so far (Follows).                                    *)
(***************************************************************************)
EXTENDS JournalSync, TLAPS

RowSet == [text : Texts, chunk : Nat]

\* What a task has read and how far it is.
TaskOK(t) ==
    /\ t \in Task /\ t.n <= edits
    /\ t.at \notin {"chunk", "done"} => t.next = 1
    /\ t.at \in {"clear", "chunk"} => t.text \in Texts
    /\ t.at = "chunk" => t.next <= Chunks[t.text]

\* Every task is sound, and the only one of its change.
TasksOK == \A t \in tasks : TaskOK(t) /\ \A u \in tasks : t.n = u.n => t = u

\* A lock has one holder.
Owned == \A t, u \in tasks : t.path = u.path /\ Locks(t) /\ Locks(u) => t = u

\* The first chunks of one version.
Version(rs) ==
    /\ rs \in Seq(RowSet)
    /\ rs # <<>> =>
        /\ Len(rs) <= Chunks[rs[1].text]
        /\ \A i \in DOMAIN rs : rs[i] = [text |-> rs[1].text, chunk |-> i]

\* Rows of one text.
AllOf(rs, text) == \A i \in DOMAIN rs : rs[i].text = text

\* A task that saves chunks has saved those before its next, and nothing else
\* is there.
Follows(t, rs) == t.at = "chunk" => Len(rs) = t.next - 1 /\ AllOf(rs, t.text)

RowsOK ==
    /\ rows \in [Paths -> Seq(RowSet)]
    /\ \A p \in Paths : Version(rows[p])
    /\ \A t \in tasks : Follows(t, rows[t.path])

\* A timer of p that has not called back.
Awaits(t, n, p) == t.n = n /\ t.path = p /\ t.at \in {"timer", "fired"}

\* What Watcher.pending has for a path is such a timer.
Listed ==
    /\ pending \in [Paths -> Nat]
    /\ \A p \in Paths : pending[p] # NoTimer => \E t \in tasks : Awaits(t, pending[p], p)

Fields ==
    /\ file \in [Paths -> Texts \cup {NoFile, Blank}]
    /\ up \in BOOLEAN /\ edits \in Nat
    /\ walk \subseteq Paths \ Excluded

\* Nothing is under way in a process that is down.
Down == ~up => walk = {} /\ tasks = {}

Inv == Fields /\ TasksOK /\ Owned /\ RowsOK /\ Listed /\ Down

-----------------------------------------------------------------------------
(* Rows.                                                                   *)

LEMMA NoRows == Version(<<>>)
  BY DEF Version

\* One more row of the text.
Grown(rs, text, ss) == ss = Append(rs, [text |-> text, chunk |-> Len(rs) + 1])

\* The next chunk of the version that is there.
LEMMA NextChunk ==
    ASSUME NEW rs, NEW text \in Texts, NEW ss,
           Version(rs), Len(rs) < Chunks[text], AllOf(rs, text), Grown(rs, text, ss)
    PROVE  /\ Version(ss)
           /\ Len(ss) = Len(rs) + 1
           /\ AllOf(ss, text)
  <1> DEFINE r == [text |-> text, chunk |-> Len(rs) + 1]
  <1>1. rs \in Seq(RowSet) /\ Len(rs) \in Nat /\ DOMAIN rs = 1..Len(rs)
    BY DEF Version
  <1>2. r \in RowSet
    BY <1>1 DEF RowSet
  <1>3. /\ ss \in Seq(RowSet) /\ Len(ss) = Len(rs) + 1 /\ DOMAIN ss = 1..(Len(rs) + 1)
        /\ ss[Len(rs) + 1] = r /\ \A i \in DOMAIN rs : ss[i] = rs[i]
    BY <1>1, <1>2 DEF Grown
  <1>4. \A i \in DOMAIN ss : ss[i] = [text |-> text, chunk |-> i]
    <2> SUFFICES ASSUME NEW i \in DOMAIN ss PROVE ss[i] = [text |-> text, chunk |-> i]
      OBVIOUS
    <2>1. CASE i = Len(rs) + 1
      BY <2>1, <1>3
    <2>2. CASE i \in DOMAIN rs
      <3>1. rs # <<>> /\ 1 \in DOMAIN rs
        BY <2>2, <1>1
      <3>2. rs[1].text = text
        BY <3>1 DEF AllOf
      <3> QED BY <2>2, <3>1, <3>2, <1>3 DEF Version
    <2> QED BY <2>1, <2>2, <1>1, <1>3
  <1>5. Chunks[text] \in Nat
    BY JournalAssumption
  <1>6. ss[1].text = text
    BY <1>1, <1>3, <1>4
  <1>7. AllOf(ss, text)
    BY <1>4 DEF AllOf
  <1>8. Len(ss) <= Chunks[text]
    BY <1>1, <1>3, <1>5
  <1> QED BY <1>3, <1>4, <1>6, <1>7, <1>8 DEF Version

-----------------------------------------------------------------------------
(* A task begins, goes on or ends.                                         *)

LEMMA NewTaskFits ==
    ASSUME NEW n \in Nat, n <= edits, NEW p \in Paths, NEW do \in {"sync", "remove"},
           NEW at \in {"timer", "conn"}, NEW t, t = NewTask(n, p, do, at)
    PROVE  TaskOK(t) /\ t.n = n /\ t.path = p /\ t.at = at /\ ~Locks(t)
  BY DEF NewTask, Task, TaskOK, Locks

\* A new one takes the place of timers of its path.
LEMMA Begins ==
    ASSUME TasksOK, Owned, RowsOK, NEW S \in SUBSET tasks, NEW t, TaskOK(t)',
           ~Locks(t), \A u \in tasks \ S : u.n # t.n,
           edits \in Nat, edits' \in Nat, edits <= edits',
           tasks' = (tasks \ S) \cup {t}, UNCHANGED rows
    PROVE  TasksOK' /\ Owned' /\ RowsOK'
  <1>1. \A u \in tasks : TaskOK(u)'
    BY DEF TasksOK, TaskOK, Task
  <1>2. TasksOK'
    BY <1>1 DEF TasksOK
  <1>3. Owned'
    BY DEF Owned
  <1>4. RowsOK'
    BY DEF RowsOK, Follows, Locks
  <1> QED BY <1>2, <1>3, <1>4

\* One goes on as u: rows are written by who has the lock.
LEMMA GoesOn ==
    ASSUME TasksOK, Owned, RowsOK, NEW t \in tasks, NEW u, TaskOK(u), Goes(t, u),
           u.n = t.n, u.path = t.path,
           Locks(u) => Locks(t) \/ \A v \in tasks : v.path = t.path => ~Locks(v),
           NEW ss, Version(ss), Follows(u, ss),
           Locks(t) \/ ss = rows[t.path],
           rows' = [rows EXCEPT ![t.path] = ss], UNCHANGED edits
    PROVE  TasksOK' /\ Owned' /\ RowsOK'
  <1>1. t.path \in Paths
    BY DEF TasksOK, TaskOK, Task
  <1>2. \A v \in tasks : TaskOK(v)'
    BY DEF TasksOK, TaskOK
  <1>3. TaskOK(u)'
    BY DEF TaskOK
  <1>4. TasksOK'
    BY <1>2, <1>3 DEF TasksOK, Goes
  <1>5. Owned'
    BY DEF Owned, Goes
  <1>6. /\ rows'[t.path] = ss /\ \A p \in Paths \ {t.path} : rows'[p] = rows[p]
        /\ rows' \in [Paths -> Seq(RowSet)]
    BY <1>1 DEF RowsOK, Version
  <1>7. \A p \in Paths : Version(rows'[p])
    BY <1>6 DEF RowsOK
  <1>8. ASSUME NEW v \in tasks \ {t} PROVE Follows(v, rows'[v.path])
    <2>1. v.path \in Paths
      BY DEF TasksOK, TaskOK, Task
    <2>2. CASE rows'[v.path] = rows[v.path]
      BY <2>2 DEF RowsOK
    <2>3. CASE rows'[v.path] # rows[v.path]
      <3>1. v.path = t.path /\ Locks(t)
        BY <2>1, <2>3, <1>6
      <3>2. ~Locks(v)
        BY <3>1 DEF Owned
      <3> QED BY <3>2 DEF Follows, Locks
    <2> QED BY <2>2, <2>3
  <1>9. \A v \in tasks' : Follows(v, rows'[v.path])
    BY <1>6, <1>8 DEF Goes
  <1> QED BY <1>4, <1>5, <1>6, <1>7, <1>9 DEF RowsOK

\* One ends; what it leaves of the rows is what was there, or nothing.
LEMMA Leaves ==
    ASSUME TasksOK, Owned, RowsOK, NEW t \in tasks, Locks(t), tasks' = tasks \ {t},
           \/ UNCHANGED rows
           \/ rows' = [rows EXCEPT ![t.path] = <<>>],
           UNCHANGED edits
    PROVE  TasksOK' /\ Owned' /\ RowsOK'
  <1>1. t.path \in Paths
    BY DEF TasksOK, TaskOK, Task
  <1>2. TasksOK'
    BY DEF TasksOK, TaskOK
  <1>3. Owned'
    BY DEF Owned
  <1>4. <<>> \in Seq(RowSet)
    OBVIOUS
  <1>5. /\ \A p \in Paths : rows'[p] = rows[p] \/ (p = t.path /\ rows'[p] = <<>>)
        /\ rows' \in [Paths -> Seq(RowSet)]
    BY <1>1, <1>4 DEF RowsOK
  <1>6. \A p \in Paths : Version(rows'[p])
    BY <1>5, NoRows DEF RowsOK
  <1>7. ASSUME NEW v \in tasks' PROVE Follows(v, rows'[v.path])
    <2>1. v \in tasks /\ v # t /\ v.path \in Paths
      BY DEF TasksOK, TaskOK, Task
    <2>2. CASE v.path = t.path
      BY <2>1, <2>2 DEF Owned, Follows, Locks
    <2>3. CASE v.path # t.path
      BY <2>1, <2>3, <1>5 DEF RowsOK
    <2> QED BY <2>2, <2>3
  <1> QED BY <1>2, <1>3, <1>5, <1>6, <1>7 DEF RowsOK

\* The timers of pending are others than a task that has called back.
LEMMA StaysListed ==
    ASSUME Listed, NEW t \in tasks, t.at \notin {"timer", "fired"},
           tasks \ {t} \subseteq tasks', UNCHANGED pending
    PROVE  Listed'
  BY DEF Listed, Awaits

-----------------------------------------------------------------------------
(* The steps.                                                              *)

LEMMA InitInv == Init => Inv
  <1> SUFFICES ASSUME Init PROVE Inv
    OBVIOUS
  <1>1. <<>> \in Seq(RowSet)
    OBVIOUS
  <1>2. RowsOK
    BY <1>1, NoRows DEF Init, RowsOK
  <1>3. Fields /\ Down
    BY DEF Init, Fields, Down
  <1>4. TasksOK /\ Owned /\ Listed
    BY DEF Init, TasksOK, Owned, Listed, NoTimer
  <1> QED BY <1>2, <1>3, <1>4 DEF Inv

\* Nothing but the folder's state, or files, changes.
LEMMA OutsideInv ==
    ASSUME Inv, UNCHANGED <<rows, up, pending, tasks, walk>>,
           edits' \in Nat, edits <= edits',
           file' \in [Paths -> Texts \cup {NoFile, Blank}]
    PROVE  Inv'
  <1>1. TasksOK'
    BY DEF Inv, Fields, TasksOK, TaskOK, Task
  <1>2. Owned' /\ RowsOK' /\ Listed'
    BY DEF Inv, Owned, RowsOK, Listed
  <1>3. Fields' /\ Down'
    BY DEF Inv, Fields, Down
  <1> QED BY <1>1, <1>2, <1>3 DEF Inv

LEMMA MoveInv ==
    ASSUME Inv, \/ AddFolder \/ MoveOut
                \/ \E contents \in [Sub -> Texts \cup {NoFile, Blank}] : MoveIn(contents)
    PROVE  Inv'
  <1>1. file' \in [Paths -> Texts \cup {NoFile, Blank}]
    BY DEF Inv, Fields, AddFolder, MoveOut, MoveIn
  <1>2. edits' \in Nat /\ edits <= edits'
    BY DEF Inv, Fields, AddFolder, MoveOut, MoveIn
  <1> QED BY <1>1, <1>2, OutsideInv DEF AddFolder, MoveOut, MoveIn

LEMMA StartInv == Inv /\ Start => Inv'
  <1> SUFFICES ASSUME Inv, Start PROVE Inv'
    OBVIOUS
  <1>1. Fields' /\ Down'
    BY DEF Inv, Fields, Down, Start
  <1>2. UNCHANGED <<rows, pending, tasks, edits>>
    BY DEF Start
  <1>3. TasksOK' /\ Owned' /\ RowsOK' /\ Listed'
    BY <1>2 DEF Inv, TasksOK, TaskOK, Owned, RowsOK, Listed
  <1> QED BY <1>1, <1>3 DEF Inv

LEMMA CrashInv == Inv /\ Crash => Inv'
  <1> SUFFICES ASSUME Inv, Crash PROVE Inv'
    OBVIOUS
  <1>1. Fields' /\ Down'
    BY DEF Inv, Fields, Down, Crash
  <1>2. TasksOK' /\ Owned' /\ Listed'
    BY DEF TasksOK, Owned, Listed, Crash, NoTimer
  <1>3. RowsOK'
    BY DEF Inv, RowsOK, Crash
  <1> QED BY <1>1, <1>2, <1>3 DEF Inv

LEMMA WalkOnInv ==
    ASSUME Inv, NEW p \in Paths, WalkOn(p)
    PROVE  Inv'
  <1>1. PICK t : t = NewTask(Walker, p, "sync", "conn")
    OBVIOUS
  <1>2. edits' = edits /\ edits \in Nat /\ Walker <= edits /\ Walker \in Nat
    BY DEF Inv, Fields, WalkOn, Walker
  <1>3. TaskOK(t) /\ t.n = Walker /\ ~Locks(t)
    BY <1>1, <1>2, NewTaskFits
  <1>4. TaskOK(t)'
    BY <1>2, <1>3 DEF TaskOK
  <1>5. tasks' = (tasks \ {}) \cup {t} /\ \A u \in tasks \ {} : u.n # t.n
    BY <1>1, <1>3 DEF WalkOn
  <1>6. TasksOK' /\ Owned' /\ RowsOK'
    <2>1. PICK S \in SUBSET tasks : S = {}
      OBVIOUS
    <2>2. /\ edits \in Nat /\ edits' \in Nat /\ edits <= edits' /\ UNCHANGED rows
          /\ TasksOK /\ Owned /\ RowsOK
      BY <1>2 DEF Inv, WalkOn
    <2>3. tasks' = (tasks \ S) \cup {t} /\ \A u \in tasks \ S : u.n # t.n
      BY <2>1, <1>5
    <2> QED BY <1>3, <1>4, <2>2, <2>3, Begins
  <1>7. Listed'
    BY <1>5 DEF Inv, Listed, WalkOn
  <1>8. Fields' /\ Down'
    BY DEF Inv, Fields, Down, WalkOn
  <1> QED BY <1>6, <1>7, <1>8 DEF Inv

\* A change that is seen sets a timer in place of the one it can stop.
LEMMA ScheduleInv ==
    ASSUME Inv, NEW p \in Paths, NEW do \in {"sync", "remove"}, Schedule(p, do), up,
           edits' = edits + 1, file' \in [Paths -> Texts \cup {NoFile, Blank}],
           UNCHANGED <<rows, up, walk>>
    PROVE  Inv'
  <1>1. PICK t : t = NewTask(edits + 1, p, do, "timer")
    OBVIOUS
  <1>2. edits \in Nat /\ edits' \in Nat /\ edits <= edits' /\ edits + 1 # NoTimer
    BY DEF Inv, Fields, NoTimer
  <1>3. TaskOK(t)' /\ t.n = edits + 1 /\ t.path = p /\ t.at = "timer" /\ ~Locks(t)
    BY <1>1, <1>2 DEF NewTask, Task, TaskOK, Locks
  <1>4. \A u \in tasks : u.n <= edits /\ u.n \in Nat
    BY DEF Inv, TasksOK, TaskOK, Task
  <1>5. /\ tasks' = (tasks \ Stoppable(p)) \cup {t} /\ Stoppable(p) \subseteq tasks
        /\ \A u \in tasks : u.n # t.n
        /\ \A u \in Stoppable(p) : u.path = p
    BY <1>1, <1>2, <1>3, <1>4 DEF Schedule, Stoppable
  <1>6. TasksOK' /\ Owned' /\ RowsOK'
    BY <1>2, <1>3, <1>5, Begins DEF Inv
  <1>7. /\ pending' \in [Paths -> Nat] /\ pending'[p] = edits + 1
        /\ \A q \in Paths \ {p} : pending'[q] = pending[q]
    BY <1>2 DEF Inv, Listed, Schedule
  <1>8. Listed'
    <2> SUFFICES ASSUME NEW q \in Paths, pending'[q] # NoTimer
                 PROVE  \E u \in tasks' : Awaits(u, pending'[q], q)
      BY <1>7 DEF Listed
    <2>1. CASE q = p
      <3>1. t \in tasks' /\ Awaits(t, pending'[q], q)
        BY <2>1, <1>3, <1>5, <1>7 DEF Awaits
      <3> QED BY <3>1
    <2>2. CASE q # p
      <3>1. PICK u \in tasks : Awaits(u, pending[q], q)
        BY <2>2, <1>7 DEF Inv, Listed
      <3>2. u \in tasks'
        BY <2>2, <3>1, <1>5 DEF Awaits
      <3> QED BY <2>2, <3>1, <3>2, <1>7
    <2> QED BY <2>1, <2>2
  <1>9. Fields' /\ Down'
    BY <1>2 DEF Inv, Fields, Down
  <1> QED BY <1>6, <1>8, <1>9 DEF Inv

LEMMA EditInv ==
    ASSUME Inv, NEW p \in Paths, NEW content \in Texts \cup {NoFile, Blank}, Edit(p, content)
    PROVE  Inv'
  <1>1. /\ file' \in [Paths -> Texts \cup {NoFile, Blank}]
        /\ edits' = edits + 1 /\ edits \in Nat /\ edits' \in Nat /\ edits <= edits'
        /\ UNCHANGED <<rows, up, walk>>
    BY DEF Inv, Fields, Edit
  <1>2. CASE Seen(p)
    <2>1. PICK do \in {"sync", "remove"} : Schedule(p, do)
      BY <1>2 DEF Edit
    <2>2. up
      BY <1>2 DEF Seen
    <2> QED BY <2>1, <2>2, <1>1, ScheduleInv
  <1>3. CASE ~Seen(p)
    <2>1. UNCHANGED <<pending, tasks>>
      BY <1>3 DEF Edit
    <2> QED BY <2>1, <1>1, OutsideInv
  <1> QED BY <1>2, <1>3

-----------------------------------------------------------------------------
(* The steps of a task.                                                    *)

\* A task is of a running process, its path's rows are of one version.
LEMMA TaskFacts ==
    ASSUME Inv, NEW t \in tasks
    PROVE  /\ t \in Task /\ TaskOK(t) /\ t.path \in Paths /\ up
           /\ Version(rows[t.path]) /\ Follows(t, rows[t.path])
           /\ rows = [rows EXCEPT ![t.path] = rows[t.path]]
  BY DEF Inv, TasksOK, TaskOK, Task, RowsOK, Down

\* Fire and Callback: the timer goes on, and pending loses it or keeps it.
LEMMA TimerInv ==
    ASSUME Inv, NEW t \in tasks, Fire(t) \/ Callback(t)
    PROVE  Inv'
  <1>1. PICK u : \/ Fire(t) /\ u = [t EXCEPT !.at = "fired"]
                 \/ Callback(t) /\ u = [t EXCEPT !.at = "conn"]
    OBVIOUS
  <1>2. Goes(t, u) /\ UNCHANGED <<file, rows, up, walk, edits>>
    BY <1>1 DEF Fire, Callback
  <1>3. TaskOK(u) /\ u.n = t.n /\ u.path = t.path /\ ~Locks(u) /\ Follows(u, rows[t.path])
    BY <1>1, TaskFacts DEF Fire, Callback, Task, TaskOK, Locks, Follows
  <1>4. rows' = [rows EXCEPT ![t.path] = rows[t.path]]
    BY <1>2, TaskFacts
  <1>5. TasksOK' /\ Owned' /\ RowsOK'
    BY <1>2, <1>3, <1>4, TaskFacts, GoesOn DEF Inv
  <1>6. Listed'
    <2>1. CASE Fire(t)
      <3>1. u.at = "fired" /\ UNCHANGED pending
        BY <2>1, <1>1, TaskFacts DEF Fire, Callback, Task
      <3>2. ASSUME NEW n, NEW p, NEW v \in tasks, Awaits(v, n, p)
            PROVE  \E w \in tasks' : Awaits(w, n, p)
        <4>1. CASE v = t
          BY <3>1, <3>2, <4>1, <1>2, <1>3 DEF Awaits, Goes
        <4>2. CASE v # t
          BY <3>2, <4>2, <1>2 DEF Goes
        <4> QED BY <4>1, <4>2
      <3> QED BY <3>1, <3>2 DEF Inv, Listed
    <2>2. CASE Callback(t)
      <3>1. /\ pending' \in [Paths -> Nat]
            /\ \A p \in Paths : pending'[p] # NoTimer => p # t.path /\ pending'[p] = pending[p]
        BY <2>2, TaskFacts DEF Inv, Listed, Callback, NoTimer
      <3>2. ASSUME NEW n, NEW p, p # t.path, NEW v \in tasks, Awaits(v, n, p)
            PROVE  v \in tasks'
        BY <3>2, <1>2 DEF Awaits, Goes
      <3>3. ASSUME NEW p \in Paths, pending'[p] # NoTimer
            PROVE  \E v \in tasks' : Awaits(v, pending'[p], p)
        <4>1. p # t.path /\ pending'[p] = pending[p]
          BY <3>1, <3>3
        <4>2. PICK v \in tasks : Awaits(v, pending[p], p)
          BY <4>1, <3>3 DEF Inv, Listed
        <4> QED BY <4>1, <4>2, <3>2
      <3> QED BY <3>1, <3>3 DEF Listed
    <2> QED BY <2>1, <2>2, <1>1
  <1>7. Fields' /\ Down'
    BY <1>2, TaskFacts DEF Inv, Fields, Down
  <1> QED BY <1>5, <1>6, <1>7 DEF Inv

\* A task past its timer goes on as u: what every such step leaves in order.
LEMMA GoesInv ==
    ASSUME Inv, NEW t \in tasks, NEW u, Goes(t, u), TaskOK(u), u.n = t.n, u.path = t.path,
           t.at \notin {"timer", "fired"},
           Locks(u) => Locks(t) \/ \A v \in tasks : v.path = t.path => ~Locks(v),
           NEW ss, Version(ss), Follows(u, ss), Locks(t) \/ ss = rows[t.path],
           rows' = [rows EXCEPT ![t.path] = ss],
           UNCHANGED <<file, up, pending, walk, edits>>
    PROVE  Inv'
  <1>1. TasksOK' /\ Owned' /\ RowsOK'
    BY GoesOn DEF Inv
  <1>2. Listed'
    BY StaysListed DEF Inv, Goes
  <1>3. Fields' /\ Down'
    BY TaskFacts DEF Inv, Fields, Down
  <1> QED BY <1>1, <1>2, <1>3 DEF Inv

\* A task that has the lock ends.
LEMMA LeavesInv ==
    ASSUME Inv, NEW t \in tasks, Locks(t), tasks' = tasks \ {t},
           \/ UNCHANGED rows
           \/ rows' = [rows EXCEPT ![t.path] = <<>>],
           walk' \in {walk, {}}, UNCHANGED <<file, up, pending, edits>>
    PROVE  Inv'
  <1>1. TasksOK' /\ Owned' /\ RowsOK'
    BY Leaves DEF Inv
  <1>2. Listed'
    BY StaysListed DEF Inv, Locks
  <1>3. Fields' /\ Down'
    BY TaskFacts DEF Inv, Fields, Down
  <1> QED BY <1>1, <1>2, <1>3 DEF Inv

LEMMA AcquireInv ==
    ASSUME Inv, NEW t \in tasks, Acquire(t)
    PROVE  Inv'
  <1>1. PICK u : u = [t EXCEPT !.at = "lock"]
    OBVIOUS
  <1>2. /\ TaskOK(u) /\ u.n = t.n /\ u.path = t.path /\ ~Locks(u) /\ Follows(u, rows[t.path])
        /\ t.at \notin {"timer", "fired"}
    BY <1>1, TaskFacts DEF Acquire, Task, TaskOK, Locks, Follows
  <1>3. Goes(t, u) /\ UNCHANGED <<file, rows, up, pending, walk, edits>>
    BY <1>1 DEF Acquire
  <1> QED BY <1>2, <1>3, TaskFacts, GoesInv

LEMMA LockInv ==
    ASSUME Inv, NEW t \in tasks, Lock(t)
    PROVE  Inv'
  <1>1. PICK u : u = [t EXCEPT !.at = "locked"]
    OBVIOUS
  <1>2. /\ TaskOK(u) /\ u.n = t.n /\ u.path = t.path /\ Follows(u, rows[t.path])
        /\ t.at \notin {"timer", "fired"}
    BY <1>1, TaskFacts DEF Lock, Task, TaskOK, Follows
  <1>3. Goes(t, u) /\ UNCHANGED <<file, rows, up, pending, walk, edits>>
    BY <1>1 DEF Lock
  <1>4. \A v \in tasks : v.path = t.path => ~Locks(v)
    BY DEF Lock
  <1> QED BY <1>2, <1>3, <1>4, TaskFacts, GoesInv

\* A task at work ends, well or not.
LEMMA EndInv ==
    ASSUME Inv, NEW t \in tasks,
           Clear(t) \/ Missing(t) \/ Known(t) \/ Finish(t) \/ Fails(t)
    PROVE  Inv'
  <1>1. Locks(t)
    BY DEF Clear, Missing, Known, Finish, Fails, Locks
  <1>2. CASE Clear(t) \/ Known(t) \/ Finish(t)
    BY <1>1, <1>2, LeavesInv DEF Clear, Known, Finish, Ends
  <1>3. CASE Missing(t) \/ Fails(t)
    BY <1>1, <1>3, LeavesInv DEF Missing, Fails, GivesUp
  <1> QED BY <1>2, <1>3

\* The file's text is what the task saves from here on.
LEMMA ReadInv ==
    ASSUME Inv, NEW t \in tasks, Read(t)
    PROVE  Inv'
  <1>1. file[t.path] \in Texts
    BY TaskFacts DEF Inv, Fields, Read, Clears
  <1>2. PICK u : u = [t EXCEPT !.at = "clear", !.text = file[t.path]]
    OBVIOUS
  <1>3. /\ TaskOK(u) /\ u.n = t.n /\ u.path = t.path /\ Follows(u, rows[t.path])
        /\ t.at \notin {"timer", "fired"} /\ Locks(t)
    BY <1>1, <1>2, TaskFacts DEF Read, Task, TaskOK, Follows, Locks
  <1>4. Goes(t, u) /\ UNCHANGED <<file, rows, up, pending, walk, edits>>
    BY <1>2 DEF Read
  <1> QED BY <1>3, <1>4, TaskFacts, GoesInv

\* What another version left is gone before the first chunk is saved.
LEMMA ClearOldInv ==
    ASSUME Inv, NEW t \in tasks, ClearOld(t)
    PROVE  Inv'
  <1>1. PICK u : u = [t EXCEPT !.at = "chunk"]
    OBVIOUS
  <1>2. t.text \in Texts /\ Chunks[t.text] \in Nat \ {0} /\ t.next = 1
    BY TaskFacts, JournalAssumption DEF ClearOld, TaskOK
  <1>3. /\ TaskOK(u) /\ u.n = t.n /\ u.path = t.path /\ u.next = 1
        /\ t.at \notin {"timer", "fired"} /\ Locks(t)
    BY <1>1, <1>2, TaskFacts DEF ClearOld, Task, TaskOK, Locks
  <1>4. Follows(u, <<>>)
    BY <1>3 DEF Follows, AllOf
  <1>5. /\ Goes(t, u) /\ UNCHANGED <<file, up, pending, walk, edits>>
        /\ rows' = [rows EXCEPT ![t.path] = <<>>]
    BY <1>1 DEF ClearOld
  <1> QED BY <1>3, <1>4, <1>5, NoRows, GoesInv

LEMMA ChunkInv ==
    ASSUME Inv, NEW t \in tasks, Chunk(t)
    PROVE  Inv'
  <1>1. /\ t \in Task /\ t.at = "chunk" /\ t.text \in Texts /\ t.next \in Nat \ {0}
        /\ t.next <= Chunks[t.text] /\ Chunks[t.text] \in Nat
        /\ Version(rows[t.path]) /\ Len(rows[t.path]) = t.next - 1
        /\ AllOf(rows[t.path], t.text) /\ t.path \in Paths
    BY TaskFacts, JournalAssumption DEF Chunk, TaskOK, Follows, Task
  <1>2. Len(rows[t.path]) \in Nat
    BY <1>1 DEF Version
  <1>3. t.next = Len(rows[t.path]) + 1 /\ Len(rows[t.path]) < Chunks[t.text]
    BY <1>1, <1>2
  <1>4. PICK ss : ss = Append(rows[t.path], [text |-> t.text, chunk |-> t.next])
    OBVIOUS
  <1>5. Grown(rows[t.path], t.text, ss)
    BY <1>3, <1>4 DEF Grown
  <1>6. Version(ss) /\ Len(ss) = Len(rows[t.path]) + 1 /\ AllOf(ss, t.text)
    BY <1>1, <1>3, <1>5, NextChunk
  <1>7. PICK u : u = [t EXCEPT !.at = IF t.next < Chunks[t.text] THEN "chunk" ELSE "done",
                               !.next = @ + 1]
    OBVIOUS
  <1>8. /\ u \in Task /\ u.n = t.n /\ u.path = t.path /\ u.next = t.next + 1 /\ u.text = t.text
        /\ u.at \in {"chunk", "done"} /\ (u.at = "chunk" => t.next < Chunks[t.text])
    <2>1. PICK a \in {"chunk", "done"} :
            /\ a = (IF t.next < Chunks[t.text] THEN "chunk" ELSE "done")
            /\ a = "chunk" => t.next < Chunks[t.text]
      OBVIOUS
    <2>2. PICK m \in Nat \ {0} : m = t.next + 1
      BY <1>1
    <2>3. u = [t EXCEPT !.at = a, !.next = m]
      BY <1>7, <2>1, <2>2
    <2>4. PICK v : v = [t EXCEPT !.at = a]
      OBVIOUS
    <2>5. v \in Task /\ v.at = a /\ v.n = t.n /\ v.path = t.path /\ v.text = t.text
      BY <1>1, <2>4 DEF Task
    <2>6. u = [v EXCEPT !.next = m]
      BY <2>3, <2>4
    <2>7. /\ u \in Task /\ u.at = a /\ u.n = v.n /\ u.path = v.path /\ u.text = v.text
          /\ u.next = m
      BY <2>5, <2>6 DEF Task
    <2> QED BY <2>1, <2>2, <2>5, <2>7
  <1>9. TaskOK(u) /\ Follows(u, ss) /\ Locks(t) /\ t.at \notin {"timer", "fired"}
    BY <1>1, <1>2, <1>3, <1>6, <1>8, TaskFacts DEF TaskOK, Follows, Locks
  <1>10. /\ Goes(t, u) /\ UNCHANGED <<file, up, pending, walk, edits>>
         /\ rows' = [rows EXCEPT ![t.path] = ss]
    BY <1>4, <1>7 DEF Chunk
  <1> QED BY <1>6, <1>8, <1>9, <1>10, GoesInv

LEMMA NextInv == Inv /\ [Next]_vars => Inv'
  <1> SUFFICES ASSUME Inv, [Next]_vars PROVE Inv'
    OBVIOUS
  <1>1. CASE UNCHANGED vars
    BY <1>1 DEF vars, Inv, Fields, TasksOK, TaskOK, Owned, RowsOK, Listed, Down
  <1>2. CASE Start \/ Crash
    BY <1>2, StartInv, CrashInv
  <1>3. CASE Walks
    BY <1>3, WalkOnInv DEF Walks
  <1>4. CASE \/ AddFolder \/ MoveOut
             \/ \E contents \in [Sub -> Texts \cup {NoFile, Blank}] : MoveIn(contents)
    BY <1>4, MoveInv
  <1>5. ASSUME NEW t \in tasks, Step(t) \/ Fails(t) PROVE Inv'
    BY <1>5, TimerInv, AcquireInv, LockInv, EndInv, ReadInv, ClearOldInv, ChunkInv DEF Step
  <1>6. ASSUME NEW p \in Paths, NEW content \in Texts \cup {NoFile, Blank}, Edit(p, content)
        PROVE  Inv'
    BY <1>6, EditInv
  <1> QED BY <1>1, <1>2, <1>3, <1>4, <1>5, <1>6 DEF Next

-----------------------------------------------------------------------------
(* Theorems.                                                               *)

LEMMA InvType == Inv => TypeOK
  <1> SUFFICES ASSUME Inv PROVE TypeOK
    OBVIOUS
  <1>1. \A p \in Paths : \A i \in DOMAIN rows[p] : rows[p][i].text \in Texts
    <2> SUFFICES ASSUME NEW p \in Paths, NEW i \in DOMAIN rows[p] PROVE rows[p][i].text \in Texts
      OBVIOUS
    <2>1. rows[p] \in Seq(RowSet)
      BY DEF Inv, RowsOK
    <2>2. rows[p][i] \in RowSet
      BY <2>1
    <2> QED BY <2>2 DEF RowSet
  <1>2. tasks \subseteq Task /\ \A t, u \in tasks : t.n = u.n => t = u
    BY DEF Inv, TasksOK, TaskOK
  <1>3. \A p \in Paths : pending[p] # NoTimer =>
            \E t \in tasks : t.n = pending[p] /\ t.path = p /\ t.at \in {"timer", "fired"}
    BY DEF Inv, Listed, Awaits
  <1> QED BY <1>1, <1>2, <1>3 DEF Inv, Fields, Down, TypeOK

\* Timers and tasks are a running watcher's and one a change, its map holds
\* timers whose callback has still to run, the walk's list holds files that are
\* ingested and the rows texts: for any files, folders, pool and bounds.
THEOREM JournalTypeOK == Spec => []TypeOK
  BY InitInv, NextInv, InvType, PTL DEF Spec

LEMMA InvVersion == Inv => OneVersion
  BY DEF Inv, RowsOK, Version, OneVersion

\* A path's rows are the first chunks of one version of its file, however many
\* syncs of it are under way in whatever order, whatever fails or crashes
\* between two statements: the lock of SyncPath and RemovePath (LockSourcePath)
\* is enough.
THEOREM RowsOfOneVersion == Spec => []OneVersion
  BY InitInv, NextInv, InvVersion, PTL DEF Spec

=============================================================================
