---------------------------- MODULE JournalSync ----------------------------
(***************************************************************************)
(* The journal folder and the rows ingested from it: the watcher           *)
(* (journal/adapters/driven/fs/watcher.go) debounces what happens to a     *)
(* file into a sync or a removal, the walk at startup syncs every file,    *)
(* and each sync (journal/usecase/sync.go) runs under an advisory lock of  *)
(* the database, held on a pool connection of its own while its queries    *)
(* take others.  Files change while the process runs or is down, a folder  *)
(* of them comes or goes at once, an embedding may fail, the process may   *)
(* die.                                                                    *)
(*                                                                         *)
(* A timer and the goroutine it becomes are one task.  Nothing orders the  *)
(* tasks of a path but the timer pending still has and the lock.           *)
(***************************************************************************)
EXTENDS Naturals, Sequences, FiniteSets

CONSTANTS Paths,     \* journal files, under the watched root
          Excluded,  \* the ones that are never rows (about-me.md, context/)
          Sub,       \* the ones in a folder below the root
          Texts,     \* bodies a file may have
          Chunks,    \* [Texts -> Nat]: how many chunks a body gives
          NoFile,    \* the file does not exist
          Blank,     \* the file holds only white space
          Pool,      \* connections of the pool
          MaxEdits,  \* bound: changes of files and of the folder
          MaxFails,  \* bound: embeddings or queries that fail
          MaxStarts  \* bound: starts of the process

ASSUME JournalAssumption ==
    /\ Excluded \subseteq Paths /\ Sub \subseteq Paths
    /\ Chunks \in [Texts -> Nat \ {0}]
    /\ Pool \in Nat \ {0} /\ MaxEdits \in Nat

VARIABLES file,    \* path -> content, NoFile or Blank
          folder,  \* of Sub: "absent", "there" or, by this process, "watched"
          rows,    \* path -> its rows in the memories table, [text, chunk]
          up,      \* the process runs
          pending, \* Watcher.pending: path -> the number of a timer, or NoTimer
          tasks,   \* timers set, and the syncs and removals begun
          walk,    \* paths the startup walk has still to sync
          harmed,  \* paths whose rows the code may leave wrong (Harm below)
          edits, fails, starts

vars == <<file, folder, rows, up, pending, tasks, walk, harmed, edits, fails, starts>>

Task == [n : Nat,   \* the change it is for, Walker for the walk's
         path : Paths, do : {"sync", "remove"},
         at : {"timer", "fired", "conn", "lock", "locked", "clear", "chunk", "done"},
         text : Texts \cup {Blank}, next : Nat \ {0}]

Walker == 0
NoTimer == 0

NewTask(n, p, do, at) ==
    [n |-> n, path |-> p, do |-> do, at |-> at, text |-> Blank, next |-> 1]

\* The task goes on as u.
Goes(t, u) == tasks' = (tasks \ {t}) \cup {u}

\* It holds the lock of its path.
Locks(t) == t.at \in {"locked", "clear", "chunk", "done"}

\* LockSourcePath takes a connection, then waits for the lock on it.
Held == {t \in tasks : t.at = "lock" \/ Locks(t)}

\* A connection is left: a query does not run on the lock's own.
Connection == Cardinality(Held) < Pool

\* The rows of the whole file.
RowsOf(text) == [i \in 1..Chunks[text] |-> [text |-> text, chunk |-> i]]

\* What the table should hold for a path.
Want(p) == IF p \in Excluded \/ file[p] \in {NoFile, Blank} THEN <<>> ELSE RowsOf(file[p])

Init ==
    /\ file = [p \in Paths |-> NoFile]
    /\ folder = "absent"
    /\ rows = [p \in Paths |-> <<>>]
    /\ up = FALSE
    /\ pending = [p \in Paths |-> NoTimer]
    /\ tasks = {}
    /\ walk = {}
    /\ harmed = {}
    /\ edits = 0 /\ fails = 0 /\ starts = 0

----------------------------------------------------------------------------
(* Harm.  A path is harmed by what the watcher was not told or does not    *)
(* keep in order, and by a sync that stops half way:                       *)
(*  - the file went while the process was down, or while it had a removal  *)
(*    to do it died (no walk looks for rows without a file);               *)
(*  - it changed in a folder that is not watched yet, or came or went with *)
(*    the folder;                                                          *)
(*  - it was saved again while a removal could no longer be stopped;       *)
(*  - a sync of it died between two chunks or failed, or the walk failed   *)
(*    before it came to it.                                                *)
(* It is over when a task of the path ends with the rows in step and no    *)
(* removal behind it.                                                      *)

Settled(p, rs, ts) == rs[p] = Want(p) /\ \A u \in ts : u.path = p => u.do = "sync"

\* The timer that schedule can still stop.
Stoppable(p) == {t \in tasks : t.path = p /\ t.n = pending[p] /\ t.at = "timer"}

\* A removal that will run whatever happens to the file next.
Underway(p) == \E t \in tasks \ Stoppable(p) : t.path = p /\ t.do = "remove"

\* What a death leaves undone for good.
Undone == {t.path : t \in {u \in tasks : u.do = "remove" \/ (u.at = "chunk" /\ u.next > 1)}}

----------------------------------------------------------------------------
(* The process and the watcher. *)

\* Watcher.Start: the folders there are get watched and the walk begins on the
\* files the directories list now.
Start ==
    /\ ~up /\ starts < MaxStarts
    /\ up' = TRUE /\ starts' = starts + 1
    /\ folder' = IF folder = "absent" THEN "absent" ELSE "watched"
    /\ walk' = {p \in Paths \ Excluded : file[p] # NoFile}
    /\ UNCHANGED <<file, rows, pending, tasks, harmed, edits, fails>>

\* Timers and running syncs are lost; the database gives their locks back.
Crash ==
    /\ up /\ starts < MaxStarts
    /\ up' = FALSE
    /\ folder' = IF folder = "absent" THEN "absent" ELSE "there"
    /\ pending' = [p \in Paths |-> NoTimer]
    /\ tasks' = {}
    /\ walk' = {}
    /\ harmed' = harmed \cup Undone
    /\ UNCHANGED <<file, rows, edits, fails, starts>>

\* Slip: the timer there is stays what it was for.
ScheduleFirst(p, do) ==
    IF Stoppable(p) # {} THEN UNCHANGED <<tasks, pending>>
    ELSE /\ tasks' = tasks \cup {NewTask(edits + 1, p, do, "timer")}
         /\ pending' = [pending EXCEPT ![p] = edits + 1]

\* Watcher.schedule: Stop has no effect on a timer that fired, and one that
\* pending no longer has is not found.
Schedule(p, do) ==
    /\ tasks' = (tasks \ Stoppable(p)) \cup {NewTask(edits + 1, p, do, "timer")}
    /\ pending' = [pending EXCEPT ![p] = edits + 1]

\* An event of the file reaches the watcher.
Seen(p) == up /\ (p \in Sub => folder = "watched")

\* A file is written, emptied, created or removed, by the owner or by Capture.
Edit(p, content) ==
    /\ edits < MaxEdits /\ file[p] # content
    /\ p \in Sub => folder # "absent"
    /\ edits' = edits + 1
    /\ file' = [file EXCEPT ![p] = content]
    /\ IF Seen(p)
       THEN /\ Schedule(p, IF content = NoFile THEN "remove" ELSE "sync")
            /\ harmed' = IF content # NoFile /\ Underway(p) THEN harmed \cup {p} ELSE harmed
       ELSE /\ harmed' = IF up \/ content = NoFile THEN harmed \cup {p} ELSE harmed
            /\ UNCHANGED <<pending, tasks>>
    /\ UNCHANGED <<folder, rows, up, walk, fails, starts>>

\* The folder appears, with files in it or none: no event is of a file.
MoveIn(contents) ==
    /\ edits < MaxEdits /\ Sub # {} /\ folder = "absent"
    /\ edits' = edits + 1
    /\ folder' = "there"
    /\ file' = [p \in Paths |-> IF p \in Sub THEN contents[p] ELSE file[p]]
    /\ harmed' = IF up THEN harmed \cup {p \in Sub : contents[p] # NoFile} ELSE harmed
    /\ UNCHANGED <<rows, up, pending, tasks, walk, fails, starts>>

\* handleEvent adds the folder it was told of; its files it leaves alone.
AddFolder ==
    /\ up /\ folder = "there"
    /\ folder' = "watched"
    /\ UNCHANGED <<file, rows, up, pending, tasks, walk, harmed, edits, fails, starts>>

\* The folder is moved away with what is in it.
MoveOut ==
    /\ edits < MaxEdits /\ folder # "absent"
    /\ edits' = edits + 1
    /\ folder' = "absent"
    /\ file' = [p \in Paths |-> IF p \in Sub THEN NoFile ELSE file[p]]
    /\ harmed' = harmed \cup {p \in Sub : file[p] # NoFile}
    /\ UNCHANGED <<rows, up, pending, tasks, walk, fails, starts>>

\* The delay passed: the timer's goroutine is ready.
Fire(t) ==
    /\ t.at = "timer"
    /\ Goes(t, [t EXCEPT !.at = "fired"])
    /\ UNCHANGED <<file, folder, rows, up, pending, walk, harmed, edits, fails, starts>>

\* Slip: a timer that ran stays in the map.
CallbackLeaves(t) ==
    /\ t.at = "fired"
    /\ Goes(t, [t EXCEPT !.at = "conn"])
    /\ UNCHANGED <<file, folder, rows, up, pending, walk, harmed, edits, fails, starts>>

\* It deletes whatever timer pending has for the path, and begins SyncPath or
\* RemovePath.
Callback(t) ==
    /\ t.at = "fired"
    /\ pending' = [pending EXCEPT ![t.path] = NoTimer]
    /\ Goes(t, [t EXCEPT !.at = "conn"])
    /\ UNCHANGED <<file, folder, rows, up, walk, harmed, edits, fails, starts>>

\* SyncAll goes on to another file, one at a time.
WalkOn(p) ==
    /\ p \in walk /\ \A t \in tasks : t.n # Walker
    /\ walk' = walk \ {p}
    /\ tasks' = tasks \cup {NewTask(Walker, p, "sync", "conn")}
    /\ UNCHANGED <<file, folder, rows, up, pending, harmed, edits, fails, starts>>

----------------------------------------------------------------------------
(* SyncPath and RemovePath. *)

\* LockSourcePath: a connection first ...
Acquire(t) ==
    /\ t.at = "conn" /\ Connection
    /\ Goes(t, [t EXCEPT !.at = "lock"])
    /\ UNCHANGED <<file, folder, rows, up, pending, walk, harmed, edits, fails, starts>>

\* ... then the lock, to any of those who wait.
Lock(t) ==
    /\ t.at = "lock" /\ \A u \in tasks : u.path = t.path => ~Locks(u)
    /\ Goes(t, [t EXCEPT !.at = "locked"])
    /\ UNCHANGED <<file, folder, rows, up, pending, walk, harmed, edits, fails, starts>>

\* The task gives lock and connection back.
Ends(t) ==
    /\ tasks' = tasks \ {t}
    /\ harmed' = IF Settled(t.path, rows', tasks') THEN harmed \ {t.path} ELSE harmed
    /\ UNCHANGED <<file, folder, up, pending, walk, edits, starts>>

\* So it does after an error, which also ends the walk it is of.
GivesUp(t, lost) ==
    /\ tasks' = tasks \ {t}
    /\ walk' = IF t.n = Walker THEN {} ELSE walk
    /\ harmed' = harmed \cup lost \cup (IF t.n = Walker THEN walk ELSE {})
    /\ UNCHANGED <<file, folder, rows, up, pending, edits, starts>>

\* A removal, an excluded path, an empty file: the rows go.  RemovePath does
\* not look at the file.
Clears(t) == t.do = "remove" \/ t.path \in Excluded \/ file[t.path] = Blank
Clear(t) ==
    /\ t.at = "locked" /\ Clears(t) /\ Connection
    /\ rows' = [rows EXCEPT ![t.path] = <<>>]
    /\ Ends(t)
    /\ UNCHANGED fails

\* The file is gone when it is read.
Missing(t) ==
    /\ t.at = "locked" /\ ~Clears(t) /\ file[t.path] = NoFile
    /\ GivesUp(t, {})
    /\ UNCHANGED fails

\* The hash any of the path's rows carries: it stands for the text.
SourceContentHash(p) == IF rows[p] = <<>> THEN NoFile ELSE rows[p][1].text

\* The file is read; any row that carries its hash says it is done already.
Known(t) ==
    /\ t.at = "locked" /\ ~Clears(t) /\ file[t.path] # NoFile /\ Connection
    /\ SourceContentHash(t.path) = file[t.path]
    /\ UNCHANGED <<rows, fails>>
    /\ Ends(t)

Read(t) ==
    /\ t.at = "locked" /\ ~Clears(t) /\ file[t.path] # NoFile /\ Connection
    /\ SourceContentHash(t.path) # file[t.path]
    /\ Goes(t, [t EXCEPT !.at = "clear", !.text = file[t.path]])
    /\ UNCHANGED <<file, folder, rows, up, pending, walk, harmed, edits, fails, starts>>

\* Slip: the rows of the previous version stay.
ClearNothing(t) ==
    /\ t.at = "clear" /\ Connection
    /\ Goes(t, [t EXCEPT !.at = "chunk"])
    /\ UNCHANGED <<file, folder, rows, up, pending, walk, harmed, edits, fails, starts>>

\* The rows of the previous version go.
ClearOld(t) ==
    /\ t.at = "clear" /\ Connection
    /\ rows' = [rows EXCEPT ![t.path] = <<>>]
    /\ Goes(t, [t EXCEPT !.at = "chunk"])
    /\ UNCHANGED <<file, folder, up, pending, walk, harmed, edits, fails, starts>>

\* Ingest embeds and saves the next chunk.
Chunk(t) ==
    /\ t.at = "chunk" /\ Connection
    /\ rows' = [rows EXCEPT ![t.path] = Append(@, [text |-> t.text, chunk |-> t.next])]
    /\ Goes(t, [t EXCEPT !.at = IF t.next < Chunks[t.text] THEN "chunk" ELSE "done",
                         !.next = @ + 1])
    /\ UNCHANGED <<file, folder, up, pending, walk, harmed, edits, fails, starts>>

\* The last chunk is saved.
Finish(t) ==
    /\ t.at = "done"
    /\ UNCHANGED <<rows, fails>>
    /\ Ends(t)

\* An embedding or a query fails: what was saved stays.
Fails(t) ==
    /\ t.at \in {"locked", "clear", "chunk"}
    /\ fails < MaxFails
    /\ fails' = fails + 1
    /\ GivesUp(t, {t.path})

----------------------------------------------------------------------------

Step(t) ==
    \/ Fire(t) \/ Callback(t) \/ Acquire(t) \/ Lock(t) \/ Clear(t) \/ Missing(t)
    \/ Known(t) \/ Read(t) \/ ClearOld(t) \/ Chunk(t) \/ Finish(t)

Walks == \E p \in Paths : WalkOn(p)

Next ==
    \/ Start \/ Crash \/ Walks \/ AddFolder \/ MoveOut
    \/ \E t \in tasks : Step(t) \/ Fails(t)
    \/ \E p \in Paths, content \in Texts \cup {NoFile, Blank} : Edit(p, content)
    \/ \E contents \in [Sub -> Texts \cup {NoFile, Blank}] : MoveIn(contents)

\* Timers fire, goroutines run, the provider and the database answer.
Fairness ==
    /\ WF_vars(Walks) /\ WF_vars(AddFolder)
    /\ \A n \in 0..MaxEdits : WF_vars(\E t \in tasks : t.n = n /\ Step(t))

Spec == Init /\ [][Next]_vars /\ Fairness

----------------------------------------------------------------------------

\* Timers and tasks are those of a running process and one a change, the map
\* holds timers whose callback has still to run (Watcher.schedule).
TypeOK ==
    /\ tasks \subseteq Task /\ \A t, u \in tasks : t.n = u.n => t = u
    /\ \A p \in Paths : /\ \A i \in DOMAIN rows[p] : rows[p][i].text \in Texts
                        /\ pending[p] # NoTimer =>
                             \E t \in tasks : /\ t.n = pending[p] /\ t.path = p
                                              /\ t.at \in {"timer", "fired"}
    /\ walk \subseteq Paths \ Excluded
    /\ ~up => walk = {} /\ tasks = {}

\* The rows of a path are the first chunks of one version of its file: two
\* syncs of one file, the walk's and the watcher's, never both insert
\* (SyncPath under LockSourcePath).
OneVersion ==
    \A p \in Paths : rows[p] # <<>> =>
        /\ Len(rows[p]) <= Chunks[rows[p][1].text]
        /\ \A i \in DOMAIN rows[p] : rows[p][i] = [text |-> rows[p][1].text, chunk |-> i]

\* A file that stops changing is ingested, or its rows are gone with it, when
\* the process stays up and the path is not harmed (see Harm): in whatever
\* order walk, timers and syncs come, and whatever was saved while it was down.
InStepUnlessHarmed ==
    <>[]up => \A p \in Paths : <>[](p \in harmed \/ rows[p] = Want(p))

\* "Save a file and it is ingested" (README.md:77): a file that is there in the
\* end has its rows, when the process stays up.
SavedIsIngested ==
    <>[]up => \A p \in Paths : <>[](file[p] \in Texts => rows[p] = Want(p))
============================================================================
