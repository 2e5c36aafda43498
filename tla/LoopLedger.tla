----------------------------- MODULE LoopLedger -----------------------------
(***************************************************************************)
(* What the open-loop list promises, as if every request touched the      *)
(* database once.  A loop is added, reworded or moved to another status;   *)
(* two loops that count as outstanding never say the same thing; and what  *)
(* the room only proposed leaves the proposals by being accepted or        *)
(* dropped, never by being called finished or stale.                       *)
(*                                                                         *)
(* Commitments implements this module with reads and writes that other     *)
(* requests come between.                                                  *)
(***************************************************************************)
EXTENDS FiniteSets

CONSTANTS
    Loop,   \* the rows of the commitments table
    Text    \* wordings, two of them being one when their fingerprints agree

VARIABLES
    status, \* status[l], "none" before the row is inserted
    text    \* text[l], some wording before the row is inserted

vars == <<status, text>>

Status == {"proposed", "open", "done", "dropped", "stale"}

LiveStatus == {"proposed", "open"}

Live(l) == status[l] \in LiveStatus

\* The partial unique index: no other live row has this wording.
Free(l, t) == \A m \in Loop \ {l} : Live(m) => text[m] # t

Init ==
    /\ status = [l \in Loop |-> "none"]
    /\ \E t \in Text : text = [l \in Loop |-> t]

Add(l, t, s) ==
    /\ status[l] = "none"
    /\ s \in LiveStatus
    /\ Free(l, t)
    /\ status' = [status EXCEPT ![l] = s]
    /\ text' = [text EXCEPT ![l] = t]

\* A loop that was only proposed is accepted or dropped before anything else.
Leaves(from) == IF from = "proposed" THEN {"open", "dropped"} ELSE Status \ {"proposed"}

Move(l, to) ==
    /\ status[l] # "none"
    /\ to \in Leaves(status[l])
    /\ to \in LiveStatus => Free(l, text[l])
    /\ status' = [status EXCEPT ![l] = to]
    /\ UNCHANGED text

Reword(l, t) ==
    /\ status[l] # "none"
    /\ Live(l) => Free(l, t)
    /\ text' = [text EXCEPT ![l] = t]
    /\ UNCHANGED status

\* Any number of open loops turn stale at once.
Tire(S) ==
    /\ \A l \in S : status[l] = "open"
    /\ status' = [l \in Loop |-> IF l \in S THEN "stale" ELSE status[l]]
    /\ UNCHANGED text

Next ==
    \/ \E l \in Loop, t \in Text, s \in LiveStatus : Add(l, t, s)
    \/ \E l \in Loop, to \in Status : Move(l, to)
    \/ \E l \in Loop, t \in Text : Reword(l, t)
    \/ \E S \in SUBSET Loop : Tire(S)

Spec == Init /\ [][Next]_vars
=============================================================================
