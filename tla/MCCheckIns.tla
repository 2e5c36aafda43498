----------------------------- MODULE MCCheckIns ------------------------------
(* Small instances of CheckIns for TLC. *)
EXTENDS CheckIns, TLC

CONSTANTS c1, s1

MCSlots == <<[name |-> "noon", at |-> 1], [name |-> "evening", at |-> 1]>>

\* Conversations and stale loops share no statement: a history has one or the
\* other.
Apart == used = {} \/ \A l \in Loop : went[l] = 0
=============================================================================
