------------------------------ MODULE Tickets ------------------------------
(***************************************************************************)
(* What a sign-in through the provider promises: the state it is started   *)
(* under opens at most one session.  A ticket is handed out, and is then   *)
(* redeemed or void for ever.  SignIn implements this module with states   *)
(* and hand-off codes that age, are raced for and are lost in a restart.   *)
(***************************************************************************)
EXTENDS Naturals

CONSTANT Ticket

VARIABLES
    phase,  \* phase[t]: "unused", "out", "redeemed" or "void"
    opened  \* opened[t], how many sessions were opened for it

vars == <<phase, opened>>

Init ==
    /\ phase = [t \in Ticket |-> "unused"]
    /\ opened = [t \in Ticket |-> 0]

HandOut(t) ==
    /\ phase[t] = "unused"
    /\ phase' = [phase EXCEPT ![t] = "out"]
    /\ UNCHANGED opened

Redeem(t) ==
    /\ phase[t] = "out"
    /\ phase' = [phase EXCEPT ![t] = "redeemed"]
    /\ opened' = [opened EXCEPT ![t] = @ + 1]

\* Tickets expire together, and a restart takes every one that is out.
Void(S) ==
    /\ \A t \in S : phase[t] = "out"
    /\ phase' = [t \in Ticket |-> IF t \in S THEN "void" ELSE phase[t]]
    /\ UNCHANGED opened

Next ==
    \/ \E t \in Ticket : HandOut(t) \/ Redeem(t)
    \/ \E S \in SUBSET Ticket : Void(S)

Spec == Init /\ [][Next]_vars
=============================================================================
