------------------------------ MODULE MCSignIn ------------------------------
(* Small instances of SignIn for TLC. *)
EXTENDS SignIn, TLC

CONSTANTS c1, c2, a1, p1, p2, s1

MCClients   == {c1, c2}
MCAddresses == {a1}
MCPasswords == {p1, p2}
MCWeak      == {}
MCTickets   == {s1}

\* Passwords on, without and with ROOM_PASSWORD.
MCConfigs ==
    {[on |-> TRUE, env |-> None], [on |-> TRUE, env |-> p2]}

\* Bound: two sign-ins to a history, through the provider or with the password,
\* and one device at a time signing another out.
Bound ==
    /\ Cardinality(started) + Cardinality({t \in Token : session[t].under \in Password}) <= 2
    /\ \E c \in Client : req[c].op = "visit" => req[c].target = None

Symmetry == Permutations(MCClients)
=============================================================================
