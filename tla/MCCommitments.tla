--------------------------- MODULE MCCommitments ----------------------------
(* Small instances of Commitments for TLC. *)
EXTENDS Commitments

CONSTANTS l1, l2, t1, t2, c1, c2

MCLoops2 == {l1, l2}
MCTexts  == {t1, t2}
MCClients == {c1, c2}

\* Bound: while the room goes through a turn for orders, one request at most is
\* under way; two requests race while it does not.
Apart == extract # "idle" => \E c \in Client : req[c] = Idle
=============================================================================
