---------------------------- MODULE MCBeastBoard ----------------------------
(* Small instances of BeastBoard for TLC. *)
EXTENDS BeastBoard, TLC

CONSTANTS t1, k1, c1, c2

MCText1   == {t1}
MCLoops   == {k1}
MCCallers == {c1, c2}

\* A negative extension pulls a clock in; as an allotment it is clamped to 1.
MCAsked == {-1, 2}

Symmetry == Permutations(MCCallers)
=============================================================================
