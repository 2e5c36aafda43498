--------------------------- MODULE MCChatSession ----------------------------
(* Small instances of ChatSession for TLC. *)
EXTENDS ChatSession, TLC

CONSTANTS c1, c2

MCClients == {c1, c2}
MCDepth1  == {""}

Symmetry == Permutations(MCClients)
=============================================================================
