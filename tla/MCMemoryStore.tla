--------------------------- MODULE MCMemoryStore ---------------------------
(* One secret and one choice; the later release no longer accepts model m2. *)
EXTENDS MemoryStore

CONSTANTS embed, apiKey, m1, m2, k1, r1, r2, p1, s1, w1

MCKeys == {embed, apiKey}
MCSecrets == {apiKey}
MCValues == {m1, m2, k1}
MCShaped == (embed :> {m1, m2}) @@ (apiKey :> {k1})
MCAccepts == (r1 :> MCShaped) @@ (r2 :> ((embed :> {m1}) @@ (apiKey :> {k1})))
Nothing == [k \in MCKeys |-> Unset]
MCEnvironments == {Nothing, [Nothing EXCEPT ![embed] = m1]}
MCRosters == {{}, {p1}}

\* Memories and passages never share a text, so each is checked without the
\* other; memories within one life of the process and one change of settings,
\* the doctrine over two of each.
Apart == made = 0 \/ (roster = {} /\ kept = <<>> /\ boots = 1 /\ updates <= 1)
============================================================================
