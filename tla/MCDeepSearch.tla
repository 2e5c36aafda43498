---------------------------- MODULE MCDeepSearch ----------------------------
(***************************************************************************)
(* Three memories of which two reach the prompt, fresh or two half-lives   *)
(* old, all of them shown to the model.                                    *)
(***************************************************************************)
EXTENDS DeepSearch

MCRows == 1..3
MCAges == {0, 2}
=============================================================================
