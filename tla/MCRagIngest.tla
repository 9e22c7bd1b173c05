----------------------------- MODULE MCRagIngest -----------------------------
(***************************************************************************)
(* RagIngest with two files of two versions with text and an empty one.    *)
(***************************************************************************)
EXTENDS RagIngest, TLC

CONSTANTS f1, f2, v1, v2, empty

Symmetric == Permutations(Files) \cup Permutations(Versions \ Blank)
=============================================================================
