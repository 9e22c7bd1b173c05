----------------------------- MODULE MCCodeRunner -----------------------------
(***************************************************************************)
(* CodeRunner with paths of the sandbox that have the same last component, *)
(* so that all of them, and the runs, use one object of the bucket.        *)
(***************************************************************************)
EXTENDS CodeRunner, TLC

CONSTANT name

SameName(p) == name

Symmetric ==
  Permutations(Uploads) \cup Permutations(Runs)
=============================================================================
