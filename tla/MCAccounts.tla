----------------------------- MODULE MCAccounts -----------------------------
(***************************************************************************)
(* Accounts with two users and two that sign up, one of them with the      *)
(* e-mail address of a user.                                               *)
(***************************************************************************)
EXTENDS Accounts, TLC

CONSTANTS ann, bob, eve, kim

Emails == (ann :> "ann") @@ (bob :> "bob") @@ (eve :> "ann") @@ (kim :> "kim")
Users == (ann :> 1) @@ (bob :> 2)

Symmetric == Permutations(Requests)
=============================================================================
