----------------------------- MODULE MCAccounts -----------------------------
(* A small instance of Accounts for TLC. *)
EXTENDS Accounts, TLC

CONSTANT a

MCFounder == {a}

Symmetry == Permutations(Session) \cup Permutations(Token) \cup Permutations(User \ Founder)
=============================================================================
