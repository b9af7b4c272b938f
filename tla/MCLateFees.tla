----------------------------- MODULE MCLateFees -----------------------------
(* A small instance of LateFees for TLC. *)
EXTENDS LateFees, TLC

CONSTANT i1

(* The bill and the late fee of one invoice, in paise. *)
OneBill == i1 :> 3
OneFee == i1 :> 1

Symmetry == Permutations(Session) \cup Permutations(Job) \cup Permutations(Order \ Foreign)
=============================================================================
