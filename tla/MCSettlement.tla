---------------------------- MODULE MCSettlement ----------------------------
(* A small instance of Settlement for TLC. *)
EXTENDS Settlement, TLC

CONSTANT i1

(* One invoice of three paise, of which the provider is asked for two. *)
OneBill == i1 :> 3

(* Orders are interchangeable when none is foreign. *)
FullSymmetry == Permutations(Session) \cup Permutations(Order \ Foreign)
=============================================================================
