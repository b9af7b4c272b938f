----------------------------- MODULE MCFundWait -----------------------------
(* A small instance of FundWait for TLC. *)
EXTENDS FundWait, TLC

CONSTANT i1

(* One invoice of three paise, of which the provider is asked for two. *)
OneBill == i1 :> 3
=============================================================================
