---------------------------- MODULE MCFundLedger ----------------------------
(***************************************************************************)
(* Small instances of FundLedger for TLC: in one behaviour requests come   *)
(* one at a time and fill a longer ledger; in another they overlap.        *)
(***************************************************************************)
EXTENDS FundLedger, TLC

VARIABLE serial     \* requests come one at a time

mvars == <<fvars, serial>>

(* Overlapping requests: no amount of 0, a ledger of two rows. *)
MayOverlap(s) ==
    /\ Len(ledger) < 2
    /\ \A i \in 1 .. Len(todo'[s]) : todo'[s][i].amount > 0

Overlapping ==
    /\ FundNext
    /\ \A s \in Session : pc[s] = "idle" /\ pc'[s] # "idle" => MayOverlap(s)

(* Serial requests are all alike: one session has them all. *)
OneAtATime ==
    /\ SerialNext
    /\ \A s \in Session : pc'[s] # "idle" => s = CHOOSE t \in Session : TRUE

(* The bound on the ledger ends a behaviour; a deadlock is anything else. *)
Finished ==
    /\ Len(ledger) >= IF serial THEN MaxRows ELSE 2
    /\ \A s \in Session : pc[s] = "idle"
    /\ UNCHANGED fvars

MCInit == FundInit /\ serial \in BOOLEAN

MCNext ==
    /\ (IF serial THEN OneAtATime ELSE Overlapping) \/ Finished
    /\ UNCHANGED serial

MCSpec == MCInit /\ [][MCNext]_mvars

MCFairSpec == MCSpec /\ Fairness

(* The fund service, one request at a time, is the ledger it promises:     *)
(* every commit posts a whole chained batch and nothing else is visible    *)
(* (ImplementsLedger, of the behaviours that are serial).                  *)
ImplementsLedgerSerially ==
    (serial => Promise!Init) /\ [][serial => Promise!Post]_<<balance, ledger>>
=============================================================================
