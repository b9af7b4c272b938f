------------------------------- MODULE Ledger -------------------------------
(***************************************************************************)
(* What the maintenance fund promises: an authoritative balance and an     *)
(* append-only ledger whose every row records the balance it left behind,  *)
(* so that the balance can be rebuilt from the rows (app/models/fund.py).  *)
(* One request posts a non-empty batch of movements, atomically.  Nothing  *)
(* here knows of sessions, locks or failed requests; FundLedger is the     *)
(* program, and is measured against this specification.                    *)
(***************************************************************************)
EXTENDS Integers, Sequences

VARIABLES
    balance,        \* maintenance_funds.balance of the default fund
    ledger          \* the fund_transactions rows in the order they committed

vars == <<balance, ledger>>

Direction == {"CREDIT", "DEBIT"}

Source == {"MAINTENANCE_PAYMENT", "EXPENSE", "MANUAL_CREDIT", "MANUAL_DEBIT",
           "ADJUSTMENT"}

Movement == [type : Direction, source : Source, amount : Int]

Row == [type : Direction, source : Source, amount : Int, balance_after : Int]

(* The effect of a movement or of a row on the balance. *)
Signed(m) == IF m.type = "CREDIT" THEN m.amount ELSE -m.amount

(* The balance that row i of rows left behind; 0 before the first row. *)
Snapshot(rows, i) == IF i = 0 THEN 0 ELSE rows[i].balance_after

(* The ledger can be replayed: each row continues from the row before it. *)
Chained(rows, i) ==
    rows[i].balance_after = Snapshot(rows, i - 1) + Signed(rows[i])

-----------------------------------------------------------------------------

Init == balance = 0 /\ ledger = <<>>

(* A request posts the rows Len(ledger)+1 .. Len(ledger'). *)
Post ==
    /\ Len(ledger') > Len(ledger)
    /\ SubSeq(ledger', 1, Len(ledger)) = ledger
    /\ \A i \in (Len(ledger) + 1) .. Len(ledger') :
           /\ Chained(ledger', i)
           /\ ledger'[i].amount > 0
           /\ ledger'[i].balance_after >= 0
    /\ balance' = Snapshot(ledger', Len(ledger'))

Spec == Init /\ [][Post]_vars
=============================================================================
