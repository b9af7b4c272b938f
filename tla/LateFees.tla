------------------------------ MODULE LateFees ------------------------------
(***************************************************************************)
(* The late-fee run (apply_late_fees of app/services/billing_service.py)   *)
(* beside the payments of Settlement: both write the invoices table.  The  *)
(* run is started by the cron endpoint and by the accountant's button, so  *)
(* two of them may overlap, and neither takes a lock.                      *)
(*                                                                         *)
(* A run loads every unpaid invoice past its grace period, looks for a     *)
(* LATE_FEE item of each one in turn, and commits all the penalties at     *)
(* once.  What it writes is computed from what it loaded; an UPDATE has    *)
(* only the columns that the run changed.                                  *)
(***************************************************************************)
EXTENDS Settlement

CONSTANTS
    Job,            \* late-fee runs under way at once
    Fee,            \* late_fee_amount of each invoice's plan, 0 without a plan
    MaxRuns         \* bound: runs started

ASSUME FeeAssumption == Fee \in [Invoice -> Nat] /\ MaxRuns \in Nat /\ IsFiniteSet(Job)

VARIABLES
    late,           \* invoices past their due date and grace period
    feeItems,       \* number of LATE_FEE items of each invoice
    lateFee         \* invoices.late_fee

VARIABLES
    jpc,            \* where each run is
    loaded,         \* status and late_fee of the invoices in its memory
    unchecked,      \* invoices it has not looked at yet
    penalized,      \* invoices it is going to charge
    runs            \* runs started so far

jobs == <<jpc, loaded, unchecked, penalized>>

lvars == <<late, feeItems, lateFee, jobs, runs>>

UNPAID_STATUSES == {"PENDING", "PARTIALLY_PAID"}

NotLoaded == [status |-> "PENDING", lateFee |-> 0]

LateInit ==
    /\ SettlementInit
    /\ late = {}
    /\ feeItems = [i \in Invoice |-> 0]
    /\ lateFee = [i \in Invoice |-> 0]
    /\ jpc = [j \in Job |-> "idle"]
    /\ loaded = [j \in Job |-> [i \in Invoice |-> NotLoaded]]
    /\ unchecked = [j \in Job |-> {}]
    /\ penalized = [j \in Job |-> {}]
    /\ runs = 0

EndRun(j) ==
    /\ jpc' = [jpc EXCEPT ![j] = "idle"]
    /\ loaded' = [loaded EXCEPT ![j] = [i \in Invoice |-> NotLoaded]]
    /\ unchecked' = [unchecked EXCEPT ![j] = {}]
    /\ penalized' = [penalized EXCEPT ![j] = {}]

(* Time passes: today is past the grace period of one more invoice. *)
Expire(i) ==
    /\ i \notin late
    /\ late' = late \cup {i}
    /\ UNCHANGED <<svars, feeItems, lateFee, jobs, runs>>

(* Unpaid, past the grace period, of a plan with a late fee. *)
Penalizable(i) == invoice[i].status \in UNPAID_STATUSES /\ i \in late /\ Fee[i] > 0

Scan(j) ==
    /\ jpc[j] = "idle"
    /\ runs < MaxRuns
    /\ runs' = runs + 1
    /\ unchecked' = [unchecked EXCEPT ![j] = {i \in Invoice : Penalizable(i)}]
    /\ loaded' = [loaded EXCEPT ![j] = [i \in Invoice |->
                     IF Penalizable(i)
                       THEN [status |-> invoice[i].status, lateFee |-> lateFee[i]]
                       ELSE NotLoaded]]
    /\ jpc' = [jpc EXCEPT ![j] = "check"]
    /\ UNCHANGED <<svars, late, feeItems, lateFee, penalized>>

(* A mutation of HasFee: nobody looks for the item. *)
HasFee_Ignored(i) == FALSE

(* The SELECT of the invoice's LATE_FEE item. *)
HasFee(i) == feeItems[i] > 0

CheckItem(j, i) ==
    /\ jpc[j] = "check" /\ i \in unchecked[j]
    /\ unchecked' = [unchecked EXCEPT ![j] = @ \ {i}]
    /\ penalized' = [penalized EXCEPT ![j] = IF HasFee(i) THEN @ ELSE @ \cup {i}]
    /\ UNCHANGED <<svars, late, feeItems, lateFee, jpc, loaded, runs>>

(* A mutation of Penalty: late_fee is added to the current value. *)
Penalty_Added(j, i) == lateFee[i] + Fee[i]

(* late_fee of a penalized invoice. *)
Penalty(j, i) == loaded[j][i].lateFee + Fee[i]

(* Its status; one that was not PENDING is left as it is. *)
Overdue(j, i) == IF loaded[j][i].status = "PENDING" THEN "OVERDUE" ELSE invoice[i].status

(* A mutation of Charged: the whole object is written, amount_paid too.    *)
Charged_Row(j, i) ==
    [total |-> Bill[i] + Penalty(j, i), paid |-> 0, status |-> Overdue(j, i)]

(* The penalized invoice; amount_paid is not in the UPDATE. *)
Charged(j, i) ==
    [invoice[i] EXCEPT !.total = Bill[i] + Penalty(j, i), !.status = Overdue(j, i)]

(* The UPDATEs wait for a settlement that has locked one of the invoices.  *)
CommitFees(j) ==
    /\ jpc[j] = "check" /\ unchecked[j] = {}
    /\ \A i \in penalized[j] : locked[i] = NoSession
    /\ invoice' = [i \in Invoice |-> IF i \in penalized[j] THEN Charged(j, i) ELSE invoice[i]]
    /\ lateFee' = [i \in Invoice |-> IF i \in penalized[j] THEN Penalty(j, i) ELSE lateFee[i]]
    /\ feeItems' = [i \in Invoice |-> IF i \in penalized[j] THEN feeItems[i] + 1 ELSE feeItems[i]]
    /\ EndRun(j)
    /\ UNCHANGED <<payment, recon, credit, audit, locked, configured, charged, acked, faults,
                   pc, sess, late, runs>>

(* A run dies before its commit. *)
AbortRun(j) ==
    /\ jpc[j] # "idle"
    /\ EndRun(j)
    /\ UNCHANGED <<svars, late, feeItems, lateFee, runs>>

RestartAll ==
    /\ Restart
    /\ jpc' = [j \in Job |-> "idle"]
    /\ loaded' = [j \in Job |-> [i \in Invoice |-> NotLoaded]]
    /\ unchecked' = [j \in Job |-> {}]
    /\ penalized' = [j \in Job |-> {}]
    /\ UNCHANGED <<late, feeItems, lateFee, runs>>

Run(j) == Scan(j) \/ (\E i \in Invoice : CheckItem(j, i)) \/ CommitFees(j) \/ AbortRun(j)

Paying ==
    \/ \E s \in Session : Begin(s) \/ Step(s) \/ Abort(s)
    \/ \E o \in Order : Pay(o)

LateNext ==
    \/ Paying /\ UNCHANGED lvars
    \/ \E i \in Invoice : Expire(i)
    \/ \E j \in Job : Run(j)
    \/ RestartAll

LateSpec == LateInit /\ [][LateNext]_<<svars, lvars>>

-----------------------------------------------------------------------------

(* Every variable has its type. *)
LateTypeOK ==
    /\ TypeOK
    /\ late \subseteq Invoice
    /\ feeItems \in [Invoice -> Nat]
    /\ lateFee \in [Invoice -> Nat]
    /\ jpc \in [Job -> {"idle", "check"}]
    /\ loaded \in [Job -> [Invoice -> [status : UNPAID_STATUSES, lateFee : Nat]]]
    /\ unchecked \in [Job -> SUBSET Invoice]
    /\ penalized \in [Job -> SUBSET Invoice]
    /\ runs \in Nat

(* What an invoice asks for is its bill plus its late fee, and the fee is  *)
(* charged at most once however many runs and captures overlap: a run      *)
(* writes what it computed from the fee it loaded, never a second one.     *)
FeeChargedOnce ==
    \A i \in Invoice :
        /\ lateFee[i] \in {0, Fee[i]}
        /\ invoice[i].total = Bill[i] + lateFee[i]

(* An invoice gets no more LATE_FEE items than runs were under way at once, *)
(* however many runs there are: a run that starts after one was committed  *)
(* finds it.                                                               *)
ItemsBounded == \A i \in Invoice : feeItems[i] <= Cardinality(Job)

(* "Duplicate prevention: an invoice only ever gets one LATE_FEE item"     *)
(* (app/services/billing_service.py).                                      *)
OneFeeItem == \A i \in Invoice : feeItems[i] <= 1
=============================================================================
