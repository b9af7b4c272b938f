------------------------------ MODULE FundWait ------------------------------
(***************************************************************************)
(* Settlement with the wait that its commit step hides: capture_success    *)
(* credits the fund under the invoice's lock, and for that it waits for    *)
(* the fund's row (fund_service._apply), which any debit may hold.         *)
(*                                                                         *)
(* A debit that is refused keeps the row until its session is closed.  The *)
(* event loop does that, and a webhook, an async handler that makes        *)
(* blocking calls, keeps the loop from everything else while it runs.      *)
(* What FundLedger shows of one webhook and one refused debit is here the  *)
(* limit of what settlement can promise.                                   *)
(***************************************************************************)
EXTENDS Settlement

VARIABLE fund       \* the fund's row: free, held by a debit, or by a refused one

wvars == <<svars, fund>>

WaitInit == SettlementInit /\ fund = "free"

(* The session is a webhook that is being handled. *)
OnLoop(s) == via[s] = "webhook" \/ pc[s] \in {"store", "answer"}

LoopFree == \A s \in Session : ~OnLoop(s)

-----------------------------------------------------------------------------
(* Other requests that move the fund: an expense, a manual debit. *)

Debit ==
    /\ fund = "free"
    /\ fund' = "debit"
    /\ UNCHANGED svars

DebitCommits ==
    /\ fund = "debit"
    /\ fund' = "free"
    /\ UNCHANGED svars

(* The handler raises with the row locked. *)
DebitRefused ==
    /\ fund = "debit"
    /\ fund' = "refused"
    /\ UNCHANGED svars

RefusedIsClosed ==
    /\ fund = "refused" /\ LoopFree
    /\ fund' = "free"
    /\ UNCHANGED svars

-----------------------------------------------------------------------------
(* Settlement's own requests. *)

(* The event loop dispatches a request. *)
Start(s) == LoopFree /\ Begin(s) /\ UNCHANGED fund

(* A started handler; to settle, it needs the fund's row. *)
Proceed(s) ==
    /\ Step(s) /\ (pc[s] = "settle" => fund = "free")
    /\ UNCHANGED fund

Deliver(s, o) == LoopFree /\ Webhook(s, o) /\ UNCHANGED fund

WaitNext ==
    \/ \E s \in Session : Start(s) \/ Proceed(s) \/ (Abort(s) /\ UNCHANGED fund)
    \/ \E o \in Order : Pay(o) /\ UNCHANGED fund
    \/ Restart /\ fund' = "free"
    \/ Debit \/ DebitCommits \/ DebitRefused \/ RefusedIsClosed

WaitSpec == WaitInit /\ [][WaitNext]_wvars

(* The provider delivers an unanswered webhook again and again; a started  *)
(* handler keeps running, and PostgreSQL grants it the rows it waits for   *)
(* in turn; a debit comes to its end; the loop, when it is free, closes    *)
(* the session of a refused one.  Nothing says that a customer pays or     *)
(* that a user clicks.                                                     *)
Fairness ==
    /\ \A o \in Order : SF_wvars(o \notin acked /\ \E s \in Session : Deliver(s, o))
    /\ \A s \in Session : SF_wvars(Proceed(s))
    /\ WF_wvars(DebitCommits \/ DebitRefused)
    /\ SF_wvars(RefusedIsClosed)

FairWaitSpec == WaitSpec /\ Fairness

-----------------------------------------------------------------------------

(* A webhook waits, directly or behind the settlement that holds its       *)
(* invoice, for the row of a refused debit, which waits for the webhook.   *)
Stuck ==
    /\ fund = "refused"
    /\ \E s \in Session : via[s] = "webhook" /\ pc[s] \in {"lock", "settle"}

(* Money the provider captured is eventually recorded as a SUCCESS payment *)
(* here, through lost answers, aborted requests and restarts, unless the   *)
(* whole process comes to wait for ever for a refused debit.               *)
ChargedIsRecorded ==
    \/ <>[]Stuck
    \/ \A o \in Order : charged[o] > 0 ~> PaymentIs(o, "SUCCESS")
=============================================================================
