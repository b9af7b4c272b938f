----------------------------- MODULE Settlement -----------------------------
(***************************************************************************)
(* Payments and the invoices they settle: app/services/payment_service.py, *)
(* called by app/routers/payments.py.  A resident initiates a payment for  *)
(* an invoice, which creates an order at the provider; the capture is then *)
(* reported by up to three callers at once (the provider's webhook, the    *)
(* checkout page's /verify, and /simulate-success when no credentials are  *)
(* configured), each on a database session of its own.                     *)
(*                                                                         *)
(* capture_success is three steps against the database: it reads the       *)
(* payment (unlocked), locks the invoice row, and commits the payment, the *)
(* invoice, a reconciliation row, the fund credit and an audit row         *)
(* together.  The fund's own row is FundLedger's business.                 *)
(*                                                                         *)
(* A provider payment id belongs to one order, so an order stands for both *)
(* ids and the clash check on provider_payment_id never finds one.         *)
(***************************************************************************)
EXTENDS Integers, Sequences, FiniteSetsExt

CONSTANTS
    Session, NoSession,
    Invoice, NoInvoice,     \* NoInvoice: invoice_id of an unmatched payment
    Order, NoOrder,
    Foreign,        \* orders made outside the application (payment links)
    Orderless,      \* of those, payments the provider reports with no order id
    NoPayment,      \* no payments row for an order
    Bill,           \* total_amount of each invoice, in paise
    Lossy,          \* amounts that int(float * 100) makes one paisa smaller
    MaxFaults       \* bound: aborted requests and restarts

ASSUME SettlementAssumption ==
    /\ NoSession \notin Session
    /\ NoInvoice \notin Invoice
    /\ NoOrder \notin Order
    /\ Foreign \subseteq Order /\ Orderless \subseteq Foreign
    /\ Bill \in [Invoice -> Nat \ {0}]
    /\ Lossy \subseteq Nat \ {0, 1}
    /\ MaxFaults \in Nat

(* Nothing sets CANCELLED; OVERDUE is set by the late-fee run (LateFees).  *)
InvoiceStatus == {"PENDING", "PARTIALLY_PAID", "PAID", "OVERDUE"}

PaymentStatus == {"PENDING", "SUCCESS"}

ReconciliationStatus == {"MATCHED", "UNMATCHED", "MANUAL_REVIEW"}

InvoiceRow == [total : Nat, paid : Nat, status : InvoiceStatus]

Payment == [invoice : Invoice \cup {NoInvoice}, amount : Nat,
            provider : {"razorpay", "simulated"}, status : PaymentStatus,
            verified : BOOLEAN]

ASSUME NoPaymentAssumption == NoPayment \notin Payment

AuditAction == {"PAYMENT_CAPTURED", "PAYMENT_UNMATCHED_WEBHOOK",
                "RECONCILIATION_UPDATED"}

VARIABLES
    invoice,        \* the invoices
    payment,        \* the payments row of each order
    recon,          \* status of each payment's reconciliation row, or "none"
    credit,         \* amounts credited to the fund for each payment
    audit,          \* audit actions recorded about each payment
    locked,         \* session holding each invoice row FOR UPDATE
    configured,     \* Razorpay credentials are present
    charged,        \* paise the provider captured for each order, 0 before
    acked,          \* orders whose webhook the provider has seen answered 200
    faults          \* faults so far

db == <<invoice, payment, recon, credit, audit>>

VARIABLES
    pc,             \* where each session is
    order,          \* the order it works on
    via,            \* which endpoint called capture_success
    amount,         \* the amount it is about to record
    seen            \* the invoice object in its memory

sess == <<order, via, amount, seen>>

svars == <<db, locked, configured, charged, acked, faults, pc, sess>>

PC == {"idle", "order", "lock", "settle", "store", "answer", "review", "orphan"}

Via == {"none", "verify", "simulate", "webhook"}

NoObject == [invoice |-> NoInvoice, total |-> 0, paid |-> 0]

-----------------------------------------------------------------------------

SettlementInit ==
    /\ invoice = [i \in Invoice |-> [total |-> Bill[i], paid |-> 0, status |-> "PENDING"]]
    /\ payment = [o \in Order |-> NoPayment]
    /\ recon = [o \in Order |-> "none"]
    /\ credit = [o \in Order |-> <<>>]
    /\ audit = [o \in Order |-> {}]
    /\ locked = [i \in Invoice |-> NoSession]
    /\ configured \in BOOLEAN
    /\ charged = [o \in Order |-> 0]
    /\ acked = {}
    /\ faults = 0
    /\ pc = [s \in Session |-> "idle"]
    /\ order = [s \in Session |-> NoOrder]
    /\ via = [s \in Session |-> "none"]
    /\ amount = [s \in Session |-> 0]
    /\ seen = [s \in Session |-> NoObject]

(* A mutation of LockedAfter: a session that ends keeps its row locks.     *)
LockedAfter_Leaked(s) == locked

LockedAfter(s) == [i \in Invoice |-> IF locked[i] = s THEN NoSession ELSE locked[i]]

(* The session is closed: what it had in memory and its row lock are gone. *)
Close(s) ==
    /\ pc' = [pc EXCEPT ![s] = "idle"]
    /\ order' = [order EXCEPT ![s] = NoOrder]
    /\ via' = [via EXCEPT ![s] = "none"]
    /\ amount' = [amount EXCEPT ![s] = 0]
    /\ seen' = [seen EXCEPT ![s] = NoObject]
    /\ locked' = LockedAfter(s)

(* A payments row exists and its status is st. *)
PaymentIs(o, st) == payment[o] # NoPayment /\ payment[o].status = st

-----------------------------------------------------------------------------
(* Initiating a payment. *)

(* POST /initiate reads the invoice without a lock and refuses a settled   *)
(* one; the provider then hands out an order id nobody has used.           *)
Initiate(s, i, o) ==
    /\ pc[s] = "idle"
    /\ o \notin Foreign
    /\ payment[o] = NoPayment /\ \A t \in Session : order[t] # o
    /\ invoice[i].status # "PAID"
    /\ invoice[i].total - invoice[i].paid > 0
    /\ pc' = [pc EXCEPT ![s] = "order"]
    /\ order' = [order EXCEPT ![s] = o]
    /\ amount' = [amount EXCEPT ![s] = invoice[i].total - invoice[i].paid]
    /\ seen' = [seen EXCEPT ![s] = [invoice |-> i, total |-> invoice[i].total,
                                    paid |-> invoice[i].paid]]
    /\ UNCHANGED <<db, locked, configured, charged, acked, faults, via>>

(* initiate_payment commits the PENDING row. *)
CommitOrder(s) ==
    /\ pc[s] = "order"
    /\ payment' = [payment EXCEPT ![order[s]] =
                      [invoice |-> seen[s].invoice, amount |-> amount[s],
                       provider |-> IF configured THEN "razorpay" ELSE "simulated",
                       status |-> "PENDING", verified |-> FALSE]]
    /\ Close(s)
    /\ UNCHANGED <<invoice, recon, credit, audit, configured, charged, acked, faults>>

-----------------------------------------------------------------------------
(* The provider. *)

(* create_order asks for int(amount * 100) paise: a float product that     *)
(* falls just short of the integer is truncated to one paisa less.         *)
Charge(a) == IF a \in Lossy THEN a - 1 ELSE a

(* A customer pays an order, once; the checkout page of an order exists    *)
(* only after /initiate has answered.                                      *)
Pay(o) ==
    /\ charged[o] = 0
    /\ \/ /\ o \notin Foreign
          /\ payment[o] # NoPayment /\ payment[o].provider = "razorpay"
          /\ charged' = [charged EXCEPT ![o] = Charge(payment[o].amount)]
       \/ /\ o \in Foreign
          /\ \E i \in Invoice : charged' = [charged EXCEPT ![o] = Bill[i]]
    /\ UNCHANGED <<db, locked, configured, acked, faults, pc, sess>>

-----------------------------------------------------------------------------
(* Reporting a capture. *)

(* capture_success reads the payment: one that is already SUCCESS is       *)
(* answered at once, a PENDING one goes on to the invoice's lock.          *)
BeginCapture(s, o, endpoint, a) ==
    /\ PaymentIs(o, "PENDING")
    /\ pc' = [pc EXCEPT ![s] = "lock"]
    /\ order' = [order EXCEPT ![s] = o]
    /\ via' = [via EXCEPT ![s] = endpoint]
    /\ amount' = [amount EXCEPT ![s] = a]
    /\ UNCHANGED <<db, locked, configured, charged, acked, faults, seen>>

(* POST /verify, with the signature the provider gave the checkout page. *)
Verify(s, o) ==
    /\ pc[s] = "idle" /\ configured /\ charged[o] > 0
    /\ BeginCapture(s, o, "verify", payment[o].amount)

(* POST /simulate-success. *)
Simulate(s, o) ==
    /\ pc[s] = "idle" /\ ~configured
    /\ BeginCapture(s, o, "simulate", payment[o].amount)

(* The payment handle_webhook finds for the order id of the event. *)
KnownToWebhook(o) == o \notin Orderless /\ payment[o] # NoPayment

(* A mutation of AlreadyCaptured: a payment that is known is taken for one *)
(* that is captured.                                                       *)
AlreadyCaptured_Known(o) == payment[o] # NoPayment

(* "Idempotency short-circuit": the delivery is answered at once. *)
AlreadyCaptured(o) == PaymentIs(o, "SUCCESS")

(* POST /webhooks/razorpay: the provider delivers payment.captured, again  *)
(* and again until it is answered 200, and sometimes after that.           *)
Webhook(s, o) ==
    /\ pc[s] = "idle" /\ charged[o] > 0
    /\ \/ /\ KnownToWebhook(o)
          /\ BeginCapture(s, o, "webhook", charged[o])
       \/ /\ KnownToWebhook(o) /\ AlreadyCaptured(o)
          /\ pc' = [pc EXCEPT ![s] = "answer"]
          /\ order' = [order EXCEPT ![s] = o]
          /\ UNCHANGED <<db, locked, configured, charged, acked, faults, via, amount, seen>>
       \/ /\ ~KnownToWebhook(o)
          /\ pc' = [pc EXCEPT ![s] = "store"]
          /\ order' = [order EXCEPT ![s] = o]
          /\ amount' = [amount EXCEPT ![s] = charged[o]]
          /\ UNCHANGED <<db, locked, configured, charged, acked, faults, via, seen>>

(* A mutation of Lockable: the invoice is read without FOR UPDATE. *)
Lockable_Plain(i) == TRUE

Lockable(i) == locked[i] = NoSession

(* SELECT ... FOR UPDATE of the invoice; the session has not loaded it     *)
(* before, so it sees the row as it is once the lock is granted.           *)
LockInvoice(s) ==
    LET i == payment[order[s]].invoice IN
    /\ pc[s] = "lock"
    /\ Lockable(i)
    /\ locked' = [locked EXCEPT ![i] = s]
    /\ seen' = [seen EXCEPT ![s] = [invoice |-> i, total |-> invoice[i].total,
                                    paid |-> invoice[i].paid]]
    /\ pc' = [pc EXCEPT ![s] = "settle"]
    /\ UNCHANGED <<db, configured, charged, acked, faults, order, via, amount>>

(* A mutation of Reconciled: reconciliations are not unique per payment.   *)
Reconciled_NotUnique(o) == FALSE

(* payment_reconciliations.payment_id is UNIQUE: a second row is refused.  *)
Reconciled(o) == recon[o] # "none"

(* A mutation of StatusFor: an exact payment does not settle the invoice.  *)
StatusFor_Strict(total, paid) == IF paid > total THEN "PAID" ELSE "PARTIALLY_PAID"

StatusFor(total, paid) == IF paid >= total THEN "PAID" ELSE "PARTIALLY_PAID"

(* A mutation of Verdict: a value outside the enum. *)
Verdict_Review(p, endpoint) ==
    IF p.provider = "simulated" \/ endpoint # "simulate" THEN "MATCHED" ELSE "REVIEW"

(* MATCHED when the order was simulated or the signature was verified.     *)
Verdict(p, endpoint) ==
    IF p.provider = "simulated" \/ endpoint # "simulate" THEN "MATCHED" ELSE "MANUAL_REVIEW"

(* A mutation of Credited: the fund is credited what was asked for, not    *)
(* what the provider captured.                                             *)
Credited_Asked(o, a) == payment[o].amount

(* The amount fund_service.credit_maintenance_payment is called with.      *)
Credited(o, a) == a

(* The commit of capture_success. *)
Settle(s) ==
    LET o == order[s]
        a == amount[s]
        i == seen[s].invoice
        paid == seen[s].paid + a
    IN  /\ pc[s] = "settle"
        /\ a > 0 /\ ~Reconciled(o)
        /\ payment' = [payment EXCEPT ![o] =
                          [@ EXCEPT !.status = "SUCCESS", !.amount = a,
                                    !.verified = (via[s] # "simulate")]]
        /\ invoice' = [invoice EXCEPT ![i] =
                          [@ EXCEPT !.paid = paid, !.status = StatusFor(seen[s].total, paid)]]
        /\ recon' = [recon EXCEPT ![o] = Verdict(payment[o], via[s])]
        /\ credit' = [credit EXCEPT ![o] = Append(@, Credited(o, a))]
        /\ audit' = [audit EXCEPT ![o] = @ \cup {"PAYMENT_CAPTURED"}]
        /\ IF via[s] = "webhook"
             THEN /\ pc' = [pc EXCEPT ![s] = "answer"]
                  /\ locked' = [locked EXCEPT ![i] = NoSession]
                  /\ UNCHANGED sess
             ELSE Close(s)
        /\ UNCHANGED <<configured, charged, acked, faults>>

(* Rolled back: the fund refuses an amount that is not positive, or the    *)
(* reconciliation row is there already (PaymentError, answered 400 or      *)
(* 409, so that the provider delivers again).                              *)
SettleFails(s) ==
    /\ pc[s] = "settle"
    /\ amount[s] <= 0 \/ Reconciled(order[s])
    /\ Close(s)
    /\ UNCHANGED <<db, configured, charged, acked, faults>>

(* A webhook for an order the application does not know is kept as a       *)
(* SUCCESS payment without an invoice, for the accountant.                 *)
StoreUnmatched(s) ==
    LET o == order[s] IN
    /\ pc[s] = "store"
    /\ payment[o] = NoPayment
    /\ payment' = [payment EXCEPT ![o] =
                      [invoice |-> NoInvoice, amount |-> amount[s], provider |-> "razorpay",
                       status |-> "SUCCESS", verified |-> TRUE]]
    /\ recon' = [recon EXCEPT ![o] = "UNMATCHED"]
    /\ audit' = [audit EXCEPT ![o] = @ \cup {"PAYMENT_UNMATCHED_WEBHOOK"}]
    /\ pc' = [pc EXCEPT ![s] = "answer"]
    /\ UNCHANGED <<invoice, credit, locked, configured, charged, acked, faults, sess>>

(* provider_payment_id is UNIQUE: another delivery stored it first. *)
StoreFails(s) ==
    /\ pc[s] = "store"
    /\ payment[order[s]] # NoPayment
    /\ Close(s)
    /\ UNCHANGED <<db, configured, charged, acked, faults>>

(* The provider gets its 200. *)
Answer(s) ==
    /\ pc[s] = "answer"
    /\ acked' = acked \cup {order[s]}
    /\ Close(s)
    /\ UNCHANGED <<db, configured, charged, faults>>

-----------------------------------------------------------------------------
(* PATCH /reconciliation/{payment_id}: the accountant corrects a status.   *)

Review(s, o) ==
    /\ pc[s] = "idle"
    /\ payment[o] # NoPayment
    /\ pc' = [pc EXCEPT ![s] = IF recon[o] = "none" THEN "orphan" ELSE "review"]
    /\ order' = [order EXCEPT ![s] = o]
    /\ UNCHANGED <<db, locked, configured, charged, acked, faults, via, amount, seen>>

CommitReview(s) ==
    /\ pc[s] = "review"
    /\ \E st \in ReconciliationStatus : recon' = [recon EXCEPT ![order[s]] = st]
    /\ audit' = [audit EXCEPT ![order[s]] = @ \cup {"RECONCILIATION_UPDATED"}]
    /\ Close(s)
    /\ UNCHANGED <<invoice, payment, credit, configured, charged, acked, faults>>

(* With no row to correct, set_reconciliation builds one and never adds it *)
(* to the session: the commit writes the audit row alone, and the refresh  *)
(* that follows raises.                                                    *)
CommitOrphanReview(s) ==
    /\ pc[s] = "orphan"
    /\ audit' = [audit EXCEPT ![order[s]] = @ \cup {"RECONCILIATION_UPDATED"}]
    /\ Close(s)
    /\ UNCHANGED <<invoice, payment, recon, credit, configured, charged, acked, faults>>

-----------------------------------------------------------------------------
(* Faults. *)

(* The request dies before its next database step, or after its commit and *)
(* before its answer.                                                      *)
Abort(s) ==
    /\ pc[s] # "idle"
    /\ faults < MaxFaults
    /\ faults' = faults + 1
    /\ Close(s)
    /\ UNCHANGED <<db, configured, charged, acked>>

(* The process restarts, with or without provider credentials. *)
Restart ==
    /\ faults < MaxFaults
    /\ faults' = faults + 1
    /\ configured' \in BOOLEAN
    /\ pc' = [s \in Session |-> "idle"]
    /\ order' = [s \in Session |-> NoOrder]
    /\ via' = [s \in Session |-> "none"]
    /\ amount' = [s \in Session |-> 0]
    /\ seen' = [s \in Session |-> NoObject]
    /\ locked' = [i \in Invoice |-> NoSession]
    /\ UNCHANGED <<db, charged, acked>>

-----------------------------------------------------------------------------

Begin(s) ==
    \E o \in Order :
        \/ \E i \in Invoice : Initiate(s, i, o)
        \/ Verify(s, o) \/ Simulate(s, o) \/ Webhook(s, o) \/ Review(s, o)

Step(s) ==
    \/ CommitOrder(s) \/ LockInvoice(s) \/ Settle(s) \/ SettleFails(s)
    \/ StoreUnmatched(s) \/ StoreFails(s) \/ Answer(s)
    \/ CommitReview(s) \/ CommitOrphanReview(s)

SettlementNext ==
    \/ \E s \in Session : Begin(s) \/ Step(s) \/ Abort(s)
    \/ \E o \in Order : Pay(o)
    \/ Restart

SettlementSpec == SettlementInit /\ [][SettlementNext]_svars

-----------------------------------------------------------------------------

(* Every variable has its type. *)
TypeOK ==
    /\ invoice \in [Invoice -> InvoiceRow]
    /\ payment \in [Order -> Payment \cup {NoPayment}]
    /\ recon \in [Order -> ReconciliationStatus \cup {"none"}]
    /\ credit \in [Order -> Seq(Nat)]
    /\ audit \in [Order -> SUBSET AuditAction]
    /\ locked \in [Invoice -> Session \cup {NoSession}]
    /\ configured \in BOOLEAN
    /\ charged \in [Order -> Nat]
    /\ acked \subseteq Order
    /\ faults \in Nat
    /\ pc \in [Session -> PC]
    /\ order \in [Session -> Order \cup {NoOrder}]
    /\ via \in [Session -> Via]
    /\ amount \in [Session -> Nat]
    /\ seen \in [Session -> [invoice : Invoice \cup {NoInvoice}, total : Nat, paid : Nat]]

(* The captured payments of an invoice. *)
Captured(i) == {o \in Order : PaymentIs(o, "SUCCESS") /\ payment[o].invoice = i}

(* amount_paid of every invoice is the sum of its captured payments: no    *)
(* settlement is lost to, or counted twice by, a concurrent one.           *)
InvoiceAddsUp ==
    \A i \in Invoice :
        invoice[i].paid = MapThenSumSet(LAMBDA o : payment[o].amount, Captured(i))

(* A payment that belongs to an invoice is captured in one piece: SUCCESS, *)
(* one fund credit of exactly its amount, a reconciliation row and an      *)
(* audit row, or none of them.  (The row of RECONCILIATION_UPDATED apart.) *)
CapturedTogether(o) ==
    IF payment[o].status = "SUCCESS"
      THEN /\ credit[o] = <<payment[o].amount>>
           /\ recon[o] # "none"
           /\ "PAYMENT_CAPTURED" \in audit[o]
      ELSE /\ credit[o] = <<>>
           /\ recon[o] = "none"
           /\ "PAYMENT_CAPTURED" \notin audit[o]

SettledTogether ==
    \A o \in Order :
        payment[o] # NoPayment /\ payment[o].invoice # NoInvoice => CapturedTogether(o)

(* The status shown to the resident tells how much of the bill is paid.    *)
StatusIsHonest ==
    \A i \in Invoice :
        /\ invoice[i].status = "PAID" <=> invoice[i].paid >= invoice[i].total
        /\ invoice[i].status = "PENDING" <=> invoice[i].paid = 0

(* A captured payment never changes again, whichever callers report it and *)
(* in whichever order: "Idempotently mark a payment successful"            *)
(* (app/services/payment_service.py).                                      *)
CaptureIsFinal ==
    [][\A o \in Order : PaymentIs(o, "SUCCESS") => payment'[o] = payment[o]]_svars

(* What the provider has been told is accepted, and will not report again, *)
(* is a SUCCESS payment with a reconciliation row, whichever delivery was  *)
(* answered and whatever was aborted or restarted since.                   *)
AckedIsRecorded ==
    \A o \in acked : PaymentIs(o, "SUCCESS") /\ recon[o] # "none"

(* A PENDING payment is created "for an unpaid invoice"                    *)
(* (app/services/payment_service.py).                                      *)
OpenedForUnpaid ==
    [][\A o \in Order : payment[o] = NoPayment /\ PaymentIs(o, "PENDING")' =>
          invoice[payment'[o].invoice].status # "PAID"]_svars
=============================================================================
