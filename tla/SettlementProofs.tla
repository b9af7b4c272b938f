-------------------------- MODULE SettlementProofs --------------------------
(***************************************************************************)
(* Theorems about Settlement and about LateFees, which runs beside it, for *)
(* any sessions, invoices, orders and amounts, any number of late-fee runs *)
(* and any number of faults.  SettleInv says what each session's memory    *)
(* has to do with the database while it holds, or waits for, the invoice's *)
(* lock; the late-fee runs keep it too, so that what follows from it holds *)
(* with and without them.                                                  *)
(***************************************************************************)
EXTENDS LateFees, FiniteSetTheorems, TLAPS

(* A payments row that belongs to an invoice, as opposed to an unmatched   *)
(* one.                                                                    *)
Billed(o) == payment[o] # NoPayment /\ payment[o].invoice \in Invoice

(* What a session knows at each stage of its work. *)
Working(s) ==
    /\ pc[s] # "idle" => order[s] \in Order
    /\ pc[s] = "order" => /\ payment[order[s]] = NoPayment
                          /\ seen[s].invoice \in Invoice
                          /\ order[s] \notin Foreign
    /\ pc[s] = "store" => order[s] \in Foreign
    /\ pc[s] \in {"lock", "settle"} => Billed(order[s])
    /\ pc[s] = "review" => recon[order[s]] # "none"
    /\ pc[s] \in {"review", "orphan"} => payment[order[s]] # NoPayment

(* Whoever is about to settle holds the invoice's lock and has the row as  *)
(* it is.                                                                  *)
Exclusive(s) ==
    pc[s] = "settle" =>
        LET i == seen[s].invoice IN
        /\ i = payment[order[s]].invoice
        /\ locked[i] = s
        /\ seen[s].total = invoice[i].total
        /\ seen[s].paid = invoice[i].paid

(* An order is initiated by one session only. *)
Fresh ==
    \A s, t \in Session : pc[s] = "order" /\ order[t] = order[s] => s = t

(* A payment without an invoice, and only such a payment, is of a foreign  *)
(* order, and it is stored as SUCCESS.                                     *)
Matched ==
    \A o \in Order : payment[o] # NoPayment =>
        /\ payment[o].invoice = NoInvoice => payment[o].status = "SUCCESS"
        /\ payment[o].invoice = NoInvoice <=> o \in Foreign

(* Nothing is recorded about an order without a payments row, and the      *)
(* provider charges an order of ours only once it has one.                 *)
Blank ==
    \A o \in Order : payment[o] = NoPayment =>
        /\ recon[o] = "none" /\ credit[o] = <<>> /\ audit[o] = {}
        /\ o \notin Foreign => charged[o] = 0

SettleInv ==
    /\ TypeOK
    /\ SettledTogether
    /\ Fresh
    /\ Matched
    /\ Blank
    /\ \A i \in Invoice : invoice[i].total > 0
    /\ \A s \in Session : Working(s) /\ Exclusive(s)

(* The part of SettleInv that is about the database alone. *)
DatabaseInv ==
    /\ SettledTogether
    /\ Matched
    /\ \A i \in Invoice : invoice[i].total > 0

SessionInv == Fresh /\ \A s \in Session : Working(s) /\ Exclusive(s)

-----------------------------------------------------------------------------

LEMMA SettleInvInit == SettlementInit => SettleInv
<1> SUFFICES ASSUME SettlementInit PROVE SettleInv
  OBVIOUS
<1> USE SettlementAssumption, NoPaymentAssumption DEF SettlementInit
<1>1. TypeOK
  <2>1. invoice \in [Invoice -> InvoiceRow]
    BY DEF InvoiceRow, InvoiceStatus
  <2>2. <<>> \in Seq(Nat)
    OBVIOUS
  <2>3. /\ payment \in [Order -> Payment \cup {NoPayment}]
        /\ recon \in [Order -> ReconciliationStatus \cup {"none"}]
        /\ credit \in [Order -> Seq(Nat)]
        /\ audit \in [Order -> SUBSET AuditAction]
    BY <2>2
  <2>4. configured \in BOOLEAN
    OBVIOUS
  <2>5. /\ locked \in [Invoice -> Session \cup {NoSession}]
        /\ charged \in [Order -> Nat]
        /\ acked \subseteq Order
        /\ faults \in Nat
    OBVIOUS
  <2>6. /\ pc \in [Session -> PC]
        /\ order \in [Session -> Order \cup {NoOrder}]
        /\ via \in [Session -> Via]
        /\ amount \in [Session -> Nat]
        /\ seen \in [Session -> [invoice : Invoice \cup {NoInvoice}, total : Nat, paid : Nat]]
    BY DEF PC, Via, NoObject
  <2> QED BY <2>1, <2>3, <2>4, <2>5, <2>6 DEF TypeOK
<1>2. SettledTogether /\ Matched /\ Blank
  BY DEF SettledTogether, Matched, Blank
<1>3. \A i \in Invoice : invoice[i].total > 0
  OBVIOUS
<1>4. SessionInv
  BY DEF SessionInv, Fresh, Working, Exclusive
<1> QED BY <1>1, <1>2, <1>3, <1>4 DEF SettleInv, SessionInv

(* Nothing the database says changes when the database does not. *)
LEMMA DatabaseQuiet ==
    ASSUME SettleInv, UNCHANGED db
    PROVE  DatabaseInv' /\ (UNCHANGED charged => Blank')
BY DEF SettleInv, db, DatabaseInv, SettledTogether, CapturedTogether, Matched,
       Blank

(* What closing a session does to the sessions, itself included.           *)
LEMMA CloseFacts ==
    ASSUME SettleInv, NEW s \in Session, Close(s)
    PROVE  /\ pc' \in [Session -> PC]
           /\ order' \in [Session -> Order \cup {NoOrder}]
           /\ via' \in [Session -> Via]
           /\ amount' \in [Session -> Nat]
           /\ seen' \in [Session -> [invoice : Invoice \cup {NoInvoice},
                                     total : Nat, paid : Nat]]
           /\ locked' \in [Invoice -> Session \cup {NoSession}]
           /\ pc'[s] = "idle" /\ order'[s] = NoOrder
           /\ \A t \in Session \ {s} :
                 /\ pc'[t] = pc[t] /\ order'[t] = order[t] /\ seen'[t] = seen[t]
                 /\ \A i \in Invoice : locked[i] = t => locked'[i] = t
<1> USE DEF SettleInv, TypeOK, Close
<1>1. /\ pc' \in [Session -> PC]
      /\ order' \in [Session -> Order \cup {NoOrder}]
      /\ via' \in [Session -> Via]
      /\ amount' \in [Session -> Nat]
  BY DEF PC, Via
<1>2. seen' \in [Session -> [invoice : Invoice \cup {NoInvoice}, total : Nat, paid : Nat]]
  BY DEF NoObject
<1>3. locked' \in [Invoice -> Session \cup {NoSession}]
  BY DEF LockedAfter
<1>4. pc'[s] = "idle" /\ order'[s] = NoOrder
  OBVIOUS
<1>5. \A t \in Session \ {s} :
          /\ pc'[t] = pc[t] /\ order'[t] = order[t] /\ seen'[t] = seen[t]
          /\ \A i \in Invoice : locked[i] = t => locked'[i] = t
  BY DEF LockedAfter
<1> QED BY <1>1, <1>2, <1>3, <1>4, <1>5

(* A session that ends without a commit disturbs nobody. *)
LEMMA CloseStep ==
    ASSUME SettleInv, NEW s \in Session, Close(s), UNCHANGED <<db, configured, charged>>,
           acked' \subseteq Order, faults' \in Nat
    PROVE  SettleInv'
<1>1. TypeOK'
  <2>1. configured' \in BOOLEAN
    BY DEF SettleInv, TypeOK
  <2>2. /\ invoice' \in [Invoice -> InvoiceRow]
        /\ payment' \in [Order -> Payment \cup {NoPayment}]
        /\ recon' \in [Order -> ReconciliationStatus \cup {"none"}]
        /\ credit' \in [Order -> Seq(Nat)]
        /\ audit' \in [Order -> SUBSET AuditAction]
        /\ charged' \in [Order -> Nat]
    BY DEF SettleInv, TypeOK, db
  <2>3. /\ locked' \in [Invoice -> Session \cup {NoSession}]
        /\ pc' \in [Session -> PC]
        /\ order' \in [Session -> Order \cup {NoOrder}]
        /\ via' \in [Session -> Via]
        /\ amount' \in [Session -> Nat]
        /\ seen' \in [Session -> [invoice : Invoice \cup {NoInvoice},
                                  total : Nat, paid : Nat]]
    BY CloseFacts
  <2> QED BY <2>1, <2>2, <2>3 DEF TypeOK
<1>2. DatabaseInv' /\ Blank'
  BY DatabaseQuiet
<1>3. Fresh'
  BY CloseFacts, SettlementAssumption DEF SettleInv, Fresh, Working
<1>4. ASSUME NEW t \in Session PROVE Working(t)' /\ Exclusive(t)'
  <2>1. CASE t = s
    BY <2>1, CloseFacts DEF Working, Exclusive
  <2>2. CASE t # s
    <3>1. Working(t)'
      BY <2>2, CloseFacts DEF SettleInv, Working, Billed, db
    <3>2. Exclusive(t)'
      BY <2>2, CloseFacts DEF SettleInv, Exclusive, Working, Billed, db
    <3> QED BY <3>1, <3>2
  <2> QED BY <2>1, <2>2
<1> QED BY <1>1, <1>2, <1>3, <1>4 DEF SettleInv, DatabaseInv

LEMMA InvoiceType ==
    ASSUME TypeOK, NEW i \in Invoice
    PROVE  invoice[i].total \in Nat /\ invoice[i].paid \in Nat
<1>1. invoice[i] \in InvoiceRow
  BY DEF TypeOK
<1> QED BY <1>1 DEF InvoiceRow

(* A session that takes work up is idle, and works on an order that no     *)
(* session is initiating.                                                  *)
LEMMA BeginStep ==
    ASSUME SettleInv, NEW s \in Session, Begin(s)
    PROVE  SettleInv'
<1> USE DEF SettleInv
<1>0. UNCHANGED <<db, locked, configured, charged, acked, faults>>
  BY DEF Begin, Initiate, Verify, Simulate, Webhook, BeginCapture, Review
<1>1. PICK o \in Order :
          \/ \E i \in Invoice : Initiate(s, i, o)
          \/ Verify(s, o) \/ Simulate(s, o) \/ Webhook(s, o) \/ Review(s, o)
  BY DEF Begin
<1>2. /\ order' = [order EXCEPT ![s] = o]
      /\ pc[s] = "idle"
  BY <1>1 DEF Initiate, Verify, Simulate, Webhook, BeginCapture, Review
<1>3. PICK stage \in PC : pc' = [pc EXCEPT ![s] = stage]
  BY <1>1 DEF Initiate, Verify, Simulate, Webhook, BeginCapture, Review, PC
<1>4. /\ via' \in [Session -> Via]
      /\ amount' \in [Session -> Nat]
      /\ seen' \in [Session -> [invoice : Invoice \cup {NoInvoice}, total : Nat, paid : Nat]]
      /\ \A t \in Session \ {s} : seen'[t] = seen[t]
      /\ pc'[s] # "settle"
      /\ pc'[s] = "order" => /\ payment[o] = NoPayment
                             /\ o \notin Foreign
                             /\ \A t \in Session : order[t] # o
                             /\ seen'[s].invoice \in Invoice
      /\ pc'[s] # "order" => payment[o] # NoPayment \/ o \in Foreign
      /\ pc'[s] = "store" => o \in Foreign
      /\ pc'[s] = "lock" => Billed(o)
      /\ pc'[s] = "review" => recon[o] # "none"
      /\ pc'[s] \in {"review", "orphan"} => payment[o] # NoPayment
  <2>1. CASE \E i \in Invoice : Initiate(s, i, o)
    <3>1. PICK i \in Invoice : Initiate(s, i, o)
      BY <2>1
    <3>2. invoice[i].total \in Nat /\ invoice[i].paid \in Nat
      BY InvoiceType
    <3>3. invoice[i].total - invoice[i].paid \in Nat
      BY <3>1, <3>2 DEF Initiate
    <3> QED BY <3>1, <3>2, <3>3 DEF Initiate, TypeOK
  <2>2. CASE Verify(s, o) \/ Simulate(s, o)
    <3>1. PaymentIs(o, "PENDING") /\ payment[o].amount \in Nat /\ Billed(o)
      BY <2>2 DEF Verify, Simulate, BeginCapture, PaymentIs, TypeOK, Payment, Matched, Billed
    <3> QED BY <2>2, <3>1 DEF Verify, Simulate, BeginCapture, TypeOK, Via, Billed
  <2>3. CASE Webhook(s, o)
    <3>1. CASE BeginCapture(s, o, "webhook", charged[o])
      <4>1. Billed(o)
        BY <3>1 DEF BeginCapture, PaymentIs, TypeOK, Payment, Matched, Billed
      <4> QED BY <3>1, <4>1 DEF BeginCapture, TypeOK, Via, Billed
    <3>2. CASE pc' = [pc EXCEPT ![s] = "answer"] /\ UNCHANGED <<via, amount, seen>>
               /\ KnownToWebhook(o)
      BY <3>2 DEF TypeOK, KnownToWebhook
    <3>3. CASE pc' = [pc EXCEPT ![s] = "store"] /\ UNCHANGED <<via, seen>>
               /\ amount' = [amount EXCEPT ![s] = charged[o]]
               /\ ~KnownToWebhook(o) /\ charged[o] > 0
      BY <3>3, SettlementAssumption DEF TypeOK, KnownToWebhook, Blank
    <3> QED BY <2>3, <3>1, <3>2, <3>3 DEF Webhook
  <2>4. CASE Review(s, o)
    BY <2>4 DEF Review, TypeOK
  <2> QED BY <1>1, <2>1, <2>2, <2>3, <2>4
<1>5. TypeOK'
  <2>1. configured' \in BOOLEAN
    BY <1>0 DEF TypeOK
  <2>2. pc' \in [Session -> PC] /\ order' \in [Session -> Order \cup {NoOrder}]
    BY <1>2, <1>3 DEF TypeOK
  <2> QED BY <1>0, <1>4, <2>1, <2>2 DEF TypeOK, db
<1>6. DatabaseInv' /\ Blank'
  BY <1>0, DatabaseQuiet
<1>7. Fresh'
  BY <1>2, <1>3, <1>4 DEF Fresh, Working, TypeOK
<1>8. ASSUME NEW t \in Session PROVE Working(t)' /\ Exclusive(t)'
  <2>1. CASE t = s
    <3>1. order'[s] = o
      BY <1>2 DEF TypeOK
    <3> QED BY <2>1, <3>1, <1>0, <1>4 DEF Working, Exclusive, Billed, db
  <2>2. CASE t # s
    <3>1. pc'[t] = pc[t] /\ order'[t] = order[t] /\ seen'[t] = seen[t]
      BY <2>2, <1>2, <1>3, <1>4 DEF TypeOK
    <3> QED BY <3>1, <1>0 DEF Working, Exclusive, Billed, db
  <2> QED BY <2>1, <2>2
<1> QED BY <1>5, <1>6, <1>7, <1>8 DEF DatabaseInv

LEMMA LockStep ==
    ASSUME SettleInv, NEW s \in Session, LockInvoice(s)
    PROVE  SettleInv'
<1> USE DEF SettleInv
<1> DEFINE i == payment[order[s]].invoice
<1>0. /\ UNCHANGED <<db, configured, charged, acked, faults, order, via, amount>>
      /\ i \in Invoice /\ locked[i] = NoSession /\ locked' = [locked EXCEPT ![i] = s]
      /\ seen' = [seen EXCEPT ![s] = [invoice |-> i, total |-> invoice[i].total,
                                      paid |-> invoice[i].paid]]
      /\ pc[s] = "lock" /\ pc' = [pc EXCEPT ![s] = "settle"]
  BY DEF LockInvoice, Lockable, Working, Billed
<1> HIDE DEF i
<1>1. TypeOK'
  <2>1. configured' \in BOOLEAN
    BY <1>0 DEF TypeOK
  <2>2. invoice[i].total \in Nat /\ invoice[i].paid \in Nat
    BY <1>0, InvoiceType
  <2>3. pc' \in [Session -> PC] /\ locked' \in [Invoice -> Session \cup {NoSession}]
        /\ seen' \in [Session -> [invoice : Invoice \cup {NoInvoice}, total : Nat, paid : Nat]]
    BY <1>0, <2>2 DEF TypeOK, PC
  <2> QED BY <1>0, <2>1, <2>3 DEF TypeOK, db
<1>2. DatabaseInv' /\ Blank'
  BY <1>0, DatabaseQuiet
<1>3. Fresh'
  BY <1>0 DEF Fresh, TypeOK
<1>4. ASSUME NEW t \in Session PROVE Working(t)' /\ Exclusive(t)'
  <2>1. CASE t = s
    <3>1. pc'[s] = "settle" /\ seen'[s] = [invoice |-> i, total |-> invoice[i].total,
                                          paid |-> invoice[i].paid]
          /\ locked'[i] = s
      BY <1>0 DEF TypeOK
    <3> QED BY <2>1, <3>1, <1>0 DEF Working, Exclusive, Billed, db, i
  <2>2. CASE t # s
    <3>1. pc'[t] = pc[t] /\ seen'[t] = seen[t]
      BY <2>2, <1>0 DEF TypeOK
    <3>2. Working(t)'
      BY <3>1, <1>0 DEF Working, Billed, db
    <3>3. Exclusive(t)'
      BY <3>1, <1>0, SettlementAssumption DEF Exclusive, Working, Billed, db, TypeOK
    <3> QED BY <3>2, <3>3
  <2> QED BY <2>1, <2>2
<1> QED BY <1>1, <1>2, <1>3, <1>4 DEF DatabaseInv

(* The provider takes a customer's money. *)
LEMMA PayStep ==
    ASSUME SettleInv, NEW o \in Order, Pay(o)
    PROVE  SettleInv'
<1> USE DEF SettleInv
<1>0. UNCHANGED <<db, locked, configured, acked, faults, pc, sess>>
  BY DEF Pay
<1>1. PICK c \in Nat : charged' = [charged EXCEPT ![o] = c]
  <2>1. CASE o \notin Foreign
    <3>1. payment[o].amount \in Int /\ payment[o] # NoPayment
      BY <2>1 DEF Pay, TypeOK, Payment
    <3>2. Charge(payment[o].amount) \in Nat
      BY <3>1, <2>1, SettlementAssumption DEF Charge, TypeOK, Payment
    <3> QED BY <2>1, <3>2 DEF Pay
  <2>2. CASE o \in Foreign
    BY <2>2, SettlementAssumption DEF Pay
  <2> QED BY <2>1, <2>2
<1>2. TypeOK'
  <2>1. configured' \in BOOLEAN
    BY <1>0 DEF TypeOK
  <2> QED BY <1>0, <1>1, <2>1 DEF TypeOK, db, sess
<1>3. DatabaseInv'
  BY <1>0, DatabaseQuiet
<1>4. Blank'
  BY <1>0, <1>1 DEF Blank, Pay, db, TypeOK
<1>5. SessionInv'
  BY <1>0 DEF SessionInv, Fresh, Working, Exclusive, Billed, db, sess
<1> QED BY <1>2, <1>3, <1>4, <1>5 DEF DatabaseInv, SessionInv

LEMMA RestartStep ==
    ASSUME SettleInv, Restart
    PROVE  SettleInv'
<1> USE DEF SettleInv, Restart
<1>1. TypeOK'
  <2>1. configured' \in BOOLEAN
    OBVIOUS
  <2>2. /\ pc' \in [Session -> PC]
        /\ order' \in [Session -> Order \cup {NoOrder}]
        /\ via' \in [Session -> Via]
        /\ amount' \in [Session -> Nat]
        /\ locked' \in [Invoice -> Session \cup {NoSession}]
        /\ faults' \in Nat
    BY DEF PC, Via, TypeOK
  <2>3. seen' \in [Session -> [invoice : Invoice \cup {NoInvoice}, total : Nat, paid : Nat]]
    BY DEF NoObject
  <2> QED BY <2>1, <2>2, <2>3 DEF TypeOK, db
<1>2. DatabaseInv' /\ Blank'
  BY DatabaseQuiet
<1>3. SessionInv'
  BY SettlementAssumption DEF SessionInv, Fresh, Working, Exclusive
<1> QED BY <1>1, <1>2, <1>3 DEF DatabaseInv, SessionInv

(* The PENDING row of a fresh order of ours. *)
LEMMA CommitOrderStep ==
    ASSUME SettleInv, NEW s \in Session, CommitOrder(s)
    PROVE  SettleInv'
<1> DEFINE o == order[s]
           p == [invoice |-> seen[s].invoice, amount |-> amount[s],
                 provider |-> IF configured THEN "razorpay" ELSE "simulated",
                 status |-> "PENDING", verified |-> FALSE]
<1>0. /\ payment' = [payment EXCEPT ![o] = p]
      /\ UNCHANGED <<invoice, recon, credit, audit, configured, charged, acked, faults>>
      /\ Close(s)
      /\ pc[s] = "order"
  BY DEF CommitOrder
<1>1. /\ o \in Order /\ o \notin Foreign /\ payment[o] = NoPayment
      /\ recon[o] = "none" /\ credit[o] = <<>> /\ audit[o] = {}
      /\ p \in Payment /\ p.invoice \in Invoice /\ p.status = "PENDING"
  BY <1>0 DEF SettleInv, Working, Blank, TypeOK, Payment, PaymentStatus
<1>2. /\ payment' \in [Order -> Payment \cup {NoPayment}]
      /\ payment'[o] = p /\ payment'[o] # NoPayment
      /\ \A q \in Order \ {o} : payment'[q] = payment[q]
  BY <1>0, <1>1, NoPaymentAssumption DEF SettleInv, TypeOK
<1> HIDE DEF o, p
<1>3. TypeOK'
  <2>1. configured' \in BOOLEAN
    BY <1>0 DEF SettleInv, TypeOK
  <2> QED BY <1>0, <1>2, <2>1, CloseFacts DEF SettleInv, TypeOK
<1>4. SettledTogether'
  BY <1>0, <1>1, <1>2 DEF SettleInv, SettledTogether, CapturedTogether
<1>5. \A i \in Invoice : invoice'[i].total > 0
  BY <1>0 DEF SettleInv
<1>6. Matched' /\ Blank'
  BY <1>0, <1>1, <1>2, SettlementAssumption DEF SettleInv, Matched, Blank
<1>7. Fresh'
  BY <1>0, CloseFacts, SettlementAssumption DEF SettleInv, Fresh, Working
<1>8. ASSUME NEW t \in Session PROVE Working(t)' /\ Exclusive(t)'
  <2>1. CASE t = s
    BY <2>1, <1>0, CloseFacts DEF Working, Exclusive
  <2>2. CASE t # s
    <3>1. /\ pc'[t] = pc[t] /\ order'[t] = order[t] /\ seen'[t] = seen[t]
          /\ \A i \in Invoice : locked[i] = t => locked'[i] = t
      BY <2>2, <1>0, CloseFacts
    <3>2. order[t] # o
      BY <2>2, <1>0 DEF SettleInv, Fresh, o
    <3>3. Working(t)'
      BY <3>1, <3>2, <1>0, <1>1, <1>2 DEF SettleInv, Working, Billed
    <3>4. Exclusive(t)'
      <4> SUFFICES ASSUME pc[t] = "settle" PROVE Exclusive(t)'
        BY <3>1 DEF Exclusive
      <4>1. order[t] \in Order /\ payment[order[t]].invoice \in Invoice
        BY DEF SettleInv, Working, Billed
      <4>2. payment'[order[t]] = payment[order[t]]
        BY <4>1, <3>2, <1>2
      <4> QED BY <4>1, <4>2, <3>1, <1>0 DEF SettleInv, Exclusive
    <3> QED BY <3>3, <3>4
  <2> QED BY <2>1, <2>2
<1> QED BY <1>3, <1>4, <1>5, <1>6, <1>7, <1>8 DEF SettleInv

(* An unmatched payment, kept for the accountant. *)
LEMMA StoreStep ==
    ASSUME SettleInv, NEW s \in Session, StoreUnmatched(s)
    PROVE  SettleInv'
<1> DEFINE o == order[s]
           p == [invoice |-> NoInvoice, amount |-> amount[s], provider |-> "razorpay",
                 status |-> "SUCCESS", verified |-> TRUE]
<1>0. /\ payment' = [payment EXCEPT ![o] = p]
      /\ recon' = [recon EXCEPT ![o] = "UNMATCHED"]
      /\ audit' = [audit EXCEPT ![o] = @ \cup {"PAYMENT_UNMATCHED_WEBHOOK"}]
      /\ pc' = [pc EXCEPT ![s] = "answer"]
      /\ UNCHANGED <<invoice, credit, locked, configured, charged, acked, faults, sess>>
      /\ pc[s] = "store" /\ payment[o] = NoPayment
  BY DEF StoreUnmatched
<1>1. /\ o \in Order /\ o \in Foreign
      /\ p \in Payment /\ p.invoice = NoInvoice /\ p.status = "SUCCESS"
  BY <1>0 DEF SettleInv, Working, TypeOK, Payment, PaymentStatus
<1>2. /\ payment' \in [Order -> Payment \cup {NoPayment}]
      /\ recon' \in [Order -> ReconciliationStatus \cup {"none"}]
      /\ audit' \in [Order -> SUBSET AuditAction]
      /\ pc' \in [Session -> PC]
      /\ payment'[o] = p /\ payment'[o] # NoPayment
      /\ pc'[s] = "answer"
      /\ \A q \in Order \ {o} : /\ payment'[q] = payment[q] /\ recon'[q] = recon[q]
                               /\ audit'[q] = audit[q]
      /\ \A t \in Session \ {s} : pc'[t] = pc[t]
  BY <1>0, <1>1, NoPaymentAssumption
     DEF SettleInv, TypeOK, ReconciliationStatus, AuditAction, PC
<1> HIDE DEF o, p
<1>3. TypeOK'
  <2>1. configured' \in BOOLEAN
    BY <1>0 DEF SettleInv, TypeOK
  <2> QED BY <1>0, <1>2, <2>1 DEF SettleInv, TypeOK, sess
<1>4. SettledTogether'
  BY <1>0, <1>1, <1>2 DEF SettleInv, SettledTogether, CapturedTogether
<1>5. \A i \in Invoice : invoice'[i].total > 0
  BY <1>0 DEF SettleInv
<1>6. Matched' /\ Blank'
  BY <1>0, <1>1, <1>2, SettlementAssumption DEF SettleInv, Matched, Blank
<1>7. Fresh'
  BY <1>0, <1>2 DEF SettleInv, Fresh, sess
<1>8. ASSUME NEW t \in Session PROVE Working(t)' /\ Exclusive(t)'
  <2>1. CASE t = s
    BY <2>1, <1>0, <1>1, <1>2 DEF Working, Exclusive, sess, o
  <2>2. CASE t # s
    <3>1. pc[t] \in {"order", "lock", "settle", "review", "orphan"} => order[t] # o
      BY <1>0, <1>1 DEF SettleInv, Working, Billed
    <3>2. Working(t)'
      BY <2>2, <3>1, <1>0, <1>2 DEF SettleInv, Working, Billed, sess
    <3>3. Exclusive(t)'
      BY <2>2, <3>1, <1>0, <1>2 DEF SettleInv, Exclusive, Working, Billed, sess
    <3> QED BY <3>2, <3>3
  <2> QED BY <2>1, <2>2
<1> QED BY <1>3, <1>4, <1>5, <1>6, <1>7, <1>8 DEF SettleInv

(* The accountant's correction, with and without a row to correct. *)
LEMMA ReviewStep ==
    ASSUME SettleInv, NEW s \in Session, CommitReview(s) \/ CommitOrphanReview(s)
    PROVE  SettleInv'
<1> DEFINE o == order[s]
<1>0. /\ audit' = [audit EXCEPT ![o] = @ \cup {"RECONCILIATION_UPDATED"}]
      /\ UNCHANGED <<invoice, payment, credit, configured, charged, acked, faults>>
      /\ Close(s)
      /\ o \in Order /\ payment[o] # NoPayment
  BY DEF CommitReview, CommitOrphanReview, SettleInv, Working
<1>1. /\ recon' \in [Order -> ReconciliationStatus \cup {"none"}]
      /\ \A q \in Order : recon'[q] = "none" <=> recon[q] = "none"
  <2>1. CASE recon' = recon
    BY <2>1 DEF SettleInv, TypeOK
  <2>2. CASE CommitReview(s)
    <3>1. PICK st \in ReconciliationStatus : recon' = [recon EXCEPT ![o] = st]
      BY <2>2 DEF CommitReview
    <3>2. st # "none" /\ recon[o] # "none"
      BY <2>2 DEF ReconciliationStatus, CommitReview, SettleInv, Working
    <3> QED BY <3>1, <3>2, <1>0 DEF SettleInv, TypeOK
  <2> QED BY <2>1, <2>2 DEF CommitOrphanReview
<1>2. /\ audit' \in [Order -> SUBSET AuditAction]
      /\ \A q \in Order : /\ "PAYMENT_CAPTURED" \in audit'[q] <=> "PAYMENT_CAPTURED" \in audit[q]
                         /\ payment[q] = NoPayment => audit'[q] = audit[q]
  BY <1>0 DEF SettleInv, TypeOK, AuditAction
<1> HIDE DEF o
<1>3. TypeOK'
  <2>1. configured' \in BOOLEAN
    BY <1>0 DEF SettleInv, TypeOK
  <2> QED BY <1>0, <1>1, <1>2, <2>1, CloseFacts DEF SettleInv, TypeOK
<1>4. SettledTogether'
  BY <1>0, <1>1, <1>2 DEF SettleInv, SettledTogether, CapturedTogether
<1>5. \A i \in Invoice : invoice'[i].total > 0
  BY <1>0 DEF SettleInv
<1>6. Matched' /\ Blank'
  BY <1>0, <1>1, <1>2 DEF SettleInv, Matched, Blank
<1>7. Fresh'
  BY <1>0, CloseFacts, SettlementAssumption DEF SettleInv, Fresh, Working
<1>8. ASSUME NEW t \in Session PROVE Working(t)' /\ Exclusive(t)'
  <2>1. CASE t = s
    BY <2>1, <1>0, CloseFacts DEF Working, Exclusive
  <2>2. CASE t # s
    <3>1. /\ pc'[t] = pc[t] /\ order'[t] = order[t] /\ seen'[t] = seen[t]
          /\ \A i \in Invoice : locked[i] = t => locked'[i] = t
      BY <2>2, <1>0, CloseFacts
    <3>2. Working(t)'
      BY <3>1, <1>0, <1>1 DEF SettleInv, Working, Billed
    <3>3. Exclusive(t)'
      BY <3>1, <1>0 DEF SettleInv, Exclusive, Working, Billed
    <3> QED BY <3>2, <3>3
  <2> QED BY <2>1, <2>2
<1> QED BY <1>3, <1>4, <1>5, <1>6, <1>7, <1>8 DEF SettleInv

(* The commit of capture_success.  The lock makes the invoice object in    *)
(* memory current; the missing reconciliation row makes the payment one    *)
(* that nobody has captured.                                               *)
LEMMA SettleFacts ==
    ASSUME SettleInv, NEW s \in Session, Settle(s)
    PROVE  LET o == order[s]
               i == seen[s].invoice
           IN  /\ o \in Order /\ i \in Invoice
               /\ payment[o] \in Payment /\ payment[o].invoice = i /\ payment[o].status = "PENDING"
               /\ payment[o] # NoPayment /\ o \notin Foreign
               /\ recon[o] = "none" /\ credit[o] = <<>>
               /\ locked[i] = s
               /\ seen[s].total = invoice[i].total /\ seen[s].paid = invoice[i].paid
               /\ invoice[i] \in InvoiceRow /\ invoice[i].total > 0
               /\ amount[s] \in Nat /\ amount[s] > 0
<1> USE DEF SettleInv, Settle
<1>1. order[s] \in Order /\ payment[order[s]] # NoPayment
      /\ payment[order[s]].invoice \in Invoice
  BY DEF Working, Billed
<1>2. /\ seen[s].invoice = payment[order[s]].invoice
      /\ locked[seen[s].invoice] = s
      /\ seen[s].total = invoice[seen[s].invoice].total
      /\ seen[s].paid = invoice[seen[s].invoice].paid
  BY DEF Exclusive
<1>3. payment[order[s]] \in Payment /\ invoice[seen[s].invoice] \in InvoiceRow
  BY <1>1, <1>2 DEF TypeOK
<1>4. recon[order[s]] = "none" /\ amount[s] > 0 /\ amount[s] \in Nat
  BY DEF Reconciled, TypeOK
<1>5. CapturedTogether(order[s])
  BY <1>1, SettlementAssumption DEF SettledTogether
<1>6. payment[order[s]].status # "SUCCESS" /\ credit[order[s]] = <<>>
  BY <1>4, <1>5 DEF CapturedTogether
<1>7. payment[order[s]].status = "PENDING"
  BY <1>3, <1>6 DEF Payment, PaymentStatus
<1>8. order[s] \notin Foreign
  BY <1>1, SettlementAssumption DEF Matched
<1> QED BY <1>1, <1>2, <1>3, <1>4, <1>6, <1>7, <1>8

LEMMA SettleStep ==
    ASSUME SettleInv, NEW s \in Session, Settle(s)
    PROVE  SettleInv'
<1> DEFINE o == order[s]
           a == amount[s]
           i == seen[s].invoice
           paid == seen[s].paid + a
           p == [payment[o] EXCEPT !.status = "SUCCESS", !.amount = a,
                                   !.verified = (via[s] # "simulate")]
           row == [invoice[i] EXCEPT !.paid = paid, !.status = StatusFor(seen[s].total, paid)]
<1>0. /\ payment' = [payment EXCEPT ![o] = p]
      /\ invoice' = [invoice EXCEPT ![i] = row]
      /\ recon' = [recon EXCEPT ![o] = Verdict(payment[o], via[s])]
      /\ credit' = [credit EXCEPT ![o] = Append(@, a)]
      /\ audit' = [audit EXCEPT ![o] = @ \cup {"PAYMENT_CAPTURED"}]
      /\ UNCHANGED <<configured, charged, acked, faults>>
      /\ pc[s] = "settle"
  BY DEF Settle, Credited
<1>1. /\ o \in Order /\ i \in Invoice
      /\ payment[o] \in Payment /\ payment[o].invoice = i /\ payment[o] # NoPayment
      /\ o \notin Foreign
      /\ credit[o] = <<>> /\ locked[i] = s
      /\ seen[s].total = invoice[i].total /\ seen[s].paid = invoice[i].paid
      /\ invoice[i] \in InvoiceRow /\ invoice[i].total > 0
      /\ a \in Nat /\ a > 0
  BY SettleFacts
<1>2. /\ p \in Payment /\ p.invoice = i /\ p.status = "SUCCESS" /\ p.amount = a
      /\ p # NoPayment
  BY <1>1, NoPaymentAssumption DEF Payment, PaymentStatus
<1>3. /\ row \in InvoiceRow /\ row.total = invoice[i].total /\ row.paid = paid
      /\ paid \in Nat /\ paid > 0
      /\ row.status = IF paid >= row.total THEN "PAID" ELSE "PARTIALLY_PAID"
  <2>1. invoice[i].paid \in Nat /\ invoice[i].total \in Nat
    BY <1>1 DEF InvoiceRow
  <2>2. paid \in Nat /\ paid > 0
    BY <2>1, <1>1
  <2>3. StatusFor(seen[s].total, paid) = IF paid >= invoice[i].total THEN "PAID" ELSE "PARTIALLY_PAID"
    BY <1>1 DEF StatusFor
  <2> HIDE DEF paid
  <2>4. StatusFor(seen[s].total, paid) \in InvoiceStatus
    BY <2>3 DEF InvoiceStatus
  <2>5. /\ row.total = invoice[i].total /\ row.paid = paid
        /\ row.status = StatusFor(seen[s].total, paid)
    BY <1>1 DEF InvoiceRow
  <2>6. row \in InvoiceRow
    BY <1>1, <2>2, <2>4 DEF InvoiceRow
  <2> QED BY <2>2, <2>3, <2>5, <2>6
<1>4. Verdict(payment[o], via[s]) \in ReconciliationStatus
  BY DEF Verdict, ReconciliationStatus
<1>5. /\ payment' \in [Order -> Payment \cup {NoPayment}]
      /\ payment'[o] = p
      /\ \A q \in Order \ {o} : payment'[q] = payment[q]
  BY <1>0, <1>1, <1>2 DEF SettleInv, TypeOK
<1>6. /\ invoice' \in [Invoice -> InvoiceRow]
      /\ invoice'[i] = row
      /\ \A j \in Invoice \ {i} : invoice'[j] = invoice[j]
  BY <1>0, <1>1, <1>3 DEF SettleInv, TypeOK
<1>7. /\ recon' \in [Order -> ReconciliationStatus \cup {"none"}]
      /\ recon'[o] # "none"
      /\ \A q \in Order \ {o} : recon'[q] = recon[q]
  BY <1>0, <1>1, <1>4 DEF SettleInv, TypeOK, ReconciliationStatus
<1>8. /\ credit' \in [Order -> Seq(Nat)]
      /\ credit'[o] = <<a>>
      /\ \A q \in Order \ {o} : credit'[q] = credit[q]
  BY <1>0, <1>1 DEF SettleInv, TypeOK
<1>9. /\ audit' \in [Order -> SUBSET AuditAction]
      /\ "PAYMENT_CAPTURED" \in audit'[o]
      /\ \A q \in Order \ {o} : audit'[q] = audit[q]
  BY <1>0, <1>1 DEF SettleInv, TypeOK, AuditAction
<1>10. /\ pc' \in [Session -> PC]
       /\ order' \in [Session -> Order \cup {NoOrder}]
       /\ via' \in [Session -> Via]
       /\ amount' \in [Session -> Nat]
       /\ seen' \in [Session -> [invoice : Invoice \cup {NoInvoice}, total : Nat, paid : Nat]]
       /\ locked' \in [Invoice -> Session \cup {NoSession}]
       /\ \/ pc'[s] = "idle" /\ order'[s] = NoOrder
          \/ pc'[s] = "answer" /\ order'[s] = o
       /\ \A t \in Session \ {s} :
             /\ pc'[t] = pc[t] /\ order'[t] = order[t] /\ seen'[t] = seen[t]
             /\ \A j \in Invoice : locked[j] = t => locked'[j] = t
  <2>1. CASE via[s] = "webhook"
    <3>1. /\ pc' = [pc EXCEPT ![s] = "answer"]
          /\ locked' = [locked EXCEPT ![i] = NoSession]
          /\ UNCHANGED sess
      BY <2>1 DEF Settle
    <3> QED BY <3>1, <1>1 DEF SettleInv, TypeOK, PC, sess
  <2>2. CASE via[s] # "webhook"
    <3>1. Close(s)
      BY <2>2 DEF Settle
    <3> QED BY <3>1, CloseFacts
  <2> QED BY <2>1, <2>2
<1> HIDE DEF o, i, a, paid, p, row
<1>11. TypeOK'
  <2>1. configured' \in BOOLEAN
    BY <1>0 DEF SettleInv, TypeOK
  <2> QED BY <1>0, <1>5, <1>6, <1>7, <1>8, <1>9, <1>10, <2>1 DEF SettleInv, TypeOK
<1>12. SettledTogether'
  BY <1>2, <1>5, <1>7, <1>8, <1>9 DEF SettleInv, SettledTogether, CapturedTogether
<1>13. \A j \in Invoice : invoice'[j].total > 0
  BY <1>1, <1>3, <1>6 DEF SettleInv
<1>14. Matched' /\ Blank'
  BY <1>0, <1>1, <1>2, <1>5, <1>7, <1>8, <1>9, SettlementAssumption
     DEF SettleInv, Matched, Blank
<1>15. Fresh'
  <2> SUFFICES ASSUME NEW t \in Session, NEW u \in Session,
                      pc'[t] = "order", order'[u] = order'[t]
               PROVE  t = u
    BY DEF Fresh
  <2>1. t # s
    BY <1>10
  <2>2. pc[t] = "order" /\ order[t] = order'[t]
    BY <2>1, <1>10
  <2>3. order[t] # NoOrder /\ order[t] # o
    BY <2>2, <1>1, SettlementAssumption DEF SettleInv, Working
  <2>4. u # s
    BY <1>10, <2>2, <2>3
  <2> QED BY <2>2, <2>4, <1>10 DEF SettleInv, Fresh
<1>16. ASSUME NEW t \in Session PROVE Working(t)' /\ Exclusive(t)'
  <2>1. CASE t = s
    BY <2>1, <1>10, <1>1 DEF Working, Exclusive
  <2>2. CASE t # s
    <3>1. \A q \in Order : /\ Billed(q) => Billed(q)'
                           /\ payment[q] # NoPayment => payment'[q] # NoPayment
                           /\ recon[q] # "none" => recon'[q] # "none"
                           /\ payment[q] # NoPayment => payment'[q].invoice = payment[q].invoice
      BY <1>1, <1>2, <1>5, <1>7 DEF Billed
    <3>2. pc[t] = "order" => order[t] # o
      BY <1>1 DEF SettleInv, Working
    <3>3. Working(t)'
      <4>1. pc'[t] = pc[t] /\ order'[t] = order[t] /\ seen'[t] = seen[t]
        BY <2>2, <1>10
      <4>2. Working(t)
        BY DEF SettleInv
      <4>3. pc[t] = "order" => payment'[order[t]] = payment[order[t]]
        BY <4>2, <3>2, <1>5 DEF Working
      <4> QED BY <4>1, <4>2, <4>3, <3>1 DEF Working
    <3>4. Exclusive(t)'
      <4> SUFFICES ASSUME pc[t] = "settle" PROVE Exclusive(t)'
        BY <2>2, <1>10 DEF Exclusive
      <4>1. /\ order[t] \in Order /\ Billed(order[t])
            /\ seen[t].invoice = payment[order[t]].invoice /\ locked[seen[t].invoice] = t
        BY DEF SettleInv, Working, Exclusive
      <4>2. seen[t].invoice # i
        BY <4>1, <1>1, <2>2
      <4>3. seen[t].invoice \in Invoice /\ invoice'[seen[t].invoice] = invoice[seen[t].invoice]
        BY <4>1, <4>2, <1>6 DEF Billed
      <4>4. payment'[order[t]].invoice = payment[order[t]].invoice
        BY <4>1, <3>1 DEF Billed
      <4> QED BY <4>1, <4>3, <4>4, <1>10, <2>2 DEF SettleInv, Exclusive
    <3> QED BY <3>3, <3>4
  <2> QED BY <2>1, <2>2
<1> QED BY <1>11, <1>12, <1>13, <1>14, <1>15, <1>16 DEF SettleInv

LEMMA SettleInvStep == SettleInv /\ [SettlementNext]_svars => SettleInv'
<1> SUFFICES ASSUME SettleInv, [SettlementNext]_svars PROVE SettleInv'
  OBVIOUS
<1>1. CASE UNCHANGED svars
  <2>1. DatabaseInv' /\ Blank'
    BY <1>1, DatabaseQuiet DEF svars
  <2>2. configured' \in BOOLEAN
    BY <1>1 DEF svars, SettleInv, TypeOK
  <2>3. TypeOK'
    BY <1>1, <2>2 DEF svars, db, sess, SettleInv, TypeOK
  <2>4. SessionInv'
    BY <1>1 DEF svars, db, sess, SettleInv, SessionInv, Fresh, Working, Exclusive, Billed
  <2> QED BY <2>1, <2>3, <2>4 DEF SettleInv, DatabaseInv, SessionInv
<1>2. ASSUME NEW s \in Session, Step(s) PROVE SettleInv'
  <2>1. CASE SettleFails(s) \/ StoreFails(s)
    <3>1. Close(s) /\ UNCHANGED <<db, configured, charged, acked, faults>>
      BY <2>1 DEF SettleFails, StoreFails
    <3>2. acked' \subseteq Order /\ faults' \in Nat
      BY <3>1 DEF SettleInv, TypeOK
    <3> QED BY <3>1, <3>2, CloseStep
  <2>2. CASE Answer(s)
    <3>1. acked' \subseteq Order /\ faults' \in Nat
      BY <2>2 DEF Answer, SettleInv, TypeOK, Working
    <3> QED BY <2>2, <3>1, CloseStep DEF Answer
  <2> QED BY <1>2, <2>1, <2>2, CommitOrderStep, LockStep, SettleStep, StoreStep, ReviewStep
          DEF Step
<1>3. ASSUME NEW s \in Session, Abort(s) PROVE SettleInv'
  <2>1. acked' \subseteq Order /\ faults' \in Nat
    BY <1>3 DEF Abort, SettleInv, TypeOK
  <2> QED BY <1>3, <2>1, CloseStep DEF Abort
<1> QED BY <1>1, <1>2, <1>3, BeginStep, PayStep, RestartStep DEF SettlementNext

THEOREM SettleInvariant == SettlementSpec => []SettleInv
BY SettleInvInit, SettleInvStep, PTL DEF SettlementSpec

(* Every variable of the payment service keeps its type. *)
THEOREM SettlementTypeCorrect == SettlementSpec => []TypeOK
BY SettleInvariant, PTL DEF SettleInv

(* However captures of one payment race, its status, its fund credit, its  *)
(* reconciliation row and its audit row come into being together.          *)
THEOREM SettlementTogether == SettlementSpec => []SettledTogether
BY SettleInvariant, PTL DEF SettleInv

-----------------------------------------------------------------------------
(* What the commit of capture_success writes into the two rows. *)
LEMMA SettleRows ==
    ASSUME SettleInv, NEW s \in Session, Settle(s)
    PROVE  LET o == order[s]
               i == seen[s].invoice
               paid == invoice[i].paid + amount[s]
           IN  /\ payment'[o] # NoPayment /\ payment'[o].status = "SUCCESS"
               /\ payment'[o].invoice = i /\ payment'[o].amount = amount[s]
               /\ \A q \in Order \ {o} : payment'[q] = payment[q]
               /\ invoice'[i].paid = paid /\ invoice'[i].total = invoice[i].total
               /\ invoice'[i].status = StatusFor(invoice[i].total, paid)
               /\ \A j \in Invoice \ {i} : invoice'[j] = invoice[j]
<1> DEFINE o == order[s]
           i == seen[s].invoice
           p == [payment[o] EXCEPT !.status = "SUCCESS", !.amount = amount[s],
                                   !.verified = (via[s] # "simulate")]
           paid == seen[s].paid + amount[s]
           row == [invoice[i] EXCEPT !.paid = paid, !.status = StatusFor(seen[s].total, paid)]
<1>1. /\ o \in Order /\ payment[o] \in Payment /\ payment[o].invoice = i
      /\ i \in Invoice /\ invoice[i] \in InvoiceRow
      /\ seen[s].total = invoice[i].total /\ seen[s].paid = invoice[i].paid
      /\ amount[s] \in Nat
  BY SettleFacts
<1>2. p \in Payment /\ p.status = "SUCCESS" /\ p.invoice = i /\ p.amount = amount[s]
  BY <1>1 DEF Payment, PaymentStatus
<1>3. row.paid = paid /\ row.total = invoice[i].total /\ row.status = StatusFor(seen[s].total, paid)
  BY <1>1 DEF InvoiceRow
<1>4. payment' = [payment EXCEPT ![o] = p] /\ invoice' = [invoice EXCEPT ![i] = row]
  BY DEF Settle
<1> HIDE DEF p, row
<1>5. /\ payment'[o] = p /\ \A q \in Order \ {o} : payment'[q] = payment[q]
      /\ invoice'[i] = row /\ \A j \in Invoice \ {i} : invoice'[j] = invoice[j]
  BY <1>1, <1>4 DEF SettleInv, TypeOK
<1> QED BY <1>1, <1>2, <1>3, <1>5, NoPaymentAssumption

(* The rows that the other steps leave alone. *)
LEMMA RowsKept ==
    ASSUME SettlementNext
    PROVE  \/ UNCHANGED <<invoice, payment>>
           \/ \E s \in Session : Settle(s)
           \/ \E s \in Session : (CommitOrder(s) \/ StoreUnmatched(s)) /\ UNCHANGED invoice
<1>1. ASSUME NEW s \in Session, Begin(s) PROVE UNCHANGED db
  BY <1>1 DEF Begin, Initiate, Verify, Simulate, Webhook, BeginCapture, Review
<1>2. ASSUME NEW s \in Session, Step(s)
      PROVE  \/ UNCHANGED <<invoice, payment>>
             \/ Settle(s)
             \/ (CommitOrder(s) \/ StoreUnmatched(s)) /\ UNCHANGED invoice
  <2>1. CASE CommitOrder(s) \/ StoreUnmatched(s)
    BY <2>1 DEF CommitOrder, StoreUnmatched
  <2>2. CASE LockInvoice(s) \/ SettleFails(s) \/ StoreFails(s) \/ Answer(s)
    BY <2>2 DEF LockInvoice, SettleFails, StoreFails, Answer, db
  <2>3. CASE CommitReview(s) \/ CommitOrphanReview(s)
    BY <2>3 DEF CommitReview, CommitOrphanReview
  <2> QED BY <1>2, <2>1, <2>2, <2>3 DEF Step
<1>3. ASSUME NEW s \in Session, Abort(s) PROVE UNCHANGED db
  BY <1>3 DEF Abort
<1>4. CASE (\E o \in Order : Pay(o)) \/ Restart
  BY <1>4 DEF Pay, Restart, db
<1> QED BY <1>1, <1>2, <1>3, <1>4 DEF SettlementNext, db

(* Only capture_success writes an invoice, and it writes the status with   *)
(* the amount.                                                             *)
LEMMA HonestStep == SettleInv /\ StatusIsHonest /\ [SettlementNext]_svars => StatusIsHonest'
<1> SUFFICES ASSUME SettleInv, StatusIsHonest, [SettlementNext]_svars PROVE StatusIsHonest'
  OBVIOUS
<1>1. CASE invoice' = invoice
  BY <1>1 DEF StatusIsHonest
<1>2. ASSUME NEW s \in Session, Settle(s) PROVE StatusIsHonest'
  <2> DEFINE i == seen[s].invoice
             paid == invoice[i].paid + amount[s]
  <2>1. /\ i \in Invoice /\ paid \in Nat /\ paid > 0
        /\ invoice[i].total \in Nat /\ invoice[i].total > 0
    BY <1>2, SettleFacts DEF InvoiceRow
  <2>2. /\ invoice'[i].paid = paid /\ invoice'[i].total = invoice[i].total
        /\ invoice'[i].status = IF paid >= invoice[i].total THEN "PAID" ELSE "PARTIALLY_PAID"
        /\ \A j \in Invoice \ {i} : invoice'[j] = invoice[j]
    BY <1>2, SettleRows DEF StatusFor
  <2> HIDE DEF i, paid
  <2> SUFFICES ASSUME NEW j \in Invoice
               PROVE  /\ invoice'[j].status = "PAID" <=> invoice'[j].paid >= invoice'[j].total
                      /\ invoice'[j].status = "PENDING" <=> invoice'[j].paid = 0
    BY DEF StatusIsHonest
  <2>3. CASE j = i
    BY <2>1, <2>2, <2>3
  <2>4. CASE j # i
    BY <2>2, <2>4 DEF StatusIsHonest
  <2> QED BY <2>3, <2>4
<1>3. CASE UNCHANGED svars
  BY <1>3, <1>1 DEF svars, db
<1> QED BY <1>1, <1>2, <1>3, RowsKept

(* PAID, PARTIALLY_PAID and PENDING tell the truth about amount_paid.      *)
THEOREM SettlementHonest == SettlementSpec => []StatusIsHonest
<1>1. SettlementInit => StatusIsHonest
  BY SettlementAssumption DEF SettlementInit, StatusIsHonest
<1> QED BY <1>1, HonestStep, SettleInvariant, PTL DEF SettlementSpec

(* Payments that are captured stay what they are. *)
Final == \A o \in Order : PaymentIs(o, "SUCCESS") => payment'[o] = payment[o]

LEMMA FinalStep == SettleInv /\ [SettlementNext]_svars => [Final]_svars
<1> SUFFICES ASSUME SettleInv, SettlementNext PROVE Final
  OBVIOUS
<1>1. CASE payment' = payment
  BY <1>1 DEF Final
<1>2. ASSUME NEW s \in Session, Settle(s) PROVE Final
  BY <1>2, SettleFacts, SettleRows DEF Final, PaymentIs
<1>3. ASSUME NEW s \in Session, CommitOrder(s) \/ StoreUnmatched(s) PROVE Final
  <2>1. payment[order[s]] = NoPayment
    BY <1>3 DEF CommitOrder, StoreUnmatched, SettleInv, Working
  <2>2. \A o \in Order : o # order[s] => payment'[o] = payment[o]
    BY <1>3 DEF CommitOrder, StoreUnmatched, SettleInv, TypeOK
  <2> QED BY <2>1, <2>2 DEF Final, PaymentIs
<1> QED BY <1>1, <1>2, <1>3, RowsKept

(* A captured payment never changes again. *)
THEOREM SettlementFinal == SettlementSpec => CaptureIsFinal
BY FinalStep, SettleInvariant, PTL DEF SettlementSpec, CaptureIsFinal, Final

-----------------------------------------------------------------------------
(* The provider is answered 200 by a session that found the payment        *)
(* captured or captured it, and a captured payment is final.               *)
AckInv ==
    /\ \A o \in Order : PaymentIs(o, "SUCCESS") => recon[o] # "none"
    /\ \A s \in Session : pc[s] = "answer" => PaymentIs(order[s], "SUCCESS")
    /\ \A o \in acked : PaymentIs(o, "SUCCESS")

(* A payment that becomes SUCCESS gets its reconciliation row with it, and *)
(* no row goes away.                                                       *)
LEMMA ReconciledStep ==
    ASSUME SettleInv, AckInv, SettlementNext, NEW o \in Order, PaymentIs(o, "SUCCESS")'
    PROVE  recon'[o] # "none"
<1>1. PaymentIs(o, "SUCCESS") => recon[o] # "none"
  BY DEF AckInv
<1>2. CASE UNCHANGED <<payment, recon>>
  BY <1>1, <1>2 DEF PaymentIs
<1>3. ASSUME NEW s \in Session, Settle(s) PROVE recon'[o] # "none"
  <2>1. /\ order[s] \in Order /\ \A q \in Order \ {order[s]} : payment'[q] = payment[q]
        /\ recon' = [recon EXCEPT ![order[s]] = Verdict(payment[order[s]], via[s])]
    BY <1>3, SettleFacts, SettleRows DEF Settle
  <2>2. Verdict(payment[order[s]], via[s]) # "none"
    BY DEF Verdict
  <2> QED BY <1>1, <2>1, <2>2 DEF PaymentIs, SettleInv, TypeOK
<1>4. ASSUME NEW s \in Session, CommitOrder(s) PROVE recon'[o] # "none"
  <2> DEFINE row == [invoice |-> seen[s].invoice, amount |-> amount[s],
                     provider |-> IF configured THEN "razorpay" ELSE "simulated",
                     status |-> "PENDING", verified |-> FALSE]
  <2>1. recon' = recon /\ order[s] \in Order /\ payment' = [payment EXCEPT ![order[s]] = row]
    BY <1>4 DEF CommitOrder, SettleInv, Working
  <2>2. row.status # "SUCCESS"
    OBVIOUS
  <2> HIDE DEF row
  <2>3. payment'[order[s]] = row /\ \A q \in Order \ {order[s]} : payment'[q] = payment[q]
    BY <2>1 DEF SettleInv, TypeOK
  <2> QED BY <1>1, <2>1, <2>2, <2>3 DEF PaymentIs
<1>5. ASSUME NEW s \in Session, StoreUnmatched(s) PROVE recon'[o] # "none"
  <2>1. /\ order[s] \in Order /\ recon' = [recon EXCEPT ![order[s]] = "UNMATCHED"]
        /\ \A q \in Order \ {order[s]} : payment'[q] = payment[q]
    BY <1>5 DEF StoreUnmatched, SettleInv, Working, TypeOK
  <2> QED BY <1>1, <2>1 DEF PaymentIs, SettleInv, TypeOK
<1>6. ASSUME NEW s \in Session, CommitReview(s) PROVE recon'[o] # "none"
  <2>1. PICK st \in ReconciliationStatus : recon' = [recon EXCEPT ![order[s]] = st]
    BY <1>6 DEF CommitReview
  <2>2. st # "none" /\ payment' = payment
    BY <1>6 DEF CommitReview, ReconciliationStatus
  <2> QED BY <1>1, <2>1, <2>2 DEF PaymentIs, SettleInv, TypeOK
<1>7. ASSUME NEW s \in Session, Begin(s) PROVE UNCHANGED <<payment, recon>>
  BY <1>7 DEF Begin, Initiate, Verify, Simulate, Webhook, BeginCapture, Review, db
<1>8. ASSUME NEW s \in Session,
             \/ LockInvoice(s) \/ SettleFails(s) \/ StoreFails(s) \/ Answer(s)
             \/ CommitOrphanReview(s) \/ Abort(s)
      PROVE  UNCHANGED <<payment, recon>>
  BY <1>8 DEF LockInvoice, SettleFails, StoreFails, Answer, CommitOrphanReview, Abort, db
<1>9. CASE (\E q \in Order : Pay(q)) \/ Restart
  <2>1. UNCHANGED <<payment, recon>>
    BY <1>9 DEF Pay, Restart, db
  <2> QED BY <1>2, <2>1
<1> QED BY <1>2, <1>3, <1>4, <1>5, <1>6, <1>7, <1>8, <1>9 DEF SettlementNext, Step

(* Who is about to answer was before, or has found or made a capture. *)
LEMMA AnswerStep ==
    ASSUME SettleInv, AckInv, SettlementNext, NEW t \in Session, pc'[t] = "answer"
    PROVE  \/ pc[t] = "answer" /\ order'[t] = order[t]
           \/ order'[t] \in Order /\ PaymentIs(order'[t], "SUCCESS")
           \/ pc[t] \in {"settle", "store"} /\ order'[t] = order[t]
              /\ payment'[order[t]] # NoPayment /\ payment'[order[t]].status = "SUCCESS"
<1>0. pc \in [Session -> PC] /\ order \in [Session -> Order \cup {NoOrder}]
  BY DEF SettleInv, TypeOK
<1>1. ASSUME NEW s \in Session, Close(s) PROVE pc[t] = "answer" /\ order'[t] = order[t]
  BY <1>0, <1>1 DEF Close
<1>2. ASSUME NEW s \in Session, NEW o \in Order, Webhook(s, o), AlreadyCaptured(o),
             order' = [order EXCEPT ![s] = o], pc' = [pc EXCEPT ![s] = "answer"]
      PROVE  \/ pc[t] = "answer" /\ order'[t] = order[t]
             \/ order'[t] \in Order /\ PaymentIs(order'[t], "SUCCESS")
  BY <1>0, <1>2 DEF AlreadyCaptured
<1>3. ASSUME NEW s \in Session, NEW o \in Order, NEW to \in {"order", "lock", "store", "review", "orphan"},
             order' = [order EXCEPT ![s] = o], pc' = [pc EXCEPT ![s] = to]
      PROVE  pc[t] = "answer" /\ order'[t] = order[t]
  BY <1>0, <1>3
<1>4. ASSUME NEW s \in Session, Begin(s)
      PROVE  \/ pc[t] = "answer" /\ order'[t] = order[t]
             \/ order'[t] \in Order /\ PaymentIs(order'[t], "SUCCESS")
  <2>1. ASSUME NEW o \in Order, NEW i \in Invoice, Initiate(s, i, o)
        PROVE  pc[t] = "answer" /\ order'[t] = order[t]
    BY <1>3, <2>1 DEF Initiate
  <2>2. ASSUME NEW o \in Order, Verify(s, o) \/ Simulate(s, o)
        PROVE  pc[t] = "answer" /\ order'[t] = order[t]
    BY <1>3, <2>2 DEF Verify, Simulate, BeginCapture
  <2>3. ASSUME NEW o \in Order, Review(s, o)
        PROVE  pc[t] = "answer" /\ order'[t] = order[t]
    <3>1. CASE recon[o] = "none"
      BY <1>3, <2>3, <3>1 DEF Review
    <3>2. CASE recon[o] # "none"
      BY <1>3, <2>3, <3>2 DEF Review
    <3> QED BY <3>1, <3>2
  <2>4. ASSUME NEW o \in Order, Webhook(s, o)
        PROVE  \/ pc[t] = "answer" /\ order'[t] = order[t]
               \/ order'[t] \in Order /\ PaymentIs(order'[t], "SUCCESS")
    <3>1. /\ order' = [order EXCEPT ![s] = o]
          /\ \/ pc' = [pc EXCEPT ![s] = "lock"]
             \/ pc' = [pc EXCEPT ![s] = "store"]
             \/ AlreadyCaptured(o) /\ pc' = [pc EXCEPT ![s] = "answer"]
      BY <2>4 DEF Webhook, BeginCapture
    <3> QED BY <1>2, <1>3, <2>4, <3>1
  <2> QED BY <1>4, <2>1, <2>2, <2>3, <2>4 DEF Begin
<1>5. ASSUME NEW s \in Session, CommitOrder(s) \/ SettleFails(s) \/ StoreFails(s) \/ Answer(s)
                                \/ CommitReview(s) \/ CommitOrphanReview(s) \/ Abort(s)
      PROVE  pc[t] = "answer" /\ order'[t] = order[t]
  BY <1>1, <1>5 DEF CommitOrder, SettleFails, StoreFails, Answer, CommitReview,
                    CommitOrphanReview, Abort
<1>6. ASSUME NEW s \in Session, LockInvoice(s)
      PROVE  pc[t] = "answer" /\ order'[t] = order[t]
  BY <1>0, <1>6 DEF LockInvoice
<1>7. ASSUME NEW s \in Session, Settle(s)
      PROVE  \/ pc[t] = "answer" /\ order'[t] = order[t]
             \/ pc[t] = "settle" /\ order'[t] = order[t]
                /\ payment'[order[t]] # NoPayment /\ payment'[order[t]].status = "SUCCESS"
  <2>1. CASE Close(s)
    BY <1>1, <2>1
  <2>2. CASE ~Close(s)
    <3>1. pc' = [pc EXCEPT ![s] = "answer"] /\ order' = order /\ pc[s] = "settle"
      BY <1>7, <2>2 DEF Settle, sess
    <3> QED BY <1>0, <1>7, <3>1, SettleRows
  <2> QED BY <2>1, <2>2
<1>8. ASSUME NEW s \in Session, StoreUnmatched(s)
      PROVE  \/ pc[t] = "answer" /\ order'[t] = order[t]
             \/ pc[t] = "store" /\ order'[t] = order[t]
                /\ payment'[order[t]] # NoPayment /\ payment'[order[t]].status = "SUCCESS"
  <2>1. pc' = [pc EXCEPT ![s] = "answer"] /\ order' = order /\ pc[s] = "store"
    BY <1>8 DEF StoreUnmatched, sess
  <2>2. order[s] \in Order
    BY <2>1 DEF SettleInv, Working
  <2>3. payment'[order[s]].status = "SUCCESS" /\ payment'[order[s]] # NoPayment
    <3> DEFINE row == [invoice |-> NoInvoice, amount |-> amount[s], provider |-> "razorpay",
                       status |-> "SUCCESS", verified |-> TRUE]
    <3>1. payment' = [payment EXCEPT ![order[s]] = row] /\ amount[s] \in Nat
      BY <1>8 DEF StoreUnmatched, SettleInv, TypeOK
    <3>2. row.status = "SUCCESS" /\ row \in Payment
      BY <3>1 DEF Payment, PaymentStatus
    <3> HIDE DEF row
    <3>3. payment'[order[s]] = row
      BY <2>2, <3>1 DEF SettleInv, TypeOK
    <3> QED BY <3>2, <3>3, NoPaymentAssumption
  <2> QED BY <1>0, <2>1, <2>3
<1>9. CASE (\E q \in Order : Pay(q)) \/ Restart
  BY <1>9 DEF Pay, Restart, sess
<1> QED BY <1>4, <1>5, <1>6, <1>7, <1>8, <1>9 DEF SettlementNext, Step

LEMMA AckStep == SettleInv /\ AckInv /\ [SettlementNext]_svars => AckInv'
<1> SUFFICES ASSUME SettleInv, AckInv, [SettlementNext]_svars PROVE AckInv'
  OBVIOUS
<1>1. CASE UNCHANGED svars
  BY <1>1 DEF svars, db, sess, AckInv, PaymentIs
<1>2. CASE SettlementNext
  <2>1. \A o \in Order : PaymentIs(o, "SUCCESS") => PaymentIs(o, "SUCCESS")'
    <3>1. CASE payment' = payment
      BY <3>1 DEF PaymentIs
    <3>2. CASE payment' # payment
      BY <1>2, <3>2, FinalStep DEF Final, PaymentIs, svars, db
    <3> QED BY <3>1, <3>2
  <2>2. \A o \in Order : PaymentIs(o, "SUCCESS")' => recon'[o] # "none"
    BY <1>2, ReconciledStep
  <2>3. ASSUME NEW t \in Session, pc'[t] = "answer" PROVE PaymentIs(order[t], "SUCCESS")'
    <3>1. pc[t] # "idle" => order[t] \in Order
      BY DEF SettleInv, Working
    <3>2. \/ pc[t] = "answer" /\ order'[t] = order[t]
          \/ order'[t] \in Order /\ PaymentIs(order'[t], "SUCCESS")
          \/ pc[t] \in {"settle", "store"} /\ order'[t] = order[t]
             /\ payment'[order[t]] # NoPayment /\ payment'[order[t]].status = "SUCCESS"
      BY <1>2, <2>3, AnswerStep
    <3>3. pc[t] = "answer" => PaymentIs(order[t], "SUCCESS")
      BY DEF AckInv
    <3> QED BY <2>1, <3>1, <3>2, <3>3 DEF PaymentIs
  <2>4. ASSUME NEW o \in acked' PROVE PaymentIs(o, "SUCCESS")'
    <3>1. CASE o \in acked
      BY <2>1, <3>1 DEF AckInv, SettleInv, TypeOK
    <3>2. CASE o \notin acked
      <4>1. PICK s \in Session : Answer(s)
        <5>1. acked' # acked
          BY <2>4, <3>2
        <5>2. ASSUME NEW s \in Session, Begin(s) \/ Abort(s) PROVE acked' = acked
          BY <5>2 DEF Begin, Initiate, Verify, Simulate, Webhook, BeginCapture, Review, Abort
        <5>3. ASSUME NEW s \in Session,
                     \/ CommitOrder(s) \/ LockInvoice(s) \/ SettleFails(s) \/ StoreUnmatched(s)
                     \/ StoreFails(s) \/ CommitReview(s) \/ CommitOrphanReview(s)
              PROVE  acked' = acked
          BY <5>3 DEF CommitOrder, LockInvoice, SettleFails, StoreUnmatched, StoreFails,
                      CommitReview, CommitOrphanReview
        <5>4. ASSUME NEW s \in Session, Settle(s) PROVE acked' = acked
          BY <5>4 DEF Settle
        <5>5. ASSUME (\E q \in Order : Pay(q)) \/ Restart PROVE acked' = acked
          BY <5>5 DEF Pay, Restart
        <5> QED BY <1>2, <5>1, <5>2, <5>3, <5>4, <5>5 DEF SettlementNext, Step
      <4>2. o = order[s] /\ pc[s] = "answer" /\ payment' = payment
        BY <2>4, <3>2, <4>1 DEF Answer, db
      <4> QED BY <4>2 DEF AckInv, PaymentIs
    <3> QED BY <3>1, <3>2
  <2> QED BY <2>2, <2>3, <2>4 DEF AckInv
<1> QED BY <1>1, <1>2

LEMMA AckInitially == SettlementInit => AckInv
BY DEF SettlementInit, AckInv, PaymentIs

LEMMA AckMeans == SettleInv /\ AckInv => AckedIsRecorded
BY DEF SettleInv, TypeOK, AckInv, AckedIsRecorded

(* Whatever was answered, aborted or restarted, the provider has never     *)
(* been told of a capture that is not recorded.                            *)
THEOREM SettlementAcked == SettlementSpec => []AckedIsRecorded
BY AckInitially, AckStep, AckMeans, SettleInvariant, PTL DEF SettlementSpec

-----------------------------------------------------------------------------
(* Sums over finite sets.  Total adds values up the way MapThenSumSet does; *)
(* each fact about it is proved by looking at a smallest set for which it   *)
(* would be false.                                                          *)

Pick(s) == CHOOSE x \in s : TRUE

(* f gives the sum of the values of h over each subset of S. *)
Sums(f, h, S) ==
    f = [s \in SUBSET S |-> IF s = {} THEN 0 ELSE h[Pick(s)] + f[s \ {Pick(s)}]]

SumFn(h, S) == CHOOSE f : Sums(f, h, S)

Total(h, S) == SumFn(h, S)[S]

SumOfAmounts(p, C) == MapThenSumSet(LAMBDA o : p[o].amount, C)

LEMMA SmallestSet ==
    ASSUME NEW S, IsFiniteSet(S), NEW Bad, Bad \subseteq SUBSET S, Bad # {}
    PROVE  \E T \in Bad : \A U \in Bad : ~(U \subseteq T /\ U # T)
<1>1. IsWellFoundedOn(StrictSubsetOrdering(S), FiniteSubsetsOf(S))
  BY FS_StrictSubsetOrderingWellFounded
<1>2. Bad \subseteq FiniteSubsetsOf(S)
  BY FS_FiniteSubsetsOfFinite
<1>3. \E T \in Bad : \A U \in Bad : ~(<<U, T>> \in StrictSubsetOrdering(S))
  BY <1>1, <1>2, WFMin
<1> QED BY <1>3 DEF StrictSubsetOrdering

LEMMA PickIn == ASSUME NEW s, s # {} PROVE Pick(s) \in s
BY DEF Pick

(* Two such functions agree where both are defined. *)
LEMMA SumsAgree ==
    ASSUME NEW h, NEW S, NEW T, IsFiniteSet(S), T \subseteq S,
           NEW f, Sums(f, h, S), NEW g, Sums(g, h, T)
    PROVE  \A s \in SUBSET T : f[s] = g[s]
<1> DEFINE Bad == {s \in SUBSET T : f[s] # g[s]}
<1> SUFFICES ASSUME Bad # {} PROVE FALSE
  OBVIOUS
<1>1. Bad \subseteq SUBSET S
  OBVIOUS
<1>2. PICK s \in Bad : \A u \in Bad : ~(u \subseteq s /\ u # s)
  <2> HIDE DEF Bad
  <2> QED BY <1>1, SmallestSet
<1>3. s # {}
  BY DEF Sums
<1>4. Pick(s) \in s /\ s \ {Pick(s)} \in SUBSET T /\ s \in SUBSET S /\ s \in SUBSET T
  BY <1>3, PickIn
<1>5. f[s \ {Pick(s)}] = g[s \ {Pick(s)}]
  BY <1>2, <1>4
<1>6. /\ f[s] = h[Pick(s)] + f[s \ {Pick(s)}]
      /\ g[s] = h[Pick(s)] + g[s \ {Pick(s)}]
  BY <1>3, <1>4 DEF Sums
<1> QED BY <1>5, <1>6

(* Every finite set has one. *)
LEMMA SumsExists ==
    ASSUME NEW h, NEW S, IsFiniteSet(S)
    PROVE  \A T \in SUBSET S : Sums(SumFn(h, T), h, T)
<1> DEFINE Bad == {T \in SUBSET S : ~Sums(SumFn(h, T), h, T)}
<1> SUFFICES ASSUME Bad # {} PROVE FALSE
  OBVIOUS
<1>1. PICK T \in Bad : \A U \in Bad : ~(U \subseteq T /\ U # T)
  <2>1. Bad \subseteq SUBSET S
    OBVIOUS
  <2> HIDE DEF Bad
  <2> QED BY <2>1, SmallestSet
<1>2. ASSUME NEW U \in SUBSET T, U # T PROVE Sums(SumFn(h, U), h, U) /\ IsFiniteSet(U)
  BY <1>1, <1>2, FS_Subset
<1> DEFINE Value(U) == IF U = {} THEN 0 ELSE h[Pick(U)] + Total(h, U \ {Pick(U)})
           f == [U \in SUBSET T |-> Value(U)]
<1>3. ASSUME NEW U \in SUBSET T, U # T PROVE Total(h, U) = Value(U)
  <2>1. Sums(SumFn(h, U), h, U) /\ IsFiniteSet(U)
    BY <1>2, <1>3
  <2>2. CASE U = {}
    BY <2>1, <2>2 DEF Sums, Total
  <2>3. CASE U # {}
    <3> DEFINE V == U \ {Pick(U)}
    <3>1. Pick(U) \in U /\ V \in SUBSET T /\ V \in SUBSET U /\ V # T
      BY <2>3, PickIn
    <3>2. Total(h, U) = h[Pick(U)] + SumFn(h, U)[V]
      BY <2>1, <2>3 DEF Sums, Total
    <3>3. Sums(SumFn(h, V), h, V)
      BY <3>1, <1>2
    <3>4. SumFn(h, U)[V] = Total(h, V)
      BY <3>1, <3>3, <2>1, SumsAgree DEF Total
    <3> QED BY <2>3, <3>2, <3>4
  <2> QED BY <2>2, <2>3
<1>4. Sums(f, h, T)
  <2>1. ASSUME NEW U \in SUBSET T, U # {} PROVE f[U \ {Pick(U)}] = Total(h, U \ {Pick(U)})
    <3>1. Pick(U) \in U
      BY <2>1, PickIn
    <3>2. U \ {Pick(U)} \in SUBSET T /\ U \ {Pick(U)} # T
      BY <3>1
    <3> QED BY <3>2, <1>3
  <2>2. \A U \in SUBSET T : Value(U) = IF U = {} THEN 0 ELSE h[Pick(U)] + f[U \ {Pick(U)}]
    BY <2>1
  <2> QED BY <2>2 DEF Sums
<1>5. Sums(SumFn(h, T), h, T)
  BY <1>4 DEF SumFn
<1> QED BY <1>1, <1>5

LEMMA TotalUnfold ==
    ASSUME NEW h, NEW S, IsFiniteSet(S)
    PROVE  Total(h, S) = IF S = {} THEN 0 ELSE h[Pick(S)] + Total(h, S \ {Pick(S)})
<1>1. Sums(SumFn(h, S), h, S)
  BY SumsExists
<1>2. CASE S = {}
  BY <1>1, <1>2 DEF Sums, Total
<1>3. CASE S # {}
  <2> DEFINE T == S \ {Pick(S)}
  <2>1. T \in SUBSET S
    OBVIOUS
  <2>2. Total(h, S) = h[Pick(S)] + SumFn(h, S)[T]
    BY <1>1, <1>3 DEF Sums, Total
  <2>3. Sums(SumFn(h, T), h, T)
    BY <2>1, SumsExists
  <2>4. SumFn(h, S)[T] = Total(h, T)
    BY <1>1, <2>1, <2>3, SumsAgree DEF Total
  <2> QED BY <1>3, <2>2, <2>4
<1> QED BY <1>2, <1>3

LEMMA TotalEmpty == \A h : Total(h, {}) = 0
BY FS_EmptySet, TotalUnfold

LEMMA TotalType ==
    ASSUME NEW h, NEW S, IsFiniteSet(S), \A x \in S : h[x] \in Nat
    PROVE  Total(h, S) \in Nat
<1> DEFINE Bad == {T \in SUBSET S : Total(h, T) \notin Nat}
<1> SUFFICES ASSUME Bad # {} PROVE FALSE
  OBVIOUS
<1>1. PICK T \in Bad : \A U \in Bad : ~(U \subseteq T /\ U # T)
  <2>1. Bad \subseteq SUBSET S
    OBVIOUS
  <2> HIDE DEF Bad
  <2> QED BY <2>1, SmallestSet
<1>2. IsFiniteSet(T)
  BY FS_Subset
<1>3. T # {}
  <2>1. Total(h, {}) \in Nat
    BY TotalEmpty
  <2> QED BY <1>1, <2>1
<1>4. Pick(T) \in T
  BY <1>3, PickIn
<1>5. Total(h, T \ {Pick(T)}) \in Nat
  BY <1>1, <1>4
<1> QED BY <1>2, <1>3, <1>4, <1>5, TotalUnfold

(* The order in which the elements are taken does not matter. *)
LEMMA TotalWithout ==
    ASSUME NEW h, NEW S, IsFiniteSet(S), \A x \in S : h[x] \in Nat
    PROVE  \A x \in S : Total(h, S) = h[x] + Total(h, S \ {x})
<1> DEFINE Bad == {T \in SUBSET S : \E x \in T : Total(h, T) # h[x] + Total(h, T \ {x})}
<1> SUFFICES ASSUME Bad # {} PROVE FALSE
  OBVIOUS
<1>1. PICK T \in Bad : \A U \in Bad : ~(U \subseteq T /\ U # T)
  <2>1. Bad \subseteq SUBSET S
    OBVIOUS
  <2> HIDE DEF Bad
  <2> QED BY <2>1, SmallestSet
<1>2. PICK x \in T : Total(h, T) # h[x] + Total(h, T \ {x})
  BY <1>1
<1> DEFINE c == Pick(T)
<1>3. IsFiniteSet(T) /\ c \in T /\ Total(h, T) = h[c] + Total(h, T \ {c})
  BY <1>2, FS_Subset, TotalUnfold, PickIn
<1>4. x # c
  BY <1>2, <1>3
<1> HIDE DEF c
<1>5. Total(h, T \ {c}) = h[x] + Total(h, (T \ {c}) \ {x})
  BY <1>1, <1>3, <1>4
<1>6. Total(h, T \ {x}) = h[c] + Total(h, (T \ {x}) \ {c})
  BY <1>1, <1>3, <1>4
<1>7. (T \ {c}) \ {x} = (T \ {x}) \ {c}
  OBVIOUS
<1>8. Total(h, (T \ {x}) \ {c}) \in Nat /\ h[x] \in Nat /\ h[c] \in Nat
  <2>1. IsFiniteSet((T \ {x}) \ {c})
    BY <1>3, FS_Subset
  <2> QED BY <2>1, <1>3, TotalType
<1>9. Total(h, T \ {c}) = h[x] + Total(h, (T \ {x}) \ {c})
  BY <1>5, <1>7
<1> HIDE DEF Bad
<1>10. Total(h, T) = h[x] + Total(h, T \ {x})
  BY <1>3, <1>6, <1>8, <1>9
<1> QED BY <1>2, <1>10

(* Only the values on the set count. *)
LEMMA TotalSame ==
    ASSUME NEW h, NEW k, NEW S, IsFiniteSet(S), \A x \in S : h[x] = k[x]
    PROVE  Total(h, S) = Total(k, S)
<1> DEFINE Bad == {T \in SUBSET S : Total(h, T) # Total(k, T)}
<1> SUFFICES ASSUME Bad # {} PROVE FALSE
  OBVIOUS
<1>1. PICK T \in Bad : \A U \in Bad : ~(U \subseteq T /\ U # T)
  <2>1. Bad \subseteq SUBSET S
    OBVIOUS
  <2> HIDE DEF Bad
  <2> QED BY <2>1, SmallestSet
<1>2. IsFiniteSet(T)
  BY FS_Subset
<1>3. T # {}
  <2>1. Total(h, {}) = Total(k, {})
    BY TotalEmpty
  <2> QED BY <1>1, <2>1
<1>4. Pick(T) \in T
  BY <1>3, PickIn
<1>5. Total(h, T \ {Pick(T)}) = Total(k, T \ {Pick(T)})
  BY <1>1, <1>4
<1> QED BY <1>2, <1>3, <1>4, <1>5, TotalUnfold

(* The sum that InvoiceAddsUp is about is such a total. *)
LEMMA SumIsTotal ==
    ASSUME NEW p, NEW C, IsFiniteSet(C), NEW h, \A o \in C : h[o] = p[o].amount
    PROVE  SumOfAmounts(p, C) = Total(h, C)
<1> DEFINE Eq(f) == f = [s \in SUBSET C |->
                            IF s = {} THEN 0
                            ELSE p[CHOOSE x \in s : TRUE].amount
                                   + f[s \ {CHOOSE x \in s : TRUE}]]
           F == CHOOSE f : Eq(f)
<1>1. SumOfAmounts(p, C) = F[C]
  BY DEF SumOfAmounts, MapThenSumSet, MapThenFoldSet
<1>2. ASSUME NEW f PROVE Eq(f) <=> Sums(f, h, C)
  BY DEF Sums, Pick
<1>3. Sums(SumFn(h, C), h, C)
  BY SumsExists
<1>4. Eq(F)
  <2>1. Eq(SumFn(h, C))
    BY <1>2, <1>3
  <2> HIDE DEF Eq
  <2> QED BY <2>1
<1>5. Sums(F, h, C)
  BY <1>2, <1>4
<1> HIDE DEF F
<1>6. F[C] = SumFn(h, C)[C]
  BY <1>3, <1>5, SumsAgree
<1> QED BY <1>1, <1>6 DEF Total

(* It is 0 of nothing, depends only on the payments summed, and grows by   *)
(* what one more payment brings.                                           *)
LEMMA SumOfNone == \A p : SumOfAmounts(p, {}) = 0
BY SumIsTotal, TotalEmpty, FS_EmptySet

LEMMA SumOfSame ==
    ASSUME NEW p, NEW q, NEW C, IsFiniteSet(C), \A o \in C : p[o].amount = q[o].amount
    PROVE  SumOfAmounts(p, C) = SumOfAmounts(q, C)
<1> DEFINE h == [o \in C |-> p[o].amount]
<1>1. \A o \in C : h[o] = p[o].amount /\ h[o] = q[o].amount
  OBVIOUS
<1> HIDE DEF h
<1> QED BY <1>1, SumIsTotal

LEMMA SumOfOneMore ==
    ASSUME NEW p, NEW C, IsFiniteSet(C), NEW x, x \notin C,
           \A o \in C \cup {x} : p[o].amount \in Nat
    PROVE  SumOfAmounts(p, C \cup {x}) = p[x].amount + SumOfAmounts(p, C)
<1> DEFINE D == C \cup {x}
           h == [o \in D |-> p[o].amount]
<1>1. /\ IsFiniteSet(D) /\ x \in D /\ D \ {x} = C
      /\ \A o \in D : h[o] = p[o].amount /\ h[o] \in Nat
  BY FS_AddElement
<1> HIDE DEF D, h
<1>2. Total(h, D) = h[x] + Total(h, C)
  BY <1>1, TotalWithout
<1>3. SumOfAmounts(p, D) = Total(h, D)
  BY <1>1, SumIsTotal
<1>4. SumOfAmounts(p, C) = Total(h, C)
  BY <1>1, SumIsTotal
<1> QED BY <1>1, <1>2, <1>3, <1>4 DEF D

-----------------------------------------------------------------------------
(* amount_paid.  The payments of an invoice that are captured are finitely *)
(* many, since none is at the start and a step captures one.               *)

AddsUpInv ==
    \A i \in Invoice :
        /\ IsFiniteSet(Captured(i))
        /\ invoice[i].paid = SumOfAmounts(payment, Captured(i))

LEMMA AddsUpMeans == AddsUpInv => InvoiceAddsUp
BY DEF AddsUpInv, InvoiceAddsUp, SumOfAmounts

LEMMA AddsUpInit == SettlementInit => AddsUpInv
<1> SUFFICES ASSUME SettlementInit PROVE AddsUpInv
  OBVIOUS
<1>1. \A i \in Invoice : invoice[i].paid = 0
  BY DEF SettlementInit
<1>2. \A i \in Invoice : Captured(i) = {}
  BY DEF SettlementInit, Captured, PaymentIs
<1> QED BY <1>1, <1>2, SumOfNone, FS_EmptySet DEF AddsUpInv

(* Nothing is added up anew while the captured payments and amount_paid    *)
(* stay what they are.                                                     *)
LEMMA AddsUpKept ==
    ASSUME AddsUpInv, \A i \in Invoice : invoice'[i].paid = invoice[i].paid,
           \A i \in Invoice : Captured(i)' = Captured(i),
           \A i \in Invoice : \A o \in Captured(i) : payment'[o] = payment[o]
    PROVE  AddsUpInv'
<1>1. ASSUME NEW i \in Invoice
      PROVE  SumOfAmounts(payment', Captured(i)') = SumOfAmounts(payment, Captured(i))
  <2>1. IsFiniteSet(Captured(i)) /\ \A o \in Captured(i) : payment[o].amount = payment'[o].amount
    BY DEF AddsUpInv
  <2>2. SumOfAmounts(payment, Captured(i)) = SumOfAmounts(payment', Captured(i))
    BY <2>1, SumOfSame
  <2> QED BY <2>2
<1> QED BY <1>1 DEF AddsUpInv

LEMMA AddsUpStep == SettleInv /\ AddsUpInv /\ [SettlementNext]_svars => AddsUpInv'
<1> SUFFICES ASSUME SettleInv, AddsUpInv, [SettlementNext]_svars PROVE AddsUpInv'
  OBVIOUS
<1>1. CASE UNCHANGED <<invoice, payment>>
  BY <1>1, AddsUpKept DEF Captured, PaymentIs
<1>2. ASSUME NEW s \in Session, CommitOrder(s) \/ StoreUnmatched(s), UNCHANGED invoice
      PROVE  AddsUpInv'
  <2> DEFINE o == order[s]
  <2>1. payment[o] = NoPayment
    BY <1>2 DEF CommitOrder, StoreUnmatched, SettleInv, Working
  <2>2. \A q \in Order : q # o => payment'[q] = payment[q]
    BY <1>2 DEF CommitOrder, StoreUnmatched, SettleInv, TypeOK
  <2>3. o \in Order => payment'[o].status = "PENDING" \/ payment'[o].invoice = NoInvoice
    BY <1>2 DEF CommitOrder, StoreUnmatched, SettleInv, TypeOK
  <2>4. \A i \in Invoice : Captured(i)' = Captured(i)
    BY <2>1, <2>2, <2>3, SettlementAssumption DEF Captured, PaymentIs
  <2>5. \A i \in Invoice : \A q \in Captured(i) : payment'[q] = payment[q]
    BY <2>1, <2>2 DEF Captured, PaymentIs
  <2> QED BY <1>2, <2>4, <2>5, AddsUpKept
<1>3. ASSUME NEW s \in Session, Settle(s) PROVE AddsUpInv'
  <2>0. PICK o \in Order, i \in Invoice : o = order[s] /\ i = seen[s].invoice
    BY <1>3, SettleFacts
  <2>1. /\ amount[s] \in Nat /\ invoice[i].paid \in Nat
        /\ payment[o].status = "PENDING"
    BY <1>3, <2>0, SettleFacts DEF InvoiceRow
  <2>2. /\ payment'[o] # NoPayment /\ payment'[o].status = "SUCCESS"
        /\ payment'[o].invoice = i /\ payment'[o].amount = amount[s]
        /\ \A q \in Order \ {o} : payment'[q] = payment[q]
        /\ invoice'[i].paid = invoice[i].paid + amount[s]
        /\ \A j \in Invoice \ {i} : invoice'[j] = invoice[j]
    BY <1>3, <2>0, SettleRows
  <2>3. Captured(i)' = Captured(i) \cup {o} /\ o \notin Captured(i)
    BY <2>1, <2>2 DEF Captured, PaymentIs
  <2>4. \A j \in Invoice \ {i} : Captured(j)' = Captured(j)
    BY <2>1, <2>2 DEF Captured, PaymentIs
  <2>5. \A j \in Invoice : /\ IsFiniteSet(Captured(j))
                           /\ \A q \in Captured(j) : payment'[q] = payment[q]
    BY <2>1, <2>2 DEF AddsUpInv, Captured, PaymentIs
  <2>6. \A j \in Invoice : SumOfAmounts(payment', Captured(j)) = SumOfAmounts(payment, Captured(j))
    <3> SUFFICES ASSUME NEW j \in Invoice
                 PROVE  SumOfAmounts(payment, Captured(j)) = SumOfAmounts(payment', Captured(j))
      OBVIOUS
    <3>1. \A q \in Captured(j) : payment[q].amount = payment'[q].amount
      BY <2>5
    <3> QED BY <2>5, <3>1, SumOfSame
  <2>7. \A q \in Captured(i) \cup {o} : payment'[q].amount \in Nat
    BY <2>1, <2>2, <2>5 DEF SettleInv, TypeOK, Captured, PaymentIs, Payment
  <2>8. SumOfAmounts(payment', Captured(i)') = amount[s] + SumOfAmounts(payment, Captured(i))
    BY <2>2, <2>3, <2>5, <2>6, <2>7, SumOfOneMore
  <2>9. \A j \in Invoice : invoice[j].paid = SumOfAmounts(payment, Captured(j))
    BY DEF AddsUpInv
  <2>10. ASSUME NEW j \in Invoice
         PROVE  /\ invoice'[j].paid = SumOfAmounts(payment', Captured(j)')
                /\ IsFiniteSet(Captured(j)')
    <3>1. CASE j = i
      <4>1. IsFiniteSet(Captured(i)')
        BY <2>1, <2>3, <2>5, FS_AddElement
      <4>2. invoice'[i].paid = amount[s] + invoice[i].paid
        BY <2>1, <2>2
      <4> QED BY <3>1, <4>1, <4>2, <2>1, <2>8, <2>9
    <3>2. CASE j # i
      BY <3>2, <2>2, <2>4, <2>5, <2>6, <2>9
    <3> QED BY <3>1, <3>2
  <2> QED BY <2>10 DEF AddsUpInv
<1>4. CASE UNCHANGED svars
  BY <1>4, <1>1 DEF svars, db
<1> QED BY <1>1, <1>2, <1>3, <1>4, RowsKept

(* amount_paid of every invoice is the sum of its captured payments,       *)
(* however the settlements of one invoice overlap.                         *)
THEOREM SettlementAddsUp == SettlementSpec => []InvoiceAddsUp
<1>1. SettlementSpec => []AddsUpInv
  BY AddsUpInit, AddsUpStep, SettleInvariant, PTL DEF SettlementSpec
<1> QED BY <1>1, AddsUpMeans, PTL

-----------------------------------------------------------------------------
(* The late-fee runs. *)

(* The runs that are going to charge an invoice. *)
Penalizing(i) == {j \in Job : i \in penalized[j]}

(* A run charges an invoice on top of no fee, because a fee has an item    *)
(* and the run looks for one.  Runs that all looked before the first item  *)
(* was there are under way at once, and no run joins them later.           *)
FeeInv ==
    /\ FeeChargedOnce
    /\ \A i \in Invoice :
          /\ lateFee[i] # 0 => feeItems[i] > 0
          /\ feeItems[i] > 0 => feeItems[i] + Cardinality(Penalizing(i)) <= Cardinality(Job)
    /\ \A j \in Job : jpc[j] = "idle" => penalized[j] = {}
    /\ \A j \in Job, i \in Invoice :
          /\ loaded[j][i].lateFee \in {0, Fee[i]}
          /\ loaded[j][i].lateFee # 0 => feeItems[i] > 0
          /\ i \in penalized[j] => loaded[j][i].lateFee = 0

LateInv == LateTypeOK /\ SettleInv /\ AddsUpInv /\ FeeInv

LEMMA LateInvInit == LateInit => LateInv
<1> SUFFICES ASSUME LateInit PROVE LateInv
  OBVIOUS
<1>1. SettleInv /\ AddsUpInv
  BY SettleInvInit, AddsUpInit DEF LateInit
<1>2. LateTypeOK
  <2>1. loaded \in [Job -> [Invoice -> [status : UNPAID_STATUSES, lateFee : Nat]]]
    BY DEF LateInit, NotLoaded, UNPAID_STATUSES
  <2> QED BY <1>1, <2>1 DEF LateInit, LateTypeOK, SettleInv
<1>3. FeeInv
  BY FeeAssumption, SettlementAssumption DEF LateInit, SettlementInit, FeeInv, FeeChargedOnce, NotLoaded
<1> QED BY <1>1, <1>2, <1>3 DEF LateInv

(* A step of the payment service changes no total. *)
LEMMA TotalKept ==
    ASSUME SettleInv, SettlementNext
    PROVE  \A i \in Invoice : invoice'[i].total = invoice[i].total
<1>1. ASSUME NEW s \in Session, Settle(s)
      PROVE  \A i \in Invoice : invoice'[i].total = invoice[i].total
  BY <1>1, SettleRows
<1> QED BY <1>1, RowsKept

LEMMA PayingIsSettlement ==
    /\ Paying => SettlementNext
    /\ RestartAll => SettlementNext
BY DEF Paying, RestartAll, SettlementNext

(* A run's memory is cleared. *)
LEMMA EndRunFacts ==
    ASSUME LateTypeOK, NEW j \in Job, EndRun(j)
    PROVE  /\ jpc' \in [Job -> {"idle", "check"}]
           /\ loaded' \in [Job -> [Invoice -> [status : UNPAID_STATUSES, lateFee : Nat]]]
           /\ unchecked' \in [Job -> SUBSET Invoice]
           /\ penalized' \in [Job -> SUBSET Invoice]
           /\ penalized'[j] = {} /\ \A i \in Invoice : loaded'[j][i].lateFee = 0
           /\ \A k \in Job \ {j} : penalized'[k] = penalized[k] /\ loaded'[k] = loaded[k]
<1>1. [i \in Invoice |-> NotLoaded] \in [Invoice -> [status : UNPAID_STATUSES, lateFee : Nat]]
  BY DEF NotLoaded, UNPAID_STATUSES
<1> QED BY <1>1 DEF LateTypeOK, EndRun, NotLoaded

(* The payment service does not see a step that leaves its variables and   *)
(* its invoices alone.                                                     *)
LEMMA LateQuiet ==
    ASSUME LateInv, UNCHANGED svars
    PROVE  TypeOK' /\ SettleInv' /\ AddsUpInv'
BY SettleInvStep, AddsUpStep DEF LateInv, SettleInv

(* Fewer runs are going to charge an invoice when one of them ends.        *)
LEMMA FewerPenalizing ==
    ASSUME NEW i, Penalizing(i)' \subseteq Penalizing(i)
    PROVE  /\ Cardinality(Penalizing(i)') <= Cardinality(Penalizing(i))
           /\ Cardinality(Penalizing(i)') \in Nat /\ Cardinality(Penalizing(i)) \in Nat
           /\ Cardinality(Job) \in Nat
<1>1. IsFiniteSet(Penalizing(i))
  BY FeeAssumption, FS_Subset DEF Penalizing
<1> QED BY <1>1, FeeAssumption, FS_Subset, FS_CardinalityType

LEMMA PayingStep ==
    ASSUME LateInv, Paying, UNCHANGED lvars
    PROVE  LateInv'
<1>1. SettlementNext
  BY PayingIsSettlement
<1>2. SettleInv' /\ AddsUpInv'
  BY <1>1, SettleInvStep, AddsUpStep DEF LateInv
<1>3. LateTypeOK'
  BY <1>2 DEF LateInv, LateTypeOK, SettleInv, lvars, jobs
<1>4. FeeInv'
  BY <1>1, TotalKept DEF LateInv, FeeInv, FeeChargedOnce, Penalizing, lvars, jobs
<1> QED BY <1>2, <1>3, <1>4 DEF LateInv

LEMMA RestartAllStep ==
    ASSUME LateInv, RestartAll
    PROVE  LateInv'
<1>1. SettlementNext
  BY PayingIsSettlement
<1>2. SettleInv' /\ AddsUpInv'
  BY <1>1, SettleInvStep, AddsUpStep DEF LateInv
<1>3. LateTypeOK'
  <2>1. loaded' \in [Job -> [Invoice -> [status : UNPAID_STATUSES, lateFee : Nat]]]
    BY DEF RestartAll, NotLoaded, UNPAID_STATUSES
  <2> QED BY <1>2, <2>1 DEF LateInv, LateTypeOK, SettleInv, RestartAll
<1>4. FeeInv'
  <2>1. \A i \in Invoice : Penalizing(i)' \subseteq Penalizing(i)
    BY DEF RestartAll, Penalizing
  <2>2. FeeChargedOnce'
    BY <1>1, TotalKept DEF LateInv, FeeInv, FeeChargedOnce, RestartAll
  <2>3. \A i \in Invoice : feeItems'[i] > 0 =>
            feeItems'[i] + Cardinality(Penalizing(i)') <= Cardinality(Job)
    <3> SUFFICES ASSUME NEW i \in Invoice, feeItems'[i] > 0
                 PROVE  feeItems'[i] + Cardinality(Penalizing(i)') <= Cardinality(Job)
      OBVIOUS
    <3>1. feeItems'[i] = feeItems[i] /\ feeItems[i] \in Nat
      BY DEF RestartAll, LateInv, LateTypeOK
    <3> QED BY <2>1, <3>1, FewerPenalizing DEF LateInv, FeeInv
  <2> QED BY <2>2, <2>3 DEF LateInv, FeeInv, RestartAll, NotLoaded
<1> QED BY <1>2, <1>3, <1>4 DEF LateInv

LEMMA ExpireStep ==
    ASSUME LateInv, NEW i \in Invoice, Expire(i)
    PROVE  LateInv'
<1>1. UNCHANGED svars
  BY DEF Expire
<1>2. SettleInv' /\ AddsUpInv' /\ TypeOK' /\ invoice' = invoice
  BY <1>1, LateQuiet DEF svars, db
<1>3. LateTypeOK'
  BY <1>2 DEF LateInv, LateTypeOK, Expire, jobs
<1>4. FeeInv'
  BY <1>2 DEF LateInv, FeeInv, FeeChargedOnce, Penalizing, Expire, jobs
<1> QED BY <1>2, <1>3, <1>4 DEF LateInv

LEMMA ScanStep ==
    ASSUME LateInv, NEW j \in Job, Scan(j)
    PROVE  LateInv'
<1>1. UNCHANGED svars
  BY DEF Scan
<1>2. SettleInv' /\ AddsUpInv' /\ TypeOK' /\ invoice' = invoice
  BY <1>1, LateQuiet DEF svars, db
<1> DEFINE memory == [i \in Invoice |->
                          IF Penalizable(i)
                            THEN [status |-> invoice[i].status, lateFee |-> lateFee[i]]
                            ELSE NotLoaded]
<1>3. memory \in [Invoice -> [status : UNPAID_STATUSES, lateFee : Nat]]
  BY DEF LateInv, LateTypeOK, Penalizable, NotLoaded, UNPAID_STATUSES
<1>4. \A i \in Invoice : memory[i].lateFee \in {0, lateFee[i]}
  BY DEF NotLoaded
<1>5. loaded' = [loaded EXCEPT ![j] = memory]
  BY DEF Scan
<1> HIDE DEF memory
<1>6. LateTypeOK'
  <2>1. jpc' \in [Job -> {"idle", "check"}] /\ runs' \in Nat
        /\ unchecked' \in [Job -> SUBSET Invoice]
    BY DEF LateInv, LateTypeOK, Scan
  <2>2. loaded' \in [Job -> [Invoice -> [status : UNPAID_STATUSES, lateFee : Nat]]]
    BY <1>3, <1>5 DEF LateInv, LateTypeOK
  <2> QED BY <1>2, <2>1, <2>2 DEF LateInv, LateTypeOK, Scan
<1>7. FeeInv'
  <2>1. UNCHANGED <<feeItems, lateFee, penalized>>
    BY DEF Scan
  <2>2. FeeChargedOnce' /\ \A i \in Invoice : lateFee[i] \in {0, Fee[i]}
    BY <1>2, <2>1 DEF LateInv, FeeInv, FeeChargedOnce
  <2>3. \A i \in Invoice :
            /\ lateFee'[i] # 0 => feeItems'[i] > 0
            /\ feeItems'[i] > 0 => feeItems'[i] + Cardinality(Penalizing(i)') <= Cardinality(Job)
    BY <2>1 DEF LateInv, FeeInv, Penalizing
  <2>4. ASSUME NEW k \in Job, NEW i \in Invoice
        PROVE  /\ loaded'[k][i].lateFee \in {0, Fee[i]}
               /\ loaded'[k][i].lateFee # 0 => feeItems'[i] > 0
               /\ i \in penalized'[k] => loaded'[k][i].lateFee = 0
    <3>1. CASE k = j
      <4>1. loaded'[k][i].lateFee \in {0, lateFee[i]}
        BY <3>1, <1>4, <1>5 DEF LateInv, LateTypeOK
      <4>2. penalized[j] = {}
        BY DEF LateInv, FeeInv, Scan
      <4> QED BY <3>1, <4>1, <4>2, <2>1, <2>2 DEF LateInv, FeeInv
    <3>2. CASE k # j
      BY <3>2, <1>5, <2>1 DEF LateInv, LateTypeOK, FeeInv
    <3> QED BY <3>1, <3>2
  <2>5. \A k \in Job : jpc'[k] = "idle" => penalized'[k] = {}
    BY DEF LateInv, LateTypeOK, FeeInv, Scan
  <2> QED BY <2>2, <2>3, <2>4, <2>5 DEF FeeInv
<1> QED BY <1>2, <1>6, <1>7 DEF LateInv

LEMMA CheckItemStep ==
    ASSUME LateInv, NEW j \in Job, NEW i \in Invoice, CheckItem(j, i)
    PROVE  LateInv'
<1>1. UNCHANGED svars
  BY DEF CheckItem
<1>2. SettleInv' /\ AddsUpInv' /\ TypeOK' /\ invoice' = invoice
  BY <1>1, LateQuiet DEF svars, db
<1>3. /\ UNCHANGED <<late, feeItems, lateFee, jpc, loaded, runs>>
      /\ jpc[j] = "check"
      /\ unchecked' \in [Job -> SUBSET Invoice] /\ penalized' \in [Job -> SUBSET Invoice]
      /\ \A k \in Job, h \in Invoice :
            h \in penalized'[k] => h \in penalized[k] \/ (k = j /\ h = i /\ ~HasFee(i))
  BY DEF LateInv, LateTypeOK, CheckItem
<1>4. LateTypeOK'
  BY <1>2, <1>3 DEF LateInv, LateTypeOK
<1>5. FeeInv'
  <2>1. FeeChargedOnce'
    BY <1>2, <1>3 DEF LateInv, FeeInv, FeeChargedOnce
  <2>2. ASSUME NEW h \in Invoice, feeItems'[h] > 0
        PROVE  feeItems'[h] + Cardinality(Penalizing(h)') <= Cardinality(Job)
    <3>1. feeItems'[h] = feeItems[h] /\ feeItems[h] \in Nat
      BY <1>3 DEF LateInv, LateTypeOK
    <3>2. Penalizing(h)' \subseteq Penalizing(h)
      BY <1>3, <2>2 DEF Penalizing, HasFee
    <3> QED BY <2>2, <3>1, <3>2, FewerPenalizing DEF LateInv, FeeInv
  <2>3. ASSUME NEW k \in Job, NEW h \in Invoice, h \in penalized'[k]
        PROVE  loaded'[k][h].lateFee = 0
    <3>1. CASE h \in penalized[k]
      BY <3>1, <1>3 DEF LateInv, FeeInv
    <3>2. CASE k = j /\ h = i /\ ~HasFee(i)
      BY <3>2, <1>3 DEF LateInv, FeeInv, HasFee
    <3> QED BY <2>3, <3>1, <3>2, <1>3
  <2>4. \A k \in Job : jpc'[k] = "idle" => penalized'[k] = {}
    BY <1>3 DEF LateInv, LateTypeOK, FeeInv
  <2> QED BY <1>3, <2>1, <2>2, <2>3, <2>4 DEF LateInv, FeeInv
<1> QED BY <1>2, <1>4, <1>5 DEF LateInv

LEMMA AbortRunStep ==
    ASSUME LateInv, NEW j \in Job, AbortRun(j)
    PROVE  LateInv'
<1>1. UNCHANGED svars
  BY DEF AbortRun
<1>2. SettleInv' /\ AddsUpInv' /\ TypeOK' /\ invoice' = invoice
  BY <1>1, LateQuiet DEF svars, db
<1>3. UNCHANGED <<late, feeItems, lateFee, runs>> /\ EndRun(j) /\ LateTypeOK
  BY DEF AbortRun, LateInv
<1>4. LateTypeOK'
  BY <1>2, <1>3, EndRunFacts DEF LateTypeOK
<1>5. FeeInv'
  <2>1. FeeChargedOnce'
    BY <1>2, <1>3 DEF LateInv, FeeInv, FeeChargedOnce
  <2>2. ASSUME NEW h \in Invoice, feeItems'[h] > 0
        PROVE  feeItems'[h] + Cardinality(Penalizing(h)') <= Cardinality(Job)
    <3>1. feeItems'[h] = feeItems[h] /\ feeItems[h] \in Nat
      BY <1>3 DEF LateTypeOK
    <3>2. Penalizing(h)' \subseteq Penalizing(h)
      BY <1>3, EndRunFacts DEF Penalizing
    <3> QED BY <2>2, <3>1, <3>2, FewerPenalizing DEF LateInv, FeeInv
  <2>3. ASSUME NEW k \in Job, NEW h \in Invoice
        PROVE  /\ loaded'[k][h].lateFee \in {0, Fee[h]}
               /\ loaded'[k][h].lateFee # 0 => feeItems'[h] > 0
               /\ h \in penalized'[k] => loaded'[k][h].lateFee = 0
    <3>1. CASE k = j
      BY <3>1, <1>3, EndRunFacts
    <3>2. CASE k # j
      <4>1. loaded'[k] = loaded[k] /\ penalized'[k] = penalized[k] /\ feeItems' = feeItems
        BY <3>2, <1>3, EndRunFacts
      <4> QED BY <4>1 DEF LateInv, FeeInv
    <3> QED BY <3>1, <3>2
  <2>4. \A k \in Job : jpc'[k] = "idle" => penalized'[k] = {}
    BY <1>3, EndRunFacts DEF LateInv, LateTypeOK, FeeInv, EndRun
  <2> QED BY <1>3, <2>1, <2>2, <2>3, <2>4 DEF LateInv, FeeInv
<1> QED BY <1>2, <1>4, <1>5 DEF LateInv

(* The invoices after the commit of a run: a penalized one has its fee and *)
(* asks for its bill and the fee, and amount_paid is left to the payments. *)
LEMMA CommitFeesFacts ==
    ASSUME LateInv, NEW j \in Job, CommitFees(j)
    PROVE  /\ invoice' \in [Invoice -> InvoiceRow]
           /\ lateFee' \in [Invoice -> Nat] /\ feeItems' \in [Invoice -> Nat]
           /\ \A i \in Invoice : invoice'[i].paid = invoice[i].paid
           /\ \A i \in penalized[j] : /\ i \in Invoice /\ locked[i] = NoSession
                                      /\ lateFee'[i] = Fee[i]
                                      /\ invoice'[i].total = Bill[i] + Fee[i]
                                      /\ feeItems'[i] = feeItems[i] + 1
           /\ \A i \in Invoice \ penalized[j] : /\ invoice'[i] = invoice[i]
                                                /\ lateFee'[i] = lateFee[i]
                                                /\ feeItems'[i] = feeItems[i]
<1> USE DEF LateInv, LateTypeOK
<1>1. ASSUME NEW i \in penalized[j]
      PROVE  /\ i \in Invoice /\ Penalty(j, i) = Fee[i] /\ Bill[i] \in Nat
             /\ Fee[i] \in Nat /\ Charged(j, i) \in InvoiceRow
             /\ Charged(j, i).total = Bill[i] + Fee[i] /\ Charged(j, i).paid = invoice[i].paid
  <2>1. i \in Invoice
    OBVIOUS
  <2>2. Penalty(j, i) = Fee[i] /\ Bill[i] \in Nat /\ Fee[i] \in Nat
    BY <2>1, FeeAssumption, SettlementAssumption DEF FeeInv, Penalty
  <2>3. invoice[i] \in InvoiceRow
    BY <2>1 DEF TypeOK
  <2>4. Overdue(j, i) \in InvoiceStatus
    BY <2>3 DEF Overdue, InvoiceRow, InvoiceStatus
  <2>5. Bill[i] + Fee[i] \in Nat
    BY <2>2
  <2> QED BY <2>1, <2>2, <2>3, <2>4, <2>5 DEF Charged, InvoiceRow
<1>2. \A i \in penalized[j] : locked[i] = NoSession
  BY DEF CommitFees
<1>3. /\ invoice' = [i \in Invoice |-> IF i \in penalized[j] THEN Charged(j, i) ELSE invoice[i]]
      /\ lateFee' = [i \in Invoice |-> IF i \in penalized[j] THEN Penalty(j, i) ELSE lateFee[i]]
      /\ feeItems' = [i \in Invoice |->
                         IF i \in penalized[j] THEN feeItems[i] + 1 ELSE feeItems[i]]
  BY DEF CommitFees
<1>4. invoice' \in [Invoice -> InvoiceRow]
  BY <1>1, <1>3 DEF TypeOK
<1>5. lateFee' \in [Invoice -> Nat] /\ feeItems' \in [Invoice -> Nat]
  BY <1>1, <1>3
<1> QED BY <1>1, <1>2, <1>3, <1>4, <1>5

LEMMA CommitFeesStep ==
    ASSUME LateInv, NEW j \in Job, CommitFees(j)
    PROVE  LateInv'
<1>0. /\ UNCHANGED <<payment, recon, credit, audit, locked, configured, charged, acked, faults,
                     pc, order, via, amount, seen, late, runs>>
      /\ EndRun(j) /\ LateTypeOK /\ SettleInv /\ TypeOK
  BY DEF CommitFees, sess, LateInv, SettleInv
<1>1. TypeOK'
  <2>1. configured' \in BOOLEAN
    BY <1>0 DEF TypeOK
  <2> QED BY <1>0, <2>1, CommitFeesFacts DEF TypeOK
<1>2. SettleInv'
  <2>1. SettledTogether' /\ Fresh' /\ Matched' /\ Blank'
    BY <1>0 DEF SettleInv, SettledTogether, CapturedTogether, Fresh, Matched, Blank
  <2>2. \A i \in Invoice : invoice'[i].total > 0
    <3> SUFFICES ASSUME NEW i \in Invoice PROVE invoice'[i].total > 0
      OBVIOUS
    <3>1. CASE i \in penalized[j]
      BY <3>1, CommitFeesFacts, FeeAssumption, SettlementAssumption
    <3>2. CASE i \notin penalized[j]
      BY <3>2, <1>0, CommitFeesFacts DEF SettleInv
    <3> QED BY <3>1, <3>2
  <2>3. ASSUME NEW s \in Session PROVE Working(s)' /\ Exclusive(s)'
    <3>1. Working(s)'
      BY <1>0 DEF SettleInv, Working, Billed
    <3>2. ASSUME pc[s] = "settle"
          PROVE  seen[s].invoice \in Invoice /\ invoice'[seen[s].invoice] = invoice[seen[s].invoice]
      <4>1. seen[s].invoice \in Invoice /\ locked[seen[s].invoice] = s
        BY <1>0, <3>2 DEF SettleInv, Working, Billed, Exclusive
      <4>2. seen[s].invoice \notin penalized[j]
        BY <4>1, CommitFeesFacts, SettlementAssumption
      <4> QED BY <4>1, <4>2, CommitFeesFacts
    <3>3. Exclusive(s)'
      BY <3>2, <1>0 DEF SettleInv, Exclusive
    <3> QED BY <3>1, <3>3
  <2> QED BY <1>1, <2>1, <2>2, <2>3 DEF SettleInv
<1>3. AddsUpInv'
  BY <1>0, AddsUpKept, CommitFeesFacts DEF LateInv, Captured, PaymentIs
<1>4. LateTypeOK'
  BY <1>0, <1>1, CommitFeesFacts, EndRunFacts DEF LateTypeOK
<1>5. FeeInv'
  <2>1. ASSUME NEW i \in Invoice
        PROVE  /\ lateFee'[i] \in {0, Fee[i]} /\ invoice'[i].total = Bill[i] + lateFee'[i]
               /\ lateFee'[i] # 0 => feeItems'[i] > 0
               /\ feeItems'[i] > 0 => feeItems'[i] + Cardinality(Penalizing(i)') <= Cardinality(Job)
               /\ feeItems'[i] >= feeItems[i] /\ feeItems[i] \in Nat /\ feeItems'[i] \in Nat
    <3>1. feeItems[i] \in Nat
      BY <1>0 DEF LateTypeOK
    <3>2. CASE i \in penalized[j]
      <4>1. /\ lateFee'[i] = Fee[i] /\ invoice'[i].total = Bill[i] + Fee[i]
            /\ feeItems'[i] = feeItems[i] + 1
        BY <3>2, CommitFeesFacts
      <4>2. Penalizing(i)' = Penalizing(i) \ {j} /\ j \in Penalizing(i)
        BY <1>0, <3>2, EndRunFacts DEF Penalizing
      <4>3. IsFiniteSet(Penalizing(i)) /\ Penalizing(i) \subseteq Job
        BY FeeAssumption, FS_Subset DEF Penalizing
      <4>4. /\ Cardinality(Penalizing(i)') = Cardinality(Penalizing(i)) - 1
            /\ Cardinality(Penalizing(i)) \in Nat
            /\ Cardinality(Penalizing(i)) <= Cardinality(Job) /\ Cardinality(Job) \in Nat
        BY <4>2, <4>3, FeeAssumption, FS_RemoveElement, FS_Subset, FS_CardinalityType
      <4>5. feeItems[i] > 0 => feeItems[i] + Cardinality(Penalizing(i)) <= Cardinality(Job)
        BY DEF LateInv, FeeInv
      <4> QED BY <3>1, <4>1, <4>4, <4>5
    <3>3. CASE i \notin penalized[j]
      <4>1. lateFee'[i] = lateFee[i] /\ invoice'[i] = invoice[i] /\ feeItems'[i] = feeItems[i]
        BY <3>3, CommitFeesFacts
      <4>2. Penalizing(i)' \subseteq Penalizing(i)
        BY <1>0, EndRunFacts DEF Penalizing
      <4>3. feeItems[i] > 0 => feeItems'[i] + Cardinality(Penalizing(i)') <= Cardinality(Job)
        BY <3>1, <4>1, <4>2, FewerPenalizing DEF LateInv, FeeInv
      <4> QED BY <3>1, <4>1, <4>3 DEF LateInv, FeeInv, FeeChargedOnce
    <3> QED BY <3>2, <3>3
  <2>2. ASSUME NEW k \in Job, NEW h \in Invoice
        PROVE  /\ loaded'[k][h].lateFee \in {0, Fee[h]}
               /\ loaded'[k][h].lateFee # 0 => feeItems'[h] > 0
               /\ h \in penalized'[k] => loaded'[k][h].lateFee = 0
    <3>1. CASE k = j
      BY <3>1, <1>0, EndRunFacts
    <3>2. CASE k # j
      <4>1. loaded'[k] = loaded[k] /\ penalized'[k] = penalized[k]
        BY <3>2, <1>0, EndRunFacts
      <4> QED BY <4>1, <2>1 DEF LateInv, FeeInv
    <3> QED BY <3>1, <3>2
  <2>3. \A k \in Job : jpc'[k] = "idle" => penalized'[k] = {}
    BY <1>0, EndRunFacts DEF LateInv, LateTypeOK, FeeInv, EndRun
  <2> QED BY <2>1, <2>2, <2>3 DEF FeeInv, FeeChargedOnce
<1> QED BY <1>2, <1>3, <1>4, <1>5 DEF LateInv

LEMMA LateInvStep == LateInv /\ [LateNext]_<<svars, lvars>> => LateInv'
<1> SUFFICES ASSUME LateInv, [LateNext]_<<svars, lvars>> PROVE LateInv'
  OBVIOUS
<1>1. CASE UNCHANGED <<svars, lvars>>
  <2>1. SettleInv' /\ AddsUpInv' /\ TypeOK' /\ invoice' = invoice
    BY <1>1, LateQuiet DEF svars, db
  <2>2. LateTypeOK'
    BY <1>1, <2>1 DEF LateInv, LateTypeOK, lvars, jobs
  <2>3. FeeInv'
    BY <1>1, <2>1 DEF LateInv, FeeInv, FeeChargedOnce, Penalizing, lvars, jobs
  <2> QED BY <2>1, <2>2, <2>3 DEF LateInv
<1> QED BY <1>1, PayingStep, ExpireStep, ScanStep, CheckItemStep, CommitFeesStep, AbortRunStep,
           RestartAllStep DEF LateNext, Run

THEOREM LateInvariant == LateSpec => []LateInv
BY LateInvInit, LateInvStep, PTL DEF LateSpec

(* Every variable of the late-fee runs and of the payment service beside   *)
(* them keeps its type.                                                    *)
THEOREM LateTypeCorrect == LateSpec => []LateTypeOK
BY LateInvariant, PTL DEF LateInv

(* Whatever late-fee runs and settlements overlap, an invoice asks for its *)
(* bill and at most one late fee.                                          *)
THEOREM LateFeeChargedOnce == LateSpec => []FeeChargedOnce
BY LateInvariant, PTL DEF LateInv, FeeInv

(* However many runs there are, an invoice never has more LATE_FEE items   *)
(* than runs can be under way at once.                                     *)
THEOREM LateItemsBounded == LateSpec => []ItemsBounded
<1>1. LateInv => ItemsBounded
  <2> SUFFICES ASSUME LateInv, NEW i \in Invoice PROVE feeItems[i] <= Cardinality(Job)
    BY DEF ItemsBounded
  <2>1. feeItems[i] \in Nat /\ Cardinality(Job) \in Nat
    BY FeeAssumption, FS_CardinalityType DEF LateInv, LateTypeOK
  <2>2. Cardinality(Penalizing(i)) \in Nat
    BY FeeAssumption, FS_Subset, FS_CardinalityType DEF Penalizing
  <2>3. feeItems[i] > 0 => feeItems[i] + Cardinality(Penalizing(i)) <= Cardinality(Job)
    BY DEF LateInv, FeeInv
  <2> QED BY <2>1, <2>2, <2>3
<1> QED BY <1>1, LateInvariant, PTL

(* The runs lose no payment: amount_paid stays the sum of the captured     *)
(* payments while they rewrite totals and statuses.                        *)
THEOREM LateAddsUp == LateSpec => []InvoiceAddsUp
BY LateInvariant, AddsUpMeans, PTL DEF LateInv

(* Nor do they touch a capture: it stays in one piece.                     *)
THEOREM LateTogether == LateSpec => []SettledTogether
BY LateInvariant, PTL DEF LateInv, SettleInv

(* Nor does one change a captured payment. *)
THEOREM LateFinal == LateSpec => CaptureIsFinal
<1>1. LateInv /\ [LateNext]_<<svars, lvars>> => [Final]_svars
  <2> SUFFICES ASSUME LateInv, LateNext, ~UNCHANGED svars PROVE Final
    BY DEF svars
  <2>1. CASE Paying \/ RestartAll
    BY <2>1, PayingIsSettlement, FinalStep DEF LateInv
  <2>2. ASSUME NEW j \in Job, CommitFees(j) PROVE Final
    BY <2>2 DEF CommitFees, Final
  <2> QED BY <2>1, <2>2 DEF LateNext, Run, Expire, Scan, CheckItem, AbortRun
<1> QED BY <1>1, LateInvariant, PTL DEF LateSpec, CaptureIsFinal, Final

(* Nor do they lose one that the provider will not report again. *)
THEOREM LateAcked == LateSpec => []AckedIsRecorded
<1>1. LateInit => AckInv
  BY AckInitially DEF LateInit
<1>2. LateInv /\ AckInv /\ [LateNext]_<<svars, lvars>> => AckInv'
  <2> SUFFICES ASSUME LateInv, AckInv, [LateNext]_<<svars, lvars>> PROVE AckInv'
    OBVIOUS
  <2>1. CASE UNCHANGED svars \/ Paying \/ RestartAll
    BY <2>1, PayingIsSettlement, AckStep DEF LateInv
  <2>2. ASSUME NEW j \in Job, CommitFees(j) PROVE AckInv'
    BY <2>2 DEF CommitFees, sess, AckInv, PaymentIs
  <2> QED BY <2>1, <2>2 DEF LateNext, Run, Expire, Scan, CheckItem, AbortRun
<1>3. LateInv => SettleInv
  BY DEF LateInv
<1> QED BY <1>1, <1>2, <1>3, AckMeans, LateInvariant, PTL DEF LateSpec

=============================================================================
