--------------------------- MODULE BillingProofs ---------------------------
(***************************************************************************)
(* Proofs about Billing: for any users, plans and number of overlapping    *)
(* runs, a resident is invoiced once, a run that commits leaves nobody it  *)
(* read out, and nobody is told of an invoice that was rolled back.        *)
(***************************************************************************)
EXTENDS Billing, TLAPS

Busy == {"check", "insert"}

(* Where a run is tells what it holds. *)
Held(r) ==
    /\ pc[r] = "insert" => current[r] \in Key
    /\ pc[r] # "insert" => current[r] = NoKey
    /\ pc[r] \notin Busy => staged[r] = {}
    /\ pc[r] = "idle" => mailing[r] = {}
    /\ pc[r] \in Busy => mailing[r] \subseteq staged[r]
    /\ pc[r] \notin Busy => \A k \in mailing[r] : billed[k] > 0

(* An uncommitted invoice is of one run, and of nobody else's committed.   *)
Exclusive ==
    /\ \A r, s \in Run : r # s => staged[r] \cap staged[s] = {}
    /\ \A r \in Run : \A k \in staged[r] : billed[k] = 0

(* A pair the run has been past has an invoice, or one under way. *)
Settled(r, k) ==
    \/ billed[k] > 0
    \/ pc[r] \in Busy /\ (k \in todo[r] \/ k = current[r] \/ k \in staged[r])

Visited == \A r \in Run : pc[r] # "idle" => \A k \in scope[r] : Settled(r, k)

BillInv ==
    /\ BillTypeOK
    /\ InvoicedOnce
    /\ ToldOfReal
    /\ \A r \in Run : Held(r)
    /\ Exclusive
    /\ Visited

-----------------------------------------------------------------------------

LEMMA BillInitially == BillInit => BillInv
  BY RunAssumption DEF BillInit, BillInv, BillTypeOK, InvoicedOnce, ToldOfReal, Held,
     Exclusive, Visited, Busy, PC

(* A rolled back run leaves the others as they are. *)
LEMMA EndRunKeeps ==
    ASSUME BillInv, NEW r \in Run, EndRun(r), UNCHANGED tables, faults' \in Nat, starts' \in Nat
    PROVE  BillInv'
<1> USE DEF tables, EndRun
<1>1. BillTypeOK'
  BY DEF BillInv, BillTypeOK, PC
<1>2. InvoicedOnce' /\ ToldOfReal'
  BY DEF BillInv, InvoicedOnce, ToldOfReal
<1>3. \A s \in Run : Held(s)'
  BY DEF BillInv, BillTypeOK, Held, Busy
<1>4. Exclusive'
  BY DEF BillInv, BillTypeOK, Exclusive
<1>5. Visited'
  BY DEF BillInv, BillTypeOK, Visited, Settled, Busy
<1> QED BY <1>1, <1>2, <1>3, <1>4, <1>5 DEF BillInv

LEMMA ScanKeeps ==
    ASSUME BillInv, NEW r \in Run, Scan(r)
    PROVE  BillInv'
<1> USE DEF tables, Scan
<1>1. Pairs \subseteq Key
  BY DEF BillInv, BillTypeOK, Pairs, Key
<1>2. BillTypeOK'
  BY <1>1 DEF BillInv, BillTypeOK, PC
<1>3. InvoicedOnce' /\ ToldOfReal'
  BY DEF BillInv, InvoicedOnce, ToldOfReal
<1>4. \A s \in Run : Held(s)'
  BY DEF BillInv, BillTypeOK, Held, Busy
<1>5. Exclusive'
  BY DEF BillInv, BillTypeOK, Exclusive
<1>6. Visited'
  BY DEF BillInv, BillTypeOK, Visited, Settled, Busy
<1> QED BY <1>2, <1>3, <1>4, <1>5, <1>6 DEF BillInv

LEMMA CheckKeeps ==
    ASSUME BillInv, NEW r \in Run, NEW k \in Key, Check(r, k)
    PROVE  BillInv'
<1> USE DEF tables, Check, Turn, HasInvoice
<1>1. BillTypeOK'
  BY DEF BillInv, BillTypeOK, PC
<1>2. InvoicedOnce' /\ ToldOfReal'
  BY DEF BillInv, InvoicedOnce, ToldOfReal
<1>3. \A s \in Run : Held(s)'
  BY DEF BillInv, BillTypeOK, Held, Busy
<1>4. Exclusive'
  BY DEF BillInv, BillTypeOK, Exclusive
<1>5. Visited'
  <2> SUFFICES ASSUME NEW s \in Run, pc'[s] # "idle", NEW q \in scope'[s]
               PROVE  Settled(s, q)'
    BY DEF Visited
  <2>1. pc[s] # "idle" /\ q \in scope[s] /\ Settled(s, q)
    BY DEF BillInv, BillTypeOK, Visited
  <2>2. CASE s # r
    BY <2>1, <2>2 DEF BillInv, BillTypeOK, Settled
  <2>3. CASE s = r
    BY <2>1, <2>3, RunAssumption DEF BillInv, BillTypeOK, Settled, Held, Busy
  <2> QED BY <2>2, <2>3
<1> QED BY <1>1, <1>2, <1>3, <1>4, <1>5 DEF BillInv

(* The unique constraint is what keeps Exclusive: the row is neither       *)
(* committed nor anybody else's.                                           *)
LEMMA InsertKeeps ==
    ASSUME BillInv, NEW r \in Run, Insert(r)
    PROVE  BillInv'
<1> USE DEF tables, Insert
<1>1. current[r] \in Key /\ billed[current[r]] = 0
  BY DEF BillInv, BillTypeOK, Held, Taken
<1>2. BillTypeOK'
  BY <1>1 DEF BillInv, BillTypeOK, PC
<1>3. InvoicedOnce' /\ ToldOfReal'
  BY DEF BillInv, InvoicedOnce, ToldOfReal
<1>4. \A s \in Run : Held(s)'
  BY DEF BillInv, BillTypeOK, Held, Busy
<1>5. Exclusive'
  <2>1. \A s \in Run : s # r => current[r] \notin staged[s]
    BY DEF Holders
  <2> QED BY <1>1, <2>1 DEF BillInv, BillTypeOK, Exclusive
<1>6. Visited'
  BY DEF BillInv, BillTypeOK, Visited, Settled, Busy
<1> QED BY <1>2, <1>3, <1>4, <1>5, <1>6 DEF BillInv

(* The staged invoices become visible, each of them for the first time.    *)
LEMMA CommitKeeps ==
    ASSUME BillInv, NEW r \in Run, CommitRun(r)
    PROVE  BillInv'
<1> USE DEF CommitRun
<1>1. \A k \in staged[r] : k \in Key /\ billed[k] = 0 /\ billed'[k] = 1
  BY DEF BillInv, BillTypeOK, Exclusive
<1>2. \A k \in Key : k \notin staged[r] => billed'[k] = billed[k]
  BY DEF BillInv, BillTypeOK
<1>3. BillTypeOK'
  BY DEF BillInv, BillTypeOK, PC
<1>4. InvoicedOnce' /\ ToldOfReal'
  <2> SUFFICES ASSUME NEW k \in Key
               PROVE  billed'[k] <= 1 /\ (mails'[k] > 0 => billed'[k] > 0)
    BY DEF InvoicedOnce, ToldOfReal
  <2>1. CASE k \in staged[r]
    BY <2>1, <1>1
  <2>2. CASE k \notin staged[r]
    BY <2>2, <1>2 DEF BillInv, InvoicedOnce, ToldOfReal
  <2> QED BY <2>1, <2>2
<1>5. \A s \in Run : Held(s)'
  <2> SUFFICES ASSUME NEW s \in Run PROVE Held(s)'
    OBVIOUS
  <2>1. \A k \in Key : billed[k] > 0 => billed'[k] > 0
    BY <1>1, <1>2 DEF BillInv, BillTypeOK
  <2>2. CASE s = r
    BY <2>2, <1>1 DEF BillInv, BillTypeOK, Held, Busy
  <2>3. CASE s # r
    BY <2>1, <2>3 DEF BillInv, BillTypeOK, Held, Busy
  <2> QED BY <2>2, <2>3
<1>6. Exclusive'
  BY <1>2 DEF BillInv, BillTypeOK, Exclusive
<1>7. Visited'
  <2> SUFFICES ASSUME NEW s \in Run, pc'[s] # "idle", NEW q \in scope'[s]
               PROVE  Settled(s, q)'
    BY DEF Visited
  <2>1. pc[s] # "idle" /\ q \in scope[s] /\ q \in Key /\ Settled(s, q)
    BY DEF BillInv, BillTypeOK, Visited
  <2>2. billed[q] > 0 => billed'[q] > 0
    BY <2>1, <1>1, <1>2 DEF BillInv, BillTypeOK
  <2>3. CASE s # r
    BY <2>1, <2>2, <2>3 DEF BillInv, BillTypeOK, Settled
  <2>4. CASE s = r
    BY <2>1, <2>2, <2>4, <1>1, RunAssumption DEF BillInv, BillTypeOK, Settled, Held
  <2> QED BY <2>3, <2>4
<1> QED BY <1>3, <1>4, <1>5, <1>6, <1>7 DEF BillInv

LEMMA TellingKeeps ==
    ASSUME BillInv, NEW r \in Run, NEW k \in Key, Tell(r, k) \/ Lose(r, k)
    PROVE  BillInv'
<1> USE DEF Telling, Tell, Lose
<1>1. billed[k] > 0
  BY DEF BillInv, BillTypeOK, Held, Busy
<1>2. mails' \in [Key -> 0 .. 2] /\ \A q \in Key : q # k => mails'[q] = mails[q]
  BY DEF BillInv, BillTypeOK
<1>3. BillTypeOK'
  BY <1>2 DEF BillInv, BillTypeOK, PC
<1>4. InvoicedOnce'
  BY DEF BillInv, InvoicedOnce
<1>5. ToldOfReal'
  BY <1>1, <1>2 DEF BillInv, ToldOfReal
<1>6. \A s \in Run : Held(s)'
  BY DEF BillInv, BillTypeOK, Held, Busy
<1>7. Exclusive'
  BY DEF BillInv, Exclusive
<1>8. Visited'
  BY DEF BillInv, Visited, Settled
<1> QED BY <1>3, <1>4, <1>5, <1>6, <1>7, <1>8 DEF BillInv

LEMMA AgainKeeps ==
    ASSUME BillInv, NEW r \in Run, Again(r)
    PROVE  BillInv'
<1> USE DEF tables, Again
<1>1. EmailNewInvoices(r) \subseteq Key /\ \A k \in EmailNewInvoices(r) : billed[k] > 0
  BY DEF EmailNewInvoices
<1>2. BillTypeOK'
  BY <1>1 DEF BillInv, BillTypeOK, PC
<1>3. InvoicedOnce' /\ ToldOfReal'
  BY DEF BillInv, InvoicedOnce, ToldOfReal
<1>4. \A s \in Run : Held(s)'
  BY <1>1 DEF BillInv, BillTypeOK, Held, Busy
<1>5. Exclusive'
  BY DEF BillInv, Exclusive
<1>6. Visited'
  BY DEF BillInv, BillTypeOK, Visited, Settled, Busy
<1> QED BY <1>2, <1>3, <1>4, <1>5, <1>6 DEF BillInv

-----------------------------------------------------------------------------

LEMMA BillStep == BillInv /\ [BillNext]_bvars => BillInv'
<1> SUFFICES ASSUME BillInv, [BillNext]_bvars PROVE BillInv'
  OBVIOUS
<1>1. ASSUME NEW u \in User, ChangeRole(u) PROVE BillInv'
  BY <1>1 DEF ChangeRole, work, BillInv, BillTypeOK, InvoicedOnce, ToldOfReal, Held,
     Exclusive, Visited, Settled
<1>2. ASSUME NEW p \in Plan, UpdatePlan(p) PROVE BillInv'
  BY <1>2 DEF UpdatePlan, work, BillInv, BillTypeOK, InvoicedOnce, ToldOfReal, Held,
     Exclusive, Visited, Settled
<1>3. ASSUME NEW r \in Run, Step(r) PROVE BillInv'
  <2>1. ASSUME NEW k \in Key, Check(r, k) PROVE BillInv'
    BY <2>1, CheckKeeps
  <2>2. ASSUME NEW k \in Key, Tell(r, k) PROVE BillInv'
    BY <2>2, TellingKeeps
  <2>3. CASE Insert(r)
    BY <2>3, InsertKeeps
  <2>4. CASE Collide(r) \/ Victim(r) \/ Done(r)
    <3>1. EndRun(r) /\ UNCHANGED tables /\ faults' \in Nat /\ starts' \in Nat
      BY <2>4 DEF Collide, Refused, Victim, Done, BillInv, BillTypeOK
    <3> QED BY <3>1, EndRunKeeps
  <2>5. CASE CommitRun(r)
    BY <2>5, CommitKeeps
  <2>6. CASE Again(r)
    BY <2>6, AgainKeeps
  <2> QED BY <1>3, <2>1, <2>2, <2>3, <2>4, <2>5, <2>6 DEF Step
<1>4. ASSUME NEW r \in Run, Scan(r) PROVE BillInv'
  BY <1>4, ScanKeeps
<1>5. ASSUME NEW r \in Run, AbortRun(r) PROVE BillInv'
  <2>1. EndRun(r) /\ UNCHANGED tables /\ faults' \in Nat /\ starts' \in Nat
    BY <1>5 DEF AbortRun, BillInv, BillTypeOK
  <2> QED BY <2>1, EndRunKeeps
<1>6. ASSUME NEW r \in Run, NEW k \in Key, Lose(r, k) PROVE BillInv'
  BY <1>6, TellingKeeps
<1>7. CASE UNCHANGED bvars
  BY <1>7 DEF bvars, tables, work, BillInv, BillTypeOK, InvoicedOnce, ToldOfReal, Held,
     Exclusive, Visited, Settled
<1> QED BY <1>1, <1>2, <1>3, <1>4, <1>5, <1>6, <1>7 DEF BillNext

(* The inductive invariant: what a run holds where, who may have an        *)
(* uncommitted invoice, and what has become of each pair it has been past. *)
THEOREM BillInvariant == BillSpec => []BillInv
  BY BillInitially, BillStep, PTL DEF BillSpec

(* Every variable of the billing run has its type. *)
THEOREM BillTypeCorrect == BillSpec => []BillTypeOK
<1>1. BillInv => BillTypeOK
  BY DEF BillInv
<1> QED BY <1>1, BillInvariant, PTL

(* However the runs overlap, a resident has one invoice of a plan.         *)
THEOREM BilledOnce == BillSpec => []InvoicedOnce
<1>1. BillInv => InvoicedOnce
  BY DEF BillInv
<1> QED BY <1>1, BillInvariant, PTL

(* A run past its commit has left no pair it read without an invoice.      *)
THEOREM BillCovers == BillSpec => []RunCovers
<1>1. BillInv => RunCovers
  BY DEF BillInv, BillTypeOK, Visited, Settled, RunCovers, Busy
<1> QED BY <1>1, BillInvariant, PTL

(* Nobody is told of an invoice that was rolled back.                      *)
THEOREM BillToldOfReal == BillSpec => []ToldOfReal
<1>1. BillInv => ToldOfReal
  BY DEF BillInv
<1> QED BY <1>1, BillInvariant, PTL
=============================================================================
