----------------------------- MODULE FundLedger -----------------------------
(***************************************************************************)
(* The maintenance fund of app/services/fund_service.py.  Every handler    *)
(* that moves money (payment capture, expense creation and revision, the   *)
(* recurring-expense run, manual postings) is one database session that    *)
(* performs one or more movements on the default fund and then commits or  *)
(* rolls back.  Sessions run concurrently: FastAPI serves each request on  *)
(* a worker thread with a session of its own (app/core/database.py), and   *)
(* PostgreSQL runs them at READ COMMITTED.                                 *)
(*                                                                         *)
(* A movement is four steps against the database:                          *)
(*   - SELECT the fund by name, or INSERT it when it is missing            *)
(*     (get_or_create_default_fund); the row becomes an object of the      *)
(*     session, with the balance it had at that moment;                    *)
(*   - SELECT ... FOR UPDATE of the same row (_apply).  The row is locked, *)
(*     but the object is already in the session's identity map and the     *)
(*     query does not say populate_existing(), so SQLAlchemy keeps the     *)
(*     balance loaded before the lock was granted;                         *)
(*   - the checks and the arithmetic of _apply, in memory;                 *)
(*   - the commit, which writes the balance as an absolute value.          *)
(* A handler that raises leaves its transaction open: no handler rolls     *)
(* back, and the row stays locked until get_db closes the session, which   *)
(* FastAPI schedules from its event loop.  The webhook handler is an async *)
(* def that runs its database calls on that loop and occupies it meanwhile *)
(* (app/routers/payments.py); all the others run on worker threads.        *)
(***************************************************************************)
EXTENDS Ledger

CONSTANTS
    Session,        \* request handlers with a database session
    NoSession,      \* holder of a row nobody has locked
    OnLoop,         \* of the sessions, the webhook's: they run on the event loop
    Amount,         \* amounts a request can carry
    MaxBatch,       \* bound: movements of one recurring-expense run
    MaxRows         \* bound: no request starts on a ledger this long

ASSUME SessionAssumption == NoSession \notin Session /\ OnLoop \subseteq Session
ASSUME AmountAssumption == Amount \subseteq Int
ASSUME BoundAssumption == MaxBatch \in Nat /\ MaxRows \in Nat

VARIABLES
    created,        \* the default fund's row has been committed
    holder,         \* session that inserted or locked the fund row, uncommitted
    pc,             \* where each session is
    todo,           \* movements each session still has to apply
    seen,           \* balance of the fund object in each session's memory
    staged          \* fund_transactions rows each session will insert

fvars == <<balance, ledger, created, holder, pc, todo, seen, staged>>

local == <<todo, seen, staged>>

PC == {"idle", "select", "insert", "lock", "apply", "commit", "raised"}

-----------------------------------------------------------------------------
(* What the callers ask for. *)

CreditMaintenancePayment(a) ==
    [type |-> "CREDIT", source |-> "MAINTENANCE_PAYMENT", amount |-> a]

ManualTransaction(t, a) ==
    [type |-> t,
     source |-> IF t = "CREDIT" THEN "MANUAL_CREDIT" ELSE "MANUAL_DEBIT",
     amount |-> a]

(* A mutation of DebitForExpense: a source outside the enum. *)
DebitForExpense_Typo(a) ==
    [type |-> "DEBIT", source |-> "EXPENSES", amount |-> a]

DebitForExpense(a) ==
    [type |-> "DEBIT", source |-> "EXPENSE", amount |-> a]

ExpenseRefund(a) ==
    [type |-> "CREDIT", source |-> "ADJUSTMENT", amount |-> a]

CreditRequest == {<<CreditMaintenancePayment(a)>> : a \in Amount}

(* The recurring-expense run debits the fund once per due definition, all  *)
(* in one transaction; every other caller moves money once.                *)
RecurringRun ==
    UNION {[1 .. n -> {DebitForExpense(a) : a \in Amount}] : n \in 1 .. MaxBatch}

Request ==
    CreditRequest
      \cup {<<ManualTransaction(t, a)>> : t \in Direction, a \in Amount}
      \cup {<<ExpenseRefund(a)>> : a \in Amount}
      \cup RecurringRun

-----------------------------------------------------------------------------

FundInit ==
    /\ Init
    /\ created = FALSE
    /\ holder = NoSession
    /\ pc = [s \in Session |-> "idle"]
    /\ todo = [s \in Session |-> <<>>]
    /\ seen = [s \in Session |-> 0]
    /\ staged = [s \in Session |-> <<>>]

(* No webhook is using the event loop. *)
LoopFree == \A w \in OnLoop : pc[w] \in {"idle", "raised"}

(* A mutation of HolderAfter: the connection goes back to the pool with    *)
(* its transaction still open.                                             *)
HolderAfter_Leaked(s) == holder

HolderAfter(s) == IF holder = s THEN NoSession ELSE holder

(* The transaction is undone and the row it inserted or locked is free.    *)
Rollback(s) ==
    /\ pc' = [pc EXCEPT ![s] = "idle"]
    /\ holder' = HolderAfter(s)
    /\ todo' = [todo EXCEPT ![s] = <<>>]
    /\ seen' = [seen EXCEPT ![s] = 0]
    /\ staged' = [staged EXCEPT ![s] = <<>>]
    /\ UNCHANGED <<balance, ledger, created>>

(* The event loop dispatches a request. *)
Begin(s) ==
    /\ pc[s] = "idle" /\ LoopFree
    /\ Len(ledger) < MaxRows
    /\ \E request \in IF s \in OnLoop THEN CreditRequest ELSE Request :
           todo' = [todo EXCEPT ![s] = request]
    /\ pc' = [pc EXCEPT ![s] = "select"]
    /\ UNCHANGED <<balance, ledger, created, holder, seen, staged>>

(* Mutations of Readable: a read that sees another session's uncommitted   *)
(* balance; a batch whose later movements reload the committed balance and *)
(* forget the pending change of the earlier ones.                          *)
Readable_Uncommitted(s) == IF holder = NoSession THEN balance ELSE seen[holder]
Readable_Reloaded(s) == balance

(* The balance a SELECT of the fund leaves in the session's object: the    *)
(* committed one, or the session's own pending one when it has changed it. *)
Readable(s) == IF holder = s THEN seen[s] ELSE balance

(* get_or_create_default_fund.  In a batch the second and later movements  *)
(* find the row this session already holds, with its own changes.          *)
SelectFund(s) ==
    /\ pc[s] = "select"
    /\ IF created \/ holder = s
         THEN /\ seen' = [seen EXCEPT ![s] = Readable(s)]
              /\ pc' = [pc EXCEPT ![s] = "lock"]
         ELSE /\ pc' = [pc EXCEPT ![s] = "insert"]
              /\ UNCHANGED seen
    /\ UNCHANGED <<balance, ledger, created, holder, todo, staged>>

(* The flush of the new row waits on the unique name while another session *)
(* has inserted it and not committed; if that session commits, the flush   *)
(* raises IntegrityError, which nobody catches.                            *)
InsertFund(s) ==
    /\ pc[s] = "insert"
    /\ holder = NoSession
    /\ ~created
    /\ holder' = s
    /\ seen' = [seen EXCEPT ![s] = 0]
    /\ pc' = [pc EXCEPT ![s] = "lock"]
    /\ UNCHANGED <<balance, ledger, created, todo, staged>>

InsertFails(s) ==
    /\ pc[s] = "insert"
    /\ created
    /\ Rollback(s)

(* FOR UPDATE waits while another session holds the row. *)
Lockable(s) == holder \in {NoSession, s}

(* SELECT ... FOR UPDATE.  seen[s] stays what it was: see the header. *)
LockFund(s) ==
    /\ pc[s] = "lock"
    /\ Lockable(s)
    /\ holder' = s
    /\ pc' = [pc EXCEPT ![s] = "apply"]
    /\ UNCHANGED <<balance, ledger, created, local>>

(* A mutation of Acceptable: the balance check is gone. *)
Acceptable_Unchecked(m, b) == m.amount > 0

(* The checks of _apply: a positive amount, and no debit beyond the        *)
(* balance of the object in memory.                                        *)
Acceptable(m, b) == m.amount > 0 /\ (m.type = "DEBIT" => b >= m.amount)

(* A mutation of RowOf: the row records the balance it started from. *)
RowOf_Before(m, b) ==
    [type |-> m.type, source |-> m.source, amount |-> m.amount,
     balance_after |-> b - Signed(m)]

(* The FundTransaction row of movement m, which left balance b behind. *)
RowOf(m, b) ==
    [type |-> m.type, source |-> m.source, amount |-> m.amount,
     balance_after |-> b]

Apply(s) ==
    LET m == Head(todo[s])
        after == seen[s] + Signed(m)
    IN  /\ pc[s] = "apply"
        /\ Acceptable(m, seen[s])
        /\ seen' = [seen EXCEPT ![s] = after]
        /\ staged' = [staged EXCEPT ![s] = Append(@, RowOf(m, after))]
        /\ todo' = [todo EXCEPT ![s] = Tail(@)]
        /\ pc' = [pc EXCEPT ![s] =
                     IF Tail(todo[s]) = <<>> THEN "commit" ELSE "select"]
        /\ UNCHANGED <<balance, ledger, created, holder>>

(* FundError or InsufficientFunds: the handler raises, its transaction     *)
(* still open.                                                             *)
Reject(s) ==
    /\ pc[s] = "apply"
    /\ ~Acceptable(Head(todo[s]), seen[s])
    /\ pc' = [pc EXCEPT ![s] = "raised"]
    /\ UNCHANGED <<balance, ledger, created, holder, local>>

(* The event loop runs get_db's exit: the whole request is undone, earlier *)
(* movements of the batch included, and the client gets its error.         *)
Close(s) ==
    /\ pc[s] = "raised" /\ LoopFree
    /\ Rollback(s)

Commit(s) ==
    /\ pc[s] = "commit"
    /\ balance' = seen[s]
    /\ ledger' = ledger \o staged[s]
    /\ created' = TRUE
    /\ holder' = NoSession
    /\ pc' = [pc EXCEPT ![s] = "idle"]
    /\ seen' = [seen EXCEPT ![s] = 0]
    /\ staged' = [staged EXCEPT ![s] = <<>>]
    /\ UNCHANGED todo

(* The connection drops: the transaction never commits. *)
Abort(s) ==
    /\ pc[s] # "idle"
    /\ Rollback(s)

(* The program's own steps, without the faults. *)
Step(s) ==
    \/ SelectFund(s) \/ InsertFund(s) \/ InsertFails(s)
    \/ LockFund(s) \/ Apply(s) \/ Reject(s) \/ Close(s) \/ Commit(s)

FundNext == \E s \in Session : Begin(s) \/ Step(s) \/ Abort(s)

(* A worker thread keeps running its handler (weak fairness), and          *)
(* PostgreSQL queues the waiters of a row lock, so a session that finds    *)
(* the row free again and again is eventually granted it (strong); so does *)
(* the event loop with what is scheduled on it.                            *)
Fairness ==
    \A s \in Session :
        /\ WF_fvars(Step(s))
        /\ SF_fvars(InsertFund(s))
        /\ SF_fvars(LockFund(s))
        /\ SF_fvars(Close(s))

FundSpec == FundInit /\ [][FundNext]_fvars

FairFundSpec == FundSpec /\ Fairness

(* Requests one at a time, as the test suite issues them through its one   *)
(* shared session (tests/conftest.py): none starts while another is open.  *)
SerialNext ==
    \E s \in Session :
        \/ Begin(s) /\ \A t \in Session : pc[t] = "idle"
        \/ Step(s)
        \/ Abort(s)

SerialSpec == FundInit /\ [][SerialNext]_fvars

-----------------------------------------------------------------------------

(* Every variable has its type. *)
TypeOK ==
    /\ balance \in Int
    /\ ledger \in Seq(Row)
    /\ created \in BOOLEAN
    /\ holder \in Session \cup {NoSession}
    /\ pc \in [Session -> PC]
    /\ todo \in [Session -> Seq(Movement)]
    /\ seen \in [Session -> Int]
    /\ staged \in [Session -> Seq(Row)]

(* The published balance is the one the newest ledger row recorded,        *)
(* whatever requests interleave, fail or are rolled back.                  *)
BalanceIsLastSnapshot == balance = Snapshot(ledger, Len(ledger))

(* Every row's snapshot was computed from a balance that had really been   *)
(* committed (or from the empty fund): no request ever builds on another   *)
(* request's work that was then rolled back.                               *)
Grounded(rows, i) ==
    \E j \in 0 .. (i - 1) :
        rows[i].balance_after = Snapshot(rows, j) + Signed(rows[i])

SnapshotsGrounded == \A i \in 1 .. Len(ledger) : Grounded(ledger, i)

(* The fund never shows a negative balance, nor does any row of the        *)
(* ledger, although a debit is checked against a balance that may be out   *)
(* of date.                                                                *)
NeverOverdrawn ==
    /\ balance >= 0
    /\ \A i \in 1 .. Len(ledger) : ledger[i].balance_after >= 0

(* Two requests never have uncommitted ledger rows at once: whoever has    *)
(* any holds the fund row.                                                 *)
WritersSerialized == \A s \in Session : staged[s] # <<>> => holder = s

(* The ledger can be replayed: "Balance snapshot after this transaction -  *)
(* makes the ledger fully reconstructable and auditable"                   *)
(* (app/models/fund.py).  True of requests issued one at a time.           *)
SnapshotChain == \A i \in 1 .. Len(ledger) : Chained(ledger, i)

(* The fund service, one request at a time, is the ledger it promises:     *)
(* every commit posts a whole chained batch and nothing else is visible.   *)
Promise == INSTANCE Ledger

ImplementsLedger == Promise!Spec

(* Every request is answered: no session waits for the fund row for ever,  *)
(* provided the worker threads keep running.  True as long as no webhook   *)
(* reaches the application, that is, without provider credentials.         *)
RequestsFinish == \A s \in Session : pc[s] # "idle" ~> pc[s] = "idle"

(* "Debits that would go negative roll back atomically (409)"              *)
(* (system-design.md): a request the fund refused does roll back.          *)
RefusedRollsBack == \A s \in Session : pc[s] = "raised" ~> pc[s] = "idle"
=============================================================================
