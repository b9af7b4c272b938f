# Society Maintenance Tracker: a TLA+ model and its proofs

The tracker is a FastAPI service (`src/backend/app`) over PostgreSQL, with a React
client, an optional Celery worker and an optional Redis cache. It bills a housing
society's residents, takes their payments, keeps the society's fund and its expenses,
and runs its complaint desk. This directory models the parts of it that move money or
make promises over time, checks them with TLC and proves what matters most with TLAPS.

## How the program runs, and what that means for the models

* FastAPI serves a plain `def` handler on a worker thread and an `async def` handler on
  the event loop. Each request has a database session of its own (`core/database.py`,
  `autoflush=False`), closed by `get_db` when the request is over. So a model has a set
  of sessions (or runs) that interleave at every database step.
* PostgreSQL runs at READ COMMITTED: a SELECT sees what is committed when it runs,
  `FOR UPDATE` and an insert under a unique constraint wait for the other session, and
  a cycle of waiting sessions is broken by rolling one back.
* SQLAlchemy keeps the values a session first loaded (its identity map) until a commit,
  and an UPDATE sends only the columns the session changed. The models therefore give
  each session its own copy of the row (`seen`, `loaded`) and say column by column what a commit
  writes.
* A process may die between any two steps. No handler catches a commit that fails.

Those four facts are where the behaviour that a test hardly reaches comes from: a
check made on a row another session then changes, a value written from a stale copy,
a transaction that is half done, a wait that never ends, a report that is repeated.

## Inventory

| Component | State | Operations | Interacts with | What makes it correct |
|---|---|---|---|---|
| Maintenance fund (`fund_service`, `models/fund`) | balance, ledger rows with a balance snapshot | credit of a payment, debit of an expense, refund, manual posting, recurring batch | called inside the transactions of payments and expenses | balance = last snapshot; replayable ledger; never negative; refused batch leaves nothing |
| Payments (`payment_service`, `routers/payments`) | payments, reconciliations, `amount_paid` and status of invoices | initiate, capture (webhook, verify, simulate), unmatched webhook, review | provider, invoices, fund, audit | each capture counted once, all or nothing, final; charged money is recorded |
| Late fees (`apply_late_fees`) | invoices, LATE_FEE items | the run, from cron and from the accountant | payments: same invoice rows | the fee once; no payment lost; only unpaid invoices |
| Billing run (`generate_invoices_for_period`) | invoices per resident, plan and period | the run, from cron and from the accountant | users, plans, notifications | one invoice each, nobody left out, nobody told of what was rolled back |
| Complaint desk (`routers/complaints`, `complaint_service`) | complaint, history, audit rows | file, change status, change priority | notifications | status agrees with the timeline; closed stays closed |
| Expense book (`expense_service`, `routers/accounting`) | expenses, recurring definitions with the month of their next run | create, revise, define, recurring run | fund | an expense has cost the fund its amount; each month of a definition is charged |
| Notifications (`notification_service`, `workers/`) | notification rows, tasks in the broker | create, deliver inline or by Celery | every component | mailed no more often than handed over; settled ones left alone; pending ones come to an outcome |
| Notices (`routers/notices`) | notices | post, change, delete, announce | notifications | an important notice is sent to every resident |
| Dashboards (`routers/dashboards`, `core/cache`) | Redis entries with a time to live | read through, invalidate by prefix | invalidated by the writers | staleness bounded by the time to live |
| Accounts and roles (`routers/auth`, `routers/users`) | users, reset links | register, sign in, forget, reset and change a password, change a role | everybody | a spent link is spent for good; somebody can administrate |
| Documents, SLA, audit | rows and stored files | upload, list; date arithmetic; append | - | a row has its file; due dates are right |

The rest (schemas, configuration, migrations, client, deployment) keeps no state of its
own that a model would tell apart; PROJECT.json gives the reason component by
component, and lists every hazard at its line.

## Modules

### Ledger and FundLedger

`Ledger` is the promise of `models/fund.py`: a request posts a non-empty batch of rows,
each continuing the one before, never below zero, and the balance is the last row's.
`FundLedger` is the program. A movement is SELECT (or INSERT) of the default fund,
`SELECT ... FOR UPDATE`, the checks and arithmetic of `_apply`, and the commit: the
actions `SelectFund`, `InsertFund`/`InsertFails`, `LockFund`, `Apply`/`Reject`,
`Commit`. A refused request is `Close`d by the event loop, which a webhook (the sessions in `OnLoop`)
occupies while it runs. The balance of the object in memory (`seen`) is the one loaded
before the lock was granted, because the locking query does not say
`populate_existing()`.

### Settlement

Invoices, payments, reconciliations, fund credits and audit rows, with the provider
(`Pay`, the repeated `Webhook`, `acked`) as its environment. `capture_success` is
`BeginCapture` (unlocked read of the payment), `LockInvoice`, `Settle`. An order stands
for the order id and the payment id the provider gives it. Amounts are paise; `Lossy`
is the set of amounts whose float product `int(amount * 100)` truncates. The fund's row is left
out: a settlement holds its invoice while it waits for the fund, nothing takes the two in the
other order, and so what the wait delays is only when `Settle` comes.

### FundWait

EXTENDS Settlement with that wait, for what must happen in the end. `fund` says who has the
fund's row: nobody, a debit, or a debit that was refused and keeps the row until the event
loop closes its session (`RefusedIsClosed`). A webhook is an async handler that makes
blocking calls, so while it runs (`OnLoop`) the loop starts nothing (`Start`, `Deliver`) and
closes nothing. A settlement needs the row free (`Proceed`). FundLedger has the same wait
from the fund's side.

### LateFees

EXTENDS Settlement and adds the late-fee run, which writes the same invoice rows: `Scan`
loads them, `CheckItem` looks for the LATE_FEE item of one, `CommitFees` writes all the
penalties, `RestartAll` is a restart of the whole process. An invoice becomes late by
`Expire`, any time.

### Billing

One period of `generate_invoices_for_period`: `Scan` (residents and active monthly
plans), `Check` and `Insert` for each pair in the order the database happens to return
them, `Collide` for a refused INSERT, `Victim` for a deadlock, `CommitRun`, then the
mails, `Tell` or `Lose`, and for the cron endpoint a second round of them (`Again`).
`ChangeRole` and `UpdatePlan` change what the next scan sees, at any time. Runs of two periods share
no invoice, so the period is not a variable. The accountant starts a bounded number of
runs, the cron service any number. `mails` counts to two: none, one, more.

### ComplaintLifecycle and Complaints

`ComplaintLifecycle` is what a resident is promised: the timeline follows the transition map
and a mail tells the status the complaint then has. `Complaints` is the program:
`File`, `BeginStatus` and `BeginPriority` (read, validate), `CommitStatus` and
`CommitPriority` (what the UPDATE makes of each column is `Flushed`), `Tell`. `history`
is kept in commit order, which the database does not store: a row has only its `changed_at`.
Properties about the newest row go by that (`Newest`), and the refinement maps `timeline` to
the history sorted by it (`Shown`), as `_build_detail` answers it.

### ExpenseBook

Expenses and recurring definitions in overlapping sessions. `BeginCreate`,
`BeginRevise` (which takes the old amount from an unlocked read) and `Generate` stage
a row and what the fund has to pay for it (`Write`); `Move` is the movement under the
lock of the fund's row, `Refuse` the one that the balance does not allow, `Commit` makes
rows, movements and the definitions' next month visible together. A run takes the
definitions as `BeginRun` loaded them, skips those that have an expense of the period
(`Skip`), and writes their next month from what it loaded (`Due`). The fund's balance is
FundLedger's; `posted` is the sum of an expense's ledger rows.

### Notifications and NoticeBoard

`Notifications` is `notify` and `_deliver_now` in request threads and Celery workers:
the PENDING row (`Create`), its way (`Inline`, `Enqueue`, or `DispatchFails`, which delivers
inline beside a task that may be in the broker), `Take`, and the delivery `Read`, `Send`,
`Mark` or `Fail`, with duplicate tasks, lost answers, failed reads and commits and crashes as
faults. `CreateFails` is `create_notification` raising, which `notify` swallows: without a row, or
with a committed one that nobody delivers, because it is the commit's answer or the refresh
that failed. `FailFails` is the commit of FAILED failing. `lost` collects what these two
and crashes (`Crash`) cut short.
`NoticeBoard` EXTENDS it with notices: `Post` commits an important notice, then
`Announce` notifies one resident after the other, each time reading the notice anew
(the commit of the last one expired it), until `Finish`. `Update` and `Delete` come from
other requests, `Hook` is any other notification.

### BoundedRead and DashboardCache

`BoundedRead` is what a cached dashboard promises: figures that were current no longer
than a bound ago. `DashboardCache` is the program: a reader takes the cached answer
(`Hit`) or makes its SELECTs one after the other (`Miss`, `Query`), stores and answers
(`Answer`); a writer commits, then SCANs and DELETEs key by key (`Scan`, `Delete`,
`GiveUp`). Figures are told apart by the number of commits they come after. Redis goes
away, evicts and restarts (`Toggle`, `Evict`).

### Accounts

Registration, forgotten, reset and changed passwords, and role changes, each a read and a
commit with other sessions in between. `password` is what set it: a reset link or its
owner. `crossed` remembers whether two role changes were ever under way of which one
was by, or of, a user of the other.

MC modules (Billing needs none) add the constants' definitions, symmetry sets and, for the
modules whose bounds end a behaviour, a `Finished` step, so that a deadlock that TLC
reports is one of the program. Three of them hold two instances in one run, told apart
by a variable that the initial state chooses: requests one at a time over more data, and
requests that overlap over less (`serial`), or two parts of the component (`about`).

## Runs

| Run | Shows | Bounds |
|---|---|---|
| FundRuns | balance, groundedness and solvency through interleaving, refusal and rollback; every request ends; requests one at a time implement `Ledger` | two requests, batches of 2, amounts 0 to 2 (0 is refused); overlapping over a ledger of 2 rows at the last start, one at a time over 3 |
| FundChain (violated) | two overlapping credits break the chain of snapshots | two requests |
| FundRefused (violated) | a webhook and a refused debit wait for each other | one of each |
| SettleSafety | sums, atomicity, honest status, final captures; what the provider will not report again is recorded | two sessions, two orders and one foreign payment of one invoice, one fault |
| SettleLive | charged money is recorded, through two faults and other users of the fund's row, unless the loop waits for ever for a refused debit | an order of the application and a payment with no order id |
| LateSafety | the fee is charged once, no more items than runs at a time, no payment lost | three late-fee runs, two at a time, two payments of one invoice, one fault |
| BillRuns | one invoice each, nobody left out, no mail of a rolled-back invoice, deadlocked runs end, everybody is told in the end | a cron session and an accountant's, two starts, one resident, two plans, one fault, any number of role and plan changes |
| DeskRuns | the status follows the timeline but for overtaken requests; resolution times; closed stays closed; one request at a time implements ComplaintLifecycle | two sessions; overlapping about one complaint with four clock readings, one at a time about two with five |
| BookRuns | what an expense has cost the fund; one duplicate for each run; no month skipped | two sessions; two expenses, one definition, two revisions; or four expenses of two monthly definitions, a December and a January |
| MailRuns | mailed no more often than handed over; settled notifications are not mailed again; pending ones come to an outcome, and every resident's delivery is attempted, unless `lost` | one request thread, one worker, two residents, one notice and one other notification, two faults, inline and with the broker |
| CacheRuns | dashboards implement `BoundedRead`; an undisturbed invalidation is final | two readers, one writer, one commit, time to live 2, a reader's time 1, five clock readings; each of the three dashboards |
| AccountRuns | spent links stay spent; as many valid links as requests overlap; somebody administrates | two sessions, two users, three links |

The type invariants of `LateFees`, `NoticeBoard`, `DashboardCache` and `Accounts` are proved and
no run repeats them.

Why the bounds are enough: nearly every hazard here is a race of two sessions for one row, so
two writers and one row produce it. Two plans are needed for two runs to insert in opposite
orders and for a check that forgets one; two payments of one invoice for an
update to be lost; two definitions for the lock of the fund's row, taken for the first, to
cover the look for the second; two residents for an announcement to stop between them;
three links for one issued after two that overlapped; a time to live longer than a
reader's time for an entry to outlive the reader that stored it. One fault separates any two
steps of a handler. CacheRuns and AccountRuns are small because the proofs below have
the same properties for all sizes; what depends on the number of sessions or the size of
the data is proved for all of them wherever a theorem is listed.

Symmetry is used only in runs without liveness properties, over sets whose members the
specification never tells apart.

### Where the code and its documentation disagree

The violated runs each refute a sentence of the repository, quoted in PROJECT.json.
`SnapshotChain` fails because an amount is computed from a row read before it was
locked. `RefusedRollsBack` needs provider credentials, a refused debit and a webhook at
once.

Four more sentences are defined beside the properties that hold, and TLC
refutes each in a moment when it takes the place of the properties of the run, without SYMMETRY:

* `OpenedForUnpaid`, in SettleSafety.cfg: `Initiate` reads the invoice, and `CommitOrder` does
  not look again after the provider has answered, so a payment is opened for an invoice
  that was settled in between (`payment_service.py:34`, "for an unpaid invoice"). It is recorded
  in full like any other (`InvoiceAddsUp`): a resident who pays it has paid twice.
* `OneFeeItem`, in LateSafety.cfg: two overlapping late-fee runs give an invoice two
  LATE_FEE items (`billing_service.py:195`). What holds is `FeeChargedOnce`: the total
  has the fee once.
* `ClosedForever`, in DeskRuns.cfg: a RESOLVED complaint goes back to IN_PROGRESS when two
  changes overlap (`complaint_service.py:12`). What holds is `ClosedForGood`.
* `FundConsistent`, in BookRuns.cfg: two revisions of one expense both post
  their difference from the same old amount (`expense_service.py:91`, "Compensating ledger
  movement keeps the fund consistent"). What holds is `PostedByTheBook`.

Other disagreements, plain to read in the models and not worth a run of their own:

* Of two status changes that overlap, the one that commits last may have taken its
  `changed_at` first (`complaints.py:473`). One request takes the time 2 for IN_PROGRESS, another
  3 for RESOLVED; RESOLVED commits, then IN_PROGRESS. The complaint is IN_PROGRESS, and
  the timeline the API sorts by `changed_at` (`complaints.py:362`, `608`) ends with RESOLVED.
  `StatusFollowsTimeline` says that only the commit of such an overtaken request parts the two;
  the next change that is not overtaken brings them together again.
* `CreateFails`: `create_notification` commits and then refreshes, and `notify` takes a failure of
  the refresh, or a lost answer of the commit, for a row that was never created
  (`notification_service.py:42`, `77-80`). The committed row stays PENDING for ever in a process that
  lives on, and so does one whose FAILED cannot be written (`FailFails`), although
  `system-design.md:89` says that "delivery failures degrade to FAILED notification rows".
* A late-fee run penalizes an invoice that was paid after its `Scan`
  (`billing_service.py:253`; "to unpaid invoices past grace period"). If the run had loaded it as
  PARTIALLY_PAID, it writes no status and the fee is owed on an invoice that stays PAID; if it
  had loaded it as PENDING, it writes OVERDUE over PAID (`billing_service.py:247`).
* `CommitOrphanReview`: with no reconciliation row to correct, a review commits its audit
  row and nothing else (`payment_service.py:321`).
* An unmatched webhook is stored as UNMATCHED (`payment_service.py:279`);
  `system-design.md:65-66` says MANUAL_REVIEW.
* The cron endpoint writes to the resident of a new invoice twice, and to everybody again
  at each rerun (`Again`; `internal_jobs.py:48`), although `system-design.md:55-57`
  calls reruns idempotent.
* `Duplicate`: nothing but a SELECT keeps a definition from being charged twice for a period.
  `models/expense.py` has no unique constraint over `source_recurring_id` and
  `generated_period`, although the docstring at `expense_service.py:165` and
  `system-design.md:74-75` name one. `OneDuplicatePerRun` says how far that goes.
* `Matches` compares the month of `next_run_date` with the period, so a definition whose
  month no run was called for matches no later period (`expense_service.py:186`).
  `CycleUnbroken` says that it waits and skips nothing.
* `Update` announces nothing, and `Delete` stops an announcement half way
  (`notices.py:148`); `README.md:25` of the repository promises that important notices are mailed to
  residents.
* `Acknowledge`: a Celery task is acknowledged before it runs and `_deliver_now` swallows
  every error, so the retries of `workers/tasks.py` and `system-design.md:89` never happen.
  A mail that was accepted may be FAILED in the table (`MarkFails`, or `ReadFails` of a duplicate
  task).
* `Invalidated`: complaints filed, priorities, late fees, expenses, manual postings and notices
  invalidate no dashboard; `system-design.md:97-98` says that writes do.
* Two resets that overlap both set a password with one link (`auth.py:219`);
  `tests/test_passwords.py` calls the link single-use. `SpentForGood` says that nobody
  can who comes later. Two administrators may demote each other (`users.py:80`).

What survives the races is worth as much: with the stale reads in the model the fund
still never goes negative, settlements of one invoice still add up, a late fee is still
charged once (the second run overwrites the total with the same sum), a change of priority
never undoes a change of status, no run breaks the cycle of a definition, and
a lost invalidation costs no more than a time to live.

## Fairness

* `FundLedger`: weak fairness of a started handler (a thread or the loop
  keeps running it); strong fairness of a lock grant, because PostgreSQL queues
  waiters; strong fairness of `Close`, which the event loop has in its queue.
* `FundWait`: the same of settlement's handlers, strong because they wait for the invoice's row
  and then for the fund's; of a debit, that it commits or is refused; and of closing a
  refused one, whenever the loop is free. Strong fairness of the delivery of an unanswered
  webhook is the provider's contract. No customer has to pay and no user has to click.
  None of this makes every settlement end: a webhook that reaches the fund's row (or an invoice
  whose settlement waits for it) while a refused debit has it waits for ever, with the
  whole process, until somebody restarts it. `ChargedIsRecorded` therefore says "or `Stuck` for
  ever"; without that disjunct TLC refutes it in eleven steps. The run ends in that
  wait on some behaviours, so it does not look for deadlocks.
* `Billing`: strong fairness of a run's steps, again because waiters have their turn,
  and weak fairness of the cron job's start. The second is an assumption about the
  external cron service (`render.yaml` points it at the endpoint): `EveryoneTold` holds
  of a job that is called again for the same period, and not of one that is called once.
  It also needs the accountant to stop: two callers that both repeat at once can be each
  other's deadlock victim for ever, which is why his runs are bounded.
* `Notifications`, `NoticeBoard`: weak fairness of a delivery and of an announcement that
  has begun; strong fairness of taking a task of each notification, because the workers serve
  their queue in order. What a crash, a failed creation or a failed commit of FAILED cuts
  short is not taken up again, and the properties say so (`lost`).
* `ExpenseBook`, `DashboardCache` and `Accounts` state safety only. That a reader takes
  no longer than `MaxQuery` is an assumption of the models, not a limit in the code.

Faults (aborts, restarts, lost notifications) are never fair and always bounded, except
where a run is safety only and they need no bound.

## Proofs

All for every value of the constants. The assumptions are the ASSUMEs of the modules:
the special values (no session, no payment, ...) are not members of the sets they stand
beside, amounts are integers, bills are positive, bounds are natural numbers. Two of them say
that a set is finite: `Job`, the late-fee runs that can be under way at once, and `Session` of
`Accounts`. Both are threads of one process, and the theorems that need it bound a number by
their cardinality, which means nothing of an infinite set. No other set has to be finite.

* **FundLedgerProofs.** `FundInv` adds to the four safety properties who holds the fund
  row at each step (`Holding`), that a session before its first movement remembers some
  committed snapshot (`Remembered`), that its staged rows chain from one (`Staging`),
  and that nothing in memory is negative (`Solvent`). Only the last makes
  `NeverOverdrawn` inductive: the check is against memory, not against the table. For
  requests one at a time, `SerialInv` adds that what a session remembers is the
  newest snapshot; from it follow `FundSerialChain` and `FundImplementsLedger`, the
  refinement of `Ledger`.
* **SettlementProofs**, of `Settlement` and of `LateFees`, which runs beside it. `SettleInv` adds
  what each session knows of the payment it works on and that an invoice it has locked is as
  it remembers it (`Working`, `Exclusive`), and that a payment nobody has captured has no trace
  elsewhere. It gives the types, `SettledTogether` and `CaptureIsFinal`, which rests on the unique
  constraint of reconciliations: it catches the capture that read PENDING too early.
  `StatusIsHonest`, `AddsUpInv` and `AckInv` are invariants beside it, each inductive with it.
  `AddsUpInv` says that `amount_paid` is the sum of the captured payments. `MapThenSumSet` is
  defined by recursion over the set, so the section before it shows that the sum over a finite set
  is well defined and what one more payment makes of it; the induction is a choice of a
  smallest set for which the claim would be false (`SmallestSet`). `AckInv` says that a
  session about to answer 200 has found or made a capture, whence `AckedIsRecorded`.
  `LateInv` joins `SettleInv` and `AddsUpInv` with `FeeInv`. Its core is a count: once an invoice
  has an item, its items and the runs that are going to add one are together no more than the
  runs that can be under way, since a run that starts later finds the item. And whoever is going
  to charge an invoice has loaded a fee of 0, so each of them writes the same total. It gives
  `FeeChargedOnce` and `ItemsBounded`, and that the late-fee runs cost none of `InvoiceAddsUp`,
  `SettledTogether`, `CaptureIsFinal` and `AckedIsRecorded`. (`StatusIsHonest` they do cost:
  a fee charged on a PAID invoice.)
* **ComplaintsProofs.** `DeskInv` adds what a pending change has read, that the status is the
  one that was committed last, and that a RESOLVED row's time is kept. It gives the types,
  `ResolvedHasItsTime`, and the action properties `ClosedForGood` and `StatusFollowsTimeline`: a
  request that was not overtaken adds a row later than all others (`NewestRow`), and no
  other has the status in its UPDATE. For requests one at a time,
  `SerialInv` adds that the history rows are in the order of their times, and that what a
  session is about to commit or to mail is still allowed and newest; sorting such a history
  changes nothing (`SortingIsIdle`, a bijection between the rows and their numbers). From it
  follows `DeskImplementsLifecycle`, the refinement of `ComplaintLifecycle`.
* **BillingProofs.** `BillInv` adds that an uncommitted invoice is one run's alone and
  nobody's committed one (`Exclusive`, what the unique constraint is for), that every
  pair a run has been past is committed or staged (`Visited`), and what a run holds
  where (`Held`). It gives the types, `InvoicedOnce`, `RunCovers` and `ToldOfReal`.
* **ExpenseBookProofs.** `BookInv` adds that what a session takes out of the fund is what its
  row grows by (`Spending`), that a row has one writer unless revisions of it met
  (`Alone`), that what it is made for was due (`Traced`, `Running`). It gives the types
  (months stay months over the turn of a year), `PostedByTheBook` and `CycleUnbroken`.
  `ChargeInv` adds the lock: a run that has moved money holds the fund's row to its end, so what
  it did not find under the lock stays absent, and what it has missed is at most the row it
  looked for before (`Locked`, `OneMissed`). It gives `OneDuplicatePerRun`.
* **NoticeBoardProofs.** `BoardInv` is the types and who is busy with what. It gives the
  types of both modules and, step by step, `SettledIsLeftAlone`. `CountInv` balances the
  books: mails sent, tasks in the broker and deliveries at work on a notification (`Readers`)
  are together no more than the times it was handed over. It gives `MailedAsHanded`.
* **DashboardCacheProofs.** `CacheInv` adds how old a reader's figures (`ReaderInv`) and an
  entry's (`EntryInv`) may be, and that whoever is at work on a key that a writer scanned
  alone has seen its commit (`Undisturbed`). It gives the types, `InvalidatedStaysGone` and
  the refinement `ImplementsBoundedRead`.
* **AccountsProofs.** `AccountsInv` adds that pending role changes that have not crossed leave
  each other's administrators in place (`Apart`). It gives the types,
  `SomebodyAdministrates` and `SpentForGood`. `LinksInv` gives a user's unused links to the
  sessions, one each, so that a session about to issue another has found the one it was
  given and spends it; the injection is `OutstandingBounded`.

Left to TLC: liveness under fairness (`RequestsFinish`, `ChargedIsRecorded`, `RunsEnd`,
`EveryoneTold`, `PendingIsDelivered`, `EveryResidentAttempted`), which is out of the prover's reach. The
safety half of `ChargedIsRecorded` is `AckedIsRecorded`, proved; that the webhook is delivered in
the end is TLC's. `ImplementsLedgerSerially` and `ImplementsLifecycleSerially` are the refinements in the
form a run can check; `FundImplementsLedger` and `DeskImplementsLifecycle` prove the refinements
themselves. Every other property of a passing run is a listed theorem.

## Not modelled

Rejected webhook signatures and events of other kinds (they change nothing but an audit
row); CANCELLED invoices, which no code produces; the text of mails, numbers and audit
values; pagination, search and filters, which only read; hashes, JWTs and the expiry
of a session, which are library calls over a clock.

Documents and photo storage: one file is written under a fresh name, then one row that
names it, and nothing is moved or deleted, so no state spans two requests; a failed commit
leaves a file that no row names and nothing reads. Service-level targets: a due date is
computed when a complaint is filed and compared when it is read; the staff dashboard
counts a `breached` column that nothing sets. The reports of `routers/accounting` and the
lists only read. Not every mutation is audited (`system-design.md:35-40` says so): the models
have an audit row where the code writes one and a property needs it.

## Plan

Done: Ledger, FundLedger, Settlement, FundWait, LateFees, Complaints, Billing, ExpenseBook,
Notifications, NoticeBoard, BoundedRead, DashboardCache, Accounts, and the proofs above.

Next, in this order:

1. `Society`: FundWait with the expense book's transactions in the place of its debits, for
   the order of locks and what a refused movement undoes.
2. Proofs that are left: that a committing late-fee run and a running capture do not wait for each
   other (no cycle of locks), and, for the billing run, that what `EveryoneTold` waits for is
   kept by every step until the cron job repeats.
