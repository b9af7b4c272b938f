---------------------------- MODULE ExpenseBook ----------------------------
(***************************************************************************)
(* The expense book (app/services/expense_service.py and the handlers of   *)
(* app/routers/accounting.py): expenses and their revisions, recurring     *)
(* definitions, and the run that turns the definitions of a month into     *)
(* expenses, in overlapping sessions.  Each expense moves the fund in its  *)
(* own transaction, under the lock of the fund's row (FundLedger has the   *)
(* balance; here a movement is granted or refused).  What an expense has   *)
(* cost the fund is the sum of the ledger rows that refer to it.           *)
(*                                                                         *)
(* A run takes the definitions as it loaded them, in the database's order, *)
(* and looks in the table for an expense of the period.  No constraint of  *)
(* the schema backs that look.                                             *)
(***************************************************************************)
EXTENDS Integers, FiniteSets

CONSTANTS
    Session, NoSession,
    Entry,          \* ids of expenses
    Def,            \* ids of recurring definitions
    NoDef, NoPeriod,
    Amount,
    Asked,          \* periods that definitions start in and runs are called for
    MaxRevisions    \* bound: revisions begun

Frequency == {"MONTHLY", "QUARTERLY", "ANNUAL"}

Period == [year : Nat, month : 1 .. 12]

ASSUME BookAssumption ==
    /\ NoSession \notin Session /\ NoDef \notin Def /\ NoPeriod \notin Period
    /\ Amount \subseteq Nat \ {0}
    /\ Asked \subseteq Period
    /\ MaxRevisions \in Nat

(* A row of expenses; amount is 0 where there is none. *)
Expense == [amount : Nat, source : Def \cup {NoDef}, period : Period \cup {NoPeriod}]

NoExpense == [amount |-> 0, source |-> NoDef, period |-> NoPeriod]

(* A row of recurring_expenses; due is the month of next_run_date.  Its    *)
(* amount may be changed at any time, so any one is.  first is the month   *)
(* it began with, kept for CycleUnbroken.                                  *)
Recurring == [frequency : Frequency, active : BOOLEAN,
              due : Period \cup {NoPeriod}, first : Period \cup {NoPeriod}]

NoRecurring == [frequency |-> "MONTHLY", active |-> FALSE, due |-> NoPeriod, first |-> NoPeriod]

VARIABLES
    expense, recurring,
    posted,         \* what each expense has cost the fund
    overlapped      \* expenses of which two revisions were under way at once

book == <<expense, recurring, posted, overlapped>>

VARIABLES
    holder,         \* the session that has locked the fund's row
    pc,             \* where each session is
    written,        \* the expenses it has added or changed, NoExpense for others
    moved,          \* what it has taken out of the fund for each
    period,         \* the period of its run
    loaded,         \* the active definitions as its run loaded them
    todo            \* those due in the period that it has not looked at yet

work == <<pc, written, moved, period, loaded, todo>>

VARIABLE revisions

bkvars == <<book, holder, work, revisions>>

BookInit ==
    /\ expense = [e \in Entry |-> NoExpense]
    /\ recurring = [d \in Def |-> NoRecurring]
    /\ posted = [e \in Entry |-> 0]
    /\ overlapped = {}
    /\ holder = NoSession
    /\ pc = [s \in Session |-> "idle"]
    /\ written = [s \in Session |-> [e \in Entry |-> NoExpense]]
    /\ moved = [s \in Session |-> [e \in Entry |-> 0]]
    /\ period = [s \in Session |-> NoPeriod]
    /\ loaded = [s \in Session |-> [d \in Def |-> NoRecurring]]
    /\ todo = [s \in Session |-> {}]
    /\ revisions = 0

-----------------------------------------------------------------------------
(* Recurring definitions. *)

Months(f) == CASE f = "MONTHLY" -> 1 [] f = "QUARTERLY" -> 3 [] f = "ANNUAL" -> 12

(* A mutation of NextRunAfter: the month is not reduced. *)
NextRunAfter_Thirteen(f, p) ==
    IF f = "ANNUAL"
      THEN [year |-> p.year + 1, month |-> p.month]
      ELSE [year |-> p.year + (p.month + Months(f) - 1) \div 12, month |-> p.month + Months(f)]

NextRunAfter(f, p) ==
    LET m == p.month + Months(f)
    IN  IF f = "ANNUAL"
          THEN [year |-> p.year + 1, month |-> p.month]
          ELSE [year |-> p.year + (m - 1) \div 12, month |-> ((m - 1) % 12) + 1]

(* The month of the start, or the one after if the day is over.            *)
FirstRun(f, start, dayOver) == IF dayOver THEN NextRunAfter(f, start) ELSE start

CreateRecurring(d) ==
    /\ recurring[d].due = NoPeriod
    /\ \E f \in Frequency, p \in Asked, dayOver \in BOOLEAN :
           LET run == FirstRun(f, p, dayOver)
           IN  recurring' = [recurring EXCEPT ![d] =
                   [frequency |-> f, active |-> TRUE, due |-> run, first |-> run]]
    /\ UNCHANGED <<expense, posted, overlapped, holder, work, revisions>>

(* next_run_date is not among the fields of the request. *)
UpdateRecurring(d) ==
    /\ recurring[d].due # NoPeriod
    /\ \E f \in Frequency, b \in BOOLEAN :
           recurring' = [recurring EXCEPT ![d] = [@ EXCEPT !.frequency = f, !.active = b]]
    /\ UNCHANGED <<expense, posted, overlapped, holder, work, revisions>>

-----------------------------------------------------------------------------
(* Creating and revising an expense. *)

Unused(e) ==
    /\ expense[e] = NoExpense
    /\ \A t \in Session : written[t][e] = NoExpense

(* Expense e is inserted or changed, and the fund has to pay amount.       *)
Write(s, e, row, amount) ==
    /\ written' = [written EXCEPT ![s][e] = row]
    /\ moved' = [moved EXCEPT ![s][e] = amount]
    /\ pc' = [pc EXCEPT ![s] = "move"]

BeginCreate(s, e) ==
    /\ pc[s] = "idle" /\ Unused(e)
    /\ \E a \in Amount : Write(s, e, [NoExpense EXCEPT !.amount = a], a)
    /\ UNCHANGED <<book, holder, period, loaded, todo, revisions>>

Revising(s, e) == expense[e] # NoExpense /\ written[s][e] # NoExpense

(* A mutation of Delta: the new amount is debited, not the difference.     *)
Delta_Whole(e, new) == new

(* What the fund owes for the revision: new amount less old one, which     *)
(* was read without a lock.                                                *)
Delta(e, new) == new - expense[e].amount

(* A request that names the same amount moves nothing and is left out.     *)
BeginRevise(s, e) ==
    /\ pc[s] = "idle" /\ expense[e] # NoExpense
    /\ revisions < MaxRevisions
    /\ revisions' = revisions + 1
    /\ \E a \in Amount :
           /\ a # expense[e].amount
           /\ Write(s, e, [expense[e] EXCEPT !.amount = a], Delta(e, a))
    /\ overlapped' = IF \E t \in Session : Revising(t, e) THEN overlapped \cup {e} ELSE overlapped
    /\ UNCHANGED <<expense, recurring, posted, holder, period, loaded, todo>>

-----------------------------------------------------------------------------
(* The run of a period. *)

Matches(d, p) == recurring[d].active /\ recurring[d].due = p

BeginRun(s, p) ==
    /\ pc[s] = "idle"
    /\ pc' = [pc EXCEPT ![s] = "next"]
    /\ period' = [period EXCEPT ![s] = p]
    /\ loaded' = [loaded EXCEPT ![s] = [d \in Def |->
                     IF Matches(d, p) THEN recurring[d] ELSE NoRecurring]]
    /\ todo' = [todo EXCEPT ![s] = {d \in Def : Matches(d, p)}]
    /\ UNCHANGED <<book, holder, written, moved, revisions>>

Copies(d, p) == {e \in Entry : expense[e].source = d /\ expense[e].period = p}

(* A mutation of Duplicate: nobody looks. *)
Duplicate_Ignored(d, p) == FALSE

(* The SELECT for an expense of the definition and the period. *)
Duplicate(d, p) == Copies(d, p) # {}

Skip(s, d) ==
    /\ pc[s] = "next" /\ d \in todo[s] /\ Duplicate(d, period[s])
    /\ todo' = [todo EXCEPT ![s] = @ \ {d}]
    /\ UNCHANGED <<book, holder, pc, written, moved, period, loaded, revisions>>

Generate(s, d, e) ==
    /\ pc[s] = "next" /\ d \in todo[s] /\ ~Duplicate(d, period[s])
    /\ Unused(e)
    /\ \E a \in Amount : Write(s, e, [amount |-> a, source |-> d, period |-> period[s]], a)
    /\ todo' = [todo EXCEPT ![s] = @ \ {d}]
    /\ UNCHANGED <<book, holder, period, loaded, revisions>>

-----------------------------------------------------------------------------
(* The fund and the end of a transaction. *)

Lockable(s) == holder \in {NoSession, s}

(* The movement is applied under the lock of the fund's row. *)
Move(s) ==
    /\ pc[s] = "move" /\ Lockable(s)
    /\ holder' = s
    /\ pc' = [pc EXCEPT ![s] = "next"]
    /\ UNCHANGED <<book, written, moved, period, loaded, todo, revisions>>

EndSession(s) ==
    /\ holder' = IF holder = s THEN NoSession ELSE holder
    /\ pc' = [pc EXCEPT ![s] = "idle"]
    /\ written' = [written EXCEPT ![s] = [e \in Entry |-> NoExpense]]
    /\ moved' = [moved EXCEPT ![s] = [e \in Entry |-> 0]]
    /\ period' = [period EXCEPT ![s] = NoPeriod]
    /\ loaded' = [loaded EXCEPT ![s] = [d \in Def |-> NoRecurring]]
    /\ todo' = [todo EXCEPT ![s] = {}]

(* InsufficientFunds: the request, a whole run too, is rolled back.  (How  *)
(* long its lock then lasts is FundLedger's matter.)  A refund is never    *)
(* refused.                                                                *)
Refuse(s) ==
    /\ pc[s] = "move" /\ Lockable(s)
    /\ \E e \in Entry : moved[s][e] > 0
    /\ EndSession(s)
    /\ UNCHANGED <<book, revisions>>

(* The session dies before its commit. *)
Abort(s) ==
    /\ pc[s] # "idle"
    /\ EndSession(s)
    /\ UNCHANGED <<book, revisions>>

Generated(s) == {written[s][e].source : e \in Entry} \ {NoDef}

(* A mutation of Due: it is computed from the month that is now due.       *)
Due_Current(s, d) == NextRunAfter(loaded[s][d].frequency, recurring[d].due)

(* The next due month of a definition that session s has run. *)
Due(s, d) == NextRunAfter(loaded[s][d].frequency, period[s])

Commit(s) ==
    /\ pc[s] = "next" /\ todo[s] = {}
    /\ expense' = [e \in Entry |-> IF written[s][e] = NoExpense THEN expense[e] ELSE written[s][e]]
    /\ posted' = [e \in Entry |-> posted[e] + moved[s][e]]
    /\ recurring' = [d \in Def |->
                        IF period[s] # NoPeriod /\ d \in Generated(s)
                          THEN [recurring[d] EXCEPT !.due = Due(s, d)]
                          ELSE recurring[d]]
    /\ EndSession(s)
    /\ UNCHANGED <<overlapped, revisions>>

-----------------------------------------------------------------------------

BookNext ==
    \/ \E d \in Def : CreateRecurring(d) \/ UpdateRecurring(d)
    \/ \E s \in Session :
           \/ \E e \in Entry : BeginCreate(s, e) \/ BeginRevise(s, e)
           \/ \E p \in Asked : BeginRun(s, p)
           \/ \E d \in Def : Skip(s, d) \/ \E e \in Entry : Generate(s, d, e)
           \/ Move(s) \/ Refuse(s) \/ Abort(s) \/ Commit(s)

BookSpec == BookInit /\ [][BookNext]_bkvars

-----------------------------------------------------------------------------

(* Every variable has its type. *)
BookTypeOK ==
    /\ expense \in [Entry -> Expense]
    /\ recurring \in [Def -> Recurring]
    /\ posted \in [Entry -> Int]
    /\ overlapped \subseteq Entry
    /\ holder \in Session \cup {NoSession}
    /\ pc \in [Session -> {"idle", "next", "move"}]
    /\ written \in [Session -> [Entry -> Expense]]
    /\ moved \in [Session -> [Entry -> Int]]
    /\ period \in [Session -> Period \cup {NoPeriod}]
    /\ loaded \in [Session -> [Def -> Recurring]]
    /\ todo \in [Session -> SUBSET Def]
    /\ revisions \in Nat

(* What an expense has cost the fund is its amount, through any number of  *)
(* revisions, refusals and runs, unless two revisions of it were ever      *)
(* under way at once (update_expense).                                     *)
PostedByTheBook == \A e \in Entry \ overlapped : posted[e] = expense[e].amount

(* "Compensating ledger movement keeps the fund consistent"                *)
(* (app/services/expense_service.py).                                      *)
FundConsistent == \A e \in Entry : posted[e] = expense[e].amount

(* Overlapping runs may both charge a definition for one period, but a run *)
(* can do so for one definition only: all the others it looks for with the *)
(* fund's row locked (generate_recurring_expenses_for_period).             *)
OneDuplicatePerRun ==
    [][Cardinality({x \in Def \X Asked :
           LET old == Copies(x[1], x[2])
           IN  old # {} /\ Copies(x[1], x[2])' # old}) <= 1]_bkvars

(* The number of the month, from a year 0. *)
Ordinal(p) == 12 * p.year + p.month

(* Month p is the first one of the definition, or one of its cycles after  *)
(* a month that it was charged for.                                        *)
Reached(d, p) ==
    \/ p = recurring[d].first
    \/ \E e \in Entry, n \in {1, 3, 12} :
           expense[e].source = d /\ Ordinal(p) = Ordinal(expense[e].period) + n

(* A definition is never charged, nor due, in a month that its cycle did   *)
(* not lead to: runs that are stale, late, repeated or called for other    *)
(* months skip no charge (_next_run_after and the matching of the due      *)
(* month).                                                                 *)
CycleUnbroken ==
    /\ \A d \in Def : recurring[d].due # NoPeriod => Reached(d, recurring[d].due)
    /\ \A e \in Entry : expense[e].source # NoDef => Reached(expense[e].source, expense[e].period)
=============================================================================
