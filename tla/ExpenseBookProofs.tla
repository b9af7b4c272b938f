------------------------- MODULE ExpenseBookProofs -------------------------
(***************************************************************************)
(* Proofs about ExpenseBook: for any sessions, expenses, definitions and   *)
(* amounts, an expense of which no two revisions met has cost the fund its *)
(* amount, no run breaks the cycle of a definition, and a run that         *)
(* overlaps others charges one definition twice at most.                   *)
(***************************************************************************)
EXTENDS ExpenseBook, FiniteSetTheorems, TLAPS

Defined(d) == recurring[d].due # NoPeriod

Pending(s, e) == written[s][e] # NoExpense

(* A session that is idle has nothing to commit. *)
Idle(s) == pc[s] = "idle" => period[s] = NoPeriod /\ \A e \in Entry : ~Pending(s, e)

(* What session s takes out of the fund for e is what e grows by, and its  *)
(* row is of the definition and the period that e was made for.            *)
Spending(s, e) ==
    /\ ~Pending(s, e) => moved[s][e] = 0
    /\ Pending(s, e) /\ e \notin overlapped => moved[s][e] = written[s][e].amount - expense[e].amount
    /\ Pending(s, e) /\ expense[e] # NoExpense =>
           /\ written[s][e].source = expense[e].source
           /\ written[s][e].period = expense[e].period

(* Nobody else is at work on e, unless two revisions of it have met. *)
Alone(s, t, e) ==
    Pending(s, e) /\ Pending(t, e) => s = t \/ (e \in overlapped /\ expense[e] # NoExpense)

(* The cycle of its definition led to the month of row x. *)
Traced(x) ==
    x.source # NoDef => Defined(x.source) /\ x.period \in Period /\ Reached(x.source, x.period)

(* A run is about definitions that are due in its month. *)
Running(s) ==
    /\ period[s] # NoPeriod =>
           \A e \in Entry : written[s][e].source # NoDef => written[s][e].period = period[s]
    /\ \A d \in todo[s] : Defined(d) /\ period[s] \in Period /\ Reached(d, period[s])

BookInv ==
    /\ BookTypeOK
    /\ \A s \in Session : Idle(s) /\ Running(s)
    /\ \A s \in Session, e \in Entry : Spending(s, e) /\ Traced(written[s][e])
    /\ \A s, t \in Session, e \in Entry : Alone(s, t, e)
    /\ \A e \in Entry : Traced(expense[e])
    /\ \A d \in Def : Defined(d) => Reached(d, recurring[d].due)
    /\ PostedByTheBook

-----------------------------------------------------------------------------
(* The calendar. *)

(* The next run is one cycle later. *)
LEMMA NextRunAdvances ==
    ASSUME NEW f \in Frequency, NEW p \in Period
    PROVE  /\ NextRunAfter(f, p) \in Period
           /\ \E n \in {1, 3, 12} : Ordinal(NextRunAfter(f, p)) = Ordinal(p) + n
<1>1. p.year \in Nat /\ p.month \in 1 .. 12
  BY DEF Period
<1>2. CASE f = "MONTHLY"
  BY <1>1, <1>2 DEF NextRunAfter, Months, Ordinal, Period
<1>3. CASE f = "QUARTERLY"
  BY <1>1, <1>3 DEF NextRunAfter, Months, Ordinal, Period
<1>4. CASE f = "ANNUAL"
  BY <1>1, <1>4 DEF NextRunAfter, Months, Ordinal, Period
<1> QED BY <1>2, <1>3, <1>4 DEF Frequency

(* What the cycle has led to it has led to for good. *)
LEMMA ReachedStays ==
    ASSUME NEW d \in Def, NEW p \in Period, Reached(d, p),
           recurring'[d].first = recurring[d].first,
           \A e \in Entry : expense[e].source = d =>
               expense'[e].source = d /\ expense'[e].period = expense[e].period
    PROVE  Reached(d, p)'
BY DEF Reached

-----------------------------------------------------------------------------

LEMMA BookInitially == BookInit => BookInv
<1> SUFFICES ASSUME BookInit PROVE BookInv
  OBVIOUS
<1> USE BookAssumption DEF BookInit
<1>1. NoExpense \in Expense /\ NoRecurring \in Recurring
  BY DEF NoExpense, NoRecurring, Expense, Recurring, Frequency
<1>2. BookTypeOK
  BY <1>1 DEF BookTypeOK
<1>3. \A s \in Session : Idle(s) /\ Running(s)
  BY DEF Idle, Running, Pending
<1>4. \A s \in Session, e \in Entry : Spending(s, e) /\ Traced(written[s][e])
  BY DEF Spending, Traced, Pending, NoExpense
<1>5. \A s, t \in Session, e \in Entry : Alone(s, t, e)
  BY DEF Alone, Pending
<1>6. \A e \in Entry : Traced(expense[e])
  BY DEF Traced, NoExpense
<1>7. \A d \in Def : Defined(d) => Reached(d, recurring[d].due)
  BY DEF Defined, NoRecurring
<1>8. PostedByTheBook
  BY DEF PostedByTheBook, NoExpense
<1> QED BY <1>2, <1>3, <1>4, <1>5, <1>6, <1>7, <1>8 DEF BookInv

-----------------------------------------------------------------------------
(* Definitions: one begins, or is changed, and its months stay. *)

LEMMA DefinitionKeeps ==
    ASSUME BookInv, NEW d \in Def, CreateRecurring(d) \/ UpdateRecurring(d)
    PROVE  BookInv'
<1> USE BookAssumption
<1>1. UNCHANGED <<expense, posted, overlapped, holder, work, revisions>>
  BY DEF CreateRecurring, UpdateRecurring
<1>2. PICK r \in Recurring :
          /\ recurring' = [recurring EXCEPT ![d] = r]
          /\ r.due # NoPeriod /\ r.due \in Period
          /\ \/ ~Defined(d) /\ r.first = r.due
             \/ Defined(d) /\ r.first = recurring[d].first /\ r.due = recurring[d].due
  <2>1. recurring[d] \in Recurring
    BY DEF BookInv, BookTypeOK
  <2>2. CASE CreateRecurring(d)
    <3>1. PICK f \in Frequency, p \in Asked, dayOver \in BOOLEAN :
              recurring' = [recurring EXCEPT ![d] =
                  [frequency |-> f, active |-> TRUE,
                   due |-> FirstRun(f, p, dayOver), first |-> FirstRun(f, p, dayOver)]]
      BY <2>2 DEF CreateRecurring
    <3>2. FirstRun(f, p, dayOver) \in Period
      BY <3>1, NextRunAdvances DEF FirstRun
    <3>3. [frequency |-> f, active |-> TRUE,
           due |-> FirstRun(f, p, dayOver), first |-> FirstRun(f, p, dayOver)] \in Recurring
      BY <3>2 DEF Recurring
    <3> QED BY <2>2, <3>1, <3>2, <3>3 DEF CreateRecurring, Defined
  <2>3. CASE UpdateRecurring(d)
    <3>1. PICK f \in Frequency, b \in BOOLEAN :
              recurring' = [recurring EXCEPT ![d] = [@ EXCEPT !.frequency = f, !.active = b]]
      BY <2>3 DEF UpdateRecurring
    <3>2. [recurring[d] EXCEPT !.frequency = f, !.active = b] \in Recurring
      BY <2>1 DEF Recurring
    <3>3. recurring[d].due # NoPeriod
      BY <2>3 DEF UpdateRecurring
    <3> QED BY <2>1, <3>1, <3>2, <3>3 DEF Defined, Recurring
  <2> QED BY <2>2, <2>3
<1>3. recurring \in [Def -> Recurring] /\ expense' = expense /\ written' = written
      /\ period' = period /\ todo' = todo /\ pc' = pc /\ moved' = moved
  BY <1>1 DEF BookInv, BookTypeOK, work
<1>4. BookTypeOK'
  BY <1>1, <1>2, <1>3 DEF BookInv, BookTypeOK, work
<1>5. \A c \in Def : Defined(c) => Defined(c)' /\ recurring'[c].first = recurring[c].first
                                   /\ recurring'[c].due = recurring[c].due
  BY <1>2, <1>3 DEF Defined
<1>6. \A c \in Def, p \in Period : Defined(c) /\ Reached(c, p) => Reached(c, p)'
  BY <1>3, <1>5, ReachedStays
<1>7. \A s \in Session : Idle(s)' /\ Running(s)'
  <2> SUFFICES ASSUME NEW s \in Session PROVE Idle(s)' /\ Running(s)'
    OBVIOUS
  <2>1. todo[s] \subseteq Def
    BY DEF BookInv, BookTypeOK
  <2>2. Idle(s) /\ Running(s)
    BY DEF BookInv
  <2>3. Idle(s)'
    BY <1>3, <2>2 DEF Idle, Pending
  <2> QED BY <1>3, <1>5, <1>6, <2>1, <2>2, <2>3 DEF Running
<1>8. \A x \in Expense : Traced(x) => Traced(x)'
  BY <1>5, <1>6 DEF Traced, Expense
<1>9. \A s \in Session, e \in Entry : Spending(s, e)' /\ Traced(written[s][e])'
  <2> SUFFICES ASSUME NEW s \in Session, NEW e \in Entry
               PROVE  Spending(s, e)' /\ Traced(written[s][e])'
    OBVIOUS
  <2>1. written[s][e] \in Expense /\ Spending(s, e) /\ Traced(written[s][e])
    BY DEF BookInv, BookTypeOK
  <2>2. Spending(s, e)'
    BY <1>1, <1>3, <2>1 DEF Spending, Pending
  <2>3. Traced(written[s][e])'
    BY <1>3, <1>8, <2>1 DEF Traced, Defined, Reached
  <2> QED BY <2>2, <2>3
<1>10. \A s, t \in Session, e \in Entry : Alone(s, t, e)'
  BY <1>1, <1>3 DEF BookInv, Alone, Pending
<1>11. \A e \in Entry : Traced(expense[e])'
  <2> SUFFICES ASSUME NEW e \in Entry PROVE Traced(expense[e])'
    OBVIOUS
  <2>1. expense[e] \in Expense /\ Traced(expense[e])
    BY DEF BookInv, BookTypeOK
  <2> QED BY <1>3, <1>8, <2>1 DEF Traced, Defined, Reached
<1>12. \A c \in Def : Defined(c)' => Reached(c, recurring[c].due)'
  <2> SUFFICES ASSUME NEW c \in Def, Defined(c)' PROVE Reached(c, recurring[c].due)'
    OBVIOUS
  <2>1. CASE Defined(c)
    <3>1. Reached(c, recurring[c].due) /\ recurring[c].due \in Period
      BY <1>3, <2>1 DEF BookInv, Defined, Recurring
    <3> QED BY <1>5, <1>6, <2>1, <3>1 DEF Reached
  <2>2. CASE ~Defined(c)
    <3>1. c = d /\ recurring'[c] = r /\ r.first = r.due
      BY <1>2, <1>3, <2>2 DEF Defined
    <3> QED BY <3>1 DEF Reached
  <2> QED BY <2>1, <2>2
<1>13. PostedByTheBook'
  BY <1>1, <1>3 DEF BookInv, PostedByTheBook
<1> QED BY <1>4, <1>7, <1>9, <1>10, <1>11, <1>12, <1>13 DEF BookInv

-----------------------------------------------------------------------------
(* The steps of a session that leave the tables alone. *)

(* Session t is as it was. *)
Untouched(t) ==
    /\ written'[t] = written[t] /\ moved'[t] = moved[t] /\ period'[t] = period[t]
    /\ todo'[t] = todo[t] /\ pc'[t] = pc[t]

LEMMA SessionKeeps ==
    ASSUME BookInv, BookTypeOK', NEW s \in Session,
           UNCHANGED <<expense, recurring, posted>>, overlapped \subseteq overlapped',
           \A t \in Session \ {s} : Untouched(t),
           Idle(s)', Running(s)',
           \A e \in Entry : Spending(s, e)' /\ Traced(written[s][e])',
           \A t \in Session, e \in Entry :
               t # s /\ Pending(s, e)' /\ Pending(t, e) => e \in overlapped' /\ expense[e] # NoExpense
    PROVE  BookInv'
<1>1. \A t \in Session : Idle(t)' /\ Running(t)'
  <2> SUFFICES ASSUME NEW t \in Session, t # s PROVE Idle(t)' /\ Running(t)'
    OBVIOUS
  <2>1. Untouched(t) /\ Idle(t) /\ Running(t)
    BY DEF BookInv
  <2> QED BY <2>1 DEF Untouched, Idle, Running, Pending, Defined, Reached
<1>2. \A t \in Session, e \in Entry : Spending(t, e)' /\ Traced(written[t][e])'
  <2> SUFFICES ASSUME NEW t \in Session, NEW e \in Entry, t # s
               PROVE  Spending(t, e)' /\ Traced(written[t][e])'
    OBVIOUS
  <2>1. Untouched(t) /\ Spending(t, e) /\ Traced(written[t][e])
    BY DEF BookInv
  <2> QED BY <2>1 DEF Untouched, Spending, Pending, Traced, Defined, Reached
<1>3. \A t, u \in Session, e \in Entry : Alone(t, u, e)'
  <2> SUFFICES ASSUME NEW t \in Session, NEW u \in Session, NEW e \in Entry,
                      t # u, Pending(t, e)', Pending(u, e)'
               PROVE  e \in overlapped' /\ expense[e] # NoExpense
    BY DEF Alone
  <2>1. CASE t = s
    BY <2>1 DEF Untouched, Pending
  <2>2. CASE u = s
    BY <2>2 DEF Untouched, Pending
  <2>3. CASE t # s /\ u # s
    BY <2>3 DEF Untouched, Pending, BookInv, Alone
  <2> QED BY <2>1, <2>2, <2>3
<1>4. \A e \in Entry : Traced(expense[e])'
  BY DEF BookInv, Traced, Defined, Reached
<1>5. \A d \in Def : Defined(d)' => Reached(d, recurring[d].due)'
  BY DEF BookInv, Defined, Reached
<1>6. PostedByTheBook'
  BY DEF BookInv, PostedByTheBook
<1> QED BY <1>1, <1>2, <1>3, <1>4, <1>5, <1>6 DEF BookInv

LEMMA EndKeepsTypes ==
    ASSUME BookTypeOK, NEW s \in Session, EndSession(s)
    PROVE  /\ holder' \in Session \cup {NoSession}
           /\ pc' = [pc EXCEPT ![s] = "idle"] /\ pc' \in [Session -> {"idle", "next", "move"}]
           /\ written' \in [Session -> [Entry -> Expense]]
           /\ written'[s] = [e \in Entry |-> NoExpense]
           /\ moved' \in [Session -> [Entry -> Int]]
           /\ moved'[s] = [e \in Entry |-> 0]
           /\ period' \in [Session -> Period \cup {NoPeriod}] /\ period'[s] = NoPeriod
           /\ loaded' \in [Session -> [Def -> Recurring]]
           /\ todo' \in [Session -> SUBSET Def] /\ todo'[s] = {}
           /\ \A t \in Session \ {s} : Untouched(t)
<1>1. NoExpense \in Expense /\ NoRecurring \in Recurring
  BY DEF NoExpense, NoRecurring, Expense, Recurring, Frequency
<1> QED BY <1>1 DEF BookTypeOK, EndSession, Untouched

LEMMA RollbackKeeps ==
    ASSUME BookInv, NEW s \in Session, Refuse(s) \/ Abort(s)
    PROVE  BookInv'
<1>1. EndSession(s) /\ UNCHANGED <<expense, recurring, posted, overlapped, revisions>> /\ BookTypeOK
  BY DEF Refuse, Abort, book, BookInv
<1>2. BookTypeOK'
  BY <1>1, EndKeepsTypes DEF BookTypeOK
<1>3. Idle(s)' /\ Running(s)'
  BY <1>1, EndKeepsTypes DEF Idle, Running, Pending
<1>4. \A e \in Entry : ~Pending(s, e)' /\ moved'[s][e] = 0 /\ written'[s][e] = NoExpense
  BY <1>1, EndKeepsTypes DEF Pending
<1>5. \A e \in Entry : Spending(s, e)' /\ Traced(written[s][e])'
  BY <1>4 DEF Spending, Traced, NoExpense
<1>6. \A t \in Session \ {s} : Untouched(t)
  BY <1>1, EndKeepsTypes
<1> QED BY <1>1, <1>2, <1>3, <1>4, <1>5, <1>6, SessionKeeps

LEMMA MoveKeeps ==
    ASSUME BookInv, NEW s \in Session, Move(s)
    PROVE  BookInv'
<1>1. /\ pc[s] = "move" /\ holder' = s /\ pc' = [pc EXCEPT ![s] = "next"]
      /\ UNCHANGED <<expense, recurring, posted, overlapped, written, moved, period, loaded, todo, revisions>>
  BY DEF Move, book
<1>2. BookTypeOK'
  BY <1>1 DEF BookInv, BookTypeOK
<1>3. \A t \in Session \ {s} : Untouched(t)
  BY <1>1 DEF BookInv, BookTypeOK, Untouched
<1>4. Idle(s)' /\ Running(s)'
  BY <1>1 DEF BookInv, BookTypeOK, Idle, Running, Defined, Reached
<1>5. \A e \in Entry : Spending(s, e)' /\ Traced(written[s][e])'
  BY <1>1 DEF BookInv, Spending, Pending, Traced, Defined, Reached
<1>6. \A t \in Session, e \in Entry :
          t # s /\ Pending(s, e)' /\ Pending(t, e) => e \in overlapped' /\ expense[e] # NoExpense
  BY <1>1 DEF BookInv, Alone, Pending
<1> QED BY <1>1, <1>2, <1>3, <1>4, <1>5, <1>6, SessionKeeps

LEMMA SkipKeeps ==
    ASSUME BookInv, NEW s \in Session, NEW d \in Def, Skip(s, d)
    PROVE  BookInv'
<1>1. /\ todo' = [todo EXCEPT ![s] = @ \ {d}]
      /\ UNCHANGED <<expense, recurring, posted, overlapped, holder, pc, written, moved, period, loaded,
                     revisions>>
  BY DEF Skip, book
<1>2. BookTypeOK'
  BY <1>1 DEF BookInv, BookTypeOK
<1>3. \A t \in Session \ {s} : Untouched(t)
  BY <1>1 DEF BookInv, BookTypeOK, Untouched
<1>4. Idle(s)' /\ Running(s)'
  BY <1>1 DEF BookInv, BookTypeOK, Idle, Running, Defined, Reached, Pending
<1>5. \A e \in Entry : Spending(s, e)' /\ Traced(written[s][e])'
  BY <1>1 DEF BookInv, Spending, Pending, Traced, Defined, Reached
<1>6. \A t \in Session, e \in Entry :
          t # s /\ Pending(s, e)' /\ Pending(t, e) => e \in overlapped' /\ expense[e] # NoExpense
  BY <1>1 DEF BookInv, Alone, Pending
<1> QED BY <1>1, <1>2, <1>3, <1>4, <1>5, <1>6, SessionKeeps

LEMMA BeginRunKeeps ==
    ASSUME BookInv, NEW s \in Session, NEW p \in Asked, BeginRun(s, p)
    PROVE  BookInv'
<1>0. p \in Period /\ p # NoPeriod
  BY BookAssumption
<1>1. /\ pc[s] = "idle" /\ pc' = [pc EXCEPT ![s] = "next"]
      /\ period' = [period EXCEPT ![s] = p]
      /\ todo' = [todo EXCEPT ![s] = {d \in Def : Matches(d, p)}]
      /\ UNCHANGED <<expense, recurring, posted, overlapped, holder, written, moved, revisions>>
  BY DEF BeginRun, book
<1>2. BookTypeOK'
  <2>1. NoRecurring \in Recurring
    BY DEF NoRecurring, Recurring, Frequency
  <2>2. loaded' \in [Session -> [Def -> Recurring]]
    BY <2>1 DEF BookInv, BookTypeOK, BeginRun
  <2> QED BY <1>0, <1>1, <2>2 DEF BookInv, BookTypeOK
<1>3. \A t \in Session \ {s} : Untouched(t)
  BY <1>1 DEF BookInv, BookTypeOK, Untouched
<1>4. Idle(s)' /\ Running(s)'
  <2>1. \A e \in Entry : written[s][e] = NoExpense
    BY <1>1 DEF BookInv, Idle, Pending
  <2>2. period'[s] = p /\ todo'[s] = {d \in Def : Matches(d, p)} /\ pc'[s] = "next"
    BY <1>1 DEF BookInv, BookTypeOK
  <2>3. \A d \in todo'[s] : Defined(d) /\ Reached(d, p)
    BY <1>0, <2>2 DEF BookInv, Matches, Defined
  <2> QED BY <1>0, <1>1, <2>1, <2>2, <2>3 DEF Idle, Running, Defined, Reached, NoExpense
<1>5. \A e \in Entry : Spending(s, e)' /\ Traced(written[s][e])'
  BY <1>1 DEF BookInv, Spending, Pending, Traced, Defined, Reached
<1>6. \A t \in Session, e \in Entry :
          t # s /\ Pending(s, e)' /\ Pending(t, e) => e \in overlapped' /\ expense[e] # NoExpense
  BY <1>1 DEF BookInv, Alone, Pending
<1> QED BY <1>1, <1>2, <1>3, <1>4, <1>5, <1>6, SessionKeeps

(* A session writes one row that nobody else is at work on, but for        *)
(* revisions that have met.                                                *)
LEMMA WriteKeeps ==
    ASSUME BookInv, NEW s \in Session, NEW e \in Entry, NEW row \in Expense, NEW amount \in Int,
           Write(s, e, row, amount),
           UNCHANGED <<expense, recurring, posted, holder, period, loaded>>,
           overlapped' \subseteq Entry, overlapped \subseteq overlapped', revisions' \in Nat,
           todo' \in [Session -> SUBSET Def], todo'[s] \subseteq todo[s],
           \A t \in Session \ {s} : todo'[t] = todo[t],
           row # NoExpense, Traced(row),
           amount = row.amount - expense[e].amount,
           expense[e] # NoExpense => row.source = expense[e].source /\ row.period = expense[e].period,
           period[s] # NoPeriod /\ row.source # NoDef => row.period = period[s],
           \A t \in Session : t # s /\ Pending(t, e) => e \in overlapped' /\ expense[e] # NoExpense
    PROVE  BookInv'
<1>1. BookTypeOK
  BY DEF BookInv
<1>2. /\ written' = [written EXCEPT ![s][e] = row]
      /\ moved' = [moved EXCEPT ![s][e] = amount]
      /\ pc' = [pc EXCEPT ![s] = "move"]
  BY DEF Write
<1>3. /\ written' \in [Session -> [Entry -> Expense]]
      /\ moved' \in [Session -> [Entry -> Int]]
      /\ pc' \in [Session -> {"idle", "next", "move"}]
  BY <1>1, <1>2 DEF BookTypeOK
<1>4. BookTypeOK'
  BY <1>1, <1>3 DEF BookTypeOK
<1>5. /\ \A t \in Session \ {s} : Untouched(t)
      /\ pc'[s] = "move" /\ written'[s][e] = row /\ moved'[s][e] = amount
      /\ \A x \in Entry \ {e} : written'[s][x] = written[s][x] /\ moved'[s][x] = moved[s][x]
  BY <1>1, <1>2 DEF BookTypeOK, Untouched
<1>6. Idle(s)' /\ Running(s)'
  <2>1. Running(s)
    BY DEF BookInv
  <2>2. \A x \in Entry : period[s] # NoPeriod /\ written'[s][x].source # NoDef =>
            written'[s][x].period = period[s]
    BY <1>5, <2>1 DEF Running
  <2> QED BY <1>5, <2>1, <2>2 DEF Idle, Running, Defined, Reached
<1>7. \A x \in Entry : Spending(s, x)' /\ Traced(written[s][x])'
  <2> SUFFICES ASSUME NEW x \in Entry PROVE Spending(s, x)' /\ Traced(written[s][x])'
    OBVIOUS
  <2>1. CASE x = e
    BY <1>5, <2>1 DEF Spending, Pending, Traced, Defined, Reached
  <2>2. CASE x # e
    <3>1. Spending(s, x) /\ Traced(written[s][x])
      BY DEF BookInv
    <3> QED BY <1>5, <2>2, <3>1 DEF Spending, Pending, Traced, Defined, Reached
  <2> QED BY <2>1, <2>2
<1>8. \A t \in Session, x \in Entry :
          t # s /\ Pending(s, x)' /\ Pending(t, x) => x \in overlapped' /\ expense[x] # NoExpense
  BY <1>5 DEF BookInv, Alone, Pending
<1> QED BY <1>4, <1>5, <1>6, <1>7, <1>8, SessionKeeps

LEMMA CreateKeeps ==
    ASSUME BookInv, NEW s \in Session, NEW e \in Entry, BeginCreate(s, e)
    PROVE  BookInv'
<1> USE BookAssumption
<1>1. PICK a \in Amount : Write(s, e, [NoExpense EXCEPT !.amount = a], a)
  BY DEF BeginCreate
<1> DEFINE row == [NoExpense EXCEPT !.amount = a]
<1>2. row = [amount |-> a, source |-> NoDef, period |-> NoPeriod] /\ a \in Nat \ {0}
  BY DEF NoExpense
<1>3. row \in Expense /\ row # NoExpense /\ Traced(row) /\ row.amount = a
  BY <1>2 DEF Expense, NoExpense, Traced
<1>4. Unused(e) /\ UNCHANGED <<expense, recurring, posted, overlapped, holder, period, loaded, todo, revisions>>
  BY DEF BeginCreate, book
<1>5. expense[e] = NoExpense /\ expense[e].amount = 0 /\ \A t \in Session : ~Pending(t, e)
  BY <1>4 DEF Unused, Pending, NoExpense
<1>6. overlapped \subseteq Entry /\ revisions \in Nat /\ todo \in [Session -> SUBSET Def]
  BY DEF BookInv, BookTypeOK
<1>7. row.source = NoDef /\ a \in Int /\ a = row.amount - expense[e].amount
  BY <1>2, <1>5
<1> HIDE DEF row
<1>8. Write(s, e, row, a)
  BY <1>1 DEF row
<1> QED BY <1>3, <1>4, <1>5, <1>6, <1>7, <1>8, WriteKeeps

LEMMA ReviseKeeps ==
    ASSUME BookInv, NEW s \in Session, NEW e \in Entry, BeginRevise(s, e)
    PROVE  BookInv'
<1> USE BookAssumption
<1>1. PICK a \in Amount : Write(s, e, [expense[e] EXCEPT !.amount = a], Delta(e, a))
  BY DEF BeginRevise
<1> DEFINE row == [expense[e] EXCEPT !.amount = a]
<1>2. /\ pc[s] = "idle" /\ expense[e] # NoExpense /\ revisions' = revisions + 1
      /\ overlapped' = IF \E t \in Session : Revising(t, e) THEN overlapped \cup {e} ELSE overlapped
      /\ UNCHANGED <<expense, recurring, posted, holder, period, loaded, todo>>
  BY DEF BeginRevise
<1>3. expense[e] \in Expense /\ a \in Nat \ {0} /\ overlapped \subseteq Entry /\ revisions \in Nat
      /\ todo \in [Session -> SUBSET Def]
  BY DEF BookInv, BookTypeOK
<1>4. row \in Expense /\ row.amount = a /\ row.source = expense[e].source
      /\ row.period = expense[e].period
  BY <1>3 DEF Expense
<1> HIDE DEF row
<1>5. row # NoExpense
  BY <1>3, <1>4 DEF NoExpense
<1>6. Traced(row)
  BY <1>4 DEF BookInv, Traced
<1>7. Delta(e, a) \in Int /\ Delta(e, a) = row.amount - expense[e].amount
  BY <1>3, <1>4 DEF Delta, Expense
<1>8. period[s] = NoPeriod
  BY <1>2 DEF BookInv, Idle
<1>9. \A t \in Session : t # s /\ Pending(t, e) => e \in overlapped' /\ expense[e] # NoExpense
  BY <1>2 DEF Revising, Pending
<1>10. Write(s, e, row, Delta(e, a))
  BY <1>1 DEF row
<1>11. overlapped' \subseteq Entry /\ overlapped \subseteq overlapped' /\ revisions' \in Nat
  BY <1>2, <1>3
<1> QED BY <1>2, <1>3, <1>4, <1>5, <1>6, <1>7, <1>8, <1>9, <1>10, <1>11, WriteKeeps

LEMMA GenerateKeeps ==
    ASSUME BookInv, NEW s \in Session, NEW d \in Def, NEW e \in Entry, Generate(s, d, e)
    PROVE  BookInv'
<1> USE BookAssumption
<1>1. PICK a \in Amount : Write(s, e, [amount |-> a, source |-> d, period |-> period[s]], a)
  BY DEF Generate
<1> DEFINE row == [amount |-> a, source |-> d, period |-> period[s]]
<1>2. /\ d \in todo[s] /\ Unused(e) /\ todo' = [todo EXCEPT ![s] = @ \ {d}]
      /\ UNCHANGED <<expense, recurring, posted, overlapped, holder, period, loaded, revisions>>
  BY DEF Generate, book
<1>3. Defined(d) /\ period[s] \in Period /\ Reached(d, period[s])
  BY <1>2 DEF BookInv, Running
<1>4. row \in Expense /\ row # NoExpense /\ Traced(row)
  BY <1>3 DEF Expense, NoExpense, Traced
<1>5. expense[e] = NoExpense /\ expense[e].amount = 0 /\ \A t \in Session : ~Pending(t, e)
  BY <1>2 DEF Unused, Pending, NoExpense
<1>6. /\ overlapped \subseteq Entry /\ revisions \in Nat /\ todo' \in [Session -> SUBSET Def]
      /\ todo'[s] \subseteq todo[s] /\ \A t \in Session \ {s} : todo'[t] = todo[t]
  BY <1>2 DEF BookInv, BookTypeOK
<1>7. row.period = period[s] /\ a \in Int /\ a = row.amount - expense[e].amount
  BY <1>5
<1> HIDE DEF row
<1>8. Write(s, e, row, a)
  BY <1>1 DEF row
<1> QED BY <1>2, <1>4, <1>5, <1>6, <1>7, <1>8, WriteKeeps

-----------------------------------------------------------------------------
(* The commit: rows of which only this session has one, or revisions that  *)
(* have met, become the tables', and the definitions it ran move on.       *)

LEMMA CommitKeeps ==
    ASSUME BookInv, NEW s \in Session, Commit(s)
    PROVE  BookInv'
<1> USE BookAssumption
<1>1. /\ EndSession(s) /\ BookTypeOK
      /\ expense' = [e \in Entry |-> IF Pending(s, e) THEN written[s][e] ELSE expense[e]]
      /\ posted' = [e \in Entry |-> posted[e] + moved[s][e]]
      /\ recurring' = [d \in Def |-> IF period[s] # NoPeriod /\ d \in Generated(s)
                                       THEN [recurring[d] EXCEPT !.due = Due(s, d)]
                                       ELSE recurring[d]]
      /\ UNCHANGED <<overlapped, revisions>>
  BY DEF Commit, BookInv, Pending
<1>2. \A t \in Session \ {s} : Untouched(t)
  BY <1>1, EndKeepsTypes
<1>3. /\ \A e \in Entry : written'[s][e] = NoExpense /\ moved'[s][e] = 0
      /\ period'[s] = NoPeriod /\ todo'[s] = {}
  BY <1>1, EndKeepsTypes
<1>4. \A d \in Def : period[s] # NoPeriod =>
          /\ Due(s, d) \in Period
          /\ \E n \in {1, 3, 12} : Ordinal(Due(s, d)) = Ordinal(period[s]) + n
  <2> SUFFICES ASSUME NEW d \in Def, period[s] # NoPeriod
               PROVE  /\ Due(s, d) \in Period
                      /\ \E n \in {1, 3, 12} : Ordinal(Due(s, d)) = Ordinal(period[s]) + n
    OBVIOUS
  <2>1. period[s] \in Period /\ loaded[s][d].frequency \in Frequency
    BY <1>1 DEF BookTypeOK, Recurring
  <2> QED BY <2>1, NextRunAdvances DEF Due
<1>5. BookTypeOK'
  <2>1. expense' \in [Entry -> Expense] /\ posted' \in [Entry -> Int]
    BY <1>1 DEF BookTypeOK
  <2>2. recurring' \in [Def -> Recurring]
    <3>1. ASSUME NEW d \in Def PROVE recurring'[d] \in Recurring
      <4>1. recurring[d] \in Recurring
        BY <1>1 DEF BookTypeOK
      <4>2. CASE period[s] # NoPeriod /\ d \in Generated(s)
        <5>1. recurring'[d] = [recurring[d] EXCEPT !.due = Due(s, d)]
          BY <1>1, <4>2
        <5>2. Due(s, d) \in Period
          BY <1>4, <4>2
        <5> QED BY <4>1, <5>1, <5>2 DEF Recurring
      <4>3. CASE ~(period[s] # NoPeriod /\ d \in Generated(s))
        BY <1>1, <4>1, <4>3
      <4> QED BY <4>2, <4>3
    <3> QED BY <1>1, <3>1
  <2> QED BY <1>1, <2>1, <2>2, EndKeepsTypes DEF BookTypeOK
<1>6. \A e \in Entry : expense[e] # NoExpense =>
          expense'[e].source = expense[e].source /\ expense'[e].period = expense[e].period
  BY <1>1 DEF BookInv, Spending
<1>7. \A e \in Entry, d \in Def : expense[e].source = d =>
          expense'[e].source = d /\ expense'[e].period = expense[e].period
  BY <1>6 DEF NoExpense
<1>8. \A d \in Def : recurring'[d].first = recurring[d].first /\ (Defined(d) => Defined(d)')
  BY <1>1, <1>4 DEF BookTypeOK, Recurring, Defined
<1>9. \A d \in Def, p \in Period : Reached(d, p) => Reached(d, p)'
  BY <1>7, <1>8, ReachedStays
<1>10. \A x \in Expense : Traced(x) => Traced(x)'
  BY <1>8, <1>9 DEF Traced, Expense
<1>11. \A e \in Entry : Traced(expense[e])'
  <2> SUFFICES ASSUME NEW e \in Entry PROVE Traced(expense[e])'
    OBVIOUS
  <2>1. expense'[e] \in Expense /\ Traced(expense'[e])
    BY <1>1, <1>5 DEF BookInv, BookTypeOK
  <2> QED BY <1>10, <2>1 DEF Traced, Defined, Reached
<1>12. \A t \in Session : Idle(t)' /\ Running(t)'
  <2> SUFFICES ASSUME NEW t \in Session PROVE Idle(t)' /\ Running(t)'
    OBVIOUS
  <2>1. CASE t = s
    BY <1>3, <2>1 DEF Idle, Running, Pending
  <2>2. CASE t # s
    <3>1. Untouched(t) /\ Idle(t) /\ Running(t) /\ todo[t] \subseteq Def
      BY <1>1, <1>2, <2>2 DEF BookInv, BookTypeOK
    <3>2. Idle(t)'
      BY <3>1 DEF Untouched, Idle, Pending
    <3>3. Running(t)'
      BY <1>8, <1>9, <3>1 DEF Untouched, Running
    <3> QED BY <3>2, <3>3
  <2> QED BY <2>1, <2>2
<1>13. \A t \in Session, e \in Entry : Spending(t, e)' /\ Traced(written[t][e])'
  <2> SUFFICES ASSUME NEW t \in Session, NEW e \in Entry
               PROVE  Spending(t, e)' /\ Traced(written[t][e])'
    OBVIOUS
  <2>1. CASE t = s
    BY <1>3, <2>1 DEF Spending, Pending, Traced, NoExpense
  <2>2. CASE t # s
    <3>1. Untouched(t) /\ Spending(t, e) /\ Traced(written[t][e]) /\ written[t][e] \in Expense
      BY <1>1, <1>2, <2>2 DEF BookInv, BookTypeOK
    <3>2. Traced(written[t][e])'
      BY <1>10, <3>1 DEF Untouched, Traced, Defined, Reached
    <3>3. CASE ~Pending(s, e)
      BY <1>1, <3>1, <3>2, <3>3 DEF Untouched, Spending, Pending
    <3>4. CASE Pending(s, e) /\ ~Pending(t, e)
      BY <3>1, <3>2, <3>4 DEF Untouched, Spending, Pending
    <3>5. CASE Pending(s, e) /\ Pending(t, e)
      <4>1. e \in overlapped /\ expense[e] # NoExpense
        BY <2>2, <3>5 DEF BookInv, Alone
      <4> QED BY <1>1, <1>6, <3>1, <3>2, <3>5, <4>1 DEF Untouched, Spending, Pending
    <3> QED BY <3>3, <3>4, <3>5
  <2> QED BY <2>1, <2>2
<1>14. \A t, u \in Session, e \in Entry : Alone(t, u, e)'
  <2> SUFFICES ASSUME NEW t \in Session, NEW u \in Session, NEW e \in Entry,
                      t # u, Pending(t, e)', Pending(u, e)'
               PROVE  e \in overlapped' /\ (expense[e] # NoExpense)'
    BY DEF Alone
  <2>1. t # s /\ u # s
    BY <1>3 DEF Pending
  <2>2. Pending(t, e) /\ Pending(u, e)
    BY <1>2, <2>1 DEF Untouched, Pending
  <2>3. e \in overlapped /\ expense[e] # NoExpense
    BY <2>2 DEF BookInv, Alone
  <2> QED BY <1>1, <2>3 DEF Pending
<1>15. \A d \in Def : Defined(d)' => Reached(d, recurring[d].due)'
  <2> SUFFICES ASSUME NEW d \in Def, Defined(d)' PROVE Reached(d, recurring[d].due)'
    OBVIOUS
  <2>1. CASE period[s] # NoPeriod /\ d \in Generated(s)
    <3>1. PICK e \in Entry : written[s][e].source = d
      BY <2>1 DEF Generated
    <3>2. written[s][e].period = period[s]
      BY <2>1, <3>1 DEF BookInv, Running
    <3>3. expense'[e].source = d /\ expense'[e].period = period[s]
      BY <1>1, <3>1, <3>2 DEF Pending, NoExpense
    <3>4. recurring'[d].due = Due(s, d)
      BY <1>1, <2>1 DEF BookTypeOK, Recurring
    <3> QED BY <1>4, <2>1, <3>3, <3>4 DEF Reached
  <2>2. CASE ~(period[s] # NoPeriod /\ d \in Generated(s))
    <3>1. recurring'[d] = recurring[d]
      BY <1>1, <2>2
    <3>2. Defined(d) /\ recurring[d].due \in Period /\ Reached(d, recurring[d].due)
      BY <1>1, <3>1 DEF BookInv, BookTypeOK, Recurring, Defined
    <3> QED BY <1>9, <3>1, <3>2 DEF Reached
  <2> QED BY <2>1, <2>2
<1>16. PostedByTheBook'
  <2> SUFFICES ASSUME NEW e \in Entry, e \notin overlapped PROVE posted'[e] = expense'[e].amount
    BY <1>1 DEF PostedByTheBook
  <2>1. posted[e] = expense[e].amount /\ Spending(s, e)
    BY DEF BookInv, PostedByTheBook
  <2>2. expense[e].amount \in Nat /\ written[s][e].amount \in Nat
    BY <1>1 DEF BookTypeOK, Expense
  <2> QED BY <1>1, <2>1, <2>2 DEF Spending
<1> QED BY <1>5, <1>11, <1>12, <1>13, <1>14, <1>15, <1>16 DEF BookInv

LEMMA BookStep == BookInv /\ [BookNext]_bkvars => BookInv'
<1> SUFFICES ASSUME BookInv, [BookNext]_bkvars PROVE BookInv'
  OBVIOUS
<1>1. CASE UNCHANGED bkvars
  <2>1. UNCHANGED <<expense, recurring, posted, overlapped, holder, pc, written, moved, period, loaded,
                    todo, revisions>>
    BY <1>1 DEF bkvars, book, work
  <2> QED BY <2>1 DEF BookInv, BookTypeOK, Idle, Running, Spending, Traced, Alone, Pending, Defined,
            Reached, PostedByTheBook
<1>2. ASSUME NEW d \in Def, CreateRecurring(d) \/ UpdateRecurring(d) PROVE BookInv'
  BY <1>2, DefinitionKeeps
<1>3. ASSUME NEW s \in Session,
             \/ \E e \in Entry : BeginCreate(s, e) \/ BeginRevise(s, e)
             \/ \E p \in Asked : BeginRun(s, p)
             \/ \E d \in Def : Skip(s, d) \/ \E e \in Entry : Generate(s, d, e)
             \/ Move(s) \/ Refuse(s) \/ Abort(s) \/ Commit(s)
      PROVE  BookInv'
  BY <1>3, CreateKeeps, ReviseKeeps, BeginRunKeeps, SkipKeeps, GenerateKeeps, MoveKeeps,
     RollbackKeeps, CommitKeeps
<1> QED BY <1>1, <1>2, <1>3 DEF BookNext

-----------------------------------------------------------------------------

(* The book's inductive invariant: what each session is about to commit    *)
(* has been taken out of the fund, and was due.                            *)
THEOREM BookInvariant == BookSpec => []BookInv
  BY BookInitially, BookStep, PTL DEF BookSpec

(* Every variable of the book keeps its type: months stay months. *)
THEOREM BookTypeCorrect == BookSpec => []BookTypeOK
<1>1. BookInv => BookTypeOK
  BY DEF BookInv
<1> QED BY <1>1, BookInvariant, PTL

(* An expense has cost the fund its amount unless two revisions of it ever *)
(* met (update_expense).                                                   *)
THEOREM BookPosted == BookSpec => []PostedByTheBook
<1>1. BookInv => PostedByTheBook
  BY DEF BookInv
<1> QED BY <1>1, BookInvariant, PTL

(* Stale, late or repeated runs skip no month of a definition's cycle      *)
(* (generate_recurring_expenses_for_period).                               *)
THEOREM BookCycle == BookSpec => []CycleUnbroken
<1>1. BookInv => CycleUnbroken
  <2> SUFFICES ASSUME BookInv PROVE CycleUnbroken
    OBVIOUS
  <2>1. \A d \in Def : recurring[d].due # NoPeriod => Reached(d, recurring[d].due)
    BY DEF BookInv, Defined
  <2>2. \A e \in Entry : expense[e].source # NoDef => Reached(expense[e].source, expense[e].period)
    BY DEF BookInv, Traced
  <2> QED BY <2>1, <2>2 DEF CycleUnbroken
<1> QED BY <1>1, BookInvariant, PTL

-----------------------------------------------------------------------------
(* A run looks for its first definition without the fund's lock.  Once it  *)
(* has moved money it holds the lock to its end, and what it has not found *)
(* under the lock stays absent: whoever could add it waits.                *)

(* A session that has moved money holds the lock; one that has yet to do   *)
(* so has written one row.                                                 *)
Locked(s) ==
    /\ pc[s] = "next" /\ (\E e \in Entry : Pending(s, e)) => holder = s
    /\ pc[s] = "move" /\ holder # s =>
           \A e, f \in Entry : Pending(s, e) /\ Pending(s, f) => e = f

(* Session s is about to charge definition d for month p. *)
Charging(s, d, p) ==
    \E e \in Entry :
        /\ Pending(s, e) /\ expense[e] = NoExpense
        /\ written[s][e].source = d /\ written[s][e].period = p

(* It has missed a charge of one definition at most. *)
OneMissed(s) ==
    \A x, y \in Def \X (Period \cup {NoPeriod}) :
        Charging(s, x[1], x[2]) /\ Charging(s, y[1], y[2]) =>
            x = y \/ Copies(x[1], x[2]) = {} \/ Copies(y[1], y[2]) = {}

ChargeInv == \A s \in Session : Locked(s) /\ OneMissed(s)

LEMMA ChargeInitially == BookInit => ChargeInv
BY DEF BookInit, ChargeInv, Locked, OneMissed, Charging, Pending

(* A session that does nothing, while the tables stay and the lock is not  *)
(* taken from it.                                                          *)
LEMMA ChargeUntouched ==
    ASSUME ChargeInv, NEW t \in Session, Untouched(t), expense' = expense,
           holder = t => holder' = t
    PROVE  Locked(t)' /\ OneMissed(t)'
<1>1. Locked(t) /\ OneMissed(t)
  BY DEF ChargeInv
<1>2. Locked(t)'
  BY <1>1 DEF Locked, Untouched, Pending
<1>3. OneMissed(t)'
  BY <1>1 DEF OneMissed, Untouched, Charging, Copies, Pending
<1> QED BY <1>2, <1>3

(* A session that has written nothing has nothing to answer for. *)
LEMMA ChargeNothing ==
    ASSUME NEW s \in Session, \A e \in Entry : ~Pending(s, e)'
    PROVE  Locked(s)' /\ OneMissed(s)'
BY DEF Locked, OneMissed, Charging

(* An idle session that begins a row writes its only one. *)
LEMMA ChargeFirst ==
    ASSUME BookInv, NEW s \in Session, pc[s] = "idle", NEW e \in Entry, NEW row, NEW amount,
           Write(s, e, row, amount)
    PROVE  Locked(s)' /\ OneMissed(s)'
<1>1. pc'[s] = "move" /\ \A f \in Entry : Pending(s, f)' => f = e
  BY DEF BookInv, BookTypeOK, Idle, Write, Pending
<1>2. OneMissed(s)'
  <2> SUFFICES ASSUME NEW x \in Def \X (Period \cup {NoPeriod}),
                      NEW y \in Def \X (Period \cup {NoPeriod}),
                      Charging(s, x[1], x[2])', Charging(s, y[1], y[2])'
               PROVE  x = y
    BY DEF OneMissed
  <2>1. /\ written'[s][e].source = x[1] /\ written'[s][e].period = x[2]
        /\ written'[s][e].source = y[1] /\ written'[s][e].period = y[2]
    BY <1>1 DEF Charging
  <2>2. x = <<x[1], x[2]>> /\ y = <<y[1], y[2]>>
    OBVIOUS
  <2> QED BY <2>1, <2>2
<1> QED BY <1>1, <1>2 DEF Locked

(* A run writes a row of a definition of which it has just found no        *)
(* charge.                                                                 *)
LEMMA ChargeGenerate ==
    ASSUME BookInv, ChargeInv, NEW s \in Session, NEW d \in Def, NEW e \in Entry,
           Generate(s, d, e)
    PROVE  Locked(s)' /\ OneMissed(s)'
<1>1. PICK a \in Amount : Write(s, e, [amount |-> a, source |-> d, period |-> period[s]], a)
  BY DEF Generate
<1>2. /\ pc[s] = "next" /\ Copies(d, period[s]) = {} /\ expense' = expense /\ holder' = holder
      /\ Locked(s) /\ OneMissed(s) /\ BookTypeOK
  BY DEF Generate, Duplicate, book, ChargeInv, BookInv
<1>3. /\ pc'[s] = "move"
      /\ written'[s][e].source = d /\ written'[s][e].period = period[s]
      /\ \A f \in Entry \ {e} : written'[s][f] = written[s][f]
  BY <1>1, <1>2 DEF Write, BookTypeOK
<1>4. Locked(s)'
  <2>1. CASE holder = s
    BY <1>2, <1>3, <2>1 DEF Locked
  <2>2. CASE holder # s
    BY <1>2, <1>3, <2>2 DEF Locked, Pending
  <2> QED BY <2>1, <2>2
<1>5. ASSUME NEW c, NEW p, Charging(s, c, p)'
      PROVE  Charging(s, c, p) \/ Copies(c, p) = {}
  BY <1>2, <1>3, <1>5 DEF Charging, Pending
<1>6. \A c, p : Copies(c, p)' = Copies(c, p)
  BY <1>2 DEF Copies
<1>7. OneMissed(s)'
  <2> SUFFICES ASSUME NEW x \in Def \X (Period \cup {NoPeriod}),
                      NEW y \in Def \X (Period \cup {NoPeriod}),
                      Charging(s, x[1], x[2])', Charging(s, y[1], y[2])'
               PROVE  x = y \/ Copies(x[1], x[2]) = {} \/ Copies(y[1], y[2]) = {}
    BY <1>6 DEF OneMissed
  <2> QED BY <1>2, <1>5 DEF OneMissed
<1> QED BY <1>4, <1>7

(* The rows that a commit adds; a revised row keeps its definition and     *)
(* its month.                                                              *)
LEMMA CommitCopies ==
    ASSUME BookInv, NEW s \in Session, Commit(s), NEW d \in Def, NEW p
    PROVE  Copies(d, p)' = Copies(d, p) \/ Charging(s, d, p)
<1>1. expense' = [e \in Entry |-> IF Pending(s, e) THEN written[s][e] ELSE expense[e]]
  BY DEF Commit, Pending
<1>2. \A e \in Entry : expense[e] # NoExpense =>
          expense'[e].source = expense[e].source /\ expense'[e].period = expense[e].period
  BY <1>1 DEF BookInv, Spending
<1>3. NoExpense.source # d
  BY BookAssumption DEF NoExpense
<1>4. CASE Charging(s, d, p)
  BY <1>4
<1>5. CASE ~Charging(s, d, p)
  <2>1. ASSUME NEW e \in Entry
        PROVE  (expense'[e].source = d /\ expense'[e].period = p) <=>
               (expense[e].source = d /\ expense[e].period = p)
    <3>1. CASE expense[e] # NoExpense
      BY <1>2, <3>1
    <3>2. CASE expense[e] = NoExpense
      BY <1>1, <1>3, <1>5, <3>2 DEF Charging
    <3> QED BY <3>1, <3>2
  <2> QED BY <2>1 DEF Copies
<1> QED BY <1>4, <1>5

(* While another session commits rows, this one has not got the lock. *)
LEMMA ChargeOtherCommit ==
    ASSUME BookInv, ChargeInv, NEW s \in Session, Commit(s), NEW t \in Session \ {s}
    PROVE  Locked(t)' /\ OneMissed(t)'
<1>1. /\ Untouched(t) /\ (holder = t => holder' = t)
      /\ Locked(t) /\ OneMissed(t) /\ Locked(s) /\ BookTypeOK
  BY EndKeepsTypes DEF Commit, EndSession, ChargeInv, BookInv
<1>2. Locked(t)'
  BY <1>1 DEF Locked, Untouched, Pending
<1>3. CASE \A e \in Entry : ~Pending(s, e)
  <2>1. \A d \in Def : \A p : Copies(d, p)' = Copies(d, p)
    BY <1>3, CommitCopies DEF Charging
  <2>2. expense' = expense
    BY <1>1, <1>3 DEF Commit, Pending, BookTypeOK
  <2> QED BY <1>1, <2>2, ChargeUntouched
<1>4. CASE \E e \in Entry : Pending(s, e)
  <2>1. holder = s
    BY <1>1, <1>4 DEF Commit, Locked
  <2>2. \A e, f \in Entry : Pending(t, e) /\ Pending(t, f) => e = f
    BY <1>1, <2>1 DEF Locked, BookInv, BookTypeOK, Idle
  <2>3. \A e, f \in Entry : Pending(t, e)' /\ Pending(t, f)' => e = f
    BY <1>1, <2>2 DEF Untouched, Pending
  <2>4. OneMissed(t)'
    <3> SUFFICES ASSUME NEW x \in Def \X (Period \cup {NoPeriod}),
                        NEW y \in Def \X (Period \cup {NoPeriod}),
                        Charging(t, x[1], x[2])', Charging(t, y[1], y[2])'
                 PROVE  x = y
      BY DEF OneMissed
    <3>1. PICK e \in Entry : /\ Pending(t, e)' /\ written'[t][e].source = x[1]
                             /\ written'[t][e].period = x[2]
      BY DEF Charging
    <3>2. PICK f \in Entry : /\ Pending(t, f)' /\ written'[t][f].source = y[1]
                             /\ written'[t][f].period = y[2]
      BY DEF Charging
    <3> QED BY <2>3, <3>1, <3>2
  <2> QED BY <1>2, <2>4
<1> QED BY <1>3, <1>4

LEMMA ChargeStep == BookInv /\ ChargeInv /\ [BookNext]_bkvars => ChargeInv'
<1> SUFFICES ASSUME BookInv, ChargeInv, [BookNext]_bkvars, NEW t \in Session
             PROVE  Locked(t)' /\ OneMissed(t)'
  BY DEF ChargeInv
<1>0. BookTypeOK
  BY DEF BookInv
<1>1. CASE UNCHANGED bkvars
  BY <1>1, ChargeUntouched DEF bkvars, book, work, Untouched
<1>2. ASSUME NEW d \in Def, CreateRecurring(d) \/ UpdateRecurring(d)
      PROVE  Locked(t)' /\ OneMissed(t)'
  BY <1>2, ChargeUntouched DEF CreateRecurring, UpdateRecurring, work, Untouched
<1>3. ASSUME NEW s \in Session, NEW e \in Entry, BeginCreate(s, e) \/ BeginRevise(s, e)
      PROVE  Locked(t)' /\ OneMissed(t)'
  <2>1. PICK row, amount : Write(s, e, row, amount)
    BY <1>3 DEF BeginCreate, BeginRevise
  <2>2. pc[s] = "idle" /\ UNCHANGED <<expense, holder, period, todo>>
    BY <1>3 DEF BeginCreate, BeginRevise, book
  <2>3. CASE t = s
    BY <2>1, <2>2, <2>3, ChargeFirst
  <2>4. CASE t # s
    BY <1>0, <2>1, <2>2, <2>4, ChargeUntouched DEF Write, Untouched, BookTypeOK
  <2> QED BY <2>3, <2>4
<1>4. ASSUME NEW s \in Session, NEW p \in Asked, BeginRun(s, p)
      PROVE  Locked(t)' /\ OneMissed(t)'
  <2>1. CASE t = s
    BY <1>4, <2>1, ChargeNothing DEF BeginRun, BookInv, Idle, Pending
  <2>2. CASE t # s
    BY <1>0, <1>4, <2>2, ChargeUntouched DEF BeginRun, book, Untouched, BookTypeOK
  <2> QED BY <2>1, <2>2
<1>5. ASSUME NEW s \in Session, NEW d \in Def, Skip(s, d)
      PROVE  Locked(t)' /\ OneMissed(t)'
  <2>1. UNCHANGED <<expense, holder, pc, written, moved, period>>
    BY <1>5 DEF Skip, book
  <2> QED BY <2>1 DEF ChargeInv, Locked, OneMissed, Charging, Copies, Pending
<1>6. ASSUME NEW s \in Session, NEW d \in Def, NEW e \in Entry, Generate(s, d, e)
      PROVE  Locked(t)' /\ OneMissed(t)'
  <2>1. CASE t = s
    BY <1>6, <2>1, ChargeGenerate
  <2>2. CASE t # s
    <3>1. UNCHANGED <<expense, holder, period>> /\ todo'[t] = todo[t]
      BY <1>0, <1>6, <2>2 DEF Generate, book, BookTypeOK
    <3>2. pc'[t] = pc[t] /\ written'[t] = written[t] /\ moved'[t] = moved[t]
      BY <1>0, <1>6, <2>2 DEF Generate, Write, BookTypeOK
    <3> QED BY <3>1, <3>2, ChargeUntouched DEF Untouched
  <2> QED BY <2>1, <2>2
<1>7. ASSUME NEW s \in Session, Move(s) PROVE Locked(t)' /\ OneMissed(t)'
  <2>1. /\ UNCHANGED <<expense, written, moved, period, todo>> /\ holder' = s
        /\ holder \in {NoSession, s} /\ pc' = [pc EXCEPT ![s] = "next"]
    BY <1>7 DEF Move, Lockable, book
  <2>2. CASE t = s
    <3>1. Locked(t)'
      BY <1>0, <2>1, <2>2 DEF Locked, BookTypeOK
    <3>2. OneMissed(t)'
      BY <2>1 DEF ChargeInv, OneMissed, Charging, Copies, Pending
    <3> QED BY <3>1, <3>2
  <2>3. CASE t # s
    <3>1. Untouched(t) /\ holder # t
      BY <1>0, <2>1, <2>3, BookAssumption DEF Untouched, BookTypeOK
    <3> QED BY <2>1, <3>1, ChargeUntouched
  <2> QED BY <2>2, <2>3
<1>8. ASSUME NEW s \in Session, Refuse(s) \/ Abort(s) PROVE Locked(t)' /\ OneMissed(t)'
  <2>1. EndSession(s) /\ expense' = expense
    BY <1>8 DEF Refuse, Abort, book
  <2>2. CASE t = s
    BY <1>0, <2>1, <2>2, EndKeepsTypes, ChargeNothing DEF Pending
  <2>3. CASE t # s
    BY <1>0, <2>1, <2>3, EndKeepsTypes, ChargeUntouched DEF EndSession
  <2> QED BY <2>2, <2>3
<1>9. ASSUME NEW s \in Session, Commit(s) PROVE Locked(t)' /\ OneMissed(t)'
  <2>1. CASE t = s
    BY <1>0, <1>9, <2>1, EndKeepsTypes, ChargeNothing DEF Commit, Pending
  <2>2. CASE t # s
    BY <1>9, <2>2, ChargeOtherCommit
  <2> QED BY <2>1, <2>2
<1> QED BY <1>1, <1>2, <1>3, <1>4, <1>5, <1>6, <1>7, <1>8, <1>9 DEF BookNext

LEMMA AtMostOne ==
    ASSUME NEW X, \A x, y \in X : x = y
    PROVE  Cardinality(X) <= 1
<1>1. CASE X = {}
  BY <1>1, FS_EmptySet
<1>2. ASSUME NEW x \in X PROVE Cardinality(X) <= 1
  <2>1. X = {x}
    BY <1>2
  <2>2. Cardinality(X) = 1
    BY <2>1, FS_Singleton
  <2> QED BY <2>2
<1> QED BY <1>1, <1>2

(* However runs overlap, a run charges at most one definition that has     *)
(* been charged for its month before                                       *)
(* (generate_recurring_expenses_for_period).                               *)
THEOREM BookOneDuplicate == BookSpec => OneDuplicatePerRun
<1> DEFINE Again == {x \in Def \X Asked :
                        LET old == Copies(x[1], x[2])
                        IN  old # {} /\ Copies(x[1], x[2])' # old}
<1>1. BookInv /\ ChargeInv /\ [BookNext]_bkvars => [Cardinality(Again) <= 1]_bkvars
  <2> SUFFICES ASSUME BookInv, ChargeInv, BookNext PROVE Cardinality(Again) <= 1
    OBVIOUS
  <2>1. CASE expense' = expense
    <3>1. Again = {}
      BY <2>1 DEF Copies
    <3> QED BY <3>1, AtMostOne
  <2>2. ASSUME NEW s \in Session, Commit(s) PROVE Cardinality(Again) <= 1
    <3> SUFFICES ASSUME NEW x \in Again, NEW y \in Again PROVE x = y
      BY AtMostOne
    <3>1. /\ x \in Def \X Asked /\ y \in Def \X Asked
          /\ Copies(x[1], x[2]) # {} /\ Copies(x[1], x[2])' # Copies(x[1], x[2])
          /\ Copies(y[1], y[2]) # {} /\ Copies(y[1], y[2])' # Copies(y[1], y[2])
      OBVIOUS
    <3> HIDE DEF Again
    <3>2. Charging(s, x[1], x[2]) /\ Charging(s, y[1], y[2])
      BY <2>2, <3>1, CommitCopies
    <3>3. x \in Def \X (Period \cup {NoPeriod}) /\ y \in Def \X (Period \cup {NoPeriod})
      BY <3>1, BookAssumption
    <3> QED BY <3>1, <3>2, <3>3 DEF ChargeInv, OneMissed
  <2>3. expense' = expense \/ \E s \in Session : Commit(s)
    BY DEF BookNext, CreateRecurring, UpdateRecurring, BeginCreate, BeginRevise, BeginRun, Skip,
       Generate, Move, Refuse, Abort, book
  <2> QED BY <2>1, <2>2, <2>3
<1>2. BookSpec => []ChargeInv
  BY ChargeInitially, ChargeStep, BookInvariant, PTL DEF BookSpec
<1> QED BY <1>1, <1>2, BookInvariant, PTL DEF BookSpec, OneDuplicatePerRun
=============================================================================
