------------------------------ MODULE Billing ------------------------------
(***************************************************************************)
(* The monthly billing run (generate_invoices_for_period of                *)
(* app/services/billing_service.py) for one period, started by the         *)
(* accountant (app/routers/billing.py) and by the cron endpoint            *)
(* (app/routers/internal_jobs.py), in overlapping database sessions.       *)
(*                                                                         *)
(* A run reads the residents and the active monthly plans, looks for an    *)
(* invoice of each pair, inserts and flushes the missing ones, commits     *)
(* them together and then tells their residents.  Neither SELECT has an    *)
(* ORDER BY, so the order of the pairs is the database's choice.  A flush  *)
(* meets the unique constraint on (resident, plan, period): it waits for   *)
(* another session's uncommitted row and fails on a committed one, which   *)
(* rolls the whole run back; PostgreSQL breaks a cycle of waiting runs.    *)
(* No code cancels an invoice, so the CANCELLED exception is left out.     *)
(***************************************************************************)
EXTENDS Naturals, FiniteSets

CONSTANTS
    Run,            \* sessions that run the billing
    Cron,           \* those of the cron endpoint
    User, Plan,
    NoKey,
    MaxStarts,      \* bound: runs the accountant starts
    MaxFaults       \* bound: runs that die and notifications that are lost

Key == [resident : User, plan : Plan]

ASSUME RunAssumption ==
    /\ Cron \subseteq Run /\ NoKey \notin Key
    /\ MaxStarts \in Nat /\ MaxFaults \in Nat

VARIABLES
    residents,      \* users with the role RESIDENT
    plans,          \* active plans with a monthly cycle
    billed,         \* invoices of each pair, for this period
    mails           \* INVOICE_GENERATED mails about each pair: none, one, more

tables == <<residents, plans, billed, mails>>

VARIABLES
    pc,             \* where each run is
    scope,          \* the pairs of the residents and plans it read
    todo,           \* those it has not looked at yet
    current,        \* the pair it found no invoice of and goes on to insert
    staged,         \* its flushed, uncommitted invoices
    mailing         \* invoices whose residents it has still to tell

work == <<pc, scope, todo, current, staged, mailing>>

VARIABLES starts, faults

bvars == <<tables, work, starts, faults>>

PC == {"idle", "check", "insert", "tell", "again"}

BillInit ==
    /\ residents \in SUBSET User
    /\ plans \in SUBSET Plan
    /\ billed = [k \in Key |-> 0]
    /\ mails = [k \in Key |-> 0]
    /\ pc = [r \in Run |-> "idle"]
    /\ scope = [r \in Run |-> {}]
    /\ todo = [r \in Run |-> {}]
    /\ current = [r \in Run |-> NoKey]
    /\ staged = [r \in Run |-> {}]
    /\ mailing = [r \in Run |-> {}]
    /\ starts = 0
    /\ faults = 0

-----------------------------------------------------------------------------
(* Around the run: users register, leave or change role, plans change. *)

ChangeRole(u) ==
    /\ residents' = IF u \in residents THEN residents \ {u} ELSE residents \cup {u}
    /\ UNCHANGED <<plans, billed, mails, work, starts, faults>>

UpdatePlan(p) ==
    /\ plans' = IF p \in plans THEN plans \ {p} ELSE plans \cup {p}
    /\ UNCHANGED <<residents, billed, mails, work, starts, faults>>

-----------------------------------------------------------------------------
(* The run. *)

(* A mutation of Pairs: the two ids are swapped. *)
Pairs_Swapped == [resident : plans, plan : residents]

Pairs == [resident : residents, plan : plans]

(* A request for a run: the cron service's or, if he pleases, the          *)
(* accountant's.                                                           *)
Scan(r) ==
    /\ pc[r] = "idle"
    /\ starts' = IF r \in Cron THEN starts ELSE starts + 1
    /\ starts' <= MaxStarts
    /\ pc' = [pc EXCEPT ![r] = "check"]
    /\ scope' = [scope EXCEPT ![r] = Pairs]
    /\ todo' = [todo EXCEPT ![r] = Pairs]
    /\ UNCHANGED <<tables, current, staged, mailing, faults>>

(* The plans are the outer loop: one is finished before the next begins.   *)
Turn(r, k) ==
    /\ k \in todo[r]
    /\ \A q \in todo[r], d \in scope[r] \ todo[r] : d.plan = q.plan => q.plan = k.plan

(* A mutation of HasInvoice: any plan's invoice will do. *)
HasInvoice_AnyPlan(k) == \E q \in Key : q.resident = k.resident /\ billed[q] > 0

(* The SELECT of the pair's invoice; no other session's rows are in it. *)
HasInvoice(k) == billed[k] > 0

Check(r, k) ==
    /\ pc[r] = "check" /\ Turn(r, k)
    /\ todo' = [todo EXCEPT ![r] = @ \ {k}]
    /\ IF HasInvoice(k)
         THEN UNCHANGED <<pc, current>>
         ELSE /\ pc' = [pc EXCEPT ![r] = "insert"]
              /\ current' = [current EXCEPT ![r] = k]
    /\ UNCHANGED <<tables, scope, staged, mailing, starts, faults>>

(* The sessions whose uncommitted invoice run r's INSERT has to wait for. *)
Holders(r) == {s \in Run \ {r} : current[r] \in staged[s]}

(* A mutation of Taken: there is no unique constraint. *)
Taken_None(k) == FALSE

(* The constraint refuses the pair. *)
Taken(k) == billed[k] > 0

Insert(r) ==
    /\ pc[r] = "insert" /\ Holders(r) = {} /\ ~Taken(current[r])
    /\ staged' = [staged EXCEPT ![r] = @ \cup {current[r]}]
    /\ mailing' = [mailing EXCEPT ![r] = @ \cup {current[r]}]
    /\ current' = [current EXCEPT ![r] = NoKey]
    /\ pc' = [pc EXCEPT ![r] = "check"]
    /\ UNCHANGED <<tables, scope, todo, starts, faults>>

(* A mutation of EndRun: the session is left open with its invoices. *)
EndRun_Open(r) ==
    /\ pc' = [pc EXCEPT ![r] = "idle"]
    /\ scope' = [scope EXCEPT ![r] = {}]
    /\ todo' = [todo EXCEPT ![r] = {}]
    /\ current' = [current EXCEPT ![r] = NoKey]
    /\ mailing' = [mailing EXCEPT ![r] = {}]
    /\ UNCHANGED staged

(* The session is rolled back and the request over. *)
EndRun(r) ==
    /\ pc' = [pc EXCEPT ![r] = "idle"]
    /\ scope' = [scope EXCEPT ![r] = {}]
    /\ todo' = [todo EXCEPT ![r] = {}]
    /\ current' = [current EXCEPT ![r] = NoKey]
    /\ staged' = [staged EXCEPT ![r] = {}]
    /\ mailing' = [mailing EXCEPT ![r] = {}]

(* A mutation of Refused: the error is caught, the session rolled back, and *)
(* the loop goes on with the next pair.                                    *)
Refused_Caught(r) ==
    /\ pc' = [pc EXCEPT ![r] = "check"]
    /\ current' = [current EXCEPT ![r] = NoKey]
    /\ staged' = [staged EXCEPT ![r] = {}]
    /\ UNCHANGED <<scope, todo, mailing>>

(* Nobody catches the IntegrityError. *)
Refused(r) == EndRun(r)

Collide(r) ==
    /\ pc[r] = "insert" /\ Holders(r) = {} /\ Taken(current[r])
    /\ Refused(r)
    /\ UNCHANGED <<tables, starts, faults>>

Waits(r, s) == pc[r] = "insert" /\ s \in Holders(r)

(* Run r is on a cycle of runs that wait for each other. *)
Deadlocked(r) ==
    \E S \in SUBSET Run :
        /\ r \in S
        /\ \A s \in S : (\E t \in S : Waits(s, t)) /\ (\E t \in S : Waits(t, s))

Victim(r) ==
    /\ Deadlocked(r)
    /\ EndRun(r)
    /\ UNCHANGED <<tables, starts, faults>>

CommitRun(r) ==
    /\ pc[r] = "check" /\ todo[r] = {}
    /\ billed' = [k \in Key |-> IF k \in staged[r] THEN billed[k] + 1 ELSE billed[k]]
    /\ staged' = [staged EXCEPT ![r] = {}]
    /\ pc' = [pc EXCEPT ![r] = "tell"]
    /\ UNCHANGED <<residents, plans, mails, scope, todo, current, mailing, starts, faults>>

-----------------------------------------------------------------------------
(* After the commit: notify, which commits a notification of its own and   *)
(* never raises; the cron endpoint then writes to everybody once more.     *)

Telling(r, k) ==
    /\ pc[r] \in {"tell", "again"} /\ k \in mailing[r]
    /\ mailing' = [mailing EXCEPT ![r] = @ \ {k}]
    /\ UNCHANGED <<residents, plans, billed, pc, scope, todo, current, staged, starts>>

Tell(r, k) ==
    /\ Telling(r, k)
    /\ mails' = [mails EXCEPT ![k] = IF @ = 2 THEN 2 ELSE @ + 1]
    /\ UNCHANGED faults

Lose(r, k) ==
    /\ Telling(r, k)
    /\ faults < MaxFaults
    /\ faults' = faults + 1
    /\ UNCHANGED mails

(* A mutation of EmailNewInvoices: the cron endpoint has no second round.  *)
EmailNewInvoices_None(r) == {}

EmailNewInvoices(r) == IF r \in Cron THEN {k \in Key : billed[k] > 0} ELSE {}

Again(r) ==
    /\ pc[r] = "tell" /\ mailing[r] = {}
    /\ pc' = [pc EXCEPT ![r] = "again"]
    /\ mailing' = [mailing EXCEPT ![r] = EmailNewInvoices(r)]
    /\ UNCHANGED <<tables, scope, todo, current, staged, starts, faults>>

Done(r) ==
    /\ pc[r] = "again" /\ mailing[r] = {}
    /\ EndRun(r)
    /\ UNCHANGED <<tables, starts, faults>>

(* A run dies. *)
AbortRun(r) ==
    /\ pc[r] # "idle" /\ faults < MaxFaults
    /\ faults' = faults + 1
    /\ EndRun(r)
    /\ UNCHANGED <<tables, starts>>

-----------------------------------------------------------------------------

Step(r) ==
    \/ \E k \in Key : Check(r, k) \/ Tell(r, k)
    \/ Insert(r) \/ Collide(r) \/ Victim(r) \/ CommitRun(r) \/ Again(r) \/ Done(r)

BillNext ==
    \/ \E u \in User : ChangeRole(u)
    \/ \E p \in Plan : UpdatePlan(p)
    \/ \E r \in Run : Scan(r) \/ Step(r) \/ AbortRun(r) \/ \E k \in Key : Lose(r, k)

BillSpec == BillInit /\ [][BillNext]_bvars

(* A run that has started goes on; PostgreSQL lets the sessions that wait  *)
(* for a transaction have their turn, so none is passed over for ever.     *)
Running == \A r \in Run : SF_bvars(Step(r))

(* The cron service calls the endpoint again and again. *)
Scheduled == \A r \in Cron : WF_bvars(Scan(r))

LiveBillSpec == BillSpec /\ Running /\ Scheduled

-----------------------------------------------------------------------------

(* Every variable has its type. *)
BillTypeOK ==
    /\ residents \subseteq User /\ plans \subseteq Plan
    /\ billed \in [Key -> Nat]
    /\ mails \in [Key -> 0 .. 2]
    /\ pc \in [Run -> PC]
    /\ scope \in [Run -> SUBSET Key]
    /\ todo \in [Run -> SUBSET Key]
    /\ current \in [Run -> Key \cup {NoKey}]
    /\ staged \in [Run -> SUBSET Key]
    /\ mailing \in [Run -> SUBSET Key]
    /\ starts \in Nat /\ faults \in Nat

(* However the runs of the accountant and of the cron job overlap, a       *)
(* resident has one invoice of a plan per period.                          *)
InvoicedOnce == \A k \in Key : billed[k] <= 1

(* A run that got past its commit leaves no resident and plan it read      *)
(* without an invoice, those included that another run was busy with.      *)
RunCovers == \A r \in Run : pc[r] \in {"tell", "again"} => \A k \in scope[r] : billed[k] > 0

(* Nobody is told of an invoice that was rolled back. *)
ToldOfReal == \A k \in Key : mails[k] > 0 => billed[k] > 0

(* No run waits for another for ever: overlapping runs insert their pairs  *)
(* in different orders, and one of a cycle is rolled back.                 *)
RunsEnd == \A r \in Run : pc[r] # "idle" ~> pc[r] = "idle"

(* A resident hears of an invoice although the run that made it died       *)
(* before it told him: the cron endpoint writes to all of the period.      *)
EveryoneTold == \A k \in Key : billed[k] > 0 ~> mails[k] > 0
=============================================================================
