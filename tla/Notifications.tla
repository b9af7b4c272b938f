--------------------------- MODULE Notifications ---------------------------
(***************************************************************************)
(* Notifications (app/services/notification_service.py and app/workers):   *)
(* a business request commits a PENDING row, then delivers it itself or,   *)
(* with a broker, hands it to a Celery worker.  A delivery reads the row,  *)
(* mails it and writes the outcome in a session of its own.                *)
(*                                                                         *)
(* deliver_notification acknowledges its task before it runs, and          *)
(* _deliver_now swallows what goes wrong, so its max_retries are never     *)
(* used: a failed mail is not tried again.  A row stays PENDING, and       *)
(* nothing looks for it, when its process dies, when notify cannot tell    *)
(* that its commit went through, and when FAILED cannot be written either. *)
(***************************************************************************)
EXTENDS Naturals, FiniteSets

CONSTANTS
    Web, Worker,    \* request threads of the web process, Celery workers
    Note, NoNote,   \* ids of notifications
    MaxFaults       \* bound: crashes, lost answers, failed commits, redeliveries

ASSUME NoteAssumption ==
    /\ Web \cap Worker = {}
    /\ NoNote \notin Note
    /\ MaxFaults \in Nat

Process == Web \cup Worker

VARIABLES
    mode,           \* JOB_EXECUTION_MODE
    status,         \* notifications.status, "none" before the row exists
    queued,         \* tasks of each notification in the broker
    handed,         \* times it was handed to a delivery, or enqueued
    mailed,         \* times the mail provider has accepted it
    lost            \* notifications cut short: the process died, creating
                    \* them failed, or FAILED could not be written

rows == <<status, queued, handed, mailed, lost>>

VARIABLES
    pc,             \* where each process is
    note,           \* the notification it is busy with
    faults

nvars == <<mode, rows, pc, note, faults>>

PC == {"idle", "dispatch", "read", "send", "mark", "fail"}

Settled(n) == status[n] \in {"SENT", "FAILED"}

NotificationsInit ==
    /\ mode \in {"inline", "celery"}
    /\ status = [n \in Note |-> "none"]
    /\ queued = [n \in Note |-> 0]
    /\ handed = [n \in Note |-> 0]
    /\ mailed = [n \in Note |-> 0]
    /\ lost = {}
    /\ pc = [p \in Process |-> "idle"]
    /\ note = [p \in Process |-> NoNote]
    /\ faults = 0

Go(p, label) == pc' = [pc EXCEPT ![p] = label]

Rest(p) ==
    /\ Go(p, "idle")
    /\ note' = [note EXCEPT ![p] = NoNote]

Fault ==
    /\ faults < MaxFaults
    /\ faults' = faults + 1

-----------------------------------------------------------------------------
(* notify *)

Create(p, n) ==
    /\ pc[p] = "idle" /\ status[n] = "none" /\ n \notin lost
    /\ status' = [status EXCEPT ![n] = "PENDING"]
    /\ Go(p, "dispatch")
    /\ note' = [note EXCEPT ![p] = n]
    /\ UNCHANGED <<mode, queued, handed, mailed, lost, faults>>

(* create_notification raises and notify swallows it.  The insert or the   *)
(* commit failed, and there never is a row; or the commit went through and *)
(* its answer or the refresh after it failed, and there is a PENDING row   *)
(* that nobody delivers.                                                   *)
CreateFails(p, n) ==
    /\ pc[p] = "idle" /\ status[n] = "none" /\ n \notin lost
    /\ Fault
    /\ status' = [status EXCEPT ![n] = "PENDING"] \/ UNCHANGED status
    /\ lost' = lost \cup {n}
    /\ UNCHANGED <<mode, queued, handed, mailed, pc, note>>

Inline(p) ==
    /\ pc[p] = "dispatch" /\ mode = "inline"
    /\ handed' = [handed EXCEPT ![note[p]] = @ + 1]
    /\ Go(p, "read")
    /\ UNCHANGED <<mode, status, queued, mailed, lost, note, faults>>

Enqueue(p) ==
    /\ pc[p] = "dispatch" /\ mode = "celery"
    /\ queued' = [queued EXCEPT ![note[p]] = @ + 1]
    /\ handed' = [handed EXCEPT ![note[p]] = @ + 1]
    /\ Rest(p)
    /\ UNCHANGED <<mode, status, mailed, lost, faults>>

(* delay() raises, with the task enqueued or not: deliver it here too.     *)
DispatchFails(p) ==
    /\ pc[p] = "dispatch" /\ mode = "celery"
    /\ Fault
    /\ \E k \in {0, 1} :
           /\ queued' = [queued EXCEPT ![note[p]] = @ + k]
           /\ handed' = [handed EXCEPT ![note[p]] = @ + k + 1]
    /\ Go(p, "read")
    /\ UNCHANGED <<mode, status, mailed, lost, note>>

-----------------------------------------------------------------------------
(* The broker and the workers. *)

(* A mutation of Acknowledge: the task stays until it is done, and comes   *)
(* again.                                                                  *)
Acknowledge_Late(n) == UNCHANGED queued

(* The worker acknowledges the task as it takes it. *)
Acknowledge(n) == queued' = [queued EXCEPT ![n] = @ - 1]

Take(w, n) ==
    /\ pc[w] = "idle" /\ queued[n] > 0
    /\ Acknowledge(n)
    /\ Go(w, "read")
    /\ note' = [note EXCEPT ![w] = n]
    /\ UNCHANGED <<mode, status, handed, mailed, lost, faults>>

(* The broker delivers a task twice. *)
Redeliver(n) ==
    /\ queued[n] > 0
    /\ Fault
    /\ queued' = [queued EXCEPT ![n] = @ + 1]
    /\ handed' = [handed EXCEPT ![n] = @ + 1]
    /\ UNCHANGED <<mode, status, mailed, lost, pc, note>>

-----------------------------------------------------------------------------
(* _deliver_now *)

(* A mutation of Due: whatever was not sent is. *)
Due_Failed(n) == status[n] # "SENT"

Due(n) == status[n] = "PENDING"

Read(p) ==
    /\ pc[p] = "read"
    /\ IF Due(note[p]) THEN Go(p, "send") /\ UNCHANGED note ELSE Rest(p)
    /\ UNCHANGED <<mode, rows, faults>>

(* The row cannot be read: that is a failure of the delivery too.          *)
ReadFails(p) ==
    /\ pc[p] = "read"
    /\ Fault
    /\ Go(p, "fail")
    /\ UNCHANGED <<mode, rows, note>>

Accept(n) == mailed' = [mailed EXCEPT ![n] = @ + 1]

Send(p) ==
    /\ pc[p] = "send"
    /\ Accept(note[p])
    /\ Go(p, "mark")
    /\ UNCHANGED <<mode, status, queued, handed, lost, note, faults>>

(* The provider refuses the mail, or accepts it and the answer is lost.    *)
SendFails(p) ==
    /\ pc[p] = "send"
    /\ Fault
    /\ Accept(note[p]) \/ UNCHANGED mailed
    /\ Go(p, "fail")
    /\ UNCHANGED <<mode, status, queued, handed, lost, note>>

Mark(p) ==
    /\ pc[p] = "mark"
    /\ status' = [status EXCEPT ![note[p]] = "SENT"]
    /\ Rest(p)
    /\ UNCHANGED <<mode, queued, handed, mailed, lost, faults>>

(* The commit of SENT fails, or only its answer is lost. *)
MarkFails(p) ==
    /\ pc[p] = "mark"
    /\ Fault
    /\ status' = [status EXCEPT ![note[p]] = "SENT"] \/ UNCHANGED status
    /\ Go(p, "fail")
    /\ UNCHANGED <<mode, queued, handed, mailed, lost, note>>

(* A mutation of Outcome: a failure is to be tried again. *)
Outcome_Retry == "PENDING"

(* What a failure leaves in the row, whatever another delivery wrote.      *)
Outcome == "FAILED"

Fail(p) ==
    /\ pc[p] = "fail"
    /\ status' = [status EXCEPT ![note[p]] = Outcome]
    /\ Rest(p)
    /\ UNCHANGED <<mode, queued, handed, mailed, lost, faults>>

(* The commit of FAILED fails: _safe_deliver or the worker logs that, the  *)
(* row stays as it is, and the process goes on with other work.            *)
FailFails(p) ==
    /\ pc[p] = "fail"
    /\ Fault
    /\ lost' = lost \cup {note[p]}
    /\ Rest(p)
    /\ UNCHANGED <<mode, status, queued, handed, mailed>>

(* The process dies, and with it whatever else it had yet to create.       *)
Crash(p, unborn) ==
    /\ Fault
    /\ lost' = lost \cup ({note[p]} \ {NoNote}) \cup unborn
    /\ Rest(p)
    /\ UNCHANGED <<mode, status, queued, handed, mailed>>

-----------------------------------------------------------------------------

Deliver(p) == Inline(p) \/ Enqueue(p) \/ Read(p) \/ Send(p) \/ Mark(p) \/ Fail(p)

DeliveryFails(p) ==
    DispatchFails(p) \/ ReadFails(p) \/ SendFails(p) \/ MarkFails(p) \/ FailFails(p)

Broker == \E n \in Note : Redeliver(n) \/ \E w \in Worker : Take(w, n)

(* A request thread or a worker goes on with what it has begun, and the    *)
(* workers serve every queue.                                              *)
DeliveryFairness ==
    /\ \A p \in Process : WF_nvars(Deliver(p))
    /\ \A n \in Note : SF_nvars(\E w \in Worker : Take(w, n))

-----------------------------------------------------------------------------

(* Every variable has its type. *)
MailTypeOK ==
    /\ mode \in {"inline", "celery"}
    /\ status \in [Note -> {"none", "PENDING", "SENT", "FAILED"}]
    /\ queued \in [Note -> Nat]
    /\ handed \in [Note -> Nat]
    /\ mailed \in [Note -> Nat]
    /\ lost \subseteq Note
    /\ pc \in [Process -> PC]
    /\ note \in [Process -> Note \cup {NoNote}]
    /\ faults \in Nat

(* A notification is mailed no more often than it was handed to a          *)
(* delivery: once, and once more for each duplicate task or failed         *)
(* dispatch, never as a retry.  Inline it is mailed once.  What the row    *)
(* calls SENT was mailed.                                                  *)
MailedAsHanded ==
    \A n \in Note :
        /\ mailed[n] <= handed[n]
        /\ handed[n] <= (IF mode = "inline" THEN 1 ELSE 1 + faults)
        /\ status[n] = "SENT" => mailed[n] > 0

(* The outcome of a notification is written and no delivery of it that has *)
(* looked at the row is about to mail it or to mark it as sent.            *)
Quiet(n) ==
    /\ Settled(n)
    /\ \A p \in Process : note[p] = n => pc[p] \in {"dispatch", "read", "fail"}

(* Such a notification is left alone, whatever tasks for it are still in   *)
(* the broker: it is not mailed again, and its outcome stays but for a     *)
(* delivery that has failed, which makes it FAILED.                        *)
SettledIsLeftAlone ==
    [][\A n \in Note : Quiet(n) =>
           /\ Quiet(n)' /\ mailed'[n] = mailed[n]
           /\ \/ status'[n] = status[n]
              \/ status'[n] = "FAILED" /\ \E p \in Process : note[p] = n /\ pc[p] = "fail"]_nvars

(* A PENDING notification gets an outcome, unless its process died, the    *)
(* answer of its commit or the refresh after it failed (notify takes that  *)
(* for no row), or FAILED could not be written.  Then it may stay PENDING  *)
(* for ever, the second and the third in a process that lives on: nothing  *)
(* looks for such rows.                                                    *)
PendingIsDelivered ==
    \A n \in Note : status[n] = "PENDING" ~> Settled(n) \/ n \in lost
=============================================================================
