------------------------- MODULE NoticeBoardProofs -------------------------
(***************************************************************************)
(* Proofs about Notifications and NoticeBoard: for any processes, notices, *)
(* residents and number of faults, the types, that a notification whose    *)
(* outcome is settled is left alone by whatever is in the broker, and that *)
(* one is mailed no more often than it was handed to a delivery.           *)
(***************************************************************************)
EXTENDS NoticeBoard, FiniteSetTheorems, TLAPS

(* A process at work has a notification, and one that announces nothing    *)
(* has nobody left to tell.                                                *)
BoardInv ==
    /\ BoardTypeOK
    /\ \A p \in Process : pc[p] # "idle" => note[p] \in Note
    /\ \A p \in Web : fan[p] = NoNotice => left[p] = {}

MailInv ==
    /\ MailTypeOK
    /\ \A p \in Process : pc[p] # "idle" => note[p] \in Note

-----------------------------------------------------------------------------
(* Notifications *)

LEMMA CreationKeeps ==
    ASSUME MailInv, NEW p \in Process, NEW n \in Note, Create(p, n) \/ CreateFails(p, n)
    PROVE  MailInv'
<1> USE NoteAssumption DEF MailInv, MailTypeOK, PC
<1>1. CASE Create(p, n)
  BY <1>1 DEF Create, Go
<1>2. CASE CreateFails(p, n)
  BY <1>2 DEF CreateFails, Fault
<1> QED BY <1>1, <1>2

LEMMA DeliveryKeeps ==
    ASSUME MailInv, NEW p \in Process, Deliver(p) \/ DeliveryFails(p)
    PROVE  MailInv'
<1> USE NoteAssumption DEF MailInv, MailTypeOK, PC
<1>1. CASE Inline(p)
  BY <1>1 DEF Inline, Go
<1>2. CASE Enqueue(p)
  BY <1>2 DEF Enqueue, Rest, Go
<1>3. CASE Read(p)
  BY <1>3 DEF Read, Rest, Go, rows
<1>4. CASE Send(p)
  BY <1>4 DEF Send, Accept, Go
<1>5. CASE Mark(p)
  BY <1>5 DEF Mark, Rest, Go
<1>6. CASE Fail(p)
  BY <1>6 DEF Fail, Outcome, Rest, Go
<1>7. CASE DispatchFails(p)
  BY <1>7 DEF DispatchFails, Fault, Go
<1>8. CASE SendFails(p)
  BY <1>8 DEF SendFails, Accept, Fault, Go
<1>9. CASE MarkFails(p)
  BY <1>9 DEF MarkFails, Fault, Go
<1>10. CASE ReadFails(p)
  BY <1>10 DEF ReadFails, Fault, Go, rows
<1>11. CASE FailFails(p)
  BY <1>11 DEF FailFails, Fault, Rest, Go
<1> QED BY <1>1, <1>2, <1>3, <1>4, <1>5, <1>6, <1>7, <1>8, <1>9, <1>10, <1>11
        DEF Deliver, DeliveryFails

LEMMA BrokerKeeps == MailInv /\ Broker => MailInv'
<1> SUFFICES ASSUME MailInv, Broker PROVE MailInv'
  OBVIOUS
<1> USE NoteAssumption DEF MailInv, MailTypeOK, PC
<1>1. ASSUME NEW n \in Note, Redeliver(n) PROVE MailInv'
  BY <1>1 DEF Redeliver, Fault
<1>2. ASSUME NEW n \in Note, NEW w \in Worker, Take(w, n) PROVE MailInv'
  BY <1>2 DEF Take, Acknowledge, Go, Process
<1> QED BY <1>1, <1>2 DEF Broker

LEMMA CrashKeeps ==
    ASSUME MailInv, NEW p \in Process, NEW unborn \in SUBSET Note, Crash(p, unborn)
    PROVE  MailInv'
BY NoteAssumption DEF MailInv, MailTypeOK, PC, Crash, Fault, Rest, Go

-----------------------------------------------------------------------------
(* The board *)

LEMMA BoardInitially == BoardInit => BoardInv
BY NoteAssumption, NoticeAssumption
   DEF BoardInit, NotificationsInit, BoardInv, BoardTypeOK, MailTypeOK, PC

LEMMA BoardStep == BoardInv /\ [BoardNext]_nbvars => BoardInv'
<1> SUFFICES ASSUME BoardInv, [BoardNext]_nbvars PROVE BoardInv'
  OBVIOUS
<1> USE NoteAssumption, NoticeAssumption
<1>0. MailInv
  BY DEF BoardInv, BoardTypeOK, MailInv
<1>1. ASSUME MailInv', UNCHANGED board PROVE BoardInv'
  BY <1>1 DEF BoardInv, BoardTypeOK, MailInv, board
<1>2. ASSUME UNCHANGED nvars PROVE MailInv'
  BY <1>0, <1>2 DEF MailInv, MailTypeOK, nvars, rows
<1>3. ASSUME NEW x \in Notice, Update(x) \/ Delete(x) PROVE BoardInv'
  BY <1>0, <1>2, <1>3 DEF Update, Delete, BoardInv, BoardTypeOK, MailInv
<1>4. ASSUME NEW x \in Notice, NEW p \in Web, Post(p, x) PROVE BoardInv'
  <2>1. MailInv'
    BY <1>2, <1>4 DEF Post
  <2>2. PICK kind \in {"plain", "important"} :
            /\ notice' = [notice EXCEPT ![x] = kind]
            /\ IF kind = "important"
                 THEN /\ announced' = announced \cup {x}
                      /\ fan' = [fan EXCEPT ![p] = x]
                      /\ left' = [left EXCEPT ![p] = Resident]
                      /\ fresh' = [fresh EXCEPT ![p] = TRUE]
                 ELSE UNCHANGED <<announced, fan, left, fresh>>
    BY <1>4 DEF Post
  <2>3. CASE kind = "important"
    <3>1. /\ notice' \in [Notice -> {"none", "plain", "important", "deleted"}]
          /\ announced' \subseteq Notice
          /\ fan' \in [Web -> Notice \cup {NoNotice}]
      BY <2>2, <2>3 DEF BoardInv, BoardTypeOK
    <3>2. left' \in [Web -> SUBSET Resident] /\ fresh' \in [Web -> BOOLEAN]
      BY <2>2, <2>3 DEF BoardInv, BoardTypeOK
    <3>3. \A q \in Web : fan'[q] = NoNotice => left'[q] = {}
      BY <2>2, <2>3 DEF BoardInv, BoardTypeOK
    <3> QED BY <2>1, <3>1, <3>2, <3>3 DEF BoardInv, BoardTypeOK, MailInv
  <2>4. CASE kind = "plain"
    BY <2>1, <2>2, <2>4 DEF BoardInv, BoardTypeOK, MailInv
  <2> QED BY <2>3, <2>4
<1>5. ASSUME NEW p \in Web, NEW r \in Resident, Announce(p, r) PROVE BoardInv'
  <2>1. fan[p] \in Notice /\ <<fan[p], r>> \in Note /\ p \in Process
    BY <1>5 DEF Announce, BoardInv, BoardTypeOK, Announcement, Process
  <2>2. MailInv'
    BY <1>0, <1>5, <2>1, CreationKeeps DEF Announce
  <2>3. /\ left' = [left EXCEPT ![p] = left[p] \ {r}] /\ fresh' = [fresh EXCEPT ![p] = FALSE]
        /\ UNCHANGED <<notice, announced, fan>>
    BY <1>5 DEF Announce, Remaining
  <2> QED BY <2>2, <2>3 DEF BoardInv, BoardTypeOK, MailInv
<1>6. ASSUME NEW p \in Web, Finish(p) PROVE BoardInv'
  BY <1>0, <1>2, <1>6 DEF Finish, EndFan, BoardInv, BoardTypeOK, MailInv
<1>7. ASSUME NEW p \in Web, NEW n \in Note, Hook(p, n) PROVE BoardInv'
  BY <1>0, <1>1, <1>7, CreationKeeps DEF Hook, Process
<1>8. ASSUME NEW p \in Web, WebDies(p) PROVE BoardInv'
  <2>1. {fan[p]} \X left[p] \in SUBSET Note
    <3>1. CASE fan[p] = NoNotice
      BY <3>1 DEF BoardInv
    <3>2. CASE fan[p] # NoNotice
      BY <3>2 DEF BoardInv, BoardTypeOK, Announcement
    <3> QED BY <3>1, <3>2
  <2>2. MailInv'
    BY <1>0, <1>8, <2>1, CrashKeeps DEF WebDies, Process
  <2> QED BY <1>8, <2>2 DEF WebDies, EndFan, BoardInv, BoardTypeOK, MailInv
<1>9. ASSUME NEW w \in Worker, WorkerDies(w) PROVE BoardInv'
  BY <1>0, <1>1, <1>9, CrashKeeps DEF WorkerDies, Process
<1>10. ASSUME NEW p \in Process, Deliver(p) \/ DeliveryFails(p), UNCHANGED board PROVE BoardInv'
  BY <1>0, <1>1, <1>10, DeliveryKeeps
<1>11. ASSUME Broker, UNCHANGED board PROVE BoardInv'
  BY <1>0, <1>1, <1>11, BrokerKeeps
<1>12. ASSUME UNCHANGED nbvars PROVE BoardInv'
  BY <1>1, <1>2, <1>12 DEF nbvars
<1> QED BY <1>3, <1>4, <1>5, <1>6, <1>7, <1>8, <1>9, <1>10, <1>11, <1>12 DEF BoardNext, Announcing

(* The board's inductive invariant: the types, and who is busy with what. *)
THEOREM BoardInvariant == BoardSpec => []BoardInv
  BY BoardInitially, BoardStep, PTL DEF BoardSpec

(* Every variable of the board and of the notifications keeps its type.    *)
THEOREM BoardTypeCorrect == BoardSpec => []BoardTypeOK
<1>1. BoardInv => BoardTypeOK
  BY DEF BoardInv
<1> QED BY <1>1, BoardInvariant, PTL

-----------------------------------------------------------------------------
(* A settled notification is left alone. *)

Still(n) ==
    /\ Quiet(n)' /\ mailed'[n] = mailed[n]
    /\ \/ status'[n] = status[n]
       \/ status'[n] = "FAILED" /\ \E p \in Process : note[p] = n /\ pc[p] = "fail"

LEMMA CreationLeaves ==
    ASSUME MailInv, NEW n \in Note, Quiet(n), NEW p \in Process, NEW m \in Note,
           Create(p, m) \/ CreateFails(p, m)
    PROVE  Still(n)
<1> USE NoteAssumption DEF MailInv, MailTypeOK, Still, Quiet, Settled
<1>1. CASE Create(p, m)
  BY <1>1 DEF Create, Go
<1>2. CASE CreateFails(p, m)
  BY <1>2 DEF CreateFails
<1> QED BY <1>1, <1>2

(* A delivery of it finds it settled or has failed; any other is of        *)
(* another row.                                                            *)
LEMMA DeliveryLeaves ==
    ASSUME MailInv, NEW n \in Note, Quiet(n), NEW p \in Process, Deliver(p) \/ DeliveryFails(p)
    PROVE  Still(n)
<1> USE NoteAssumption DEF MailInv, MailTypeOK, Still, Quiet, Settled
<1>1. CASE Inline(p)
  BY <1>1 DEF Inline, Go
<1>2. CASE Enqueue(p)
  BY <1>2 DEF Enqueue, Rest, Go
<1>3. CASE Read(p)
  BY <1>3 DEF Read, Due, Rest, Go, rows
<1>4. CASE Send(p)
  BY <1>4 DEF Send, Accept, Go
<1>5. CASE Mark(p)
  BY <1>5 DEF Mark, Rest, Go
<1>6. CASE Fail(p)
  BY <1>6 DEF Fail, Outcome, Rest, Go
<1>7. CASE DispatchFails(p)
  BY <1>7 DEF DispatchFails, Go
<1>8. CASE SendFails(p)
  BY <1>8 DEF SendFails, Accept, Go
<1>9. CASE MarkFails(p)
  BY <1>9 DEF MarkFails, Go
<1>10. CASE ReadFails(p)
  BY <1>10 DEF ReadFails, Go, rows
<1>11. CASE FailFails(p)
  BY <1>11 DEF FailFails, Rest, Go
<1> QED BY <1>1, <1>2, <1>3, <1>4, <1>5, <1>6, <1>7, <1>8, <1>9, <1>10, <1>11
        DEF Deliver, DeliveryFails

LEMMA BrokerLeaves ==
    ASSUME MailInv, NEW n \in Note, Quiet(n), Broker
    PROVE  Still(n)
<1> USE NoteAssumption DEF MailInv, MailTypeOK, Still, Quiet, Settled
<1>1. ASSUME NEW m \in Note, Redeliver(m) PROVE Still(n)
  BY <1>1 DEF Redeliver
<1>2. ASSUME NEW m \in Note, NEW w \in Worker, Take(w, m) PROVE Still(n)
  BY <1>2 DEF Take, Go, Process
<1> QED BY <1>1, <1>2 DEF Broker

LEMMA CrashLeaves ==
    ASSUME MailInv, NEW n \in Note, Quiet(n), NEW p \in Process, NEW unborn, Crash(p, unborn)
    PROVE  Still(n)
BY NoteAssumption DEF MailInv, MailTypeOK, Still, Quiet, Settled, Crash, Rest, Go

(* What a step of the board is to the notifications. *)
MailStep ==
    \/ \E p \in Process, n \in Note : Create(p, n) \/ CreateFails(p, n)
    \/ \E p \in Process : Deliver(p) \/ DeliveryFails(p)
    \/ Broker
    \/ \E p \in Process, unborn \in SUBSET Note : Crash(p, unborn)

LEMMA BoardStepsAreMailSteps == BoardInv /\ [BoardNext]_nbvars => [MailStep]_nvars
<1> SUFFICES ASSUME BoardInv, [BoardNext]_nbvars PROVE [MailStep]_nvars
  OBVIOUS
<1>1. ASSUME NEW x \in Notice, Update(x) \/ Delete(x) \/ \E p \in Web : Post(p, x)
      PROVE  UNCHANGED nvars
  BY <1>1 DEF Update, Delete, Post
<1>2. ASSUME NEW p \in Web, Finish(p) PROVE UNCHANGED nvars
  BY <1>2 DEF Finish
<1>3. ASSUME NEW p \in Web, NEW r \in Resident, Announce(p, r) PROVE MailStep
  <2>1. <<fan[p], r>> \in Note /\ p \in Process
    BY <1>3, NoticeAssumption DEF Announce, BoardInv, BoardTypeOK, Announcement, Process
  <2> QED BY <1>3, <2>1 DEF Announce, MailStep
<1>4. ASSUME NEW p \in Web, NEW n \in Note, Hook(p, n) PROVE MailStep
  BY <1>4 DEF Hook, MailStep, Process
<1>5. ASSUME NEW p \in Web, WebDies(p) PROVE MailStep
  <2>1. {fan[p]} \X left[p] \in SUBSET Note
    <3>1. CASE fan[p] = NoNotice
      BY <3>1 DEF BoardInv
    <3>2. CASE fan[p] # NoNotice
      BY <3>2, NoticeAssumption DEF BoardInv, BoardTypeOK, Announcement
    <3> QED BY <3>1, <3>2
  <2> QED BY <1>5, <2>1 DEF WebDies, MailStep, Process
<1>6. ASSUME NEW w \in Worker, WorkerDies(w) PROVE MailStep
  BY <1>6 DEF WorkerDies, MailStep, Process
<1>7. CASE UNCHANGED nbvars
  BY <1>7 DEF nbvars
<1> QED BY <1>1, <1>2, <1>3, <1>4, <1>5, <1>6, <1>7 DEF BoardNext, Announcing, MailStep

LEMMA StepLeaves ==
    ASSUME BoardInv, [BoardNext]_nbvars, NEW n \in Note, Quiet(n)
    PROVE  Still(n)
<1>1. MailInv
  BY DEF BoardInv, BoardTypeOK, MailInv
<1>2. CASE UNCHANGED nvars
  BY <1>2 DEF nvars, rows, Still, Quiet, Settled
<1>3. CASE MailStep
  BY <1>1, <1>3, CreationLeaves, DeliveryLeaves, BrokerLeaves, CrashLeaves DEF MailStep
<1> QED BY <1>2, <1>3, BoardStepsAreMailSteps

(* A notification whose outcome is written, and which no delivery that has *)
(* looked at the row is about to mail or to mark, is not mailed again; its *)
(* outcome stays but for a delivery that has failed (_deliver_now).        *)
THEOREM BoardLeavesSettled == BoardSpec => SettledIsLeftAlone
<1>1. BoardInv /\ [BoardNext]_nbvars =>
          [\A n \in Note : Quiet(n) =>
               /\ Quiet(n)' /\ mailed'[n] = mailed[n]
               /\ \/ status'[n] = status[n]
                  \/ status'[n] = "FAILED" /\ \E p \in Process : note[p] = n /\ pc[p] = "fail"]_nvars
  BY StepLeaves DEF Still
<1> QED BY <1>1, BoardInvariant, PTL DEF BoardSpec, SettledIsLeftAlone

-----------------------------------------------------------------------------
(* Every mail, every task in the broker and every delivery that has not    *)
(* come to its mail stands for a time the notification was handed over.    *)

(* The deliveries of n that have yet to mail it. *)
Readers(n) == {p \in Process : note[p] = n /\ pc[p] \in {"read", "send"}}

Counted(n) ==
    /\ IsFiniteSet(Readers(n))
    /\ mailed[n] + queued[n] + Cardinality(Readers(n)) <= handed[n]
    /\ handed[n] <= (IF mode = "inline" THEN 1 ELSE 1 + faults)
    /\ mode = "inline" => queued[n] = 0
    /\ status[n] = "none" => handed[n] = 0 /\ \A p \in Process : note[p] # n
    /\ \A p \in Process : note[p] = n /\ pc[p] = "dispatch" =>
          handed[n] = 0 /\ \A q \in Process : note[q] = n => q = p
    /\ \A p \in Process : note[p] = n /\ pc[p] = "mark" => mailed[n] > 0
    /\ status[n] = "SENT" => mailed[n] > 0

CountInv == \A n \in Note : Counted(n)

LEMMA CountedInitially == BoardInit => CountInv
<1> SUFFICES ASSUME BoardInit, NEW n \in Note PROVE Counted(n)
  BY DEF CountInv
<1>1. Readers(n) = {}
  BY DEF BoardInit, NotificationsInit, Readers
<1>2. /\ mailed[n] = 0 /\ queued[n] = 0 /\ handed[n] = 0 /\ faults = 0 /\ status[n] = "none"
      /\ \A p \in Process : note[p] # n /\ pc[p] = "idle"
  BY NoteAssumption DEF BoardInit, NotificationsInit
<1> QED BY <1>1, <1>2, FS_EmptySet DEF Counted

(* When one process moves, only it can join or leave the readers.          *)
LEMMA ReadersCount ==
    ASSUME NEW n, IsFiniteSet(Readers(n)), NEW p \in Process,
           \A q \in Process \ {p} : note'[q] = note[q] /\ pc'[q] = pc[q]
    PROVE  /\ IsFiniteSet(Readers(n)')
           /\ Cardinality(Readers(n)) \in Nat /\ Cardinality(Readers(n)') \in Nat
           /\ LET before == p \in Readers(n)
                  after == p \in Readers(n)'
              IN  Cardinality(Readers(n)') =
                     CASE after /\ ~before -> Cardinality(Readers(n)) + 1
                       [] before /\ ~after -> Cardinality(Readers(n)) - 1
                       [] OTHER -> Cardinality(Readers(n))
<1>1. CASE p \in Readers(n)'
  <2>1. Readers(n)' = Readers(n) \cup {p}
    BY <1>1 DEF Readers
  <2> QED BY <1>1, <2>1, FS_AddElement, FS_CardinalityType
<1>2. CASE p \notin Readers(n)'
  <2>1. Readers(n)' = Readers(n) \ {p}
    BY <1>2 DEF Readers
  <2> QED BY <1>2, <2>1, FS_RemoveElement, FS_CardinalityType
<1> QED BY <1>1, <1>2

LEMMA CountType ==
    ASSUME MailInv, NEW n \in Note
    PROVE  mailed[n] \in Nat /\ queued[n] \in Nat /\ handed[n] \in Nat /\ faults \in Nat
BY DEF MailInv, MailTypeOK

(* A step that does not count n and in which nobody takes n up or gets on  *)
(* with it, but may leave it.                                              *)
LEMMA CountedStill ==
    ASSUME MailInv, MailInv', CountInv, NEW n \in Note, NEW p \in Process,
           \A q \in Process \ {p} : note'[q] = note[q] /\ pc'[q] = pc[q],
           note'[p] = n => note[p] = n /\ pc'[p] = pc[p],
           mailed'[n] = mailed[n], queued'[n] = queued[n], handed'[n] = handed[n],
           status'[n] = status[n] \/ status'[n] \in {"FAILED", "PENDING"},
           mode' = mode, faults' >= faults
    PROVE  Counted(n)'
<1> USE DEF CountInv, Counted
<1>1. /\ IsFiniteSet(Readers(n)')
      /\ Cardinality(Readers(n)) \in Nat /\ Cardinality(Readers(n)') \in Nat
      /\ Cardinality(Readers(n)') <= Cardinality(Readers(n))
  <2>1. p \in Readers(n)' => p \in Readers(n)
    BY DEF Readers
  <2> QED BY <2>1, ReadersCount
<1>2. mailed'[n] + queued'[n] + Cardinality(Readers(n)') <= handed'[n]
  BY <1>1, CountType
<1>3. /\ mailed[n] \in Nat /\ queued[n] \in Nat /\ handed[n] \in Nat
      /\ faults \in Nat /\ faults' \in Nat
  BY CountType DEF MailInv, MailTypeOK
<1>4. handed'[n] <= (IF mode' = "inline" THEN 1 ELSE 1 + faults')
  BY <1>3
<1>5. \A q \in Process : note'[q] = n => note[q] = n /\ pc'[q] = pc[q]
  OBVIOUS
<1> QED BY <1>1, <1>2, <1>4, <1>5

LEMMA CreationCounts ==
    ASSUME MailInv, MailInv', CountInv, NEW p \in Process, NEW m \in Note,
           Create(p, m) \/ CreateFails(p, m)
    PROVE  CountInv'
<1> SUFFICES ASSUME NEW n \in Note PROVE Counted(n)'
  BY DEF CountInv
<1>1. CASE CreateFails(p, m)
  <2>1. faults' >= faults
    BY <1>1, CountType DEF CreateFails, Fault
  <2>2. status'[n] = status[n] \/ status'[n] \in {"FAILED", "PENDING"}
    BY <1>1 DEF CreateFails, MailInv, MailTypeOK
  <2> QED BY <1>1, <2>1, <2>2, CountedStill DEF CreateFails
<1>2. CASE Create(p, m)
  <2>1. /\ pc'[p] = "dispatch" /\ note'[p] = m /\ status[m] = "none"
        /\ \A q \in Process \ {p} : note'[q] = note[q] /\ pc'[q] = pc[q]
        /\ \A q \in Note \ {m} : status'[q] = status[q]
        /\ status'[m] = "PENDING"
        /\ UNCHANGED <<mode, queued, handed, mailed, faults>>
    BY <1>2 DEF Create, Go, MailInv, MailTypeOK
  <2>2. CASE n # m
    BY <2>1, <2>2, CountedStill, CountType
  <2>3. CASE n = m
    <3>1. /\ handed[n] = 0 /\ \A q \in Process : note[q] # n
          /\ IsFiniteSet(Readers(n)) /\ mailed[n] + queued[n] + Cardinality(Readers(n)) <= handed[n]
          /\ mode = "inline" => queued[n] = 0
      BY <2>1, <2>3 DEF CountInv, Counted
    <3>2. Readers(n) = {} /\ Readers(n)' = {}
      BY <2>1, <3>1 DEF Readers
    <3>3. handed'[n] = 0 /\ handed'[n] <= (IF mode' = "inline" THEN 1 ELSE 1 + faults')
      BY <2>1, <3>1, CountType
    <3>4. \A q \in Process : note'[q] = n => q = p /\ pc'[q] = "dispatch"
      BY <2>1, <3>1
    <3> QED BY <2>1, <2>3, <3>1, <3>2, <3>3, <3>4, FS_EmptySet DEF Counted
  <2> QED BY <2>2, <2>3
<1> QED BY <1>1, <1>2

(* A process that works on n: what it does to the numbers and to the       *)
(* readers of n.                                                           *)
LEMMA WorkerCounts ==
    ASSUME MailInv, MailInv', CountInv, NEW p \in Process, Deliver(p) \/ DeliveryFails(p)
    PROVE  CountInv'
<1> SUFFICES ASSUME NEW n \in Note PROVE Counted(n)'
  BY DEF CountInv
<1> DEFINE m == note[p]
<1> USE DEF Go, Rest
<1>1. m \in Note /\ mode' = mode /\ faults' >= faults /\ faults' \in Nat /\ faults \in Nat
  BY CountType DEF Deliver, DeliveryFails, Inline, Enqueue, DispatchFails, Read, Send, SendFails,
     Mark, MarkFails, Fail, ReadFails, FailFails, Fault, rows, MailInv, MailTypeOK
<1>2. \A q \in Process \ {p} : note'[q] = note[q] /\ pc'[q] = pc[q]
  BY DEF Deliver, DeliveryFails, Inline, Enqueue, DispatchFails, Read, Send, SendFails,
     Mark, MarkFails, Fail, ReadFails, FailFails, MailInv, MailTypeOK
<1>3. note'[p] \in {m, NoNote}
  BY DEF Deliver, DeliveryFails, Inline, Enqueue, DispatchFails, Read, Send, SendFails,
     Mark, MarkFails, Fail, ReadFails, FailFails, MailInv, MailTypeOK
<1>4. \A q \in Note : q # m =>
          /\ mailed'[q] = mailed[q] /\ queued'[q] = queued[q] /\ handed'[q] = handed[q]
          /\ status'[q] = status[q]
  BY DEF Deliver, DeliveryFails, Inline, Enqueue, DispatchFails, Read, Send, SendFails,
     Mark, MarkFails, Fail, ReadFails, FailFails, Accept, rows, MailInv, MailTypeOK
<1>5. CASE n # m
  BY <1>1, <1>2, <1>3, <1>4, <1>5, NoteAssumption, CountedStill
<1>6. CASE n = m
  <2> DEFINE before == Cardinality(Readers(n))
             after == Cardinality(Readers(n)')
  <2>1. /\ IsFiniteSet(Readers(n)') /\ before \in Nat /\ after \in Nat
        /\ p \in Readers(n)' /\ p \notin Readers(n) => after = before + 1
        /\ p \notin Readers(n)' /\ p \in Readers(n) => after = before - 1
        /\ (p \in Readers(n)' <=> p \in Readers(n)) => after = before
    BY <1>2, ReadersCount DEF CountInv, Counted
  <2>2. /\ p \in Readers(n) <=> pc[p] \in {"read", "send"}
        /\ p \in Readers(n)' <=> note'[p] = n /\ pc'[p] \in {"read", "send"}
    BY <1>6 DEF Readers
  <2>3. /\ mailed[n] \in Nat /\ queued[n] \in Nat /\ handed[n] \in Nat
        /\ mailed[n] + queued[n] + before <= handed[n]
        /\ handed[n] <= (IF mode = "inline" THEN 1 ELSE 1 + faults)
        /\ mode = "inline" => queued[n] = 0
        /\ pc[p] = "dispatch" => handed[n] = 0 /\ \A q \in Process : note[q] = n => q = p
        /\ pc[p] = "mark" => mailed[n] > 0
        /\ status[n] # "none"
        /\ status[n] = "SENT" => mailed[n] > 0
        /\ \A q \in Process : note[q] = n /\ pc[q] = "mark" => mailed[n] > 0
        /\ \A q \in Process : note[q] = n /\ pc[q] = "dispatch" => q = p
    BY <1>6, CountType DEF CountInv, Counted
  <2> HIDE DEF before, after
  <2>4. /\ mailed'[n] + queued'[n] + after <= handed'[n]
        /\ handed'[n] <= (IF mode' = "inline" THEN 1 ELSE 1 + faults')
        /\ mode' = "inline" => queued'[n] = 0
        /\ status'[n] # "none"
        /\ note'[p] = n => pc'[p] # "dispatch"
        /\ note'[p] = n /\ pc'[p] = "mark" => mailed'[n] > 0
        /\ mailed'[n] >= mailed[n]
        /\ status'[n] = "SENT" => mailed'[n] > 0
    <3> USE <1>1, <1>6, <2>1, <2>2, <2>3, NoteAssumption DEF MailInv, MailTypeOK
    <3>1. CASE Inline(p)
      BY <3>1 DEF Inline
    <3>2. CASE Enqueue(p)
      BY <3>2 DEF Enqueue
    <3>3. CASE Read(p)
      BY <3>3 DEF Read, rows
    <3>4. CASE Send(p)
      BY <3>4 DEF Send, Accept
    <3>5. CASE Mark(p)
      BY <3>5 DEF Mark
    <3>6. CASE Fail(p)
      BY <3>6 DEF Fail, Outcome
    <3>7. CASE DispatchFails(p)
      BY <3>7 DEF DispatchFails, Fault
    <3>8. CASE SendFails(p)
      BY <3>8 DEF SendFails, Accept, Fault
    <3>9. CASE MarkFails(p)
      BY <3>9 DEF MarkFails, Fault
    <3>10. CASE ReadFails(p)
      BY <3>10 DEF ReadFails, Fault, rows
    <3>11. CASE FailFails(p)
      BY <3>11 DEF FailFails, Fault
    <3> QED BY <3>1, <3>2, <3>3, <3>4, <3>5, <3>6, <3>7, <3>8, <3>9, <3>10, <3>11
            DEF Deliver, DeliveryFails
  <2>5. \A q \in Process : note'[q] = n => pc'[q] # "dispatch"
    BY <1>2, <2>3, <2>4
  <2>6. \A q \in Process : note'[q] = n /\ pc'[q] = "mark" => mailed'[n] > 0
    <3>1. mailed'[n] \in Nat
      BY DEF MailInv, MailTypeOK
    <3> QED BY <1>2, <2>3, <2>4, <3>1
  <2> QED BY <2>1, <2>4, <2>5, <2>6 DEF Counted, after
<1> QED BY <1>5, <1>6

LEMMA BrokerCounts ==
    ASSUME MailInv, MailInv', CountInv, Broker
    PROVE  CountInv'
<1> SUFFICES ASSUME NEW n \in Note PROVE Counted(n)'
  BY DEF CountInv
<1>1. PICK m \in Note : Redeliver(m) \/ \E w \in Worker : Take(w, m)
  BY DEF Broker
<1>2. /\ mailed[n] \in Nat /\ queued[n] \in Nat /\ handed[n] \in Nat /\ faults \in Nat
      /\ IsFiniteSet(Readers(n)) /\ Cardinality(Readers(n)) \in Nat
      /\ mailed[n] + queued[n] + Cardinality(Readers(n)) <= handed[n]
      /\ handed[n] <= (IF mode = "inline" THEN 1 ELSE 1 + faults)
      /\ mode = "inline" => queued[n] = 0
      /\ queued[n] > 0 => status[n] # "none" /\ handed[n] > 0
  BY CountType, FS_CardinalityType DEF CountInv, Counted
<1>3. queued[n] > 0 => mode = "celery"
  BY <1>2 DEF MailInv, MailTypeOK
<1>4. CASE Redeliver(m)
  <2>1. UNCHANGED <<mode, status, mailed, pc, note>> /\ faults' = faults + 1 /\ queued[m] > 0
    BY <1>4 DEF Redeliver, Fault
  <2>2. /\ queued'[n] = IF n = m THEN queued[n] + 1 ELSE queued[n]
        /\ handed'[n] = IF n = m THEN handed[n] + 1 ELSE handed[n]
    BY <1>4 DEF Redeliver, MailInv, MailTypeOK
  <2>3. Readers(n)' = Readers(n)
    BY <2>1 DEF Readers
  <2>4. /\ mailed'[n] + queued'[n] + Cardinality(Readers(n)') <= handed'[n]
        /\ handed'[n] <= (IF mode' = "inline" THEN 1 ELSE 1 + faults')
        /\ mode' = "inline" => queued'[n] = 0
    BY <1>2, <1>3, <2>1, <2>2, <2>3
  <2>5. n = m => status[n] # "none" /\ handed[n] # 0
    BY <1>2, <2>1
  <2> QED BY <1>2, <2>1, <2>2, <2>3, <2>4, <2>5 DEF CountInv, Counted
<1>5. ASSUME NEW w \in Worker, Take(w, m) PROVE Counted(n)'
  <2>1. /\ w \in Process /\ pc[w] = "idle" /\ queued[m] > 0
        /\ note'[w] = m /\ pc'[w] = "read"
        /\ \A q \in Process \ {w} : note'[q] = note[q] /\ pc'[q] = pc[q]
        /\ queued'[m] = queued[m] - 1 /\ \A q \in Note \ {m} : queued'[q] = queued[q]
        /\ UNCHANGED <<mode, status, handed, mailed, faults>>
    BY <1>5 DEF Take, Acknowledge, Go, Process, MailInv, MailTypeOK
  <2>2. CASE n # m
    BY <2>1, <2>2, CountedStill, CountType
  <2>3. CASE n = m
    <3>1. w \in Readers(n)' /\ w \notin Readers(n)
      BY <2>1, <2>3 DEF Readers
    <3>2. IsFiniteSet(Readers(n)') /\ Cardinality(Readers(n)') = Cardinality(Readers(n)) + 1
      BY <1>2, <2>1, <3>1, ReadersCount
    <3>3. /\ mailed'[n] + queued'[n] + Cardinality(Readers(n)') <= handed'[n]
          /\ handed'[n] <= (IF mode' = "inline" THEN 1 ELSE 1 + faults')
          /\ mode' # "inline" /\ status'[n] # "none" /\ handed[n] # 0
      BY <1>2, <1>3, <2>1, <2>3, <3>2
    <3> QED BY <2>1, <3>2, <3>3 DEF CountInv, Counted
  <2> QED BY <2>2, <2>3
<1> QED BY <1>1, <1>4, <1>5

LEMMA CrashCounts ==
    ASSUME MailInv, MailInv', CountInv, NEW p \in Process, NEW unborn, Crash(p, unborn)
    PROVE  CountInv'
<1> SUFFICES ASSUME NEW n \in Note PROVE Counted(n)'
  BY DEF CountInv
<1>1. /\ \A q \in Process \ {p} : note'[q] = note[q] /\ pc'[q] = pc[q]
      /\ note'[p] # n
      /\ UNCHANGED <<mode, status, queued, handed, mailed>> /\ faults' = faults + 1
  BY NoteAssumption DEF Crash, Fault, Rest, Go, MailInv, MailTypeOK
<1> QED BY <1>1, CountedStill, CountType

LEMMA CountStep == BoardInv /\ CountInv /\ BoardInv' /\ [BoardNext]_nbvars => CountInv'
<1> SUFFICES ASSUME BoardInv, CountInv, BoardInv', [BoardNext]_nbvars PROVE CountInv'
  OBVIOUS
<1>1. MailInv /\ MailInv'
  BY DEF BoardInv, BoardTypeOK, MailInv
<1>2. CASE UNCHANGED nvars
  BY <1>2 DEF nvars, rows, CountInv, Counted, Readers
<1>3. CASE MailStep
  BY <1>1, <1>3, CreationCounts, WorkerCounts, BrokerCounts, CrashCounts DEF MailStep
<1> QED BY <1>2, <1>3, BoardStepsAreMailSteps

(* A notification is mailed no more often than it was handed to a          *)
(* delivery, which is once inline and once more per fault with workers;    *)
(* and what is SENT was mailed (notify, _deliver_now).                     *)
THEOREM BoardMailedAsHanded == BoardSpec => []MailedAsHanded
<1>1. BoardInv /\ CountInv => MailedAsHanded
  <2> SUFFICES ASSUME BoardInv, CountInv, NEW n \in Note
               PROVE  /\ mailed[n] <= handed[n]
                      /\ handed[n] <= (IF mode = "inline" THEN 1 ELSE 1 + faults)
                      /\ status[n] = "SENT" => mailed[n] > 0
    BY DEF MailedAsHanded
  <2>1. Counted(n) /\ mailed[n] \in Nat /\ queued[n] \in Nat /\ handed[n] \in Nat
    BY DEF CountInv, BoardInv, BoardTypeOK, MailTypeOK
  <2>2. Cardinality(Readers(n)) \in Nat
    BY <2>1, FS_CardinalityType DEF Counted
  <2> QED BY <2>1, <2>2 DEF Counted
<1>2. BoardSpec => []CountInv
  BY CountedInitially, CountStep, BoardInvariant, PTL DEF BoardSpec
<1> QED BY <1>1, <1>2, BoardInvariant, PTL
=============================================================================
