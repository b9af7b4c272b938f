-------------------------- MODULE ComplaintsProofs --------------------------
(***************************************************************************)
(* Theorems about Complaints, for any staff, complaints and bounds.  What  *)
(* a session remembers may be out of date; DeskInv says why its commit     *)
(* still leaves the board and the records in agreement: a request wants    *)
(* something else than it read, so its UPDATE always has the column it is  *)
(* about and never the other one.  SerialInv strengthens it for requests   *)
(* one at a time, and carries the refinement of ComplaintLifecycle.        *)
(***************************************************************************)
EXTENDS Complaints, FiniteSetTheorems, TLAPS

(* The status is the one that was committed last.  (The order of commits   *)
(* is the model's; the table has only the times of its rows.)              *)
StatusIsLastCommit ==
    \A c \in Complaint : Filed(c) => status[c] = history[c][Len(history[c])].status

(* What a session is about to commit. *)
Pending(s) ==
    /\ pc[s] # "idle" => about[s] \in Complaint /\ Filed(about[s])
    /\ pc[s] \in {"status", "tell"} => wanted[s] \in Status
    /\ pc[s] = "status" => wanted[s] # seen[s].status /\ now[s] > 0
    /\ pc[s] = "priority" => wanted[s] \in Priority /\ wanted[s] # seen[s].priority

(* resolved_at agrees with the history rows of complaint c. *)
Timed(c) ==
    /\ resolvedAt[c] # 0 => \E k \in 1 .. Len(history[c]) :
           history[c][k].status = "RESOLVED" /\ history[c][k].at = resolvedAt[c]
    /\ resolvedAt[c] = 0 => \A k \in 1 .. Len(history[c]) : history[c][k].status # "RESOLVED"

DeskInv ==
    /\ TypeOK
    /\ StatusIsLastCommit
    /\ \A c \in Complaint : Timed(c) /\ (~Filed(c) => status[c] = "OPEN")
    /\ \A s \in Session : Pending(s)

-----------------------------------------------------------------------------

LEMMA StatusType ==
    /\ Status = {"OPEN", "IN_PROGRESS", "RESOLVED"}
    /\ \A st \in Status : AllowedTransitions(st) \subseteq Status \ {st}
    /\ AllowedTransitions("RESOLVED") = {}
BY DEF Status, Lifecycle!Status, AllowedTransitions

LEMMA DeskInvInit == DeskInit => DeskInv
<1> SUFFICES ASSUME DeskInit PROVE DeskInv
  OBVIOUS
<1> USE StatusType, DeskAssumption DEF DeskInit
<1>1. TypeOK
  <2>1. <<>> \in Seq(HistoryRow) /\ <<>> \in Seq(AuditRow) /\ <<>> \in Seq(Status)
    OBVIOUS
  <2> QED BY <2>1 DEF TypeOK, Priority, PC, Object, Blank
<1>2. StatusIsLastCommit /\ \A c \in Complaint : Timed(c)
  BY DEF StatusIsLastCommit, Filed, Timed
<1> QED BY <1>1, <1>2 DEF DeskInv, Pending

(* Filing touches nothing a session works on. *)
LEMMA FileStep ==
    ASSUME DeskInv, NEW c \in Complaint, File(c)
    PROVE  DeskInv'
<1> DEFINE row == [status |-> "OPEN", at |-> clock']
<1>0. /\ history[c] = <<>>
      /\ history' = [history EXCEPT ![c] = <<row>>]
      /\ clock' \in Nat
      /\ UNCHANGED <<status, priority, resolvedAt, audit, told, pc, about, seen, wanted, now>>
  BY DEF File, DeskInv, TypeOK, sess, Filed
<1>1. row \in HistoryRow /\ row.status = "OPEN"
  BY <1>0, StatusType DEF HistoryRow
<1> HIDE DEF row
<1>2. <<row>> \in Seq(HistoryRow) /\ <<row>> # <<>> /\ <<row>>[Len(<<row>>)] = row
  BY <1>1
<1>3. /\ history' \in [Complaint -> Seq(HistoryRow)]
      /\ history'[c] = <<row>>
      /\ \A d \in Complaint \ {c} : history'[d] = history[d]
  BY <1>0, <1>2 DEF DeskInv, TypeOK
<1>4. TypeOK'
  BY <1>0, <1>3 DEF DeskInv, TypeOK
<1>5. StatusIsLastCommit'
  <2> SUFFICES ASSUME NEW d \in Complaint, history'[d] # <<>>
               PROVE  status'[d] = history'[d][Len(history'[d])].status
    BY DEF StatusIsLastCommit, Filed
  <2>1. CASE d = c
    BY <2>1, <1>0, <1>1, <1>2, <1>3 DEF DeskInv, Filed
  <2>2. CASE d # c
    BY <2>2, <1>0, <1>3 DEF DeskInv, StatusIsLastCommit, Filed
  <2> QED BY <2>1, <2>2
<1>6. ASSUME NEW d \in Complaint PROVE Timed(d)' /\ (~Filed(d)' => status'[d] = "OPEN")
  <2>1. CASE d = c
    <3>1. Timed(d) /\ resolvedAt[d] = 0
      BY <2>1, <1>0 DEF DeskInv, Timed
    <3>2. Timed(d)'
      BY <2>1, <3>1, <1>0, <1>1, <1>3 DEF Timed
    <3> QED BY <2>1, <3>2, <1>2, <1>3 DEF Filed
  <2>2. CASE d # c
    BY <2>2, <1>0, <1>3 DEF DeskInv, Timed, Filed
  <2> QED BY <2>1, <2>2
<1>7. ASSUME NEW s \in Session PROVE Pending(s)'
  BY <1>0, <1>2, <1>3 DEF DeskInv, Pending, Filed
<1> QED BY <1>4, <1>5, <1>6, <1>7 DEF DeskInv
(* Starting a request, and ending one, writes nothing to the database. *)
LEMMA QuietStep ==
    ASSUME DeskInv, UNCHANGED table, \A s \in Session : Pending(s)', TypeOK'
    PROVE  DeskInv'
BY DEF DeskInv, table, StatusIsLastCommit, Timed, Filed

LEMMA CloseFacts ==
    ASSUME TypeOK, NEW s \in Session, Close(s)
    PROVE  /\ pc' \in [Session -> PC]
           /\ about' \in [Session -> Complaint \cup {NoComplaint}]
           /\ seen' \in [Session -> Object]
           /\ wanted' \in [Session -> Status \cup Priority]
           /\ now' \in [Session -> Nat]
           /\ pc'[s] = "idle"
           /\ \A t \in Session \ {s} :
                 /\ pc'[t] = pc[t] /\ about'[t] = about[t] /\ seen'[t] = seen[t]
                 /\ wanted'[t] = wanted[t] /\ now'[t] = now[t]
BY StatusType DEF Close, TypeOK, PC, Object, Blank, Priority

LEMMA BeginStep ==
    ASSUME DeskInv, NEW s \in Session, NEW c \in Complaint,
           BeginStatus(s, c) \/ BeginPriority(s, c)
    PROVE  DeskInv'
<1>0. /\ Filed(c)
      /\ about' = [about EXCEPT ![s] = c]
      /\ seen' = [seen EXCEPT ![s] = [status |-> status[c], priority |-> priority[c]]]
      /\ UNCHANGED <<table, told>>
  BY DEF BeginStatus, BeginPriority, Load
<1>1. seen' \in [Session -> Object] /\ about' \in [Session -> Complaint \cup {NoComplaint}]
  BY <1>0 DEF DeskInv, TypeOK, Object
<1>2. CASE BeginStatus(s, c)
  <2>0. PICK st \in AllowedTransitions(status[c]) : wanted' = [wanted EXCEPT ![s] = st]
    BY <1>2 DEF BeginStatus
  <2>1. st \in Status /\ st # status[c]
    BY <2>0, StatusType DEF DeskInv, TypeOK
  <2>2. clock' = clock + 1 /\ now' = [now EXCEPT ![s] = clock'] /\ pc' = [pc EXCEPT ![s] = "status"]
    BY <1>2 DEF BeginStatus
  <2>3. clock' \in Nat /\ clock' > 0
    BY <2>2 DEF DeskInv, TypeOK
  <2>4. TypeOK'
    BY <1>0, <1>1, <2>0, <2>1, <2>2, <2>3 DEF DeskInv, TypeOK, PC, table
  <2>5. ASSUME NEW t \in Session PROVE Pending(t)'
    <3>1. CASE t = s
      BY <3>1, <1>0, <2>0, <2>1, <2>2, <2>3 DEF DeskInv, TypeOK, Pending, Filed, table
    <3>2. CASE t # s
      BY <3>2, <1>0, <2>0, <2>2 DEF DeskInv, TypeOK, Pending, Filed, table
    <3> QED BY <3>1, <3>2
  <2> QED BY <1>0, <2>4, <2>5, QuietStep
<1>3. CASE BeginPriority(s, c)
  <2>0. PICK p \in Priority \ {priority[c]} : wanted' = [wanted EXCEPT ![s] = p]
    BY <1>3 DEF BeginPriority
  <2>1. pc' = [pc EXCEPT ![s] = "priority"] /\ UNCHANGED <<clock, now>>
    BY <1>3 DEF BeginPriority
  <2>2. TypeOK'
    BY <1>0, <1>1, <2>0, <2>1 DEF DeskInv, TypeOK, PC, table
  <2>3. ASSUME NEW t \in Session PROVE Pending(t)'
    <3>1. CASE t = s
      BY <3>1, <1>0, <2>0, <2>1 DEF DeskInv, TypeOK, Pending, Filed, table
    <3>2. CASE t # s
      BY <3>2, <1>0, <2>0, <2>1 DEF DeskInv, TypeOK, Pending, Filed, table
    <3> QED BY <3>1, <3>2
  <2> QED BY <1>0, <2>2, <2>3, QuietStep
<1> QED BY <1>2, <1>3

(* The e-mail, and a request that dies. *)
LEMMA EndStep ==
    ASSUME DeskInv, NEW s \in Session, Tell(s) \/ Abort(s)
    PROVE  DeskInv'
<1>0. Close(s) /\ UNCHANGED <<table, clock>>
  BY DEF Tell, Abort
<1>1. told' \in [Complaint -> Seq(Status)]
  <2>1. CASE Tell(s)
    <3>1. about[s] \in Complaint /\ wanted[s] \in Status
      BY <2>1 DEF Tell, DeskInv, Pending
    <3> QED BY <2>1, <3>1 DEF Tell, DeskInv, TypeOK
  <2>2. CASE Abort(s)
    BY <2>2 DEF Abort, DeskInv, TypeOK
  <2> QED BY <2>1, <2>2
<1>2. TypeOK'
  BY <1>0, <1>1, CloseFacts DEF DeskInv, TypeOK, table
<1>3. ASSUME NEW t \in Session PROVE Pending(t)'
  BY <1>0, CloseFacts DEF DeskInv, Pending, Filed, table
<1> QED BY <1>0, <1>2, <1>3, QuietStep

(* A change of priority leaves the status column out of its UPDATE. *)
LEMMA CommitPriorityStep ==
    ASSUME DeskInv, NEW s \in Session, CommitPriority(s)
    PROVE  DeskInv'
<1> DEFINE c == about[s]
           a == [old |-> seen[s].priority, new |-> wanted[s]]
<1>0. /\ pc[s] = "priority"
      /\ priority' = Flushed(priority, c, seen[s].priority, wanted[s])
      /\ status' = status
      /\ audit' = [audit EXCEPT ![c] = Append(@, a)]
      /\ Close(s)
      /\ UNCHANGED <<resolvedAt, history, told, clock>>
  BY DEF CommitPriority, Flushed
<1>1. c \in Complaint /\ wanted[s] \in Priority /\ a \in AuditRow
  BY <1>0 DEF DeskInv, Pending, TypeOK, AuditRow, Object
<1> HIDE DEF c, a
<1>2. priority' \in [Complaint -> Priority] /\ audit' \in [Complaint -> Seq(AuditRow)]
  BY <1>0, <1>1 DEF Flushed, DeskInv, TypeOK
<1>3. TypeOK'
  BY <1>0, <1>2, CloseFacts DEF DeskInv, TypeOK
<1>4. ASSUME NEW t \in Session PROVE Pending(t)'
  BY <1>0, CloseFacts DEF DeskInv, Pending, Filed
<1>5. StatusIsLastCommit' /\ \A d \in Complaint : Timed(d)' /\ (~Filed(d)' => status'[d] = "OPEN")
  BY <1>0 DEF DeskInv, StatusIsLastCommit, Timed, Filed
<1> QED BY <1>3, <1>4, <1>5 DEF DeskInv

(* A change of status writes the status, its history row and, for          *)
(* RESOLVED, the time of that row.                                         *)
LEMMA CommitStatusStep ==
    ASSUME DeskInv, NEW s \in Session, CommitStatus(s)
    PROVE  DeskInv'
<1> DEFINE c == about[s]
           row == [status |-> wanted[s], at |-> now[s]]
           a == [old |-> seen[s].status, new |-> wanted[s]]
           time == Stamp(s)
<1>0. /\ pc[s] = "status"
      /\ c \in Complaint /\ Filed(c)
      /\ wanted[s] \in Status /\ wanted[s] # seen[s].status /\ now[s] \in Nat /\ now[s] > 0
  BY DEF CommitStatus, DeskInv, Pending, TypeOK
<1>1. /\ status' = [status EXCEPT ![c] = wanted[s]]
      /\ priority' = priority
      /\ resolvedAt' = [resolvedAt EXCEPT ![c] = time]
      /\ history' = [history EXCEPT ![c] = Append(@, row)]
      /\ audit' = [audit EXCEPT ![c] = Append(@, a)]
      /\ pc' = [pc EXCEPT ![s] = "tell"]
      /\ UNCHANGED <<told, clock, about, seen, wanted, now>>
  BY <1>0 DEF CommitStatus, Flushed
<1>2. /\ row \in HistoryRow /\ row.status = wanted[s] /\ row.at = now[s]
      /\ a \in AuditRow /\ time \in Nat
      /\ time = IF wanted[s] = "RESOLVED" THEN now[s] ELSE resolvedAt[c]
  BY <1>0 DEF DeskInv, TypeOK, HistoryRow, AuditRow, Object, Stamp
<1> HIDE DEF c, row, a, time
<1>3. /\ history' \in [Complaint -> Seq(HistoryRow)]
      /\ audit' \in [Complaint -> Seq(AuditRow)]
      /\ history'[c] = Append(history[c], row)
      /\ \A d \in Complaint \ {c} : history'[d] = history[d]
      /\ history[c] \in Seq(HistoryRow)
  BY <1>0, <1>1, <1>2 DEF DeskInv, TypeOK
<1>4. /\ Len(history'[c]) = Len(history[c]) + 1 /\ Len(history[c]) \in Nat
      /\ history'[c][Len(history[c]) + 1] = row
      /\ \A k \in 1 .. Len(history[c]) : history'[c][k] = history[c][k]
      /\ history'[c] # <<>>
  BY <1>2, <1>3
<1>5. TypeOK'
  BY <1>0, <1>1, <1>2, <1>3 DEF DeskInv, TypeOK, PC
<1>6. StatusIsLastCommit'
  <2> SUFFICES ASSUME NEW d \in Complaint, history'[d] # <<>>
               PROVE  status'[d] = history'[d][Len(history'[d])].status
    BY DEF StatusIsLastCommit, Filed
  <2>1. CASE d = c
    BY <2>1, <1>0, <1>1, <1>2, <1>4 DEF DeskInv, TypeOK
  <2>2. CASE d # c
    BY <2>2, <1>1, <1>3 DEF DeskInv, TypeOK, StatusIsLastCommit, Filed
  <2> QED BY <2>1, <2>2
<1>7. ASSUME NEW d \in Complaint PROVE Timed(d)' /\ (~Filed(d)' => status'[d] = "OPEN")
  <2>1. CASE d = c
    <3>1. Timed(c) /\ resolvedAt'[c] = time /\ resolvedAt[c] \in Nat
      BY <1>0, <1>1 DEF DeskInv, TypeOK
    <3>2. CASE wanted[s] = "RESOLVED"
      <4>1. Len(history[c]) + 1 \in 1 .. Len(history'[c])
        BY <1>4
      <4> QED BY <2>1, <3>1, <3>2, <4>1, <1>0, <1>2, <1>4 DEF Timed, Filed
    <3>3. CASE wanted[s] # "RESOLVED"
      <4>1. \A k \in 1 .. Len(history[c]) : k \in 1 .. Len(history'[c])
        BY <1>4
      <4>2. \A k \in 1 .. Len(history'[c]) : k \in 1 .. Len(history[c]) \/ k = Len(history[c]) + 1
        BY <1>4
      <4> QED BY <2>1, <3>1, <3>3, <4>1, <4>2, <1>2, <1>4 DEF Timed, Filed
    <3> QED BY <3>2, <3>3
  <2>2. CASE d # c
    BY <2>2, <1>0, <1>1, <1>3 DEF DeskInv, TypeOK, Timed, Filed
  <2> QED BY <2>1, <2>2
<1>8. ASSUME NEW t \in Session PROVE Pending(t)'
  <2>1. \A d \in Complaint : Filed(d) => Filed(d)'
    BY <1>3, <1>4 DEF Filed
  <2>2. pc \in [Session -> PC]
    BY DEF DeskInv, TypeOK
  <2>3. CASE t = s
    <3>1. pc'[t] = "tell"
      BY <2>2, <2>3, <1>1
    <3> QED BY <2>1, <2>3, <3>1, <1>0, <1>1 DEF Pending, c
  <2>4. CASE t # s
    <3>1. pc'[t] = pc[t]
      BY <2>2, <2>4, <1>1
    <3> QED BY <2>1, <3>1, <1>1 DEF DeskInv, Pending
  <2> QED BY <2>3, <2>4
<1> QED BY <1>5, <1>6, <1>7, <1>8 DEF DeskInv

LEMMA DeskInvStep == DeskInv /\ [DeskNext]_cvars => DeskInv'
<1> SUFFICES ASSUME DeskInv, [DeskNext]_cvars PROVE DeskInv'
  OBVIOUS
<1>1. CASE UNCHANGED cvars
  <2>1. TypeOK' /\ \A s \in Session : Pending(s)'
    BY <1>1 DEF cvars, table, sess, DeskInv, TypeOK, Pending, Filed
  <2> QED BY <1>1, <2>1, QuietStep DEF cvars
<1>2. CASE DeskNext
  BY <1>2, FileStep, BeginStep, EndStep, CommitPriorityStep, CommitStatusStep
     DEF DeskNext, Begin, Step
<1> QED BY <1>1, <1>2

-----------------------------------------------------------------------------

THEOREM DeskInvariant == DeskSpec => []DeskInv
BY DeskInvInit, DeskInvStep, PTL DEF DeskSpec

(* Every variable of the complaint desk keeps its type. *)
THEOREM DeskTypeCorrect == DeskSpec => []TypeOK
BY DeskInvariant, PTL DEF DeskInv

(* A row that is newer than all the others is what the API shows last. *)
LEMMA NewestRow ==
    ASSUME NEW R, NEW row, \A r \in R : r.at \in Nat /\ r.at < row.at, row.at \in Nat
    PROVE  (CHOOSE r \in R \cup {row} : \A q \in R \cup {row} : q.at <= r.at) = row
<1> DEFINE Last(r) == \A q \in R \cup {row} : q.at <= r.at
<1>1. Last(row)
  OBVIOUS
<1>2. ASSUME NEW r \in R \cup {row}, Last(r) PROVE r = row
  <2>1. row.at <= r.at
    BY <1>2
  <2> QED BY <1>2, <2>1
<1> HIDE DEF Last
<1>3. (CHOOSE r \in R \cup {row} : Last(r)) = row
  BY <1>1, <1>2
<1> QED BY <1>3 DEF Last

(* A request that was not overtaken leaves the newest row. *)
LEMMA StatusStepFollows ==
    ASSUME DeskInv, NEW s \in Session, CommitStatus(s), ~Overtaken(s), NEW c \in Complaint
    PROVE  \/ status'[c] = status[c] /\ history'[c] = history[c]
           \/ status'[c] = Newest(c)'.status
<1> DEFINE row == [status |-> wanted[s], at |-> now[s]]
<1>1. /\ about[s] \in Complaint /\ wanted[s] # seen[s].status
      /\ row \in HistoryRow /\ row.at = now[s] /\ row.status = wanted[s]
  BY DEF CommitStatus, DeskInv, Pending, TypeOK, HistoryRow
<1> HIDE DEF row
<1>2. /\ status' = [status EXCEPT ![about[s]] = wanted[s]]
      /\ history' = [history EXCEPT ![about[s]] = Append(@, row)]
  BY <1>1 DEF CommitStatus, Flushed, row
<1>3. CASE c # about[s]
  BY <1>2, <1>3 DEF DeskInv, TypeOK
<1>4. CASE c = about[s]
  <2>1. history[c] \in Seq(HistoryRow) /\ history'[c] = Append(history[c], row)
    BY <1>2, <1>4 DEF DeskInv, TypeOK
  <2>2. Rows(c)' = Rows(c) \cup {row}
    <3>1. \A k \in 1 .. Len(history[c]) :
              k \in 1 .. Len(history'[c]) /\ history'[c][k] = history[c][k]
      BY <1>1, <2>1
    <3>2. \A k \in 1 .. Len(history'[c]) : k \in 1 .. Len(history[c]) \/ history'[c][k] = row
      BY <1>1, <2>1
    <3>3. Len(history[c]) + 1 \in 1 .. Len(history'[c]) /\ history'[c][Len(history[c]) + 1] = row
      BY <1>1, <2>1
    <3> QED BY <3>1, <3>2, <3>3 DEF Rows
  <2>3. row.at \in Nat /\ \A r \in Rows(c) : r.at \in Nat /\ r.at < row.at
    <3>1. row.at \in Nat /\ \A r \in Rows(c) : r.at \in Nat
      <4>1. Rows(c) \subseteq HistoryRow
        BY <2>1 DEF Rows
      <4>2. \A r \in HistoryRow : r.at \in Nat
        BY DEF HistoryRow
      <4> QED BY <1>1, <4>1, <4>2
    <3>2. \A r \in Rows(c) : ~(r.at >= row.at)
      BY <1>1, <1>4 DEF Overtaken
    <3> QED BY <3>1, <3>2
  <2>4. Newest(c)' = row
    <3>1. (CHOOSE r \in Rows(c) \cup {row} : \A q \in Rows(c) \cup {row} : q.at <= r.at) = row
      BY <2>3, NewestRow
    <3> QED BY <2>2, <3>1 DEF Newest
  <2> QED BY <1>1, <1>2, <1>4, <2>4 DEF DeskInv, TypeOK
<1> QED BY <1>3, <1>4

(* A complaint is filed with one row, which says what its status is. *)
LEMMA FileFollows ==
    ASSUME DeskInv, NEW d \in Complaint, File(d), NEW c \in Complaint
    PROVE  \/ status'[c] = status[c] /\ history'[c] = history[c]
           \/ status'[c] = Newest(c)'.status
<1> DEFINE row == [status |-> "OPEN", at |-> clock']
<1>1. /\ history[d] = <<>> /\ status[d] = "OPEN"
      /\ history' = [history EXCEPT ![d] = <<row>>] /\ status' = status
      /\ row.at \in Nat /\ row.status = "OPEN"
  BY DEF File, DeskInv, TypeOK, Filed
<1> HIDE DEF row
<1>2. CASE c # d
  BY <1>1, <1>2 DEF DeskInv, TypeOK
<1>3. CASE c = d
  <2>1. history'[c] = <<row>>
    BY <1>1, <1>3 DEF DeskInv, TypeOK
  <2>2. Rows(c)' = {} \cup {row}
    BY <2>1 DEF Rows
  <2>3. Newest(c)' = row
    BY <1>1, <2>2, NewestRow DEF Newest
  <2> QED BY <1>1, <1>3, <2>3
<1> QED BY <1>2, <1>3

(* A step that changes the status or the history of a complaint leaves the *)
(* status of the newest row on the board, unless it is the commit of a     *)
(* request that another one overtook (update_status, update_priority).     *)
THEOREM DeskStatus == DeskSpec => StatusFollowsTimeline
<1> DEFINE Follows == \A c \in Complaint :
              \/ status'[c] = status[c] /\ history'[c] = history[c]
              \/ status'[c] = Newest(c)'.status
              \/ \E s \in Session :
                    about[s] = c /\ pc[s] = "status" /\ pc'[s] = "tell" /\ Overtaken(s)
<1>1. DeskInv /\ [DeskNext]_cvars => [Follows]_cvars
  <2> SUFFICES ASSUME DeskInv, DeskNext, NEW c \in Complaint
               PROVE  \/ status'[c] = status[c] /\ history'[c] = history[c]
                      \/ status'[c] = Newest(c)'.status
                      \/ \E s \in Session : /\ about[s] = c /\ pc[s] = "status"
                                            /\ pc'[s] = "tell" /\ Overtaken(s)
    OBVIOUS
  <2>1. ASSUME NEW d \in Complaint, File(d)
        PROVE  \/ status'[c] = status[c] /\ history'[c] = history[c]
               \/ status'[c] = Newest(c)'.status
    BY <2>1, FileFollows
  <2>2. ASSUME NEW s \in Session, CommitStatus(s), ~Overtaken(s)
        PROVE  \/ status'[c] = status[c] /\ history'[c] = history[c]
               \/ status'[c] = Newest(c)'.status
    BY <2>2, StatusStepFollows
  <2>3. ASSUME NEW s \in Session, CommitStatus(s), Overtaken(s)
        PROVE  \/ status'[c] = status[c] /\ history'[c] = history[c]
               \/ about[s] = c /\ pc[s] = "status" /\ pc'[s] = "tell" /\ Overtaken(s)
    <3>1. /\ pc[s] = "status" /\ pc' = [pc EXCEPT ![s] = "tell"]
          /\ about[s] # c => status'[c] = status[c] /\ history'[c] = history[c]
      BY <2>3 DEF CommitStatus, Flushed, DeskInv, TypeOK
    <3> QED BY <2>3, <3>1 DEF DeskInv, TypeOK
  <2>4. ASSUME NEW s \in Session, CommitPriority(s) \/ Tell(s) \/ Abort(s) \/ Begin(s)
        PROVE  status'[c] = status[c] /\ history'[c] = history[c]
    BY <2>4 DEF CommitPriority, Flushed, Tell, Abort, Begin, BeginStatus, BeginPriority, table
  <2> QED BY <2>1, <2>2, <2>3, <2>4 DEF DeskNext, Step
<1> QED BY <1>1, DeskInvariant, PTL DEF DeskSpec, StatusFollowsTimeline

(* resolved_at is the time of a RESOLVED row, or there is none. *)
THEOREM DeskResolvedTime == DeskSpec => []ResolvedHasItsTime
<1>1. DeskInv => ResolvedHasItsTime
  BY DEF DeskInv, Timed, ResolvedHasItsTime
<1> QED BY <1>1, DeskInvariant, PTL

(* A complaint that is closed while nobody is about to change it stays     *)
(* closed: RESOLVED is terminal but for the requests already under way.    *)
THEOREM DeskClosedForGood == DeskSpec => ClosedForGood
<1> DEFINE Stays == \A c \in Complaint : ClosedQuietly(c) => ClosedQuietly(c)'
<1>1. DeskInv /\ [DeskNext]_cvars => [Stays]_cvars
  <2> SUFFICES ASSUME DeskInv, DeskNext, NEW c \in Complaint, ClosedQuietly(c)
               PROVE  ClosedQuietly(c)'
    OBVIOUS
  <2>1. ASSUME NEW d \in Complaint, File(d) PROVE ClosedQuietly(c)'
    BY <2>1 DEF File, ClosedQuietly, Filed, sess, DeskInv, TypeOK
  <2>2. ASSUME NEW s \in Session, NEW d \in Complaint, BeginStatus(s, d) PROVE ClosedQuietly(c)'
    <3>1. d # c
      BY <2>2, StatusType DEF BeginStatus, ClosedQuietly
    <3> QED BY <2>2, <3>1 DEF BeginStatus, Load, ClosedQuietly, Filed, table, DeskInv, TypeOK
  <2>3. ASSUME NEW s \in Session, NEW d \in Complaint, BeginPriority(s, d) PROVE ClosedQuietly(c)'
    BY <2>3 DEF BeginPriority, Load, ClosedQuietly, Filed, table, DeskInv, TypeOK
  <2>4. ASSUME NEW s \in Session, CommitStatus(s) PROVE ClosedQuietly(c)'
    <3>1. about[s] # c /\ about[s] \in Complaint
      BY <2>4 DEF CommitStatus, ClosedQuietly, DeskInv, Pending
    <3> QED BY <2>4, <3>1 DEF CommitStatus, Flushed, ClosedQuietly, Filed, DeskInv, TypeOK
  <2>5. ASSUME NEW s \in Session, CommitPriority(s) PROVE ClosedQuietly(c)'
    BY <2>5, CloseFacts DEF CommitPriority, Flushed, ClosedQuietly, Filed, DeskInv
  <2>6. ASSUME NEW s \in Session, Tell(s) \/ Abort(s) PROVE ClosedQuietly(c)'
    <3>1. Close(s) /\ UNCHANGED table
      BY <2>6 DEF Tell, Abort, table
    <3> QED BY <3>1, CloseFacts DEF ClosedQuietly, Filed, table, DeskInv
  <2> QED BY <2>1, <2>2, <2>3, <2>4, <2>5, <2>6 DEF DeskNext, Begin, Step
<1> QED BY <1>1, DeskInvariant, PTL DEF DeskSpec, ClosedForGood

-----------------------------------------------------------------------------
(* Requests one at a time.  The rows of a complaint then commit in the     *)
(* order of their times, so sorting them, as the API does, changes nothing. *)

(* Each row is later than those before it. *)
Ordered(h) == \A j, k \in 1 .. Len(h) : j < k => h[j].at < h[k].at

(* The statuses of a history as it is stored, and as it is shown. *)
Stored(h) == [n \in 1 .. Len(h) |-> h[n].status]

Sorted(h) ==
    LET rows == {h[k] : k \in 1 .. Len(h)}
        Nth(n) == CHOOSE r \in rows : Cardinality({q \in rows : q.at <= r.at}) = n
    IN  [n \in 1 .. Cardinality(rows) |-> Nth(n).status]

LEMMA RowTimes ==
    ASSUME NEW h \in Seq(HistoryRow), NEW j \in 1 .. Len(h)
    PROVE  h[j].at \in Nat
<1>1. h[j] \in HistoryRow
  OBVIOUS
<1> QED BY <1>1 DEF HistoryRow

(* The first k rows are k rows. *)
LEMMA RowsUpTo ==
    ASSUME NEW h \in Seq(HistoryRow), Ordered(h), NEW k \in 0 .. Len(h)
    PROVE  Cardinality({h[j] : j \in 1 .. k}) = k
<1> DEFINE rows == {h[j] : j \in 1 .. k}
           f == [j \in 1 .. k |-> h[j]]
<1>1. \A i, j \in 1 .. k : i < j => h[i] # h[j]
  <2>1. \A j \in 1 .. k : j \in 1 .. Len(h) /\ h[j].at \in Nat
    BY RowTimes
  <2> QED BY <2>1 DEF Ordered
<1>2. \A i, j \in 1 .. k : f[i] = f[j] => i = j
  BY <1>1
<1>3. f \in Bijection(1 .. k, rows)
  <2>1. f \in [1 .. k -> rows] /\ \A r \in rows : \E j \in 1 .. k : f[j] = r
    OBVIOUS
  <2> HIDE DEF f, rows
  <2> QED BY <1>2, <2>1 DEF Bijection, Injection, Surjection, IsInjective
<1>4. k \in Nat
  OBVIOUS
<1> HIDE DEF f, rows
<1>5. ExistsBijection(1 .. k, rows)
  BY <1>3 DEF ExistsBijection
<1>6. Cardinality(rows) = k
  BY <1>4, <1>5, FS_CountingElements
<1> QED BY <1>6 DEF rows

(* Sorting a history that is in order changes nothing. *)
LEMMA SortingIsIdle ==
    ASSUME NEW h \in Seq(HistoryRow), Ordered(h)
    PROVE  Sorted(h) = Stored(h)
<1> DEFINE rows == {h[k] : k \in 1 .. Len(h)}
           Rank(r) == Cardinality({q \in rows : q.at <= r.at})
<1>1. Cardinality(rows) = Len(h)
  <2> HIDE DEF Rank
  <2>1. Len(h) \in 0 .. Len(h)
    OBVIOUS
  <2>2. Cardinality({h[k] : k \in 1 .. Len(h)}) = Len(h)
    BY <2>1, RowsUpTo
  <2> QED BY <2>2 DEF rows
<1>2. \A n \in 1 .. Len(h) : Rank(h[n]) = n
  <2> SUFFICES ASSUME NEW n \in 1 .. Len(h) PROVE Rank(h[n]) = n
    OBVIOUS
  <2>1. \A j \in 1 .. Len(h) : h[j].at \in Nat
    BY RowTimes
  <2>2. \A j \in 1 .. Len(h) : h[j].at <= h[n].at <=> j <= n
    BY <2>1 DEF Ordered
  <2>3. {q \in rows : q.at <= h[n].at} = {h[j] : j \in 1 .. n}
    BY <2>2
  <2>4. n \in 0 .. Len(h)
    OBVIOUS
  <2> QED BY <2>3, <2>4, RowsUpTo
<1>3. \A n \in 1 .. Len(h) : (CHOOSE r \in rows : Rank(r) = n) = h[n]
  <2> SUFFICES ASSUME NEW n \in 1 .. Len(h) PROVE (CHOOSE r \in rows : Rank(r) = n) = h[n]
    OBVIOUS
  <2>1. h[n] \in rows /\ Rank(h[n]) = n
    BY <1>2
  <2>2. \A r \in rows : Rank(r) = n => r = h[n]
    BY <1>2
  <2> HIDE DEF rows, Rank
  <2> QED BY <2>1, <2>2
<1>4. Sorted(h) = [n \in 1 .. Cardinality(rows) |-> (CHOOSE r \in rows : Rank(r) = n).status]
  BY DEF Sorted
<1> HIDE DEF rows, Rank
<1> QED BY <1>1, <1>3, <1>4 DEF Stored

(* What is stored about complaint c: its rows are in order, none is later  *)
(* than the clock, and each e-mail is about a row of its own after the     *)
(* first.                                                                  *)
InOrder(c) ==
    /\ Ordered(history[c])
    /\ \A k \in 1 .. Len(history[c]) : history[c][k].at <= clock
    /\ Filed(c) => Len(told[c]) < Len(history[c])
    /\ ~Filed(c) => told[c] = <<>>

(* What a session knows of its complaint is still so: the change it is     *)
(* about to commit is allowed and newest, the e-mail it is about to send   *)
(* is due and true.                                                        *)
Current(s) ==
    LET c == about[s] IN
    /\ pc[s] = "status" =>
         /\ wanted[s] \in AllowedTransitions(status[c])
         /\ now[s] <= clock
         /\ \A k \in 1 .. Len(history[c]) : history[c][k].at < now[s]
    /\ pc[s] = "tell" => wanted[s] = status[c] /\ Len(told[c]) + 1 < Len(history[c])

SerialInv ==
    /\ DeskInv
    /\ \A s, t \in Session : pc[s] # "idle" /\ pc[t] # "idle" => s = t
    /\ \A c \in Complaint : InOrder(c)
    /\ \A s \in Session : Current(s)

LEMMA SerialInitially == DeskInit => SerialInv
<1> SUFFICES ASSUME DeskInit PROVE SerialInv
  OBVIOUS
<1>1. \A c \in Complaint : history[c] = <<>> /\ told[c] = <<>>
  BY DEF DeskInit
<1>2. \A s \in Session : pc[s] = "idle"
  BY DEF DeskInit
<1> QED BY <1>1, <1>2, DeskInvInit DEF SerialInv, InOrder, Ordered, Filed, Current

LEMMA SerialIsDesk == SerialNext => DeskNext
BY DEF SerialNext, DeskNext

(* A new complaint, filed while another is worked on. *)
LEMMA SerialFile ==
    ASSUME SerialInv, DeskInv', NEW c \in Complaint, File(c)
    PROVE  SerialInv'
<1> DEFINE row == [status |-> "OPEN", at |-> clock']
<1>1. /\ history[c] = <<>> /\ told[c] = <<>> /\ ~Filed(c)
      /\ clock' = clock + 1 /\ clock \in Nat
      /\ UNCHANGED <<status, told, pc, about, wanted, now>>
      /\ history \in [Complaint -> Seq(HistoryRow)]
      /\ history' \in [Complaint -> Seq(HistoryRow)]
      /\ history' = [history EXCEPT ![c] = <<row>>]
  BY DEF File, SerialInv, InOrder, DeskInv, TypeOK, sess, Filed
<1>2. history'[c] = <<row>> /\ \A d \in Complaint \ {c} : history'[d] = history[d]
  BY <1>1
<1>3. \A d \in Complaint, k \in Nat : k \in 1 .. Len(history[d]) => history[d][k].at \in Nat
  BY <1>1, RowTimes
<1>4. ASSUME NEW d \in Complaint PROVE InOrder(d)'
  <2>1. CASE d = c
    <3>1. /\ Len(history'[d]) = 1 /\ Len(told'[d]) = 0 /\ history'[d] # <<>>
          /\ history'[d][1].at = clock'
      BY <1>1, <1>2, <2>1
    <3> QED BY <1>1, <3>1 DEF InOrder, Ordered, Filed
  <2>2. CASE d # c
    BY <1>1, <1>2, <1>3, <2>2 DEF SerialInv, InOrder, Ordered, Filed
  <2> QED BY <2>1, <2>2
<1>5. ASSUME NEW s \in Session PROVE Current(s)'
  <2>1. pc[s] # "idle" => about[s] \in Complaint /\ about[s] # c
    BY <1>1 DEF SerialInv, DeskInv, Pending
  <2>2. now[s] \in Nat /\ Current(s)
    BY DEF SerialInv, DeskInv, TypeOK
  <2>3. CASE pc[s] = "idle"
    BY <1>1, <2>3 DEF Current
  <2>4. CASE pc[s] # "idle"
    <3>1. history'[about[s]] = history[about[s]]
      BY <1>2, <2>1, <2>4
    <3> HIDE DEF row
    <3>2. now[s] <= clock => now[s] <= clock'
      BY <1>1, <2>2
    <3> QED BY <1>1, <2>2, <3>1, <3>2 DEF Current
  <2> QED BY <2>3, <2>4
<1> QED BY <1>1, <1>4, <1>5 DEF SerialInv

(* Any other step is a session's, which then alone is at work. *)
LEMMA AtWork ==
    ASSUME SerialInv, NEW s \in Session, pc[s] # "idle" \/ \A t \in Session : pc[t] = "idle",
           \A t \in Session \ {s} : pc'[t] = pc[t]
    PROVE  /\ \A t \in Session \ {s} : Current(t)'
           /\ \A t, u \in Session : pc'[t] # "idle" /\ pc'[u] # "idle" => t = u
<1>1. \A t \in Session \ {s} : pc'[t] = "idle"
  BY DEF SerialInv
<1> QED BY <1>1 DEF Current

(* A request starts from the complaint as it is. *)
LEMMA SerialBegin ==
    ASSUME SerialInv, DeskInv', NEW s \in Session, Begin(s), \A t \in Session : pc[t] = "idle"
    PROVE  SerialInv' /\ UNCHANGED <<history, told>>
<1>1. PICK c \in Complaint : BeginStatus(s, c) \/ BeginPriority(s, c)
  BY DEF Begin
<1>2. /\ UNCHANGED <<status, history, told>> /\ Filed(c)
      /\ clock \in Nat /\ clock' \in Nat /\ clock <= clock'
      /\ about'[s] = c
      /\ \A t \in Session \ {s} : pc'[t] = pc[t]
  BY <1>1 DEF BeginStatus, BeginPriority, Load, table, SerialInv, DeskInv, TypeOK
<1>3. history \in [Complaint -> Seq(HistoryRow)]
  BY DEF SerialInv, DeskInv, TypeOK
<1>4. ASSUME NEW d \in Complaint PROVE InOrder(d)'
  <2>1. InOrder(d) /\ \A k \in 1 .. Len(history[d]) : history[d][k].at \in Nat
    BY <1>3, RowTimes DEF SerialInv
  <2> QED BY <1>2, <2>1 DEF InOrder, Ordered, Filed
<1>5. Current(s)'
  <2>1. CASE BeginStatus(s, c)
    <3>1. /\ pc'[s] = "status" /\ wanted'[s] \in AllowedTransitions(status[c])
          /\ now'[s] = clock' /\ clock' = clock + 1
      BY <2>1 DEF BeginStatus, SerialInv, DeskInv, TypeOK
    <3>2. \A k \in 1 .. Len(history[c]) : history[c][k].at \in Nat /\ history[c][k].at <= clock
      BY <1>3, RowTimes DEF SerialInv, InOrder
    <3>3. \A k \in 1 .. Len(history[c]) : history[c][k].at < clock'
      BY <1>2, <3>1, <3>2
    <3> QED BY <1>2, <3>1, <3>3 DEF Current
  <2>2. CASE BeginPriority(s, c)
    <3>1. pc'[s] = "priority"
      BY <2>2 DEF BeginPriority, SerialInv, DeskInv, TypeOK
    <3> QED BY <3>1 DEF Current
  <2> QED BY <1>1, <2>1, <2>2
<1> QED BY <1>2, <1>4, <1>5, AtWork DEF SerialInv

(* Requests that end, having changed no status. *)
LEMMA SerialEnd ==
    ASSUME SerialInv, DeskInv', NEW s \in Session, CommitPriority(s) \/ Abort(s)
    PROVE  SerialInv' /\ UNCHANGED <<history, told>>
<1>1. /\ pc[s] # "idle" /\ Close(s) /\ UNCHANGED <<status, history, told, clock>>
  BY DEF CommitPriority, Abort, Flushed, table
<1>2. pc'[s] = "idle" /\ \A t \in Session \ {s} : pc'[t] = pc[t]
  BY <1>1, CloseFacts DEF SerialInv, DeskInv
<1>3. \A d \in Complaint : InOrder(d)'
  BY <1>1 DEF SerialInv, InOrder, Ordered, Filed
<1> QED BY <1>1, <1>2, <1>3, AtWork DEF SerialInv, Current

(* The e-mail is the newest status, and the complaint's last change had    *)
(* none yet.                                                               *)
LEMMA SerialTell ==
    ASSUME SerialInv, DeskInv', NEW s \in Session, Tell(s)
    PROVE  /\ SerialInv' /\ history' = history /\ about[s] \in Complaint
           /\ Len(told[about[s]]) + 1 < Len(history[about[s]])
           /\ told' = [told EXCEPT ![about[s]] = Append(@, status[about[s]])]
<1> DEFINE c == about[s]
<1>1. /\ pc[s] = "tell" /\ Close(s) /\ UNCHANGED <<status, history, clock>>
      /\ told' = [told EXCEPT ![c] = Append(@, wanted[s])]
  BY DEF Tell, table
<1>2. /\ c \in Complaint /\ wanted[s] = status[c] /\ Len(told[c]) + 1 < Len(history[c])
      /\ wanted[s] \in Status /\ Filed(c)
  BY <1>1 DEF SerialInv, Current, DeskInv, Pending
<1> HIDE DEF c
<1>3. pc'[s] = "idle" /\ \A t \in Session \ {s} : pc'[t] = pc[t]
  BY <1>1, CloseFacts DEF SerialInv, DeskInv
<1>4. /\ told[c] \in Seq(Status) /\ told'[c] = Append(told[c], wanted[s])
      /\ \A d \in Complaint \ {c} : told'[d] = told[d]
  BY <1>1, <1>2 DEF SerialInv, DeskInv, TypeOK
<1>5. Len(told'[c]) = Len(told[c]) + 1
  BY <1>2, <1>4
<1>6. ASSUME NEW d \in Complaint PROVE InOrder(d)'
  <2>1. CASE d = c
    BY <1>1, <1>2, <1>5, <2>1 DEF SerialInv, InOrder, Ordered, Filed
  <2>2. CASE d # c
    BY <1>1, <1>4, <2>2 DEF SerialInv, InOrder, Ordered, Filed
  <2> QED BY <2>1, <2>2
<1>7. SerialInv'
  BY <1>1, <1>3, <1>6, AtWork DEF SerialInv, Current
<1> QED BY <1>1, <1>2, <1>7 DEF c

(* A change of status adds one row, allowed after the newest. *)
LEMMA SerialCommit ==
    ASSUME SerialInv, DeskInv', NEW s \in Session, CommitStatus(s)
    PROVE  /\ SerialInv' /\ told' = told /\ about[s] \in Complaint /\ Filed(about[s])
           /\ wanted[s] \in AllowedTransitions(status[about[s]])
           /\ history' = [history EXCEPT ![about[s]] =
                              Append(@, [status |-> wanted[s], at |-> now[s]])]
<1> DEFINE c == about[s]
           row == [status |-> wanted[s], at |-> now[s]]
<1>1. /\ pc[s] = "status" /\ pc' = [pc EXCEPT ![s] = "tell"]
      /\ history' = [history EXCEPT ![c] = Append(@, row)]
      /\ UNCHANGED <<told, clock, about, wanted, now>>
  BY DEF CommitStatus
<1>2. /\ c \in Complaint /\ Filed(c) /\ wanted[s] \in Status /\ wanted[s] # seen[s].status
      /\ wanted[s] \in AllowedTransitions(status[c]) /\ now[s] \in Nat /\ now[s] <= clock
      /\ \A k \in 1 .. Len(history[c]) : history[c][k].at < now[s]
      /\ Ordered(history[c]) /\ Len(told[c]) < Len(history[c])
  BY <1>1 DEF SerialInv, Current, InOrder, DeskInv, Pending, TypeOK
<1>3. status'[c] = wanted[s]
  BY <1>2 DEF CommitStatus, Flushed, SerialInv, DeskInv, TypeOK
<1>4. row \in HistoryRow /\ row.at = now[s]
  BY <1>2 DEF HistoryRow
<1>5. /\ history[c] \in Seq(HistoryRow) /\ told[c] \in Seq(Status)
      /\ history' \in [Complaint -> Seq(HistoryRow)]
      /\ \A d \in Complaint \ {c} : history'[d] = history[d]
      /\ history'[c] = Append(history[c], row)
      /\ about'[s] = c /\ pc'[s] = "tell" /\ \A t \in Session \ {s} : pc'[t] = pc[t]
  BY <1>1, <1>2 DEF SerialInv, DeskInv, TypeOK
<1> HIDE DEF c, row
<1>6. /\ Len(history'[c]) = Len(history[c]) + 1
      /\ history'[c][Len(history[c]) + 1] = row
      /\ \A k \in 1 .. Len(history[c]) : history'[c][k] = history[c][k]
      /\ history'[c] # <<>> /\ Len(told[c]) \in Nat /\ Len(history[c]) \in Nat
  BY <1>4, <1>5
<1>7. ASSUME NEW d \in Complaint PROVE InOrder(d)'
  <2>1. CASE d = c
    <3>1. \A k \in 1 .. Len(history'[c]) : k \in 1 .. Len(history[c]) \/ k = Len(history[c]) + 1
      BY <1>6
    <3>2. Ordered(history'[c])
      <4> SUFFICES ASSUME NEW j \in 1 .. Len(history'[c]), NEW k \in 1 .. Len(history'[c]), j < k
                   PROVE  history'[c][j].at < history'[c][k].at
        BY DEF Ordered
      <4>1. j \in 1 .. Len(history[c]) /\ history'[c][j] = history[c][j]
        BY <1>6
      <4>2. CASE k = Len(history[c]) + 1
        BY <1>2, <1>4, <1>6, <4>1, <4>2
      <4>3. CASE k \in 1 .. Len(history[c])
        BY <1>2, <1>6, <4>1, <4>3 DEF Ordered
      <4> QED BY <3>1, <4>2, <4>3
    <3>3. \A k \in 1 .. Len(history'[c]) : history'[c][k].at <= clock
      BY <1>2, <1>4, <1>6, <3>1 DEF SerialInv, InOrder
    <3> QED BY <1>1, <1>2, <1>6, <2>1, <3>2, <3>3 DEF InOrder, Filed
  <2>2. CASE d # c
    BY <1>1, <1>5, <2>2 DEF SerialInv, InOrder, Filed
  <2> QED BY <2>1, <2>2
<1>8. Current(s)'
  BY <1>1, <1>2, <1>3, <1>5, <1>6 DEF Current
<1>9. SerialInv'
  BY <1>1, <1>5, <1>7, <1>8, AtWork DEF SerialInv
<1> QED BY <1>1, <1>2, <1>9 DEF c, row

-----------------------------------------------------------------------------

(* Each step is one of the lifecycle's, or is not seen. *)
LifecycleStep ==
    LET shown(h) == [c \in Complaint |-> Stored(h[c])] IN
    \/ shown(history)' = shown(history) /\ told' = told
    \/ \E c \in Complaint :
          /\ told' = told /\ history[c] = <<>>
          /\ shown(history)' = [shown(history) EXCEPT ![c] = <<"OPEN">>]
    \/ \E c \in Complaint :
          /\ told' = told /\ history[c] # <<>>
          /\ \E st \in AllowedTransitions(status[c]) :
                shown(history)' = [shown(history) EXCEPT ![c] = Append(@, st)]
    \/ \E c \in Complaint :
          /\ shown(history)' = shown(history) /\ Len(told[c]) + 1 < Len(history[c])
          /\ told' = [told EXCEPT ![c] = Append(@, status[c])]

LEMMA SerialStep == SerialInv /\ [SerialNext]_cvars => SerialInv' /\ LifecycleStep
<1> SUFFICES ASSUME SerialInv, [SerialNext]_cvars PROVE SerialInv' /\ LifecycleStep
  OBVIOUS
<1>0. DeskInv'
  BY SerialIsDesk, DeskInvStep DEF SerialInv
<1>1. CASE UNCHANGED cvars
  BY <1>0, <1>1 DEF cvars, table, sess, SerialInv, InOrder, Ordered, Filed, Current, LifecycleStep
<1>2. ASSUME NEW c \in Complaint, File(c) PROVE SerialInv' /\ LifecycleStep
  <2>1. /\ history[c] = <<>> /\ told' = told
        /\ history' = [history EXCEPT ![c] = <<[status |-> "OPEN", at |-> clock']>>]
    BY <1>2 DEF File, Filed
  <2>2. Stored(<<[status |-> "OPEN", at |-> clock']>>) = <<"OPEN">>
    BY DEF Stored
  <2>3. history \in [Complaint -> Seq(HistoryRow)]
    BY DEF SerialInv, DeskInv, TypeOK
  <2>4. [d \in Complaint |-> Stored(history'[d])] =
            [[d \in Complaint |-> Stored(history[d])] EXCEPT ![c] = <<"OPEN">>]
    BY <2>1, <2>2, <2>3
  <2>5. LifecycleStep
    BY <2>1, <2>4 DEF LifecycleStep
  <2> QED BY <1>0, <1>2, <2>5, SerialFile
<1>3. ASSUME NEW s \in Session, CommitStatus(s) PROVE SerialInv' /\ LifecycleStep
  <2> DEFINE c == about[s]
             row == [status |-> wanted[s], at |-> now[s]]
  <2>1. /\ told' = told /\ c \in Complaint /\ Filed(c)
        /\ wanted[s] \in AllowedTransitions(status[c])
        /\ history' = [history EXCEPT ![c] = Append(@, row)]
    BY <1>0, <1>3, SerialCommit
  <2>2. history \in [Complaint -> Seq(HistoryRow)] /\ row \in HistoryRow
    BY <2>1, StatusType DEF SerialInv, DeskInv, TypeOK, HistoryRow
  <2> HIDE DEF c
  <2>3. Stored(Append(history[c], row)) = Append(Stored(history[c]), wanted[s])
    BY <2>1, <2>2 DEF Stored
  <2>4. [d \in Complaint |-> Stored(history'[d])] =
            [[d \in Complaint |-> Stored(history[d])] EXCEPT ![c] = Append(@, wanted[s])]
    BY <2>1, <2>2, <2>3
  <2>5. LifecycleStep
    BY <2>1, <2>4 DEF LifecycleStep, Filed
  <2> QED BY <1>0, <1>3, <2>5, SerialCommit
<1>4. ASSUME NEW s \in Session, Tell(s) PROVE SerialInv' /\ LifecycleStep
  <2>1. /\ history' = history /\ about[s] \in Complaint
        /\ Len(told[about[s]]) + 1 < Len(history[about[s]])
        /\ told' = [told EXCEPT ![about[s]] = Append(@, status[about[s]])]
    BY <1>0, <1>4, SerialTell
  <2>2. LifecycleStep
    BY <2>1 DEF LifecycleStep
  <2> QED BY <1>0, <1>4, <2>2, SerialTell
<1>5. ASSUME NEW s \in Session,
             \/ Begin(s) /\ \A t \in Session : pc[t] = "idle"
             \/ CommitPriority(s) \/ Abort(s)
      PROVE  SerialInv' /\ LifecycleStep
  <2>1. SerialInv' /\ UNCHANGED <<history, told>>
    BY <1>0, <1>5, SerialBegin, SerialEnd
  <2> QED BY <2>1 DEF LifecycleStep
<1> QED BY <1>1, <1>2, <1>3, <1>4, <1>5 DEF SerialNext, Step

(* The rows are shown as they are stored. *)
LEMMA ShownAsStored == SerialInv => \A c \in Complaint : Shown(c) = Stored(history[c])
<1> SUFFICES ASSUME SerialInv, NEW c \in Complaint PROVE Shown(c) = Stored(history[c])
  OBVIOUS
<1>1. history[c] \in Seq(HistoryRow) /\ Ordered(history[c])
  BY DEF SerialInv, InOrder, DeskInv, TypeOK
<1>2. Shown(c) = Sorted(history[c])
  BY DEF Shown, Sorted, Rows
<1> QED BY <1>1, <1>2, SortingIsIdle

LEMMA StoredFacts ==
    ASSUME NEW h \in Seq(HistoryRow)
    PROVE  /\ Len(Stored(h)) = Len(h)
           /\ h = <<>> <=> Stored(h) = <<>>
           /\ h # <<>> => Stored(h)[Len(Stored(h))] = h[Len(h)].status
BY DEF Stored

(* A step of the desk, seen through the API, is the lifecycle's. *)
LEMMA StepIsPromised ==
    ASSUME SerialInv, LifecycleStep,
           \A c \in Complaint : Shown(c) = Stored(history[c]),
           \A c \in Complaint : Shown(c)' = Stored(history'[c])
    PROVE  [Promise!Next]_<<[c \in Complaint |-> Shown(c)], told>>
<1> DEFINE board == [c \in Complaint |-> Stored(history[c])]
           after == [c \in Complaint |-> Stored(history'[c])]
<1>1. /\ [c \in Complaint |-> Shown(c)] = board
      /\ [c \in Complaint |-> Shown(c)'] = after
  OBVIOUS
<1>2. \A c \in Complaint : history[c] \in Seq(HistoryRow)
  BY DEF SerialInv, DeskInv, TypeOK
<1>3. \A c \in Complaint :
         /\ Len(board[c]) = Len(history[c])
         /\ history[c] = <<>> <=> board[c] = <<>>
         /\ history[c] # <<>> => board[c][Len(board[c])] = status[c]
  BY <1>2, StoredFacts DEF SerialInv, DeskInv, StatusIsLastCommit, Filed
<1>4. \A c \in Complaint : AllowedTransitions(status[c]) = Promise!Allowed(status[c])
  BY StatusType DEF SerialInv, DeskInv, TypeOK, AllowedTransitions, Promise!Allowed
<1>5. \/ after = board /\ told' = told
      \/ \E c \in Complaint :
            told' = told /\ history[c] = <<>> /\ after = [board EXCEPT ![c] = <<"OPEN">>]
      \/ \E c \in Complaint :
            /\ told' = told /\ history[c] # <<>>
            /\ \E st \in AllowedTransitions(status[c]) :
                  after = [board EXCEPT ![c] = Append(@, st)]
      \/ \E c \in Complaint :
            /\ after = board /\ Len(told[c]) + 1 < Len(history[c])
            /\ told' = [told EXCEPT ![c] = Append(@, status[c])]
  BY DEF LifecycleStep
<1> HIDE DEF board, after
<1>6. CASE after = board /\ told' = told
  BY <1>1, <1>6
<1>7. ASSUME NEW c \in Complaint, told' = told, history[c] = <<>>,
             after = [board EXCEPT ![c] = <<"OPEN">>]
      PROVE  Promise!Open(c)
  BY <1>1, <1>3, <1>7 DEF Promise!Open
<1>8. ASSUME NEW c \in Complaint, told' = told, history[c] # <<>>,
             NEW st \in AllowedTransitions(status[c]), after = [board EXCEPT ![c] = Append(@, st)]
      PROVE  Promise!Advance(c)
  <2>1. Promise!Current(c) = board[c][Len(board[c])]
    BY <1>1 DEF Promise!Current
  <2>2. Promise!Current(c) = status[c]
    BY <1>3, <1>8, <2>1
  <2>3. st \in Promise!Allowed(Promise!Current(c))
    BY <1>4, <1>8, <2>2
  <2>4. board[c] # <<>> /\ after = [board EXCEPT ![c] = Append(board[c], st)]
    BY <1>3, <1>8
  <2> QED BY <1>1, <1>8, <2>3, <2>4 DEF Promise!Advance
<1>9. ASSUME NEW c \in Complaint, after = board, Len(told[c]) + 1 < Len(history[c]),
             told' = [told EXCEPT ![c] = Append(@, status[c])]
      PROVE  Promise!Tell(c)
  <2>1. Len(history[c]) > 0
    <3>1. Len(told[c]) \in Nat /\ Len(history[c]) \in Nat
      BY <1>2 DEF SerialInv, DeskInv, TypeOK
    <3> QED BY <1>9, <3>1
  <2>2. history[c] # <<>>
    BY <2>1
  <2> QED BY <1>1, <1>3, <1>9, <2>2 DEF Promise!Tell, Promise!Current
<1> QED BY <1>5, <1>6, <1>7, <1>8, <1>9 DEF Promise!Next

(* One request at a time, the complaint desk keeps the promised lifecycle: *)
(* each commit of a status opens a complaint or moves it along, as the API *)
(* shows it, each e-mail tells the status it then has, and no other step   *)
(* is seen.                                                                *)
THEOREM DeskImplementsLifecycle == SerialSpec => ImplementsLifecycle
<1>1. DeskInit => Promise!Init
  <2> SUFFICES ASSUME DeskInit PROVE Promise!Init
    OBVIOUS
  <2>1. \A c \in Complaint : Shown(c) = <<>>
    <3> SUFFICES ASSUME NEW c \in Complaint PROVE Shown(c) = <<>>
      OBVIOUS
    <3>1. history[c] = <<>>
      BY DEF DeskInit
    <3>2. Stored(<<>>) = <<>>
      BY DEF Stored
    <3> QED BY <3>1, <3>2, ShownAsStored, SerialInitially
  <2> QED BY <2>1 DEF DeskInit, Promise!Init
<1>2. SerialInv /\ LifecycleStep
      /\ (\A c \in Complaint : Shown(c) = Stored(history[c]))
      /\ (\A c \in Complaint : Shown(c) = Stored(history[c]))'
      => [Promise!Next]_<<[c \in Complaint |-> Shown(c)], told>>
  BY StepIsPromised
<1> QED BY <1>1, <1>2, SerialInitially, SerialStep, ShownAsStored, PTL
        DEF SerialSpec, ImplementsLifecycle, Promise!Spec
=============================================================================
