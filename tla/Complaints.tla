----------------------------- MODULE Complaints -----------------------------
(***************************************************************************)
(* The complaint desk: app/routers/complaints.py, its status map in        *)
(* app/services/complaint_service.py.  A resident files a complaint; staff *)
(* move its status and its priority, each request on a worker thread with  *)
(* a database session of its own.                                          *)
(*                                                                         *)
(* A request reads the complaint without a lock, validates the change      *)
(* against what it read, and commits.  The UPDATE that SQLAlchemy sends    *)
(* has only the columns whose value differs from the one that was loaded,  *)
(* and no version check.  After the commit of a status change the resident *)
(* is e-mailed (app/services/notification_service.py, not modelled here).  *)
(***************************************************************************)
EXTENDS Naturals, Sequences, FiniteSets

CONSTANTS
    Session,        \* staff requests
    Complaint, NoComplaint,
    MaxClock,       \* bound: readings of the clock
    MaxAudit        \* bound: no priority request on a complaint with this many audit rows

ASSUME DeskAssumption ==
    NoComplaint \notin Complaint /\ MaxClock \in Nat /\ MaxAudit \in Nat

VARIABLES
    status,         \* complaints.status
    priority,       \* complaints.priority
    resolvedAt,     \* complaints.resolved_at, 0 for NULL
    history,        \* complaint_status_history, in commit order
    audit,          \* audit_logs about each complaint, in commit order
    told            \* statuses its resident was e-mailed

table == <<status, priority, resolvedAt, history, audit>>

VARIABLES
    clock,          \* readings of datetime.utcnow so far; later is larger
    pc,             \* where each session is
    about,          \* the complaint it works on
    seen,           \* the complaint object in its memory, as loaded
    wanted,         \* the status or priority the request asks for
    now             \* the time it took before its commit

sess == <<pc, about, seen, wanted, now>>

cvars == <<table, told, clock, sess>>

(* The statuses and the promised transitions. *)
Lifecycle == INSTANCE ComplaintLifecycle WITH timeline <- history

Status == Lifecycle!Status

Priority == {"LOW", "MEDIUM", "HIGH"}

PC == {"idle", "status", "priority", "tell"}

HistoryRow == [status : Status, at : Nat]

AuditRow == [old : Status \cup Priority, new : Status \cup Priority]

Object == [status : Status, priority : Priority]

Blank == [status |-> "OPEN", priority |-> "MEDIUM"]

Filed(c) == history[c] # <<>>

(* A mutation of AllowedTransitions: a closed complaint can be reopened. *)
AllowedTransitions_Reopen(from) ==
    CASE from = "OPEN" -> {"IN_PROGRESS", "RESOLVED"}
      [] from = "IN_PROGRESS" -> {"RESOLVED"}
      [] from = "RESOLVED" -> {"IN_PROGRESS"}

(* A mutation of AllowedTransitions: a status that the enum does not have. *)
AllowedTransitions_Closed(from) ==
    IF from = "RESOLVED" THEN {"CLOSED"} ELSE {"IN_PROGRESS", "RESOLVED"}

(* validate_status_transition accepts these targets. *)
AllowedTransitions(from) ==
    CASE from = "OPEN" -> {"IN_PROGRESS", "RESOLVED"}
      [] from = "IN_PROGRESS" -> {"RESOLVED"}
      [] from = "RESOLVED" -> {}

-----------------------------------------------------------------------------

DeskInit ==
    /\ status = [c \in Complaint |-> "OPEN"]
    /\ priority = [c \in Complaint |-> "MEDIUM"]
    /\ resolvedAt = [c \in Complaint |-> 0]
    /\ history = [c \in Complaint |-> <<>>]
    /\ audit = [c \in Complaint |-> <<>>]
    /\ told = [c \in Complaint |-> <<>>]
    /\ clock = 0
    /\ pc = [s \in Session |-> "idle"]
    /\ about = [s \in Session |-> NoComplaint]
    /\ seen = [s \in Session |-> Blank]
    /\ wanted = [s \in Session |-> "OPEN"]
    /\ now = [s \in Session |-> 0]

Close(s) ==
    /\ pc' = [pc EXCEPT ![s] = "idle"]
    /\ about' = [about EXCEPT ![s] = NoComplaint]
    /\ seen' = [seen EXCEPT ![s] = Blank]
    /\ wanted' = [wanted EXCEPT ![s] = "OPEN"]
    /\ now' = [now EXCEPT ![s] = 0]

(* POST /complaints: the complaint, its first history row and its SLA row  *)
(* are committed together.                                                 *)
File(c) ==
    /\ ~Filed(c)
    /\ clock < MaxClock
    /\ clock' = clock + 1
    /\ history' = [history EXCEPT ![c] = <<[status |-> "OPEN", at |-> clock']>>]
    /\ UNCHANGED <<status, priority, resolvedAt, audit, told, sess>>

(* The session loads complaint c and holds on to what it read. *)
Load(s, c) ==
    /\ pc[s] = "idle"
    /\ Filed(c)
    /\ about' = [about EXCEPT ![s] = c]
    /\ seen' = [seen EXCEPT ![s] = [status |-> status[c], priority |-> priority[c]]]

(* PATCH /{id}/status: an invalid transition is refused (409). *)
BeginStatus(s, c) ==
    /\ Load(s, c)
    /\ clock < MaxClock
    /\ \E st \in AllowedTransitions(status[c]) : wanted' = [wanted EXCEPT ![s] = st]
    /\ clock' = clock + 1
    /\ now' = [now EXCEPT ![s] = clock']
    /\ pc' = [pc EXCEPT ![s] = "status"]
    /\ UNCHANGED <<table, told>>

(* PATCH /{id}/priority: a priority it has already changes nothing.        *)
BeginPriority(s, c) ==
    /\ Load(s, c)
    /\ Len(audit[c]) < MaxAudit
    /\ \E p \in Priority \ {priority[c]} : wanted' = [wanted EXCEPT ![s] = p]
    /\ pc' = [pc EXCEPT ![s] = "priority"]
    /\ UNCHANGED <<table, told, clock, now>>

(* A mutation of Flushed: the UPDATE has every column of the object. *)
Flushed_Row(column, c, loaded, value) == [column EXCEPT ![c] = value]

(* What an UPDATE makes of a column: it has the column only if the object's *)
(* value is not the one that was loaded.                                   *)
Flushed(column, c, loaded, value) ==
    IF value = loaded THEN column ELSE [column EXCEPT ![c] = value]

(* A mutation of Stamp: every status change sets resolved_at. *)
Stamp_Always(s) == now[s]

(* complaints.resolved_at after the status change of session s. *)
Stamp(s) == IF wanted[s] = "RESOLVED" THEN now[s] ELSE resolvedAt[about[s]]

CommitStatus(s) ==
    LET c == about[s] IN
    /\ pc[s] = "status"
    /\ status' = Flushed(status, c, seen[s].status, wanted[s])
    /\ priority' = Flushed(priority, c, seen[s].priority, seen[s].priority)
    /\ resolvedAt' = [resolvedAt EXCEPT ![c] = Stamp(s)]
    /\ history' = [history EXCEPT ![c] = Append(@, [status |-> wanted[s], at |-> now[s]])]
    /\ audit' = [audit EXCEPT ![c] = Append(@, [old |-> seen[s].status, new |-> wanted[s]])]
    /\ pc' = [pc EXCEPT ![s] = "tell"]
    /\ UNCHANGED <<told, clock, about, seen, wanted, now>>

CommitPriority(s) ==
    LET c == about[s] IN
    /\ pc[s] = "priority"
    /\ priority' = Flushed(priority, c, seen[s].priority, wanted[s])
    /\ status' = Flushed(status, c, seen[s].status, seen[s].status)
    /\ audit' = [audit EXCEPT ![c] = Append(@, [old |-> seen[s].priority, new |-> wanted[s]])]
    /\ Close(s)
    /\ UNCHANGED <<resolvedAt, history, told, clock>>

(* The resident's e-mail names the status this request asked for. *)
Tell(s) ==
    /\ pc[s] = "tell"
    /\ told' = [told EXCEPT ![about[s]] = Append(@, wanted[s])]
    /\ Close(s)
    /\ UNCHANGED <<table, clock>>

(* The request dies before its next commit. *)
Abort(s) ==
    /\ pc[s] # "idle"
    /\ Close(s)
    /\ UNCHANGED <<table, told, clock>>

Begin(s) == \E c \in Complaint : BeginStatus(s, c) \/ BeginPriority(s, c)

Step(s) == CommitStatus(s) \/ CommitPriority(s) \/ Tell(s) \/ Abort(s)

DeskNext ==
    \/ \E c \in Complaint : File(c)
    \/ \E s \in Session : Begin(s) \/ Step(s)

DeskSpec == DeskInit /\ [][DeskNext]_cvars

(* Staff act one at a time: no request starts while another is open.       *)
SerialNext ==
    \/ \E c \in Complaint : File(c)
    \/ \E s \in Session : \/ Begin(s) /\ \A t \in Session : pc[t] = "idle"
                          \/ Step(s)

SerialSpec == DeskInit /\ [][SerialNext]_cvars

-----------------------------------------------------------------------------

(* Every variable has its type. *)
TypeOK ==
    /\ status \in [Complaint -> Status]
    /\ priority \in [Complaint -> Priority]
    /\ resolvedAt \in [Complaint -> Nat]
    /\ history \in [Complaint -> Seq(HistoryRow)]
    /\ audit \in [Complaint -> Seq(AuditRow)]
    /\ told \in [Complaint -> Seq(Status)]
    /\ clock \in Nat
    /\ pc \in [Session -> PC]
    /\ about \in [Session -> Complaint \cup {NoComplaint}]
    /\ seen \in [Session -> Object]
    /\ wanted \in [Session -> Status \cup Priority]
    /\ now \in [Session -> Nat]

(* The rows of a complaint's history have no order but that of their       *)
(* changed_at; the newest is the one the API shows last (_build_detail).   *)
Rows(c) == {history[c][k] : k \in 1 .. Len(history[c])}

Newest(c) == CHOOSE r \in Rows(c) : \A q \in Rows(c) : q.at <= r.at

(* Another request took its time after this one and has committed before.  *)
Overtaken(s) == \E r \in Rows(about[s]) : r.at >= now[s]

(* Whatever changes a complaint's status or its history leaves the status  *)
(* to be the one its newest row records, whatever the request had read and *)
(* whoever writes the same row's priority.  The exception is the commit of *)
(* a request that was overtaken: it sets the status, and the timeline ends *)
(* with another one (update_status takes changed_at before it commits).    *)
StatusFollowsTimeline ==
    [][\A c \in Complaint :
          \/ status'[c] = status[c] /\ history'[c] = history[c]
          \/ status'[c] = Newest(c)'.status
          \/ \E s \in Session :
                about[s] = c /\ pc[s] = "status" /\ pc'[s] = "tell" /\ Overtaken(s)]_cvars

(* resolved_at is the time of a RESOLVED row of the history; it is missing *)
(* exactly when there is none.                                             *)
ResolvedHasItsTime ==
    \A c \in Complaint :
        LET times == {history[c][k].at : k \in {j \in 1 .. Len(history[c]) :
                                                   history[c][j].status = "RESOLVED"}}
        IN  IF times = {} THEN resolvedAt[c] = 0 ELSE resolvedAt[c] \in times

(* A complaint is closed and nobody is about to change its status. *)
ClosedQuietly(c) ==
    /\ Filed(c) /\ status[c] = "RESOLVED"
    /\ \A s \in Session : pc[s] = "status" => about[s] # c

(* Once the requests that were under way when a complaint was closed are   *)
(* over, it stays closed and no request can start to change it.            *)
ClosedForGood == [][\A c \in Complaint : ClosedQuietly(c) => ClosedQuietly(c)']_cvars

(* RESOLVED is "terminal - closed forever"                                 *)
(* (app/services/complaint_service.py).                                    *)
ClosedForever ==
    [][\A c \in Complaint : status[c] = "RESOLVED" => status'[c] = "RESOLVED"]_cvars

-----------------------------------------------------------------------------
(* The timeline as the API shows it, sorted by changed_at. *)

Shown(c) ==
    LET Nth(n) == CHOOSE r \in Rows(c) : Cardinality({q \in Rows(c) : q.at <= r.at}) = n
    IN  [n \in 1 .. Cardinality(Rows(c)) |-> Nth(n).status]

Promise == INSTANCE ComplaintLifecycle WITH timeline <- [c \in Complaint |-> Shown(c)]

(* The desk, one request at a time, keeps the lifecycle's promise. *)
ImplementsLifecycle == Promise!Spec
=============================================================================
