------------------------- MODULE ComplaintLifecycle -------------------------
(***************************************************************************)
(* What a resident is promised about a complaint: it is opened once, staff *)
(* move it along ALLOWED_STATUS_TRANSITIONS                                *)
(* (app/services/complaint_service.py) and never back, every change is in  *)
(* its timeline, and an e-mail about it tells the status it then has.      *)
(* Complaints is the program, where several staff act at once.             *)
(***************************************************************************)
EXTENDS Naturals, Sequences

CONSTANT Complaint

VARIABLES
    timeline,       \* the statuses each complaint has had, oldest first
    told            \* the statuses its resident was e-mailed, oldest first

Status == {"OPEN", "IN_PROGRESS", "RESOLVED"}

(* Work starts, or the complaint is closed; RESOLVED is terminal. *)
Allowed(from) ==
    CASE from = "OPEN" -> {"IN_PROGRESS", "RESOLVED"}
      [] from = "IN_PROGRESS" -> {"RESOLVED"}
      [] from = "RESOLVED" -> {}

Current(c) == timeline[c][Len(timeline[c])]

-----------------------------------------------------------------------------

Init ==
    /\ timeline = [c \in Complaint |-> <<>>]
    /\ told = [c \in Complaint |-> <<>>]

Open(c) ==
    /\ timeline[c] = <<>>
    /\ timeline' = [timeline EXCEPT ![c] = <<"OPEN">>]
    /\ UNCHANGED told

Advance(c) ==
    /\ timeline[c] # <<>>
    /\ \E st \in Allowed(Current(c)) : timeline' = [timeline EXCEPT ![c] = Append(@, st)]
    /\ UNCHANGED told

(* Opening a complaint is not e-mailed; a change is e-mailed at most once. *)
Tell(c) ==
    /\ Len(told[c]) + 1 < Len(timeline[c])
    /\ told' = [told EXCEPT ![c] = Append(@, Current(c))]
    /\ UNCHANGED timeline

Next == \E c \in Complaint : Open(c) \/ Advance(c) \/ Tell(c)

Spec == Init /\ [][Next]_<<timeline, told>>
=============================================================================
